-------------------------- MODULE LoginProperties --------------------------
(***************************************************************************)
(* The properties of the login state machine, and the specifications with  *)
(* fairness under which its liveness is checked.                           *)
(***************************************************************************)
EXTENDS Login

\* The three records of a session never disagree between two handlers: the
\* child's pid in App, the handle in auth.c, and the name the cleanup will
\* use.  A PAM session without a child would never be closed, a child
\* without one would be closed for the wrong user.
SessionPaired ==
    pc \in Resting =>
        IF Session THEN /\ pamh # None /\ user = pamh
                        /\ child[sessionPid] \in {"running", "zombie"}
                   ELSE pamh = None

\* With nobody's session running there is always a way to log in: the window
\* is up, and the form is live unless the countdown has it.  Every path back
\* (failed login, failed launch, failed automatic login, end of a session,
\* cancelled countdown) has to re-enable what submit() disabled.
ScreenUsable ==
    pc \in Resting /\ ~Session => mapped /\ (enabled \/ countdown)

\* While a session is on the screen the login window neither covers it nor
\* holds its keyboard, whatever ticks and events came while it started.
SessionUnobstructed ==
    pc = "launch" \/ Session => ~mapped /\ ~grabbed

\* There is at most one automatic login per boot, over any number of crashes
\* and restarts of the program in that boot.
OncePerBoot ==
    autologins <= 1 /\ (countdown => autologins = 0)

\* A countdown cancelled at the keyboard stays cancelled for that boot: there
\* is neither an automatic login nor another countdown.
CancelHolds == cancelled => autologins = 0 /\ ~countdown

\* Apart from whoever edits it, the file gets a name only while that user's
\* password has just been accepted, and never that of an account of uid 0 nor
\* one that config_load() would refuse.  This is about the text of a file with
\* the key once, a last newline and room below 64 KB; of any other, a save may
\* bring a line to count that did not.
SavesEarned ==
    exact /\ saved' # saved /\ saved' # None =>
        \/ EditSaved
        \/ /\ pc = "auth" /\ pamh' = saved'
           /\ saved' \in Valid /\ saved' \notin Roots

AutologinEarned == [][SavesEarned]_vars

\* A PAM session opens only when none is open, for the user asked for, by
\* password or, once in a boot, uncancelled and not for root, without.
OpensEarned ==
    pamh' # pamh /\ pamh' # None =>
        /\ pamh = None /\ pamh' = user
        /\ \/ pc = "auth"
           \/ /\ pc = "autoauth" /\ user \notin Roots
              /\ autologins = 1 /\ ~cancelled

SessionEarned == [][OpensEarned]_vars

\* The box is never off while the file says on, and a box not used since the
\* form appeared says exactly what the file says: a refused or failed save is
\* not claimed.  That is so if the program read the file as it stands when it
\* started (root's and written by nobody else, the name valid, the key once, a
\* last newline, far from 64 KB), nobody has edited it since, and no save has
\* lost its lines because it could not be read.
BoxTruthful ==
    pc \in Resting /\ ~Session /\ ~foreign =>
        /\ ~box => saved = None
        /\ ~touched => (box <=> saved # None)

\* The end of the session cannot be missed, even if the child dies before
\* mSessionPid is assigned or while another handler runs: a byte that will
\* make the loop look is in the pipe as long as the zombie is there.
ChildDeathNoticed ==
    \A p \in Pids : child[p] = "zombie" =>
        \E i \in 1 .. Len(pipe) : pipe[i] = "CHLD"

\* A stop signal never takes a session down: once the loop has been told to
\* stop, there is no session and none begins.
StopOnlyIdle ==
    pc # "exited" /\ ~running => pc = "drain" /\ ~Session /\ pamh = None

-----------------------------------------------------------------------------
(* The inductive invariant: what is known at each place of the program.    *)

\* No session and no handle, at rest or before a login is decided.
NobodyIn == ~Session /\ forked = NoPid /\ pamh = None

\* A session whose pid is p has the screen and PAM's handle.
SomebodyIn(p) ==
    /\ p \in Pids /\ child[p] \in {"running", "zombie"}
    /\ pamh # None /\ pamh = user
    /\ ~mapped /\ ~grabbed /\ ~countdown

PlaceInv ==
    /\ pc = "exited" => NobodyIn /\ ~mapped /\ ~grabbed /\ ~countdown
    /\ pc \in {"auth", "autoauth"} => NobodyIn /\ user # None
    /\ pc = "start" => /\ ~Session /\ forked = NoPid
                       /\ pamh # None /\ pamh = user
    /\ pc = "launch" => ~Session /\ SomebodyIn(forked)
    /\ pc = "cleanup" => NobodyIn /\ ~mapped /\ ~grabbed
    /\ pc \in {"auth", "autoauth", "start"} => mapped
    /\ pc \in Resting => IF Session
                           THEN SomebodyIn(sessionPid) /\ forked = NoPid
                           ELSE NobodyIn /\ mapped /\ (enabled \/ countdown)
    /\ pc \in Blocked => ~countdown
    /\ ~running => pc = "exited" \/ (pc = "drain" /\ ~Session)

\* The marker stands for everything this boot has seen of automatic logins.
BootInv ==
    /\ autologins \in {0, 1}
    /\ autologins = 1 \/ cancelled => marker
    /\ ~(autologins = 1 /\ cancelled)
    /\ countdown => /\ marker /\ autologins = 0 /\ ~cancelled
                    /\ cfg # None
    /\ pc = "autoauth" => autologins = 1

\* The program's copy of the setting, the file and the box.
BoxInv ==
    pc # "exited" =>
        /\ ~foreign => exact /\ saved = cfg
        /\ ~box => cfg = None
        /\ pc \in Resting \cup {"auth", "autoauth"} /\ ~Session /\ ~touched =>
              (box <=> cfg # None)

IInv == PlaceInv /\ BootInv /\ BoxInv

-----------------------------------------------------------------------------
(* What the program promises the person at the seat.                       *)

phase == CASE pc = "exited"              -> "off"
           [] pc \in {"auth", "autoauth"} -> "asking"
           [] pc = "start"               -> "admitted"
           [] pc = "launch"              -> "session"
           [] pc = "cleanup"             -> "closing"
           [] pc \in Resting             -> IF Session THEN "session"
                                                       ELSE "form"

who == IF phase \in {"asking", "admitted", "session"} THEN user ELSE None

Promise == INSTANCE Seat WITH shown <- mapped

\* The program is a login screen: it implements Seat.
ImplementsSeat == Promise!Spec

-----------------------------------------------------------------------------
(* Fairness.  The program is one thread that goes on; init respawns it;    *)
(* the clock runs.  A person is slower than the loop, so the loop finds    *)
(* the queue of events empty again and again and then sees the pipe: the   *)
(* strong fairness of BeginDrain.  A tick needs a quarter of a second      *)
(* without anything at all, and only weak fairness is assumed for it.      *)

ProgramFairness ==
    /\ WF_vars(Start) /\ WF_vars(HandleEvent) /\ WF_vars(Proceed)
    /\ SF_vars(BeginDrain) /\ WF_vars(HandleSignals)
    /\ WF_vars(Tick) /\ WF_vars(TickAutologin) /\ WF_vars(ClockPasses)

\* PAM always answers in the end ...
FairSpec == Spec /\ ProgramFairness /\ WF_vars(PamReturns)

\* ... or a module of it may hang.
HangSpec == Spec /\ ProgramFairness

\* When the session child has ended, the form comes back and can be used.
SessionEndShowsForm ==
    (pc \in Resting /\ Session /\ child[sessionPid] = "zombie")
        ~> (pc = "exited" \/ (mapped /\ enabled /\ ~Session))

\* Every login comes to an end: a session, the form again, or no program.
EveryLoginEnds ==
    pc \in {"auth", "autoauth"}
        ~> (pc = "exited" \/ (pc = "loop" /\ (Session \/ enabled)))

Quiet == pc = "loop" /\ events = <<>> /\ pipe = <<>>

\* Once nobody touches anything and no other client holds the keyboard, the
\* countdown ends and the program holds it again whenever the form is up, also
\* after a trip to a text console and after grabs that were refused.
QuietScreenSettles ==
    <>[](Quiet /\ ~taken) => <>[](~Session => ~countdown /\ grabbed)

-----------------------------------------------------------------------------
(* What the repository says that the code does not do.                     *)

\* README.md:51, "Options stays available while a login is in progress": a
\* click on Options that waits while PAM is asked opens the menu.
OptionsDuringLogin ==
    (pc = "auth" /\ events # <<>> /\ Head(events) = "options")
        ~> (menuOpen \/ pc = "exited")

\* x11window.h:81, the tick is "called every tickMs, whether or not anything
\* is dirty": a countdown whose deadline has passed is over soon after.
CountdownEnds == (countdown /\ due) ~> ~countdown
=============================================================================
