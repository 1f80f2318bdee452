----------------------------- MODULE Processes ------------------------------
(***************************************************************************)
(* The processes xlogin starts and ends: the child of launch_session(),    *)
(* step by step down to the user's session (launch.c), the child that      *)
(* runs shutdown(8) and the pipe that tells whether it does (spawn() of    *)
(* power.c), waitpid() in reapSession() (main.cpp), and the two walks over *)
(* /proc when a session has ended (cleanup.c).  All the while the other    *)
(* processes of the machine come, go, and change their owner.              *)
(***************************************************************************)
EXTENDS Integers, FiniteSetsExt

CONSTANTS
    Users,   \* accounts that are not root's
    Root,
    Pids,
    Self,    \* the pid of xlogin; 1 is init's
    NoPid

ASSUME PidsAssumption == Pids \subseteq Nat \ {0} /\ Self \in Pids /\ NoPid \notin Pids
ASSUME RootAssumption == Root \notin Users

Accounts  == Users \cup {Root}
Inherited == {"handlers", "files", "environment"}

\* Where the children of xlogin are.  "power" has not become shutdown(8) yet,
\* "leaving" never will; "dead" has not been waited for.
SessionStages == {"forked", "reset", "clean", "gid", "groups", "uid", "session"}
HelperStages  == {"power", "leaving", "shutdown"}
Stages == SessionStages \cup HelperStages \cup {"dead", "free", "other"}

\* has: what is left of xlogin's.  suid: the effective uid is root's.
\* young: not what it was when this walk over /proc began.
Process == [at : Stages, uid : Accounts, gid : Accounts, groups : Accounts,
            has : SUBSET Inherited, suid : BOOLEAN, young : BOOLEAN]

VARIABLES
    procs,
    pc,          \* where xlogin is: "idle" is its event loop
    sessionPid,  \* mSessionPid
    user,        \* mUser
    helper,      \* the pid in spawn()
    writeEnd,    \* xlogin has the end of the pipe that its child writes to
    pipe,        \* what is in it
    result,      \* what spawn() returned last
    fate,        \* history: what became of the child it was about
    sig,         \* which of the two walks it is
    pos,         \* the entry of /proc that readdir() returned last
    count,       \* somebody got a signal in this walk
    stale,       \* history: pos is not the process whose owner was read
    struck       \* history: the owner of the process that got the last signal

power == <<helper, writeEnd, pipe, result, fate>>
walk  == <<sig, pos, count, struck>>
vars  == <<procs, pc, sessionPid, user, power, walk, stale>>

TypeOK ==
    /\ procs \in [Pids -> Process]
    /\ pc \in {"idle", "read", "wait", "open", "walk", "look", "grace"}
    /\ sessionPid \in Pids \cup {NoPid} /\ user \in Accounts
    /\ helper \in Pids \cup {NoPid}
    /\ pc \in {"read", "wait"} => helper \in Pids
    /\ writeEnd \in BOOLEAN /\ pipe \in {"empty", "errno"}
    /\ result \in {"none", "ok", "failed"}
    /\ fate \in {"none", "ran", "failed", "killed"}
    /\ sig \in {"TERM", "KILL"} /\ pos \in Pids \cup {0}
    /\ pc = "look" => pos \in Pids
    /\ count \in BOOLEAN /\ stale \in BOOLEAN
    /\ struck \in Accounts \cup {NoPid}

Other(u, s) == [at |-> "other", uid |-> u, gid |-> u, groups |-> u,
                has |-> {}, suid |-> s, young |-> TRUE]
Nobody      == [Other(Root, FALSE) EXCEPT !.at = "free"]
Child(at)   == [Other(Root, FALSE) EXCEPT !.at = at, !.has = Inherited]

Free     == {p \in Pids : procs[p].at = "free"}
Children == {p \in Pids : procs[p].at \in SessionStages \cup HelperStages}

\* The two that are never signalled.
Spared == {p \in Pids : p <= 1 \/ p = Self}

Init ==
    /\ procs = [p \in Pids |-> IF p \in Spared THEN Other(Root, FALSE) ELSE Nobody]
    /\ pc = "idle" /\ sessionPid = NoPid /\ user = Root
    /\ helper = NoPid /\ writeEnd = FALSE /\ pipe = "empty"
    /\ result = "none" /\ fate = "none"
    /\ sig = "TERM" /\ pos = 0 /\ count = FALSE
    /\ stale = FALSE /\ struck = NoPid

\* A child of xlogin stays until it is waited for.
Ended(p) == IF p \in Children THEN [procs[p] EXCEPT !.at = "dead"]
            ELSE IF procs[p].at = "dead" THEN procs[p] ELSE Nobody

Touched(p) == stale' = (stale \/ (pc = "look" /\ p = pos))

-----------------------------------------------------------------------------
(* launch_session().  Its failures before the fork change nothing here.    *)

Launch == \E u \in Accounts, p \in Free :
    /\ pc = "idle" /\ sessionPid = NoPid
    /\ procs' = [procs EXCEPT ![p] = Child("forked")]
    /\ sessionPid' = p /\ user' = u
    /\ UNCHANGED <<pc, power, walk, stale>>

\* The session's child is at a stage, and then at another, with this changed.
Goes(from, to, new) ==
    /\ sessionPid # NoPid /\ procs[sessionPid].at = from
    /\ procs' = [procs EXCEPT ![sessionPid] = [new EXCEPT !.at = to]]

\* A call fails, and the child calls _exit().
Quits(from) ==
    /\ sessionPid # NoPid /\ procs[sessionPid].at = from
    /\ procs' = [procs EXCEPT ![sessionPid].at = "dead"]

Me == procs[sessionPid]

ResetSignals == Goes("forked", "reset", [Me EXCEPT !.has = @ \ {"handlers"}])

\* The descriptors above stderr are closed, the environment is cleared.
Detach == Goes("reset", "clean", [Me EXCEPT !.has = @ \ {"files", "environment"}])

SetGid == Goes("clean", "gid", [Me EXCEPT !.gid = user]) \/ Quits("clean")

\* Fault: the result of initgroups() is not looked at.
FaultyInitGroups ==
    Goes("gid", "groups", [Me EXCEPT !.groups = user]) \/ Goes("gid", "groups", Me)

InitGroups == Goes("gid", "groups", [Me EXCEPT !.groups = user]) \/ Quits("gid")

SetUid == Goes("groups", "uid", [Me EXCEPT !.uid = user]) \/ Quits("groups")

\* The shell with an xinitrc, or the first window manager there is.
Exec == Goes("uid", "session", Me) \/ Quits("uid")

SessionChild ==
    /\ ResetSignals \/ Detach \/ SetGid \/ InitGroups \/ SetUid \/ Exec
    /\ UNCHANGED <<pc, sessionPid, user, power, walk, stale>>

-----------------------------------------------------------------------------
(* spawn().  There is no menu while a session runs.                        *)

\* Fault: xlogin keeps its own copy of the end that its child writes to.
FaultyCloseWriteEnd == writeEnd' = TRUE

CloseWriteEnd == writeEnd' = FALSE

Spawn == \E p \in Free :
    /\ pc = "idle" /\ sessionPid = NoPid
    /\ procs' = [procs EXCEPT ![p] = Child("power")]
    /\ helper' = p /\ CloseWriteEnd /\ pipe' = "empty"
    /\ result' = "none" /\ fate' = "none"
    /\ pc' = "read"
    /\ UNCHANGED <<sessionPid, user, walk, stale>>

\* No shutdown program, no pipe, no process.
SpawnFails ==
    /\ pc = "idle" /\ sessionPid = NoPid
    /\ result' = "failed" /\ fate' = "none"
    /\ UNCHANGED <<procs, pc, sessionPid, user, helper, writeEnd, pipe, walk, stale>>

HelperAt(stage) == helper # NoPid /\ procs[helper].at = stage

HelperExecs ==
    /\ HelperAt("power")
    /\ procs' = [procs EXCEPT ![helper] = [@ EXCEPT !.at = "shutdown", !.has = {}]]
    /\ fate' = "ran"
    /\ UNCHANGED pipe

\* Fault: the child exits without a word.
FaultyTellErrno == UNCHANGED pipe

TellErrno == pipe' = "errno"

HelperFails ==
    /\ HelperAt("power")
    /\ procs' = [procs EXCEPT ![helper].at = "leaving"]
    /\ fate' = "failed"
    /\ TellErrno

HelperLeaves ==
    /\ HelperAt("leaving")
    /\ procs' = [procs EXCEPT ![helper].at = "dead"]
    /\ UNCHANGED <<fate, pipe>>

HelperChild ==
    /\ HelperExecs \/ HelperFails \/ HelperLeaves
    /\ UNCHANGED <<pc, sessionPid, user, helper, writeEnd, result, walk, stale>>

\* Fault: the pid is forgotten together with the pipe.
FaultyReadErrno ==
    /\ pc = "read" /\ pipe = "errno"
    /\ pc' = "wait" /\ helper' = NoPid
    /\ UNCHANGED <<procs, result>>

ReadErrno ==
    /\ pc = "read" /\ pipe = "errno"
    /\ pc' = "wait"
    /\ UNCHANGED <<procs, helper, result>>

\* Nobody holds the other end any more: a successful exec() closes it, and
\* so does every death.
ReadEnd ==
    /\ pc = "read" /\ pipe = "empty"
    /\ ~writeEnd /\ procs[helper].at \notin {"power", "leaving"}
    /\ result' = "ok" /\ pc' = "idle" /\ helper' = NoPid
    /\ UNCHANGED procs

WaitHelper ==
    /\ pc = "wait" /\ HelperAt("dead")
    /\ procs' = [procs EXCEPT ![helper] = Nobody]
    /\ result' = "failed" /\ pc' = "idle" /\ helper' = NoPid

AwaitHelper ==
    /\ ReadErrno \/ ReadEnd \/ WaitHelper
    /\ UNCHANGED <<sessionPid, user, writeEnd, pipe, fate, walk, stale>>

-----------------------------------------------------------------------------
(* reapSession().                                                          *)

\* Fault: only the child that was waited for last is looked at.
FaultyOurs(dead) == Max(dead) = sessionPid

Ours(dead) == sessionPid \in dead

\* Fault: root's session is cleaned up after as well.
FaultyMayPurge(u) == TRUE

MayPurge(u) == u # Root

Reap == LET dead == {p \in Pids : procs[p].at = "dead"} IN
    /\ pc = "idle" /\ dead # {}
    /\ procs' = [p \in Pids |-> IF p \in dead THEN Nobody ELSE procs[p]]
    /\ IF Ours(dead)
         THEN /\ sessionPid' = NoPid
              /\ pc' = IF MayPurge(user) THEN "open" ELSE "idle"
         ELSE UNCHANGED <<sessionPid, pc>>
    /\ sig' = "TERM" /\ struck' = NoPid
    /\ UNCHANGED <<user, power, pos, count, stale>>

-----------------------------------------------------------------------------
(* signal_user_processes(), first with SIGTERM and then with SIGKILL.      *)

\* opendir(), which can fail.
Open ==
    /\ pc = "open"
    /\ \/ /\ pc' = "walk"
          /\ procs' = [p \in Pids |-> [procs[p] EXCEPT !.young = FALSE]]
       \/ /\ pc' = "idle"
          /\ UNCHANGED procs
    /\ UNCHANGED <<walk, stale>>

\* Fault: the owner of the directory is taken, which is the effective uid.
FaultyOwner(p) == IF procs[p].suid THEN Root ELSE procs[p].uid

\* The first number in the line "Uid:" of its status.
Owner(p) == procs[p].uid

\* /proc lists the processes there are, in the order of their numbers.
Unread == {p \in Pids : p > pos /\ p \notin Free}

\* readdir() and a look at the owner.
Visit == \E p \in Unread :
    /\ pc = "walk" /\ \A q \in Unread : p <= q
    /\ pos' = p
    /\ pc' = IF Owner(p) = user /\ p \notin Spared THEN "look" ELSE "walk"
    /\ UNCHANGED <<procs, sig, count, struck, stale>>

\* kill(), for whoever has that number by now.  What SIGTERM does is up to
\* the process: it ends by itself, soon, later or not at all.
Strike ==
    /\ pc = "look" /\ pc' = "walk"
    /\ IF pos \in Free
         THEN UNCHANGED <<procs, count, struck>>
         ELSE /\ count' = TRUE
              /\ struck' = IF stale THEN struck ELSE procs[pos].uid
              /\ procs' = IF sig = "KILL" THEN [procs EXCEPT ![pos] = Ended(pos)]
                                          ELSE procs
    /\ stale' = FALSE
    /\ UNCHANGED <<sig, pos>>

EndWalk ==
    /\ pc = "walk" /\ Unread = {}
    /\ pc' = IF sig = "TERM" /\ count THEN "grace" ELSE "idle"
    /\ pos' = 0 /\ count' = FALSE
    /\ UNCHANGED <<procs, sig, struck, stale>>

\* Half a second.
Grace ==
    /\ pc = "grace" /\ pc' = "open"
    /\ sig' = "KILL"
    /\ UNCHANGED <<procs, pos, count, struck, stale>>

Purge ==
    /\ Open \/ Visit \/ Strike \/ EndWalk \/ Grace
    /\ UNCHANGED <<sessionPid, user, power>>

-----------------------------------------------------------------------------
(* The world.                                                              *)

\* A process ends by itself, or is killed.
Dies == \E p \in Pids \ Spared :
    /\ procs[p].at \notin {"free", "dead"}
    /\ procs' = [procs EXCEPT ![p] = Ended(p)]
    /\ fate' = IF p = helper /\ procs[p].at = "power" THEN "killed" ELSE fate
    /\ Touched(p)
    /\ UNCHANGED <<pc, sessionPid, user, helper, writeEnd, pipe, result, walk>>

\* Somebody starts a process: one of a session, a daemon, a job of cron's.
Forks == \E p \in Free, u \in Accounts, s \in BOOLEAN :
    /\ procs' = [procs EXCEPT ![p] = Other(u, s)]
    /\ Touched(p)
    /\ UNCHANGED <<pc, sessionPid, user, power, walk>>

\* A process of root's becomes a user's, or one with its privilege root's.
ChangesOwner == \E p \in Pids \ Spared, u \in Accounts :
    /\ procs[p].at = "other" /\ u # procs[p].uid
    /\ procs[p].uid = Root \/ procs[p].suid
    /\ procs' = [procs EXCEPT ![p] = Other(u, FALSE)]
    /\ Touched(p)
    /\ UNCHANGED <<pc, sessionPid, user, power, walk>>

Next == \/ Launch \/ SessionChild
        \/ Spawn \/ SpawnFails \/ HelperChild \/ AwaitHelper
        \/ Reap \/ Purge
        \/ Dies \/ Forks \/ ChangesOwner

Spec == Init /\ [][Next]_vars

\* Whatever xlogin waits for in one place goes on: itself, and its child.
FairSpec == Spec /\ WF_vars(AwaitHelper) /\ WF_vars(HelperChild) /\ WF_vars(Purge)

-----------------------------------------------------------------------------
(* Properties.                                                             *)

\* launch.h, "the order of the privilege drop": a child that has the user's
\* uid, or runs anything at all, has nothing left of root's and of xlogin's,
\* whichever of the calls failed.
RunsAsUser == \A p \in Pids : procs[p].at \in {"uid", "session"} =>
    /\ procs[p].uid = user /\ procs[p].gid = user /\ procs[p].groups = user
    /\ procs[p].has = {}

\* power.c, "I clicked Shutdown and nothing happened, with no message": if
\* spawn() reports a failure the program is not running, and if it reports
\* success it is, or somebody has killed the child before it was.
PowerHonest ==
    /\ result = "failed" => fate # "ran"
    /\ result = "ok" => fate \in {"ran", "killed"}

\* A process between fork() and wait is the session's if and only if
\* mSessionPid is its pid, so that its end is noticed and no stranger's is
\* taken for it.
SessionKnown ==
    /\ sessionPid # NoPid => procs[sessionPid].at \in SessionStages \cup {"dead"}
    /\ \A p \in Pids : procs[p].at \in SessionStages => p = sessionPid

\* Only the processes of the user whose session has ended get a signal, and
\* root's never, but for a pid that changes hands between look and kill().
OnlyTheirs ==
    /\ struck # NoPid => struck \in Users
    /\ pc \in {"open", "walk", "look", "grace"} => struck \in {NoPid, user}

\* cleanup.h, "then SIGKILL whatever is left": what there is of the user when
\* the walks are done was started, or became the user's, during the last one.
NoneLeft == [][pc = "walk" /\ pc' = "idle" =>
                 \A p \in Pids : procs[p].at = "other" /\ procs[p].uid = user
                                   => procs[p].young]_vars

\* The inductive invariant: what is known of the session's child at each of
\* its stages,
ChildInv == sessionPid # NoPid => LET me == procs[sessionPid] IN
    /\ me.at \notin {"forked", "dead"} => "handlers" \notin me.has
    /\ me.at \in {"clean", "gid", "groups", "uid", "session"} => me.has = {}
    /\ me.at \in {"gid", "groups", "uid", "session"} => me.gid = user
    /\ me.at \in {"groups", "uid", "session"} => me.groups = user
    /\ me.at \in {"uid", "session"} => me.uid = user

\* of the other child while spawn() waits for it,
HelperInv ==
    /\ helper = NoPid <=> pc \notin {"read", "wait"}
    /\ helper # NoPid => LET it == procs[helper] IN
         /\ it.at \in HelperStages \cup {"dead"}
         /\ it.at = "power" => fate = "none"
         /\ it.at = "leaving" => fate = "failed"
         /\ it.at = "shutdown" => fate = "ran"
         /\ it.at = "dead" => fate # "none"
         /\ pipe = "errno" <=> fate = "failed"
         /\ pc = "wait" => pipe = "errno"
         /\ result = "none"

\* and of what is signalled.
WalkInv ==
    /\ pc # "idle" => sessionPid = NoPid
    /\ pc \in {"open", "walk", "look", "grace"} => user # Root
    /\ pc = "look" /\ ~stale => procs[pos].uid = user

IInv == ChildInv /\ HelperInv /\ WalkInv /\ SessionKnown /\ PowerHonest /\ OnlyTheirs

\* What a walk has passed: nobody who was there when it began, or SIGTERM has
\* been sent and another walk will come.
Left(p) == procs[p].at = "other" /\ procs[p].uid = user /\ ~procs[p].young

Passed(p) == p < pos \/ (p = pos /\ pc = "walk")

SweepInv ==
    /\ \A p \in Spared : procs[p].at = "other" /\ procs[p].uid = Root
    /\ pc \notin {"walk", "look"} => pos = 0
    /\ pc = "look" => pos \notin Spared
    /\ pc \in {"walk", "look"} =>
          \A p \in Pids : Left(p) /\ Passed(p) => sig = "TERM" /\ count

\* Nothing that blocks the event loop here blocks it for ever.
Returns == pc # "idle" ~> pc = "idle"
=============================================================================
