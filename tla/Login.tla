------------------------------- MODULE Login -------------------------------
(***************************************************************************)
(* The login state machine of xlogin: class App (src/src/main.cpp), driven *)
(* by the event loop X11Window::run (src/src/platform/x11window.cpp) and   *)
(* by the panel's callbacks (src/src/ui/panel.cpp).                        *)
(*                                                                         *)
(* The program has one thread.  What interleaves with it is the world: the *)
(* person at the keyboard, the kernel (signals, children), PAM, whoever    *)
(* edits /etc/xlogin.conf, the X server and init.  A handler of the        *)
(* program is therefore cut into steps only where it blocks or calls into  *)
(* the kernel for long enough that the world moves: pc names the place.    *)
(*                                                                         *)
(*   "loop"     between two handlers, in X11Window::run                    *)
(*   "drain"    in the self-pipe's handler, between two bytes              *)
(*   "auth"     in auth_login(), called by submit()                        *)
(*   "autoauth" in auth_autologin(), called by autologin()                 *)
(*   "start"    in startSession(), the PAM session being open              *)
(*   "launch"   fork() has returned, mSessionPid is not yet assigned       *)
(*   "cleanup"  in cleanup_after_session(), called by reapSession()        *)
(*   "exited"   there is no xlogin process                                 *)
(***************************************************************************)
EXTENDS Naturals, Sequences, FiniteSets

CONSTANTS
    Names,        \* what can be typed as a username or saved in the file
    Typed,        \* those that the person does type
    Accounts,     \* the names getpwnam() finds
    Roots,        \* the accounts whose uid is 0
    Valid,        \* the names config_valid_username() lets through
    Files,        \* what somebody may have left in /etc/xlogin.conf
    None,         \* no name: an empty string in the code
    Pids,         \* process ids fork() can return
    NoPid,        \* mSessionPid = -1
    Inputs,       \* the kinds of X event the person produces
    QueueBound,   \* bound on the X events waiting in the connection
    PipeCap,      \* the capacity of the self-pipe, in bytes
    StrayLimit,   \* stray signals arrive only while the pipe is shorter
    AdminEdits,   \* whether somebody edits /etc/xlogin.conf meanwhile
    Rivals        \* whether another X client may hold the keyboard

InputKinds == {"motion", "type", "toggle", "submit", "options", "console",
               "background", "power"}

ASSUME NamesAssumption == /\ Accounts \subseteq Names
                          /\ Roots \subseteq Accounts
                          /\ Valid \subseteq Names
                          /\ Typed \subseteq Names
                          /\ None \notin Names
ASSUME FilesAssumption ==
    Files \subseteq [name: Names \cup {None}, trusted: BOOLEAN, exact: BOOLEAN]
ASSUME PidsAssumption == NoPid \notin Pids
ASSUME InputsAssumption == Inputs \subseteq InputKinds
ASSUME BoundsAssumption == /\ QueueBound \in Nat
                           /\ PipeCap \in Nat
                           /\ StrayLimit \in Nat
                           /\ StrayLimit < PipeCap
                           /\ AdminEdits \in BOOLEAN
                           /\ Rivals \in BOOLEAN

VARIABLES
    pc,          \* where the one thread of the program is
    running,     \* X11Window::mRunning
    sessionPid,  \* App::mSessionPid
    user,        \* App::mUser
    cfg,         \* App::mCfg.autologin, the program's copy of the setting
    countdown,   \* App::mCountdown
    due,         \* the monotonic clock has passed mCountdownDeadline
    forked,      \* launch_session()'s result until it is assigned
    pamh,        \* auth.c's g_pamh: the user whose session is open, or None
    enabled,     \* Panel::mEnabled
    box,         \* Panel::mAuto.checked, "Log in automatically"
    menuOpen,    \* Menu::mOpen
    name,        \* the text of the username field
    pass,        \* the password field is not empty
    mapped,      \* the window is on the screen
    grabbed,     \* X11Window::mGrabbed
    taken,       \* another client of the X server holds the keyboard
    events,      \* X events not yet handled, oldest first
    pipe,        \* bytes in the self-pipe, oldest first
    child,       \* this process's children
    saved,       \* XLOGIN_AUTOLOGIN in /etc/xlogin.conf, in the last line read
    trusted,     \* the file is root's, and nobody else can write it
    exact,       \* it ends its lines, has a key once, and is far from 64 KB
    marker,      \* /run/xlogin-autologin exists
    autologins,  \* history: automatic logins attempted since boot
    cancelled,   \* history: a countdown was cancelled since boot
    foreign,     \* history: saved is not what setUp() read or a save wrote
    touched      \* history: the box was used since the form appeared

app     == <<sessionPid, user, cfg, countdown, due, forked>>
panel   == <<enabled, box, menuOpen, name, pass>>
window  == <<mapped, grabbed, taken>>
file    == <<saved, trusted, exact>>
disk    == <<file, marker>>
history == <<autologins, cancelled, foreign, touched>>
vars    == <<pc, running, app, pamh, panel, window, events, pipe, child,
             disk, history>>

StopSignals == {"TERM"}            \* SIGTERM, SIGINT and SIGHUP alike
Signals     == StopSignals \cup {"CHLD"}
Blocked     == {"auth", "autoauth", "start", "launch", "cleanup"}
Resting     == {"loop", "drain"}

ControlType == /\ pc \in Resting \cup Blocked \cup {"exited"}
               /\ running \in BOOLEAN
               /\ countdown \in BOOLEAN /\ due \in BOOLEAN
PidType     == /\ sessionPid \in Pids \cup {NoPid}
               /\ forked \in Pids \cup {NoPid}
               /\ child \in [Pids -> {"none", "running", "zombie"}]
NameType    == {user, cfg, pamh, name, saved} \subseteq Names \cup {None}
ScreenType  == /\ enabled \in BOOLEAN /\ box \in BOOLEAN
               /\ menuOpen \in BOOLEAN /\ pass \in BOOLEAN
               /\ mapped \in BOOLEAN /\ grabbed \in BOOLEAN
               /\ taken \in BOOLEAN
QueueType   == events \in Seq(InputKinds) /\ pipe \in Seq(Signals)
HistoryType == /\ marker \in BOOLEAN
               /\ trusted \in BOOLEAN /\ exact \in BOOLEAN
               /\ autologins \in Nat
               /\ cancelled \in BOOLEAN /\ foreign \in BOOLEAN
               /\ touched \in BOOLEAN

TypeOK == /\ ControlType /\ PidType /\ NameType /\ ScreenType /\ QueueType
          /\ HistoryType

Session == sessionPid # NoPid      \* mSessionPid > 0 in the code
NoChildren == [p \in Pids |-> "none"]
-----------------------------------------------------------------------------
(* Helpers shared by several handlers.  A definition called Faulty... is a  *)
(* plausible bug in the one it precedes, which no specification uses: each *)
(* property below is violated when its fault is put in.                    *)

\* Fault: "a byte is already waiting, which is all the loop needs".
FaultyPost(sig) == pipe' = IF pipe = <<>> THEN <<sig>> ELSE pipe

\* onSignal(): one non-blocking write; a full pipe drops the byte.
Post(sig) == pipe' = IF Len(pipe) < PipeCap THEN Append(pipe, sig) ELSE pipe

\* grabKeyboard() and tryGrabKeyboard(): the X server refuses as long as
\* another client holds the keyboard.
Grab == grabbed' = (grabbed \/ ~taken)

\* Fault: unmapping the window without giving the keyboard back.
FaultyHide == mapped' = FALSE /\ UNCHANGED grabbed

\* ungrabKeyboard() and hide().
Hide == mapped' = FALSE /\ grabbed' = FALSE

\* config_load(): a name that is not valid, or stands in a file that others
\* can write, is none.
Loaded == IF trusted /\ saved \in Valid THEN saved ELSE None

\* config_set() of XLOGIN_AUTOLOGIN that succeeds.  The new file is root's.  Of
\* a file with the key twice, without a last newline or near 64 KB, the next
\* start may read another name than the one written.
Writes(u) ==
    /\ trusted' = TRUE
    /\ IF exact THEN saved' = u /\ UNCHANGED exact
                ELSE saved' \in Names \cup {None} /\ exact' \in BOOLEAN

\* Fault: the form stays grey.
FaultyReset == pass' = FALSE /\ UNCHANGED enabled /\ menuOpen' = FALSE

\* Panel::reset(); the username field is left alone.
Reset == /\ pass' = FALSE
         /\ enabled' = TRUE
         /\ menuOpen' = FALSE

\* Fault: the box keeps what was ticked before the session.
FaultyShowSaved == touched' = FALSE /\ UNCHANGED box

\* mPanel.setAutologinChecked(mCfg.autologin[0] != '\0') on the way back.
ShowSaved == box' = (cfg # None) /\ touched' = FALSE

\* Fault: the session is left open.
FaultyClosePam == UNCHANGED pamh

\* auth_close_session().
ClosePam == pamh' = None

\* Fault: the account's uid is not looked at.
FaultyAllowed(u) == u \in Accounts

\* The account tests of armAutologin(), saveAutologinChoice() and
\* auth_autologin(): the account exists and its uid is not 0.
Allowed(u) == u \in Accounts \ Roots

\* Fault: the countdown is only taken off the screen.
FaultyStopCountdown == due' = FALSE /\ UNCHANGED countdown

\* mCountdown = false.
StopCountdown == countdown' = FALSE /\ due' = FALSE

\* Taking the oldest X event off the connection, in X11Window::run.
Take(e) == /\ pc = "loop"
           /\ events # <<>>
           /\ Head(events) = e
           /\ events' = Tail(events)

\* The panel is on the screen and gets the event.
Listening == ~Session /\ ~countdown
-----------------------------------------------------------------------------
(* Start and end of the process.                                           *)

\* A machine that has just booted: init has not started xlogin yet.
Init ==
    /\ pc = "exited" /\ running = FALSE
    /\ sessionPid = NoPid /\ forked = NoPid
    /\ user = None /\ cfg = None /\ pamh = None
    /\ countdown = FALSE /\ due = FALSE
    /\ enabled = FALSE /\ box = FALSE /\ menuOpen = FALSE
    /\ name = None /\ pass = FALSE
    /\ mapped = FALSE /\ grabbed = FALSE /\ taken = FALSE
    /\ events = <<>> /\ pipe = <<>>
    /\ child = NoChildren
    /\ \E f \in Files :
          saved = f.name /\ trusted = f.trusted /\ exact = f.exact
    /\ marker = FALSE
    /\ autologins = 0 /\ cancelled = FALSE
    /\ foreign = FALSE /\ touched = FALSE

\* Fault: the marker is not looked at.
FaultyArms(created) == Loaded # None /\ Allowed(Loaded) /\ created

\* armAutologin(): may this boot's automatic login be armed, given that
\* creating the marker with O_EXCL succeeds or not?
Arms(created) == Loaded # None /\ Allowed(Loaded) /\ ~marker /\ created

\* main(): install the handlers, open the window, App::setUp(), grab.
Start == \E created \in BOOLEAN :
    /\ pc = "exited"
    /\ pc' = "loop" /\ running' = TRUE
    /\ cfg' = Loaded
    /\ box' = (Loaded # None)
    /\ countdown' = Arms(created)
    /\ enabled' = ~Arms(created)
    /\ name' = IF Arms(created) THEN Loaded ELSE None
    /\ marker' = (marker \/ Arms(created))
    /\ mapped' = TRUE
    /\ Grab
    /\ foreign' = ~(exact /\ saved = Loaded)
    /\ touched' = FALSE
    /\ UNCHANGED <<sessionPid, user, due, forked, pamh, menuOpen, pass,
                   taken, events, pipe, child, file, autologins, cancelled>>

\* What the death of the process takes with it, whatever the cause.  Its
\* children belong to init from then on, and init reaps them.
Gone == /\ pc' = "exited" /\ running' = FALSE
        /\ sessionPid' = NoPid /\ forked' = NoPid
        /\ user' = None /\ cfg' = None /\ pamh' = None
        /\ countdown' = FALSE /\ due' = FALSE
        /\ enabled' = FALSE /\ box' = FALSE /\ menuOpen' = FALSE
        /\ name' = None /\ pass' = FALSE
        /\ mapped' = FALSE /\ grabbed' = FALSE /\ UNCHANGED taken
        /\ events' = <<>> /\ pipe' = <<>>
        /\ child' = NoChildren

\* run() returns after stop(): main() clears the password, closes the PAM
\* session if there is one, and returns.
Exit ==
    /\ pc = "drain" /\ pipe = <<>> /\ ~running
    /\ Gone
    /\ UNCHANGED <<disk, history>>

\* select() fails for a reason other than a signal: run() returns, whether a
\* session runs or not, and main() ends as above.
LoopFails ==
    /\ pc = "loop" /\ events = <<>>
    /\ Gone
    /\ UNCHANGED <<disk, history>>

\* The X server dies and Xlib calls exit(), or the process is killed: nothing
\* of main()'s own ending runs.
Crash ==
    /\ pc # "exited"
    /\ Gone
    /\ UNCHANGED <<disk, history>>

\* A reboot: /run is a tmpfs, so the marker goes; the file stays.
Reboot ==
    /\ Gone
    /\ marker' = FALSE
    /\ autologins' = 0 /\ cancelled' = FALSE
    /\ UNCHANGED <<file, foreign, touched>>
-----------------------------------------------------------------------------
(* X events.  The loop takes all that are waiting before it looks at the   *)
(* self-pipe or ticks.                                                     *)

\* Motion only moves highlights.  So little comes of a key that begins a
\* dead-key or Compose sequence: XFilterEvent() eats it before App::key().
HandleUnseen(e) ==
    /\ e = "motion"
    /\ Take(e)
    /\ UNCHANGED <<pc, running, app, pamh, panel, window, pipe, child, disk,
                   history>>

\* App::button() and App::key() while a session runs: dropped.
HandleDropped(e) ==
    /\ e # "motion"
    /\ Take(e)
    /\ Session
    /\ UNCHANGED <<pc, running, app, pamh, panel, window, pipe, child, disk,
                   history>>

\* A key or a click during the countdown cancels it and is spent doing so.
CancelAutologin(e) ==
    /\ e # "motion"
    /\ Take(e)
    /\ ~Session /\ countdown
    /\ StopCountdown
    /\ Reset
    /\ cancelled' = TRUE
    /\ UNCHANGED <<pc, running, sessionPid, user, cfg, forked, pamh, box,
                   name, window, pipe, child, disk, autologins, foreign,
                   touched>>

\* Input the open menu takes for itself: a key is swallowed, a click outside
\* or Escape closes it.  Without a menu, a disabled panel takes nothing.
HandleSwallowed(e) ==
    /\ e \in {"type", "toggle", "submit"}
    /\ Take(e)
    /\ Listening
    /\ \/ menuOpen /\ menuOpen' \in BOOLEAN
       \/ ~menuOpen /\ ~enabled /\ UNCHANGED menuOpen
    /\ UNCHANGED <<pc, running, app, pamh, enabled, box, name, pass, window,
                   pipe, child, disk, history>>

FormGets(e) == Take(e) /\ Listening /\ ~menuOpen /\ enabled

\* Typing into the two fields; it may leave either of them empty, and Escape
\* empties both.
HandleType == \E u \in Typed \cup {None}, p \in BOOLEAN :
    /\ FormGets("type")
    /\ name' = u /\ pass' = p
    /\ UNCHANGED <<pc, running, app, pamh, enabled, box, menuOpen, window,
                   pipe, child, disk, history>>

\* toggleAutologin() and autologinToggled(): ticking writes nothing;
\* unticking writes the file at once, and puts the tick back if it cannot.
HandleToggle ==
    /\ FormGets("toggle")
    /\ IF box /\ cfg # None
         THEN \/ box' = FALSE /\ cfg' = None /\ Writes(None)
              \/ UNCHANGED <<box, cfg, file>>
         ELSE box' = ~box /\ UNCHANGED <<cfg, file>>
    /\ touched' = TRUE
    /\ UNCHANGED <<pc, running, sessionPid, user, countdown, due, forked,
                   pamh, enabled, menuOpen, name, pass, window, pipe, child,
                   marker, autologins, cancelled, foreign>>

\* submit() with a field empty: a message and nothing else.
SubmitEmpty ==
    /\ FormGets("submit")
    /\ name = None \/ ~pass
    /\ UNCHANGED <<pc, running, app, pamh, panel, window, pipe, child, disk,
                   history>>

\* submit() up to the call of auth_login().
Submit ==
    /\ FormGets("submit")
    /\ name # None /\ pass
    /\ user' = name
    /\ enabled' = FALSE
    /\ pc' = "auth"
    /\ UNCHANGED <<running, sessionPid, cfg, countdown, due, forked, pamh,
                   box, menuOpen, name, pass, window, pipe, child, disk,
                   history>>

\* options(): the button opens the menu.  A click on it while the menu is
\* open is a click outside the menu, which closes it.
HandleOptions ==
    /\ Take("options")
    /\ Listening
    /\ menuOpen' = ~menuOpen
    /\ UNCHANGED <<pc, running, app, pamh, enabled, box, name, pass, window,
                   pipe, child, disk, history>>

\* A menu entry is chosen with no menu on the screen: the click or key falls
\* on the form, where it means nothing that matters here.
HandleNoMenu(e) ==
    /\ e \in {"console", "background", "power"}
    /\ Take(e)
    /\ Listening /\ ~menuOpen
    /\ UNCHANGED <<pc, running, app, pamh, panel, window, pipe, child, disk,
                   history>>

\* menuAction(Console): close the menu, let the keyboard go, VT_ACTIVATE.
\* If the ioctl fails the keyboard is grabbed again, as far as X lets it be.
HandleConsole ==
    /\ Take("console")
    /\ Listening /\ menuOpen
    /\ menuOpen' = FALSE
    /\ grabbed' \in {FALSE, ~taken}
    /\ UNCHANGED <<pc, running, app, pamh, enabled, box, name, pass, mapped,
                   taken, pipe, child, disk, history>>

\* setBackground(): an image is chosen, and config_set() writes its name or not.
\* Writing it leaves this key alone in an exact file, which is root's from then
\* on.  Otherwise a line may come to be read that was not, and a file that
\* cannot be opened or read to its end loses what it had.
HandleBackground ==
    /\ Take("background")
    /\ Listening /\ menuOpen
    /\ menuOpen' = FALSE
    /\ \/ UNCHANGED <<file, foreign>>
       \/ exact /\ trusted' = TRUE /\ UNCHANGED <<saved, exact, foreign>>
       \/ Writes(None) /\ foreign' = TRUE
    /\ UNCHANGED <<pc, running, app, pamh, enabled, box, name, pass, window,
                   pipe, child, marker, autologins, cancelled, touched>>

\* menuAction(Shutdown) and (Restart): spawn() starts shutdown(8), or says
\* why not.  A failed exec has already reaped the child, but its SIGCHLD is
\* in the pipe.
HandlePower ==
    /\ Take("power")
    /\ Listening /\ menuOpen
    /\ menuOpen' = FALSE
    /\ \/ /\ \E p \in Pids : /\ child[p] = "none"
                             /\ child' = [child EXCEPT ![p] = "running"]
          /\ UNCHANGED pipe
       \/ UNCHANGED <<child, pipe>>
       \/ UNCHANGED child /\ Len(pipe) < StrayLimit /\ Post("CHLD")
    /\ UNCHANGED <<pc, running, app, pamh, enabled, box, name, pass, window,
                   disk, history>>
-----------------------------------------------------------------------------
(* A login: auth_login() or auth_autologin() returns, the session starts.  *)

\* auth_login() fails: the password is erased, the form comes back.
AuthFails ==
    /\ pc = "auth"
    /\ pass' = FALSE
    /\ enabled' = TRUE
    /\ pc' = "loop"
    /\ UNCHANGED <<running, app, pamh, box, menuOpen, name, window, events,
                   pipe, child, disk, history>>

\* Fault: whoever has logged in with the box ticked is saved.
FaultySaves == box /\ user # cfg

\* saveAutologinChoice() goes as far as config_set().
Saves == box /\ user # cfg /\ Allowed(user) /\ user \in Valid

\* auth_login() succeeds, which leaves a PAM session open; the password is
\* erased and saveAutologinChoice() runs.  config_set() may fail.
AuthPasses ==
    /\ pc = "auth" /\ pamh = None
    /\ pamh' = user
    /\ pass' = FALSE
    /\ \/ Saves /\ Writes(user) /\ cfg' = user
       \/ UNCHANGED <<file, cfg>>
    /\ pc' = "start"
    /\ UNCHANGED <<running, sessionPid, user, countdown, due, forked, enabled,
                   box, menuOpen, name, window, events, pipe, child, marker,
                   autologins, cancelled, foreign, touched>>

\* startSession() when launch_session() fails: everything is put back.
StartFails ==
    /\ pc = "start"
    /\ ClosePam
    /\ mapped' = TRUE
    /\ grabbed' \in {FALSE, ~taken}
    /\ ShowSaved
    /\ enabled' = TRUE
    /\ pc' = "loop"
    /\ UNCHANGED <<running, app, menuOpen, name, pass, taken, events, pipe,
                   child, disk, autologins, cancelled, foreign>>

\* startSession() up to fork(): the window leaves the screen and the session
\* child exists, and may already be running its own program.
StartForks == \E p \in Pids :
    /\ pc = "start" /\ user \in Accounts
    /\ child[p] = "none"
    /\ child' = [child EXCEPT ![p] = "running"]
    /\ forked' = p
    /\ Hide
    /\ pc' = "launch"
    /\ UNCHANGED <<running, sessionPid, user, cfg, countdown, due, pamh,
                   panel, taken, events, pipe, disk, history>>

\* Fault: the flag of the result is assigned, not the pid.
FaultyLaunched == TRUE

\* Fault: the result says ok but its pid was never filled in.
FaultyUnset == NoPid

\* launch_result.pid
Launched == forked

\* mSessionPid = lr.pid.
AssignPid ==
    /\ pc = "launch"
    /\ sessionPid' = Launched /\ forked' = NoPid
    /\ pc' = "loop"
    /\ UNCHANGED <<running, user, cfg, countdown, due, pamh, panel, window,
                   events, pipe, child, disk, history>>
-----------------------------------------------------------------------------
(* The tick: select() timed out, so there was no event and no signal.      *)

Idle == pc = "loop" /\ events = <<>> /\ pipe = <<>>

\* Fault: an open menu keeps the tick from taking the keyboard.
FaultyWantsKeyboard == ~Session /\ ~grabbed /\ ~menuOpen

\* The test in tick(): the form is up and the keyboard is not held.
WantsKeyboard == ~Session /\ ~grabbed

\* tick() without an automatic login to start: retake the keyboard if the
\* screen is up and it is not held.  A running countdown only repaints.
Tick ==
    /\ Idle
    /\ ~(countdown /\ due)
    /\ WantsKeyboard
    /\ Grab
    /\ UNCHANGED <<pc, running, app, pamh, panel, mapped, taken, events, pipe,
                   child, disk, history>>

\* tickCountdown() past the deadline: autologin() up to auth_autologin().
TickAutologin ==
    /\ Idle
    /\ countdown /\ due
    /\ StopCountdown
    /\ user' = cfg
    /\ autologins' = autologins + 1
    /\ pc' = "autoauth"
    /\ UNCHANGED <<running, sessionPid, cfg, forked, pamh, panel, window,
                   events, pipe, child, disk, cancelled, foreign, touched>>

\* auth_autologin() fails: the ordinary form; then tick() tries the keyboard.
AutoauthFails ==
    /\ pc = "autoauth"
    /\ Reset
    /\ Grab
    /\ pc' = "loop"
    /\ UNCHANGED <<running, app, pamh, box, name, mapped, taken, events, pipe,
                   child, disk, history>>

\* auth_autologin() succeeds: it refuses uid 0 itself before it asks PAM.
AutoauthPasses ==
    /\ pc = "autoauth" /\ pamh = None
    /\ Allowed(user)
    /\ pamh' = user
    /\ pc' = "start"
    /\ UNCHANGED <<running, app, panel, window, events, pipe, child, disk,
                   history>>
-----------------------------------------------------------------------------
(* The self-pipe's handler reads until the pipe is empty.                  *)

\* select() reports the pipe; X events have all been taken.
BeginDrain ==
    /\ pc = "loop" /\ events = <<>> /\ pipe # <<>>
    /\ pc' = "drain"
    /\ UNCHANGED <<running, app, pamh, panel, window, events, pipe, child,
                   disk, history>>

NextByte(sigs) == /\ pc = "drain" /\ pipe # <<>>
                  /\ Head(pipe) \in sigs
                  /\ pipe' = Tail(pipe)

\* Fault: a stop signal stops the program whatever runs.
FaultyKeepsRunning == FALSE

\* The test of a stop signal: go on only because a session runs.
KeepsRunning == running /\ Session

\* onSignalByte(SIGTERM, SIGINT, SIGHUP): stop, unless a session runs.
DrainStop ==
    /\ NextByte(StopSignals)
    /\ running' = KeepsRunning
    /\ UNCHANGED <<pc, app, pamh, panel, window, events, child, disk,
                   history>>

\* waitpid(-1, WNOHANG) until there is no more: every zombie goes.
Reap == child' = [p \in Pids |-> IF child[p] = "zombie" THEN "none"
                                                        ELSE child[p]]

\* reapSession() when the session is not among the dead.
DrainOtherChild ==
    /\ NextByte({"CHLD"})
    /\ Session => child[sessionPid] # "zombie"
    /\ Reap
    /\ UNCHANGED <<pc, running, app, pamh, panel, window, events, disk,
                   history>>

\* reapSession() when it is: close the PAM session, then the cleanup blocks.
DrainSession ==
    /\ NextByte({"CHLD"})
    /\ Session /\ child[sessionPid] = "zombie"
    /\ Reap
    /\ sessionPid' = NoPid
    /\ ClosePam
    /\ pc' = "cleanup"
    /\ UNCHANGED <<running, user, cfg, countdown, due, forked, panel, window,
                   events, disk, history>>

\* cleanup_after_session() returns: the screen comes back.
CleanupDone ==
    /\ pc = "cleanup"
    /\ mapped' = TRUE
    /\ Grab
    /\ Reset
    /\ ShowSaved
    /\ pc' = "drain"
    /\ UNCHANGED <<running, app, pamh, name, taken, events, pipe, child, disk,
                   autologins, cancelled, foreign>>

\* read() finds the pipe empty and the loop goes on.
EndDrain ==
    /\ pc = "drain" /\ pipe = <<>> /\ running
    /\ pc' = "loop"
    /\ UNCHANGED <<running, app, pamh, panel, window, events, pipe, child,
                   disk, history>>
-----------------------------------------------------------------------------
(* The world.                                                              *)

\* A person at the screen, who may be away from it or on another VT.
Input(e) ==
    /\ e \in Inputs
    /\ pc # "exited" /\ mapped
    /\ Len(events) < QueueBound
    /\ events' = Append(events, e)
    /\ UNCHANGED <<pc, running, app, pamh, panel, window, pipe, child, disk,
                   history>>

\* A signal from outside, or from a child of a PAM module.
StraySignal(sig) ==
    /\ pc # "exited"
    /\ Len(pipe) < StrayLimit
    /\ Post(sig)
    /\ UNCHANGED <<pc, running, app, pamh, panel, window, events, child, disk,
                   history>>

\* A child ends: the kernel leaves a zombie and delivers SIGCHLD.
ChildExits(p) ==
    /\ child[p] = "running"
    /\ child' = [child EXCEPT ![p] = "zombie"]
    /\ Post("CHLD")
    /\ UNCHANGED <<pc, running, app, pamh, panel, window, events, disk,
                   history>>

\* /etc/xlogin.conf is edited from a console, or rewritten by install.sh.
EditSaved == \E f \in Files :
    /\ AdminEdits
    /\ saved' = f.name /\ trusted' = f.trusted /\ exact' = f.exact
    /\ foreign' = TRUE
    /\ UNCHANGED <<pc, running, app, pamh, panel, window, events, pipe, child,
                   marker, autologins, cancelled, touched>>

\* Another client of the X server takes the keyboard, or lets it go.
OtherClient ==
    /\ Rivals /\ ~grabbed
    /\ taken' = ~taken
    /\ UNCHANGED <<pc, running, app, pamh, panel, mapped, grabbed, events,
                   pipe, child, disk, history>>

\* The three seconds of the countdown pass.
ClockPasses ==
    /\ countdown /\ ~due
    /\ due' = TRUE
    /\ UNCHANGED <<pc, running, sessionPid, user, cfg, countdown, forked,
                   pamh, panel, window, events, pipe, child, disk, history>>
-----------------------------------------------------------------------------
HandleEvent ==
    \/ \E e \in Inputs : \/ HandleUnseen(e) \/ HandleDropped(e)
                         \/ CancelAutologin(e) \/ HandleSwallowed(e)
                         \/ HandleNoMenu(e)
    \/ HandleType \/ HandleToggle \/ SubmitEmpty \/ Submit
    \/ HandleOptions \/ HandleConsole \/ HandleBackground \/ HandlePower

PamReturns == AuthFails \/ AuthPasses \/ AutoauthFails \/ AutoauthPasses

Proceed == StartFails \/ StartForks \/ AssignPid \/ CleanupDone

HandleSignals == \/ BeginDrain \/ DrainStop \/ DrainOtherChild
                 \/ DrainSession \/ EndDrain \/ Exit

World == \/ \E e \in Inputs : Input(e)
         \/ \E s \in Signals : StraySignal(s)
         \/ \E p \in Pids : ChildExits(p)
         \/ EditSaved \/ OtherClient \/ ClockPasses
         \/ LoopFails \/ Crash \/ Reboot

Next == \/ Start \/ HandleEvent \/ PamReturns \/ Proceed \/ Tick
        \/ TickAutologin \/ HandleSignals \/ World

Spec == Init /\ [][Next]_vars
=============================================================================
