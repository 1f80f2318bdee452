# xlogin in TLA+

This directory is a verification project for **xlogin**, the graphical login
screen of this repository: one root process that shows a login form on an X
server, authenticates with PAM, starts a desktop session as the user, waits for
it, cleans up after it and shows the form again. It can also log one configured
user in once per boot, after a countdown that any key cancels, and offers a
small Options menu (console, background, restart, shut down).

Everything below is about the code under `src/`. File names such as `main.cpp`
mean `src/src/main.cpp`, `panel.cpp` means `src/src/ui/panel.cpp`, `menu.cpp`
means `src/src/gfx/menu.cpp`, `x11window.cpp` means
`src/src/platform/x11window.cpp`, and `auth.c`, `launch.c`, `cleanup.c`,
`power.c` are in `src/src/session/`; `config.c` is `src/src/config.c`.

Contents: 1 the system, 2 the modules and how they correspond to the code,
3 what each run checks, 4 what is proved, 5 where code and comments disagree,
6 what is not modelled, 7 the plan.

## 1. The system

xlogin has one thread. `X11Window::run` is the loop: it handles every X event
that waits, paints, and then waits in `select()` for the X connection, for a
self-pipe that the signal handler writes to, or for a quarter of a second, after
which it ticks. All other code runs inside a callback of that loop. What runs
concurrently with it is the world: the person, the kernel (signals, children),
PAM and its modules, the X server, init, and whoever edits `/etc/xlogin.conf`.

| Component | State it keeps | Operations | Talks to |
|---|---|---|---|
| App, `main.cpp` | `mSessionPid`, `mUser`, `mCfg`, `mCountdown`, deadline | submit, startSession, reapSession, arm/cancel/tick of automatic login, box, menu actions, tick | everything below |
| Signals, `main.cpp` | the self-pipe | `onSignal` (one write), drain, `onSignalByte` | kernel, App |
| Event loop and window, `x11window.cpp` | running, mapped, grabbed, what has to be drawn | run, show, hide, grab, focus, paint | X server, App |
| Screen geometry and layout, `x11window.cpp`, `geometry.h` | screen's size, primary output, scale; the panel's and the menu's place | refreshGeometry, syncScreenGeometry, applyGeometry, relayout | X server, Panel, menu |
| Panel, `panel.cpp` | focus, enabled, box, what the pointer went down on | key, click, motion, layout, reset | menu, fields, App |
| Options menu, `menu.cpp` | open, items, highlight, armed row | setItems, open, close, key, motion, activateRow | App::menuAction |
| Text field, `textfield.cpp` | 512-byte buffer, length, caret | insert, delete, move, clear | Panel |
| PAM session, `auth.c` | `g_pamh`, `g_cred_established` | login, autologin, close, conversation | PAM |
| Session launch, `launch.c` | none | fork, give up privileges, exec | kernel |
| Session cleanup, `cleanup.c` | none | SIGTERM, wait, SIGKILL over `/proc` | kernel |
| Power and console, `power.c` | none | shutdown, restart, VT switch; exec pipe | kernel |
| Settings file, `config.c` | `/etc/xlogin.conf` | load, set (temporary file, rename) | App, launcher |
| Launcher and init | X server, respawn | start X and xlogin, start again | xlogin |

Drawing, fonts, image decoding and the installer keep no state that the program
decides on (section 6).

**How they interact.** `submit()` disables the form, paints, calls PAM *and
waits*, then saves the box's choice and calls `startSession()`, which lets the
keyboard go, hides the window, forks, and only then assigns `mSessionPid`.
SIGCHLD writes a byte to the pipe; `reapSession()` waits for all dead children,
and if the session's is one of them closes PAM, kills what is left of the user
(seconds, in which the loop does not run), shows the window and resets the form.
The tick retakes the keyboard when no session runs. `tickCountdown()` logs in
when the deadline has passed. The menu's rows call back into App, which closes
the menu, opens another, or forks `shutdown(8)`.

**What is hard.** (a) The child may be dead before its pid is known, and one
signal stands for many. (b) Several functions disable, hide and ungrab, and
several others have to put each back on each path. (c) Three records of one
session — pid, PAM handle, user name — are set and cleared at different times.
(d) A crash of xlogin or X in a countdown must not lead to a second automatic
login in the same boot. (e) PAM can fail at each of its calls, with a different
amount to undo. (f) The box, the program's copy of the setting and the file are
three things. (g) Press and release are judged at different times, and the menu
can change between them. (h) `config_set()` may crash or race with an editor at
any of its calls. (i) The tick depends on a quiet connection. (j) A field is bytes
with a length and a caret, and what a person sees is characters. (k) The X server
outlives the session: size and primary output change between any two requests, also
while the window is hidden and nobody looks at the queue, and each is asked for
separately.

**What makes each part correct.**

- *App, loop, signals*: the three records agree; there is always a usable form
  or a session, never both; the end of a session is noticed; a stop signal never
  ends a session; every login ends.
- *Automatic login*: once per boot; never after a cancel; never for uid 0; the
  file gains a name only when that user's password was accepted; the box does
  not lie.
- *PAM session*: between two calls PAM holds a whole session or nothing and the
  caller knows which; what was established is deleted, and only that;
  `pam_end()` comes last; modules hear the password that was typed.
- *Panel and menu*: the menu is modal; a confirmation belongs to a row that is
  on the screen; nothing final without a second activation of the same entry; a
  click acts on what was pressed.
- *Background*: the file gets only an image that works.
- *Text field*: caret and length stay in the buffer and between characters;
  nothing of a deleted password remains; a key does to characters what its name says.
- *Screen*: what is shown is the screen there is, in one piece; the panel is where it
  can be seen, and the menu at its button; the focus comes back.
- *Settings file*: after any crash the old or the new file, whole; a failure that
  is reported has changed nothing; nothing left behind; other lines kept; what was
  set is what is loaded.
- *Launch*: nothing of the user's runs before all privileges are gone.
- *Shutdown's child*: a program that does not start is reported, and only that; the
  loop is not blocked for ever.
- *Cleanup*: no process of another user or of root is signalled; nothing of the user
  that was there is left.

`PROJECT.json` lists the components, the hazards at their lines with the
properties that cover them, and the source lines each definition stands for.

## 2. The modules

| Module | What it is |
|---|---|
| `Login` | the login state machine: App, loop, signals, window, box and PAM as one step |
| `LoginProperties` | its properties, its inductive invariant, its fairness, its refinement mapping |
| `Seat` | the abstract promise that `Login` implements |
| `PamSession` | `auth.c`, one action per call into PAM; with its properties |
| `PamPromise` | the abstract promise of `auth.h` that `PamSession` implements |
| `Panel` | form and Options menu with their keyboard and pointer, and App's menu callbacks |
| `PanelProperties` | its properties and its refinement mapping |
| `Confirm` | the abstract promise of the second click, implemented by `Panel` |
| `ConfigStore` | `config.c`, one action per call into the kernel; with its properties |
| `Processes` | the processes xlogin starts and ends: `launch.c`, `spawn()` of `power.c`, `reapSession()`, `cleanup.c`; with its properties |
| `TextField` | one entry field, byte by byte, and the key press that reaches it; with its safety properties |
| `TextFieldProperties` | its refinement mapping |
| `Editor` | the abstract promise of a line of characters, implemented by `TextField` |
| `Layout` | where panel and menu go on a screen, as operators, and what a good place is |
| `Screen` | the window on a screen that changes: opening, events, resizing, painting, hiding, showing; with its properties |
| `MC*` | constants for TLC |
| `*Proofs` | the theorems |
| `Induction` | induction over numbers in the form the provers can use, and that `Max` and `Min` are the greatest and the least |

Definitions named `Faulty...` are plausible bugs, used by no specification. Each
stands before the definition it is a variant of; with it in that definition's
place TLC finds the property violated that `PROJECT.json` names beside it. They
show that the properties can fail.

### Login

`pc` says where the thread is. A handler is one action unless it blocks or makes
a call during which the world moves; then it is cut there: `auth` and `autoauth`
(inside PAM), `start` (the PAM session is open, the child not forked), `launch`
(forked, `mSessionPid` not assigned), `cleanup` (the seconds of the purge),
`drain` (between two bytes of the pipe) and `loop`. While the thread is in such
a place the actions of `World` go on: input arrives, children die, signals are
delivered, the file is edited, another X client takes the keyboard or lets it go,
the clock passes the deadline, X dies, the machine reboots.

The variables are the program's, by name: `sessionPid`, `user`, `cfg`,
`countdown`, `pamh`, `enabled`, `box`, `menuOpen`, `mapped`, `grabbed`, and the
world's: `events`, `pipe`, `child`, `taken` (another client holds the keyboard),
`marker` (`/run/xlogin-autologin`) and the file, in three variables. `saved` is the
name in it, in the last line of the key that is within what `config_load()` reads;
`trusted` says whether it is root's alone; `exact` whether it has the key once, ends
with a newline and is far from 64 KB, so that what is written is what will be read.
`Loaded` is what `config_load()` makes of it: the name, if the file is trusted and the
name valid. `Writes` is a `config_set()` that succeeds: in an exact file it puts the
name there, in another one the next start may find any name (5.6, 5.13, 5.14); in both
cases the file is root's from then on. Four variables are history for the properties:
how many automatic logins this boot has seen, whether a countdown was cancelled,
whether the box was used since the form appeared, and `foreign`: the file is not what
`setUp()` has read or what a save has written, because it was not read as it stands,
because somebody has edited it, or because a save of the background lost its lines.

| Code | Action |
|---|---|
| `main()`, `setUp()`, `armAutologin()` | `Start` |
| `submit()` up to PAM; PAM's answer with `saveAutologinChoice()` | `Submit`, `SubmitEmpty`; `AuthFails`, `AuthPasses` |
| `startSession()` | `StartFails`, `StartForks`, `AssignPid` |
| the pipe's handler, `onSignalByte()`, `reapSession()` | `BeginDrain`, `DrainStop`, `DrainOtherChild`, `DrainSession`, `CleanupDone`, `EndDrain`, `Exit` |
| `tick()`, `tickCountdown()`, `autologin()` | `Tick`, `TickAutologin`, `AutoauthFails`, `AutoauthPasses` |
| `key()`, `button()` | `CancelAutologin`, `HandleDropped`, `HandleType`, ... |
| `autologinToggled()`, `setBackground()` | `HandleToggle`, `HandleBackground` |

The data is cut down to what the properties tell apart: a name is a model value,
the password is only empty or not (whether it is right is PAM's choice), an X
event is one of eight kinds. Saving may fail and the fork may fail, each a
nondeterministic choice. The keyboard is refused for as long as another client has it.
`Escape` empties both fields and is one of the outcomes of `HandleType`; the first key
of a dead-key sequence is eaten like motion.

### PamSession

`step` is the call into PAM that `auth.c` makes next. Each returns a success or
a failure and may ask questions first; `ledger` is what PAM holds for this
process: the handle, and the credentials and the session on it, or left of it.
The calls that take down (`CloseReturns`, `DeleteReturns`) may fail as well. `auth.c`
ignores their results and goes on to `pam_end()`, so what PAM did not take back
stays; `refused` records it, and the properties say that nothing else does. The caller
(`opened` is what it has been told) may call in any order that `auth.h` allows, also a
second login while a session is open. In `Login` the same is one step that opens or fails and one
that closes; the theorem `Contract` is what makes this cut sound: between two
calls there is a whole session, or no handle and nothing but what PAM refused to take
back. `PamPromise` says in the terms of `auth.h` who is in and how, and `PamSession`
implements it (`ImplementsPromise`).

### Panel

One action is one X event with its callback, since all of it happens in the one
thread before the next event. `mode` is who gets events (countdown, form,
session). A point of the screen is what control is there, and the place the open
menu has over it; the menu is placed above its button, so a row is identified by
the number of rows below it, and the two menus have different heights over the
same points. `power` is what the step asked `shutdown(8)` for.

Two things of the code are left out because the program cannot reach them: the
part of `Panel::key` for a disabled panel (`panel.cpp:301-309`) and the
`MenuOutside` branch of `Menu::click`, which `Panel::click` never calls for a
point outside. A panel is disabled only during PAM's answer, when no event is
handled (see 5.1), and during the countdown, when `App::key` takes all keys.

`Login` has one variable for the menu (open or not) and `Panel` has none for
logins but `mode`: the two are views of one program, cut where a login begins.
`Panel`'s `Submit`, `CountdownEnds` and `SessionEnds` do to the form what the
actions of `Login` of these stages do together.

### ConfigStore

A file is a sequence of lines, with two marks: whether the last line ends with a
newline and whether the file is root's alone (`trusted`). A line is one of the two
settings the program writes, with its value, or some other line: a comment, a key
of the launcher's, something unparseable. `key_of_line()` accepts a blank before
the `=` and the parser of `config_load()` does not; that is the field `seen`.
`XLOGIN_BG_MODE` and `XLOGIN_CONSOLE_VT` are never written by the program and count
as other lines.

`Size` is the bytes of a line and `Limit` stands for `CFG_MAX_BYTES`: `config_load()`
leaves what is behind it unread (`Read`), so a longer value in one line can push the next
out of what is read, and a shorter one can bring it back.

`step` is what `config_set()` does next: create the temporary file, copy, flush and
sync, rename, sync the directory. Each can fail, and leaves by `write_failed`
(`Fail`) or, after the rename, with a message only. `file` is what the path names;
`disk` is what it would name after a power cut in which the rename was lost;
`synced` and `flushed` say whether the blocks of the file and of the temporary file
are on the disk, since a rename may reach it before the data does. `Kill`, `PowerCut`
and `Edit` are enabled between any two steps. After the first two the call is gone
and the program starts anew. The history variables say what was there when the call
began and which premises of the properties hold: nobody else wrote (`rival`), all
could be read (`unread`), no call was cut short (`killed`).

The file is taken as small: stdio reads it in one piece, so the loop of
`config_set()` is one action, whose result after a read error is a prefix.

`Login` has of all this one name, the two marks `trusted` and `exact`, and a save that
works or not; `FailureHonest` and `NeverTorn` are what makes that sound, and
`SetIsLoaded` and `OthersKept` what it does with an exact file.

### Processes

`procs` is the table of processes: each has a stage, its real uid, gid and groups,
whether its effective uid is root's, and what it still has of xlogin's (signal
handlers, descriptors, environment). init and xlogin are in it. The session's child
goes through `forked`, `reset`, `clean`, `gid`, `groups`, `uid` to `session`, a stage
for each thing `launch_session()` does in it; the three calls that give up privileges
and the exec can fail. The other child starts as `power` and becomes `shutdown` or
writes errno into the pipe and is `leaving`. A child that ends is `dead` until it is
waited for. `pc` is where xlogin is: in the loop, in `read()` or `waitpid()` of
`spawn()`, or in `signal_user_processes()`, where reading an entry of `/proc` and
`kill()` are two steps. Between any two steps processes end, are forked at any free
pid, and change their owner; `young` marks those that were not there, or not the
user's, when the current walk began, `stale` that the pid under consideration has
changed hands.

`Login` has the child as one that lives or has died, `spawn()` as a call that fails
or not, and the purge as one step that ends. `SessionKnown`, `PowerHonest` and
`Returns` are what that rests on. The gap between `fork()` and the assignment of the
pid is in `Login`, where the events of that moment are; here it is one step.

### TextField

`buf`, `len` and `caret` are `mBuf`, `mLen` and `mCaret`. Of a byte the code looks at
no more than its class, so a byte is a model value that is a control, a continuation
byte, the first byte of a character of some width, or zero. `Accepted` is the filter
of `insert()` with its array of limited size, `LookedUp` what `XmbLookupString` or
`XLookupString` leaves of a text that does not fit, `Kept` what `setText()` has
inserted when its loop stops. `Begins` and `Ends` are the two walks over continuation
bytes, each as what it finds. `KeyOf` is `keyFromSym()`. `Composed` says whether there
is an input context; only with one does text arrive as whole characters, and this is
the assumption `TypedAssumption`.

`Editor` has the characters before the caret, those after it and the number of dots.
The mapping cuts the two halves of the array into characters at each byte that is not
a continuation.

### Screen

`pc` is where the server can come in between two requests: before the size is read,
between the size and the primary output, before the window is mapped, between the last
`XPending()` and the paint, and so on (the module lists the places). `ChangeScreen`,
`LoseFrame` and `StealFocus` are the server and its other clients; they are possible
at every place. `queue` is the set of kinds of event that wait.

| Code | Action |
|---|---|
| `open()` to the surface; `XRRSelectInput()`; `applyGeometry()` with `App::setUp()` or `App::relayout()` | `Connect`; `Subscribe`; `Resolve` |
| `syncScreenGeometry()` to the question for the primary output | `ReadSize` |
| the cases of `run()` about the window; its paint; `select()`; the tick | `TakeEvent`; `Drained`, `Paint`; `Wake`; `Tick` |
| what a key or a click changes in the picture; `submit()` or `autologin()` | `Touch`; `Submit` |
| `startSession()`, `hide()`; `reapSession()` and `show()` | `Accepted`, `Refused`; `Reap`, `ReadSize`, `Resolve`, `Show` |

`frame` is what can be seen: the size, clip, scale and layout that the last `paint()`
used. `laid` is the geometry of the last layout, and `Layout` computes from it where
panel and menu are. The code computes in `float`; `autoScale()` gives quarters, so
`Layout` has integers: the screen in pixels, the panel in units, and a unit as a number
of quarter pixels. It never divides but in `snap()` and `autoScale()`, which round.

`missed` is history: the size has changed and nobody tells the program, because RandR
is missing or not subscribed to yet. The next `show()` looks in any case and resets it. A
change between `XOpenDisplay()` and `XRRSelectInput()` counts as missed, although
another resize event may come later and bring the size with it.

Two things are left out because the program cannot reach them: `mResizePending`, set
only by a `refreshGeometry()` before `run()`, which nobody calls; and the cases in
which `XGetGeometry` fails for the root window.

`Login` has of all this `mapped` and `grabbed`, `Panel` the action `Relayout`. What
`Screen` adds is when a layout happens and that it fits what is shown.

## 3. The runs

| Run | Checks | Bounds |
|---|---|---|
| `login` | safety of `Login`, and `Seat` | alice, root and one whose name is not valid, five files (empty, with a valid name, an invalid one, not root's, not exact), edits, one pid, the form and the background, 1 waiting event, pipe of 2 bytes: 994 thousand states |
| `login_live` | `SessionUnobstructed`, `ChildDeathNoticed`, `SessionEndShowsForm`, `EveryLoginEnds`, `QuietScreenSettles` | alice, two pids (a session's and a shutdown's), another X client, the menu, a plain file, no edits: 144 thousand states |
| `pam_session` | all of `PamSession`, and `PamPromise` | two users, root, a name without account, every style of question while opening, every call failing: 213 states |
| `panel` | all of `Panel`, and `Confirm` | seven points, two images, directories of 0, 2 and 3 images: 206 thousand states |
| `text_field` | all of `TextField`, and `Editor` | an array of 7 bytes, texts of up to 5, characters of 1 to 3 bytes: 7.6 thousand states |
| `screen` | all of `Screen`, with liveness | three screens, one length of menu: 38 thousand states |
| `config` | all of `ConfigStore` | one user, two images (one with a quote in its name), seven files, lines of 1, 2 or 4 bytes and `Limit` of 7: 2.4 million states |
| `processes` | all of `Processes`, with liveness | init, xlogin and up to three others, alice and root: 654 thousand states |
| `login_hang` | violated: `OptionsDuringLogin` | as `login_live`, PAM may hang |
| `login_tick` | violated: `CountdownEnds` | as `login_live` |
| `pam_late` | violated: `AnswersHonest` | as `pam_session`, questions also while closing |
| `config_joined` | violated: `EveryOtherLine` | as `config` |

**What the safety properties say.** `SessionPaired`: between two handlers pid,
PAM handle and user agree. `ScreenUsable`: without a session the window is up and
the form is live or counting down. `SessionUnobstructed`: with one, the window is
neither mapped nor holds the keyboard. `OncePerBoot`, `CancelHolds`: over any
number of crashes in one boot. `BoxTruthful`: the box against the file, if the program
read it as it stands and nobody has edited it since (`foreign`); in `login` there are
files that are not read so, of which it says nothing, and saves of the background.
`ChildDeathNoticed`: a dead child has a byte in the pipe that makes the loop look.
`StopOnlyIdle`: once told to stop, there is no session. `AutologinEarned`,
`SessionEarned`: which steps may write a name into an exact file, or open a session, for
whom.
`ImplementsSeat`: all of it is a login screen in the sense of `Seat`.
`LedgerAgrees`, `EndsClean`, `AnswersHonest`, `ImplementsPromise`: the PAM side; the
first two say that PAM is asked for all that is on a handle, whichever call fails, and
not that it obeys. `MenuCoherent`, `FormBehindMenu`,
`BackgroundWorks`, `ImplementsConfirm`: the menu side. `NeverTorn`, `NoLitter`,
`FailureHonest`: `config_set()` against failures, kills and power cuts.
`RunsAsUser`, `SessionKnown`, `PowerHonest`, `OnlyTheirs`, `NoneLeft`, `Returns`:
processes. `SetIsLoaded`, `OthersKept`: `config_set()` against `config_load()`. They are about a
call that has the file to itself, and name their premises: `Once`, `Joins` and `Fits`,
which section 5 explains. `OthersKept` compares with what would have been loaded from
root's file, since the new file is root's and its name honoured (5.17).

`NothingBehind`: the text ends with its length, so a deleted password is nowhere in
the array, and the C string given to PAM is all that was entered. `WholeCharacters`:
with an input context, at any fill of the array, nothing is cut inside a character and
the caret stands in none. `ImplementsEditor`: the keys are those of a line editor on
characters. `ScreenShown`: when the loop sleeps, the window shows one frame in which
size, clip, scale and layout belong together and to the server's screen. `Reachable`:
the panel and an open menu can be seen and are where they belong, after any order of
resizes and clicks. `FocusKept`: when the loop sleeps, keys come here. `ResizeShown`: a
new size is shown in the end.

Type correctness is proved for every module (section 4) and is no part of the runs.

**Why the bounds are enough.** *One pid* in `login`: the program has at most one
session child, and a pid is free again once it has been waited for, so one id is used
again and again; other children are stray SIGCHLDs there. `login_live` has *two*, so
that one SIGCHLD can stand for the session's child and for that of `shutdown(8)`.
*Three accounts*: the code compares names only for equality with each other, with root's
uid, and with the pattern of valid names. Two of them are typed (`Typed`), the invalid
one is only in the file, so that its refusal by `saveAutologinChoice()` is left to the
proofs. *One waiting event*: every handler takes one
event and the loop empties the queue before it looks at anything else; the events are
kinds, and what came before is in the state. *A pipe of two bytes*:
two are enough for every order of SIGTERM and SIGCHLD and for the pipe to be full
when a signal comes; the pipe really holds 65536. `StrayLimit` keeps stray signals
from filling it: see 5.7. *The eight input
kinds* are divided: `login` has those that reach the file, `login_live` those of the
menu and the console, and both have typing, submitting and opening the menu; what is
never in one queue together is the console or the shutdown with the box or the
background. *Five and three rows, seven points*: rows shared by both menus,
a row only the taller has, a point outside both, the padding, and a control
behind each. *Three images* give both menus the same height, so that a row stays
where it is when the menus change. *Seven files* are what people have: none, that of
the installer, a key twice, longer than is loaded, a blank before `=`, somebody
else's, no newline at the end; a second call, of either key, meets what the first
one made of each. `Limit` stands for 64 KB: one file is over it, and in another a
background pushes the user behind it and, removed again, brings him back. *Three other processes* are both children and a stranger, or an old
process, its child and another user of a pid; walks go over them in every order of
their numbers. *Seven bytes, texts of five, pieces of two*: every character meets
every remaining room from none to more than its bytes, a text is cut by the filter, one
is too long for the lookup, and a name takes three pieces. *Three screens* are the
cases of `Layout`: no primary output, an output beside another one with a different
scale, and a screen smaller than the panel whose output is partly outside; all pairs are
changes. The numbers themselves do not matter: the theorems on `Layout` hold for all.
All counters of the models are finite by themselves: `autologins` is at most 1, which
is one of the properties.

**Deadlock** is checked in every run: xlogin never has to stop moving.

**Fairness.** Safety assumes none. `FairSpec` assumes weak fairness of what one
running thread does next (`HandleEvent`, `Proceed`, `HandleSignals`, `Start` by
init's respawn), of the clock, of the ticks, and of PAM's answer. It assumes
*strong* fairness of `BeginDrain`: the loop looks at the pipe only after it has
found the event queue empty, and a person is slower than the loop, so it finds it
empty again and again. For the tick only *weak* fairness is assumed: it needs a
quarter of a second without any input at all, which nothing guarantees.
`Processes` assumes weak fairness of
xlogin's own steps and of those of the child that it waits for in `read()` and
`waitpid()`, none of other processes. `Screen` assumes weak fairness of the thread's
next step and of PAM's answer, strong fairness of the taking of each kind of event (the
queue is first in, first out) and of finding the queue empty, and that the server
leaves the window alone in the end; it does not assume that a session ends.
`QuietScreenSettles` therefore says what happens once nobody touches anything,
and without that premise the property is false (`login_tick`). Nor is any fairness assumed
of the other X client: that it lets the keyboard go, and for good, is a premise of
`QuietScreenSettles` (`~taken`), since `tryGrabKeyboard()` can be refused every time. `HangSpec` leaves
out PAM's answer.

## 4. What is proved

All proofs are for arbitrary constants: any sets of names, accounts, roots and
pids, any capacity of the pipe, any points and images. They assume only the
named `ASSUME`s of the modules (roots are accounts, `None` is no name, `NoPid` is
no pid, the pipe holds more bytes than there are stray signals, a point names a control
or nothing, a directory's list is a sequence of images, names of users are no names of
images, marks such as `NoFile` are no files, pids are
positive and root is no user, the classes of bytes are disjoint and a character has at
least one byte, an input context delivers whole characters, a screen and an output have
a positive size).

| Theorem | Property |
|---|---|
| `LoginProofs`: `TypeCorrect`, `SessionsArePaired`, `ScreenIsUsable`, `SessionIsUnobstructed`, `AutologinOnce`, `BoxIsTruthful`, `StopsOnlyIdle` | invariants |
| `LoginProofs`: `CancelIsFinal`, `ChildDeathIsNoticed` | `CancelHolds`, `ChildDeathNoticed` |
| `LoginProofs`: `AutologinIsEarned`, `SessionIsEarned` | action properties |
| `LoginProofs`: `Implementation` | `Login` implements `Seat` |
| `PamProofs`: `TypeCorrect`, `Contract`, `DeletesOnlyEstablished`, `FreedClean`, `Implementation` | `PamSession`, and that it implements `PamPromise` |
| `PamProofs`: `BorrowedForOneLogin` | `AnswersHonest`, if no module asks for a password while it closes a session |
| `ConfigProofs`: `TypeCorrect`, `Atomic`, `FailuresAreHonest`, `CleansUp` | `NeverTorn`, `FailureHonest`, `NoLitter` |
| `ConfigProofs`: `WhatIsSetIsLoaded`, `OthersAreKept` | `SetIsLoaded`, `OthersKept` |
| `ProcessProofs`: `TypeCorrect`, `SessionIsTheUsers`, `PowerIsHonest`, `SessionIsKnown`, `PurgeIsTheirs`, `NobodyIsLeft` | `TypeOK`, `RunsAsUser`, `PowerHonest`, `SessionKnown`, `OnlyTheirs`, `NoneLeft` |
| `PanelProofs`: `TypeCorrect`, `MenuAlwaysCoherent`, `FormIsBehindMenu`, `SavedIsShown`, `Implementation` | `Panel`, and that it implements `Confirm` |
| `TextFieldProofs`: `TypeCorrect`, `NothingIsBehind`, `CharactersAreWhole` | `TypeOK`, `NothingBehind`, `WholeCharacters` |
| `TextFieldProofs`: `Implementation` | `TextField` implements `Editor`, if there is an input context |
| `ScreenProofs`: `PanelAlwaysVisible`, `PanelAlwaysOnPrimary`, `MenuAlwaysVisible` | the operators of `Layout`, for every screen and length of menu |
| `ScreenProofs`: `TypeCorrect`, `ScreenIsShown`, `IsReachable`, `FocusIsKept` | `TypeOK`, `ScreenShown`, `Reachable`, `FocusKept` |

**Login's argument.** None of the invariants is inductive: that pid and handle
agree at rest depends on what is known in the middle of a handler. `IInv`
(`LoginProperties`) has three parts. `PlaceInv` is an assertion for each value of
`pc`: in `auth` nobody is in, in `start` the handle is the user's and there is no
child, in `launch` there is a child, the handle is its user's and the window is
gone, in `cleanup` nobody is in and nothing is mapped. `BootInv` ties the history
of this boot to the marker: an automatic login or a cancel implies it, a countdown
implies it too but neither of the two. `BoxInv` ties file, copy and box: a file that is
not `foreign` is exact and has the name of the copy. Each action moves from one place's assertion to another's;
the properties are the assertions at rest. Theorem `Invariance` is the invariant,
the others follow from it. `ChildDeathNoticed` has an invariant of its own: in
the pipe only SIGCHLDs are further back than `StrayLimit` (`PipeInv`), because other
signals arrive only while it is shorter; so a full pipe has one in it and the write
that is lost does no harm. The lemmas follow one write and one read.

**PamSession's argument** is of the same kind: `IInv` says for each `step` what the
ledger holds, or PAM has refused to take back, and what the two globals are. `BorrowedForOneLogin` has `"secret" \notin
ClosingStyles` as its hypothesis, on the modules that are installed and not on the
program; `pam_late` is the counterexample without it.

**Panel's argument**: `TypeOK /\ MenuCoherent` is inductive. It is proved over the
operations actions are made of (a menu shown, closed, left alone, moved in, a row
activated), each a lemma, and then action by action. That a release can only
activate a row while the menu is open (`RowReleased`) follows from `Hit`, what a
point can be over.

**ConfigStore's argument.** `IInv` says that every file that has a name, before or
after a power cut, is whole and its blocks are on the disk (`FilesInv`), and what is
known at each step (`StepInv`): the temporary file exists from its creation to the
rename, its blocks are on the disk when it is renamed, and until then the file is
the one that was there. The lemmas show that what `config_set()` writes is a file
for every line and value; the theorems follow from the invariant. For `SetIsLoaded` and
`OthersKept` it has a third part, `WriteInv`: from the copy to the return, what is in
the temporary file and then in the file is `Rewritten` of what was there when the call
began, or of a part of it. What `Rewritten` does is one lemma, `RewrittenPuts`: the line of the
key is in one place, and every other line is where it was. `Others`, the lines with
their ranks, follows from the places, and `Loaded` from the greatest of them. If all
of a file is read, so are its places up to the greatest, and nothing else need be known
of the sum of sizes. That a file has the key once, ends with a newline and is short enough
are premises inside the properties, since the code is wrong without them (5.6, 5.13,
5.14).

**Processes' argument.** `IInv` has a part for each of the three: what the session's
child has given up at each stage (`ChildInv`); what the pipe, the child and the
history say of each other while `spawn()` waits (`HelperInv`); and that whoever is
about to be signalled belongs to the user, unless the pid has changed hands
(`WalkInv`). What ties them together is `SessionKnown`, which must hold of a table
in which others use the same pids again. `NoneLeft` has its own part, `SweepInv`: of
those who were the user's when the walk began and still are, the walk has passed none,
but in the first walk, and then it counts and there will be a second.

**TextField's argument.** `TypeOK` with both properties is inductive. The work is in
what an insertion and a removal do to an array of whole characters (`WholeBytes`): each
is a lemma over the three stretches of the array, before, in and behind the place, and
says that a whole text put between two characters, or one whole character taken out,
leaves whole characters and zeros behind the new end. That the field implements
`Editor` is about the characters themselves: `Characters` numbers the places where one
begins (`Heads`, `Nth`) and takes the bytes from each to the next (`Past`). A stretch cut
where a character begins has the characters of its two parts (`Split`), a stretch moved
as a whole keeps them (`Same`), and one whole character is one (`Single`); what each key
does to the two halves of the line follows. The hypothesis is `Composed`, for the reason
in 5.24.

**Induction.** The library's induction theorems take a predicate, and the provers cannot
put one in. `Induction` has the same for a set, from the theorem that `<` on the natural
numbers is well-founded, which takes a relation. That is enough for the least and the
greatest number of a set and for the k-th one; no theorem of the project needs more.

**Screen's argument** has two halves. For `Layout` it is arithmetic: `snap()` is off by
at most half a unit, and since the scale is one of nine numbers each claim about a
clamped place is linear for each of them. For the window, `IInv` says of every place
what the loop may rely on while it sleeps: the layout is that of the geometry except
between the two steps that change it (`LaidOut`), the picture is whole or will be painted
(`Drawn`), the size is the server's or an event, a request to come or nobody tells
(`SizeKnown`), the focus is there or its loss is in the queue (`FocusKnown`).

**Only model-checked**: liveness under fairness (`SessionEndShowsForm`,
`EveryLoginEnds` and `QuietScreenSettles` of `login_live`, `Returns`, `ResizeShown`),
which the prover does not do. Every safety property and every refinement that a passing
run checks is a theorem. The four violations are TLC's, too: a counterexample needs no
proof.

## 5. Where code and comments disagree

Those with the name of a run are shown by TLC, as a violation that is expected; the
others are observations made while modelling.

1. `README.md:51` and `panel.cpp:117`: Options stays available while a login is in
   progress. `submit()` calls `auth_login()` from the event loop (`main.cpp:326`),
   so nothing is handled until PAM answers. (`login_hang`)
2. `x11window.h:81`: the tick is called every `tickMs`. It runs only when
   `select()` times out (`x11window.cpp:724`), so motion that never pauses holds
   the countdown, and the keyboard, past its time. (`login_tick`)
3. `auth.c:27`: the answers are borrowed for the duration of one `auth_login()`
   call. PAM keeps the address of `conv_data`, a local of `auth_begin()`
   (`auth.c:155`), for as long as the handle lives; a module that asks something
   while the session is closed is answered out of a dead variable. (`pam_late`)
4. `menu.cpp:153`: moving off an armed row disarms it. `motion()` moves the
   highlight and leaves it armed. Nothing goes down without a second activation of
   that row (`ImplementsConfirm`), which is what the promise comes to.
5. `panel.cpp:238`: act only if it came up over what it went down on. The comparison
   is of row numbers, and the menu can be swapped from the keyboard while the
   button is held. A destructive entry still takes two activations.
6. `config.h:53`: rewrite one key, preserving every other line. A key that is not in
   the file is written behind the last line. If that line has no newline, both become
   one line: it is spoiled, the setting is lost, and 0 is returned. (`config_joined`)
7. `main.cpp:82-84`: a full pipe is harmless, since a byte is waiting. It is if the
   byte is a SIGCHLD; with 65536 stop signals in it a child's death is lost until
   the next one. The models bound stray signals below the capacity
   (`StrayLimit < PipeCap`).
8. `main.cpp:688-690`: the tick takes the keyboard back "when the user returns". It
   tries a quarter of a second after the switch, wherever the user is.
9. A stop signal that arrives during PAM's answer is judged after the session has
   started, and dropped.
10. The box is ticked for whoever is configured. If bob logs in and leaves it
   ticked, the automatic login moves from alice to bob.
11. If the X server dies, Xlib calls `exit()` and `auth_close_session()` is not
    called, although `auth.h` asks for it on every way out.
12. "Press any key to cancel": the first key of a dead-key or Compose sequence is
    taken by `XFilterEvent()` and does not cancel.
13. With a key twice in the file, `config_set()` replaces the first line and
    `config_load()` takes the last: what was set is not what is loaded (`Once`).
14. A new key that is appended behind 64 KB is not loaded, and a longer value can push
    the lines behind it there (`Fits`).
15. Any failure of `fopen()` is taken for a first write, and a read error for the end
    of the file: what could not be read is lost (`unread`).
16. An edit that is saved between the copy and the rename is lost (`rival`).
17. `main.cpp:534`: "the box must not say off while the file says on". It does when
    `config_load()` has ignored the name: the file is not root's alone, or the name is
    not valid (`config.c:150-164`). For the first, any later `config_set()`, of the
    background say, makes the file root's, and the name is honoured at the next start
    although nobody has ticked the box. `BoxTruthful` has the premise that the file was
    read as it stands, and `OthersKept` says what is loaded afterwards.

18. `cleanup.h:18`: "then SIGKILL whatever is left". What is forked during the second
    walk, at a pid the walk has passed, is left (`NoneLeft`). If the first walk finds
    nobody there is no second.
19. Between the look at the owner and `kill()` the pid can be given to another
    process (`stale`), which then gets the signal.
20. `power.c:46`: end of file means that the exec succeeded. It also means that the
    child was killed before it (`PowerHonest` names the case).
21. `x11window.h:169`: the primary output's rectangle. `syncScreenGeometry()` returns
    early when the size is the one it knows (`x11window.cpp:263`), so a change of the
    primary output alone, or one that is undone while the output is asked for, leaves
    `mPrimaryPx` and `mScale` at what they were. `ScreenShown` is about the size.
22. `autoScale()` goes by the height alone. On a portrait output of 720x1280 or
    1080x2400 the panel is wider than the output; it is then centred on the whole screen
    and its right end may be outside (`Visible`).
23. `menu.cpp:44`: a menu drawn off the edge is an escape route that is not there. One
    that is taller than the screen starts at the top, and its last rows are outside it,
    reachable from the keyboard only.
24. `textfield.h:151`: the caret is always on a character boundary. Without an input
    context text is Latin-1, and its bytes 0x80 to 0xBF look like continuation bytes:
    Backspace takes them away together with the character in front of them.
    `WholeCharacters` has `Composed` as its premise.
25. `setText()` (`textfield.cpp:74`) does stop when the array is full, but keeps the
    pieces that went in; `insert()` refuses rather than truncates. A name of the settings
    file is shorter than the array, so it does not happen.

26. `auth.c:217,260,262`: the results of taking down are ignored, and `pam_end()` follows.
    A session or credentials that PAM did not take back stay behind, and nobody is told
    (`refused`).

## 6. What is not modelled

- *Drawing, fonts, palette, widgets*: output only.
- *Image ownership checks and decoding*: calls of libraries; whether an image loads
  is a choice in `Panel`.
- *Resource paths*: a search along a list, without state.
- *The outline under the pointer and the scrolled part of a long text* in a field;
  cairo's drawing surface failing in `paint()`.
- *X error handlers*: they log; a fatal error is `Crash`.
- *Messages and logging*: no property is about their words.
- *PAM, polkit and init configuration, installer, release script, renderer*: run
  apart from the login screen. init's respawn is `Start`.
- *The race of an edit with `config_set()`*: in `Login`, an edit is a step before or
  after; inside it is in `ConfigStore`.
- *The text of the settings file in `Login`*: what lines come to count when one that is
  not exact is written is a free choice of a name there; how is in `ConfigStore`.
- *A PAM module that fails half-way*, with part of the credentials or of the session
  made: `auth.c` takes a failed call for one that did nothing.
- *`opendir()` of `/proc` failing, or the status of a process that cannot be read*
  (`cleanup.c:46-48`, `97`): the walk is then empty, or passes that process.
- *`unlink()` of the temporary file failing* in `config_set()`, whose result is ignored.
- *Lines of more than 1023 bytes* in the settings file, which `fgets()` cuts into
  several.

## 7. The plan

The order is that of importance: who gets a session, then what can go wrong at the
calls inside each step, then what the person touches.

1. `Login` + `Seat`, with the inductive invariant. *Done.*
2. `PamSession` + `PamPromise`. *Done.*
3. `Panel` + `Confirm`. *Done.*
4. `ConfigStore`. *Done.*
5. `TextField` + `Editor`. *Done.*
6. `Processes`. *Done.*
7. `Layout` and `Screen`. *Done.*
8. Proofs of what the loop over the settings' lines computes, of the walks over the
   processes, and of `TextField`'s refinement. *Done.*
9. Still to do: the composition of `Login` with `PamSession` and with `Processes`, from
   which it takes a login, the start of a session and its cleanup in words only
   (section 2).
