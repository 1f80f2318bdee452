------------------------------- MODULE Screen -------------------------------
(***************************************************************************)
(* The window on a screen that changes: class X11Window                    *)
(* (src/src/platform/x11window.cpp) from open() to paint(), and the        *)
(* handlers of App (src/src/main.cpp) that hide it, show it again and lay  *)
(* the panel out.                                                          *)
(*                                                                         *)
(* The X server outlives every session and runs beside the program: a      *)
(* session, or a cable, changes the screen's size and its primary output   *)
(* between any two requests.  pc is the place in the program's thread      *)
(* where the server can come in between:                                   *)
(*                                                                         *)
(*   "connect"    before XOpenDisplay(), which copies the size             *)
(*   "subscribe"  the window is up, XRRSelectInput() comes next            *)
(*   "resolve"    applyGeometry() asks for the primary output              *)
(*   "drain"      in run(), taking events while there are any              *)
(*   "paint"      XPending() has found none                                *)
(*   "select"     painted if need be, in or just before select()           *)
(*   "read"       syncScreenGeometry() is about to ask for the size        *)
(*   "map"        show() has brought the geometry up to date               *)
(*   "asking"     in auth_login() or auth_autologin()                      *)
(*                                                                         *)
(* Events are a set of kinds.  Two of a kind have the effect of one that   *)
(* is handled when the later one is, and no property depends on the order  *)
(* of different kinds.  The end of the program, key presses and the panel  *)
(* behind the menu are those of Login and Panel.  FocusOut events that a   *)
(* grab causes are ignored by the code and are left out.                   *)
(***************************************************************************)
EXTENDS Layout

CONSTANTS
    Screens,    \* what the server can show: w, h, and prim, a set with the
                \* primary output's rectangle or with nothing
    RowCounts,  \* how many rows a menu can have
    None        \* no frame, no menu, no layout yet

Rectangles == [x : Int, y : Int, w : Nat \ {0}, h : Nat \ {0}]

ASSUME ScreensAssumption ==
    /\ Screens # {}
    /\ \A s \in Screens : /\ s.w \in Nat \ {0} /\ s.h \in Nat \ {0}
                          /\ s.prim \subseteq Rectangles
ASSUME RowsAssumption == RowCounts \subseteq Nat

VARIABLES
    \* the X server
    scr,       \* the screen it shows
    queue,     \* the kinds of event it has for the program
    focus,     \* the program's window has the input focus
    win,       \* the window's size
    mapped,    \* the window is viewable
    frame,     \* what can be seen in it: what the last paint() put there
    missed,    \* the size has changed and no event will tell
    \* X11Window
    pc,
    after,     \* where refreshGeometry() returns to, "drain" or "map"
    pixel,     \* mPixelW, mPixelH
    primary,   \* mPrimaryPx
    scale,     \* mScale
    surface,   \* the size mTarget clips to
    randr,     \* mRandr
    dirty,     \* mDirty
    \* App and Panel
    laid,      \* the geometry of the last Panel::layout()
    menu,      \* the open menu and its place
    session    \* mSessionPid > 0

server   == <<scr, queue, focus, win, mapped, frame, missed>>
geometry == <<pixel, primary, scale, surface>>
form     == <<laid, menu>>
vars == <<server, geometry, form, pc, after, randr, dirty, session>>

Size(s)  == [w |-> s.w, h |-> s.h]
NoSize   == [w |-> 0, h |-> 0]
Whole(p) == [x |-> 0, y |-> 0, w |-> p.w, h |-> p.h]

\* FocusOut in the two modes of a real loss, the second with a grab held.
RealLoss == {"NotifyNormal", "NotifyWhileGrabbed"}
Kinds    == {"ScreenChange", "Configure", "Expose"} \cup RealLoss
Places   == {"connect", "subscribe", "resolve", "drain", "paint", "select",
             "read", "map", "asking"}
Opening  == {"connect", "subscribe"}

Geometry == [w |-> pixel.w, h |-> pixel.h, prim |-> primary, scale |-> scale]
Picture  == [size |-> pixel, clip |-> surface, scale |-> scale, laid |-> laid]

Init == /\ scr \in Screens /\ queue = {} /\ focus = FALSE
        /\ win = NoSize /\ mapped = FALSE /\ frame = None /\ missed = FALSE
        /\ pc = "connect" /\ after = "drain"
        /\ pixel = NoSize /\ primary = Whole(NoSize) /\ scale = 4
        /\ surface = NoSize /\ randr = FALSE /\ dirty = TRUE
        /\ laid = None /\ menu = None /\ session = FALSE
-----------------------------------------------------------------------------
(* The server and its other clients.                                       *)

\* RRScreenChangeNotify goes to whoever has asked for it by then.
Subscribed == randr /\ pc \notin Opening

\* Nobody tells, and no request that is still to come reads the size.
Untold(s) == /\ ~Subscribed /\ Size(s) # Size(scr)
             /\ mapped \/ pc \in {"resolve", "map"}

ChangeScreen ==
    \E s \in Screens \ {scr} :
        /\ scr' = s
        /\ queue' = IF Subscribed THEN queue \cup {"ScreenChange"} ELSE queue
        /\ missed' = (~Subscribed /\ (missed \/ Untold(s)))
        /\ UNCHANGED <<focus, win, mapped, frame>>
        /\ UNCHANGED <<geometry, form, pc, after, randr, dirty, session>>

\* The server loses what the window shows, as on a switch to a console.
LoseFrame == /\ mapped /\ frame # None
             /\ frame' = None /\ queue' = queue \cup {"Expose"}
             /\ UNCHANGED <<scr, focus, win, mapped, missed>>
             /\ UNCHANGED <<geometry, form, pc, after, randr, dirty, session>>

\* Another client takes the focus; the event says whether anybody had a grab,
\* and nearly always the program has one.
StealFocus ==
    /\ focus /\ focus' = FALSE
    /\ \E mode \in RealLoss : queue' = queue \cup {mode}
    /\ UNCHANGED <<scr, win, mapped, frame, missed>>
    /\ UNCHANGED <<geometry, form, pc, after, randr, dirty, session>>
-----------------------------------------------------------------------------
(* Opening.                                                                *)

\* open() to the drawing surface: display, size, window, map, round trip.
Connect == /\ pc = "connect" /\ pc' = "subscribe"
           /\ pixel' = Size(scr) /\ win' = Size(scr) /\ surface' = Size(scr)
           /\ mapped' = TRUE /\ queue' = queue \cup {"Expose"}
           /\ UNCHANGED <<scr, focus, frame, missed>>
           /\ UNCHANGED <<primary, scale, form, after, randr, dirty, session>>

Subscribe == /\ pc = "subscribe" /\ pc' = "resolve" /\ after' = "drain"
             /\ randr' \in BOOLEAN
             /\ UNCHANGED <<server, geometry, form, dirty, session>>

\* takeFocus(): not for a window that cannot be seen.
TakeFocus == focus' = (focus \/ mapped)

\* The panel laid out, and an open menu put at its new button.
LayOut(g) ==
    /\ laid' = g
    /\ menu' = IF menu = None THEN None ELSE MenuFor(g, menu.rows)

\* applyGeometry(), then the layout: by App::setUp() the first time, when
\* open() has also taken the focus and main() goes on to run(), and by
\* App::relayout() every other time.  Without a usable primary
\* output it is the whole screen of the size that was read.
Resolve ==
    /\ pc = "resolve" /\ pc' = after /\ dirty' = TRUE
    /\ \E r \in IF scr.prim = {} THEN {Whole(pixel)} ELSE scr.prim :
          /\ primary' = r /\ scale' = autoScale(r.h)
          /\ LayOut([w |-> pixel.w, h |-> pixel.h, prim |-> r, scale |-> autoScale(r.h)])
    /\ IF laid = None THEN TakeFocus ELSE UNCHANGED focus
    /\ UNCHANGED <<scr, queue, win, mapped, frame, missed>>
    /\ UNCHANGED <<pixel, surface, after, randr, session>>
-----------------------------------------------------------------------------
(* The loop.                                                               *)

\* The events that make run() look at the size: RandR's, and the window's.
FaultyRefreshing == {"Configure"}
Refreshing == {"ScreenChange", "Configure"}

\* Fault: the focus is only taken back when there was no grab.
FaultyRealLosses == {"NotifyNormal"}
RealLosses == RealLoss

TakeEvent(k) ==
    /\ pc = "drain" /\ k \in queue
    /\ queue' = queue \ {k}
    /\ IF k \in Refreshing THEN pc' = "read" /\ after' = "drain"
                           ELSE UNCHANGED <<pc, after>>
    /\ IF k \in RealLosses THEN TakeFocus ELSE UNCHANGED focus
    /\ dirty' = (dirty \/ k = "Expose")
    /\ UNCHANGED <<scr, win, mapped, frame, missed>>
    /\ UNCHANGED <<geometry, form, randr, session>>

\* syncScreenGeometry(), up to the question which output is the primary one.
\* The server clears a window whose size changes, and says so.
ReadSize ==
    /\ pc = "read"
    /\ IF Size(scr) = pixel
         THEN pc' = after /\ UNCHANGED <<server, geometry>>
         ELSE /\ pc' = "resolve"
              /\ pixel' = Size(scr) /\ win' = Size(scr) /\ surface' = Size(scr)
              /\ frame' = None
              /\ queue' = queue \cup {"Configure"} \cup (IF mapped THEN {"Expose"} ELSE {})
              /\ UNCHANGED <<scr, focus, mapped, missed, primary, scale>>
    /\ UNCHANGED <<form, after, randr, dirty, session>>

\* paint() into a window that can be seen.
Painted == frame' = IF mapped THEN Picture ELSE None

Drained == /\ pc = "drain" /\ queue = {} /\ pc' = "paint"
           /\ UNCHANGED <<server, geometry, form, after, randr, dirty, session>>

Paint == /\ pc = "paint" /\ pc' = "select"
         /\ IF dirty THEN Painted ELSE UNCHANGED frame
         /\ dirty' = FALSE
         /\ UNCHANGED <<scr, queue, focus, win, mapped, missed>>
         /\ UNCHANGED <<geometry, form, after, randr, session>>

Wake == /\ pc = "select" /\ queue # {} /\ pc' = "drain"
        /\ UNCHANGED <<server, geometry, form, after, randr, dirty, session>>

\* tick(): drawn anew if there is a countdown or the keyboard was retaken.
Tick == /\ pc = "select" /\ queue = {} /\ pc' = "drain" /\ dirty' \in BOOLEAN
        /\ UNCHANGED <<server, geometry, form, after, randr, session>>
-----------------------------------------------------------------------------
(* What the person does, and the session.                                  *)

\* Keys and clicks on the form: some control looks different.
Touch == /\ pc = "drain" /\ ~session /\ dirty' = TRUE
         /\ \/ UNCHANGED menu
            \/ menu' = None
            \/ \E n \in RowCounts : menu' = MenuFor(laid, n)
         /\ UNCHANGED <<server, geometry, laid, pc, after, randr, session>>

\* submit() or, at the end of the countdown, autologin(): painted at once.
Submit == /\ pc \in {"drain", "select"} /\ ~session /\ menu = None
          /\ pc' = "asking" /\ Painted /\ dirty' = FALSE
          /\ UNCHANGED <<scr, queue, focus, win, mapped, missed>>
          /\ UNCHANGED <<geometry, form, after, randr, session>>

Refused == /\ pc = "asking" /\ pc' = "drain" /\ dirty' = TRUE
           /\ UNCHANGED <<server, geometry, form, after, randr, session>>

\* Fault: show() maps the window as it was hidden.
FaultyShowFrom == "map"

\* show() looks at the size before it maps.
ShowFrom == "read"

\* startSession(): painted once more, keyboard and screen are given up.  If
\* nothing could be launched, show() follows at once.
Accepted ==
    /\ pc = "asking" /\ session' \in BOOLEAN
    /\ pc' = IF session' THEN "drain" ELSE ShowFrom
    /\ after' = IF session' THEN "drain" ELSE "map"
    /\ dirty' = FALSE
    /\ mapped' = FALSE /\ frame' = None /\ focus' = FALSE /\ missed' = FALSE
    /\ queue' = IF focus THEN queue \cup {"NotifyNormal"} ELSE queue
    /\ UNCHANGED <<scr, win, geometry, form, randr>>

\* reapSession(), from the self-pipe: show() begins.
Reap == /\ pc = "select" /\ session /\ session' = FALSE
        /\ pc' = ShowFrom /\ after' = "map"
        /\ UNCHANGED <<server, geometry, form, randr, dirty>>

\* The rest of show(), and Panel::reset() behind it.
Show == /\ pc = "map" /\ pc' = "drain" /\ after' = "drain"
        /\ mapped' = TRUE /\ queue' = queue \cup {"Expose"} /\ focus' = TRUE
        /\ dirty' = TRUE /\ menu' = None
        /\ UNCHANGED <<scr, win, frame, missed>>
        /\ UNCHANGED <<geometry, laid, randr, session>>
-----------------------------------------------------------------------------
World   == ChangeScreen \/ LoseFrame \/ StealFocus
Events  == \E k \in Kinds : TakeEvent(k)
Program == \/ Connect \/ Subscribe \/ Resolve \/ ReadSize
           \/ Drained \/ Paint \/ Wake \/ Tick \/ Reap \/ Show
Person  == Touch \/ Submit
Pam     == Refused \/ Accepted

Next == World \/ Events \/ Program \/ Person \/ Pam

Spec == Init /\ [][Next]_vars

\* The one thread goes on, and PAM answers.  The queue is first in, first
\* out, so what is in it is taken.  That the loop finds it empty, too, needs
\* the world to leave the window alone in the end.
FairSpec ==
    /\ Spec
    /\ WF_vars(Connect) /\ WF_vars(Subscribe) /\ WF_vars(Resolve)
    /\ WF_vars(ReadSize) /\ WF_vars(Paint) /\ WF_vars(Show) /\ WF_vars(Pam)
    /\ WF_vars(Wake)
    /\ \A k \in Kinds : SF_vars(TakeEvent(k))
    /\ SF_vars(Drained) /\ <>[][~World]_vars
-----------------------------------------------------------------------------
(* The properties.                                                         *)

TypeOK ==
    /\ scr \in Screens /\ queue \subseteq Kinds /\ focus \in BOOLEAN
    /\ mapped \in BOOLEAN /\ missed \in BOOLEAN
    /\ pc \in Places /\ after \in {"drain", "map"}
    /\ pixel \in [w : Nat, h : Nat] /\ win = pixel /\ surface = pixel
    /\ primary \in [x : Int, y : Int, w : Nat, h : Nat]
    /\ scale = autoScale(primary.h)
    /\ randr \in BOOLEAN /\ dirty \in BOOLEAN
    /\ session \in BOOLEAN

Settled == pc = "select" /\ queue = {}

\* When the loop sleeps, the window shows one whole frame: window, surface,
\* scale and layout are those of one size, and it is the server's, unless
\* the server has changed without an event since the window was last shown.
ScreenShown ==
    Settled /\ mapped =>
        /\ frame = Picture /\ laid = Geometry
        /\ win = pixel /\ surface = pixel
        /\ ~missed => pixel = Size(scr)

\* Whatever the order of resizes, the panel is on the screen and inside its
\* output, and an open menu where its button is and on the screen, as far
\* as there is room (the comments of Panel::layout() and Menu::open()).
Reachable ==
    laid # None =>
        /\ PanelVisible(laid) /\ PanelOnPrimary(laid)
        /\ menu # None => menu = MenuFor(laid, menu.rows) /\ MenuVisible(menu, laid)

\* When the loop sleeps, keys come to the window, whoever took the focus,
\* during a grab or not (the case FocusOut of run()).
FocusKept == Settled /\ mapped => focus

\* A new size is shown, unless a session or another size comes first.
ResizeShown ==
    \A z \in {Size(s) : s \in Screens} :
        Size(scr) = z /\ ~missed ~>
            \/ Size(scr) # z \/ missed \/ session
            \/ frame # None /\ frame.size = z /\ frame.clip = z
=============================================================================
