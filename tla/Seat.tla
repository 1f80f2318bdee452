-------------------------------- MODULE Seat --------------------------------
(***************************************************************************)
(* What a login screen promises whoever sits at the machine, with nothing  *)
(* said of event loops, signals, PAM handles or countdowns: one person at  *)
(* a time is asked for, admitted, and has a session; the form is on the    *)
(* screen exactly when nobody has one; and the form comes back only after  *)
(* the session has been closed.  Login implements it.                      *)
(***************************************************************************)
CONSTANTS Names, None

VARIABLES
    phase,   \* what the seat is doing
    who,     \* for whom, or None
    shown    \* the login window is on the screen

vars == <<phase, who, shown>>

Phases == {"off", "form", "asking", "admitted", "session", "closing"}

TypeOK == phase \in Phases /\ who \in Names \cup {None} /\ shown \in BOOLEAN

Init == phase = "off" /\ who = None /\ shown = FALSE

\* The login screen starts.
Open == /\ phase = "off"
        /\ phase' = "form" /\ who' = None /\ shown' = TRUE

\* Somebody, or the countdown, asks for u's session.
Ask(u) == /\ phase = "form"
          /\ phase' = "asking" /\ who' = u /\ UNCHANGED shown

Refuse == /\ phase = "asking"
          /\ phase' = "form" /\ who' = None /\ UNCHANGED shown

\* Only the one who was asked for is admitted.
Admit == /\ phase = "asking"
         /\ phase' = "admitted" /\ UNCHANGED <<who, shown>>

\* The session cannot be started: it is closed, and the form is still there.
Abort == /\ phase = "admitted"
         /\ phase' = "form" /\ who' = None /\ UNCHANGED shown

Begin == /\ phase = "admitted"
         /\ phase' = "session" /\ shown' = FALSE /\ UNCHANGED who

End == /\ phase = "session"
       /\ phase' = "closing" /\ who' = None /\ UNCHANGED shown

Return == /\ phase = "closing"
          /\ phase' = "form" /\ shown' = TRUE /\ UNCHANGED who

\* The screen goes away: a stop between sessions, a failure, a reboot.
Off == phase' = "off" /\ who' = None /\ shown' = FALSE

Next == \/ Open \/ (\E u \in Names : Ask(u)) \/ Refuse \/ Admit \/ Abort
        \/ Begin \/ End \/ Return \/ Off

Spec == Init /\ [][Next]_vars
=============================================================================
