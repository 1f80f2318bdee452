------------------------------ MODULE Confirm -------------------------------
(***************************************************************************)
(* What the Options menu promises of the two actions that cannot be undone *)
(* (menu.h: Shutdown and Restart need a second click): each is asked for   *)
(* first, and done only if nothing else has come between.                  *)
(***************************************************************************)
CONSTANTS Final, Quiet      \* the final actions; no action

VARIABLES
    asked,      \* the action that waits for its confirmation, or Quiet
    done        \* the action that the last step did, or Quiet

vars == <<asked, done>>

Init == asked = Quiet /\ done = Quiet

Ask(a) == asked' = a /\ done' = Quiet

Confirmed(a) == asked = a /\ asked' = Quiet /\ done' = a

Cancel == asked' = Quiet /\ done' = Quiet

Next == Cancel \/ \E a \in Final : Ask(a) \/ Confirmed(a)

\* Whatever else happens leaves the question as it is.
Other == UNCHANGED asked /\ done' = Quiet

Spec == Init /\ [][Next \/ Other]_vars
=============================================================================
