----------------------------- MODULE PamPromise -----------------------------
(***************************************************************************)
(* What auth.h promises its caller: one session at a time, opened for a    *)
(* user who gave the password or, if not root, automatically, and closed   *)
(* again.  PamSession implements it, one call into PAM after the other.    *)
(***************************************************************************)
CONSTANTS Users, Roots, None

VARIABLES
    holder,     \* whose session is open, or None
    given       \* whose password has just been given, or None

vars == <<holder, given>>

Init == holder = None /\ given = None

\* A password is given, or what was given counts no more.
Give == given' \in Users \cup {None} /\ UNCHANGED holder

OpenWithPassword(u) == /\ holder = None /\ given = u
                       /\ holder' = u /\ UNCHANGED given

OpenAutomatically(u) == /\ holder = None /\ u \notin Roots
                        /\ holder' = u /\ UNCHANGED given

Close == holder' = None /\ UNCHANGED given

Next == \/ Give \/ Close
        \/ \E u \in Users : OpenWithPassword(u) \/ OpenAutomatically(u)

Spec == Init /\ [][Next]_vars
=============================================================================
