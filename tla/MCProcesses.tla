---------------------------- MODULE MCProcesses -----------------------------
(***************************************************************************)
(* Processes with room for a few processes: constants for TLC.             *)
(***************************************************************************)
EXTENDS Processes

CONSTANT alice

JustAlice == {alice}

\* init, xlogin, and two or three others.
SomePids == 1 .. 5
=============================================================================
