---------------------------- MODULE MCPamSession ----------------------------
(***************************************************************************)
(* PamSession on a small machine: constants for TLC.                       *)
(***************************************************************************)
EXTENDS PamSession, TLC

CONSTANTS alice, bob, root, ghost

Everybody    == {alice, bob, root, ghost}
WithAccount  == {alice, bob, root}
OnlyRoot     == {root}
AllStyles    == Styles
NoPrompts    == {"info", "other"}
=============================================================================
