------------------------------ MODULE MCScreen ------------------------------
(***************************************************************************)
(* Screen on three screens: constants.                                       *)
(***************************************************************************)
EXTENDS Screen

Shown(width, height, output) == [w |-> width, h |-> height, prim |-> output]
Output(left, width, height)  == {[x |-> left, y |-> 0, w |-> width, h |-> height]}

\* A laptop whose driver names no primary output; the laptop with a 4K
\* monitor to its right as the primary one; and a screen smaller than the
\* panel, whose output is said to begin off to one side.
Displays == {Shown(1366, 768, {}),
             Shown(5206, 2160, Output(1366, 3840, 2160)),
             Shown(400, 300, Output(100, 400, 300))}

\* A menu that fits on the first two of them.
Menus == {12}
=============================================================================
