------------------------------ MODULE MCPanel -------------------------------
(***************************************************************************)
(* Panel on a small screen: constants for TLC.                             *)
(***************************************************************************)
EXTENDS PanelProperties, TLC

CONSTANTS i1, i2

TwoImages  == {i1, i2}
\* No image, the two of them, and as many as give both menus five rows.
SomeLists  == {<<>>, <<i1, i2>>, <<i1, i2, i1>>}

At(u, z, b) == [under |-> u, zone |-> z, below |-> b]

\* The Options button is below the menu and the fields are behind it; a menu
\* of three rows does not reach as high as one of five.
SomePoints == {At("Options", "out", 0), At("Login", "out", 0),
               At("Autologin", "row", 0), At("Nothing", "row", 1),
               At("Pass", "row", 2), At("User", "row", 3),
               At("Nothing", "pad", 0)}
=============================================================================
