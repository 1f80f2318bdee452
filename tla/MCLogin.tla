------------------------------ MODULE MCLogin ------------------------------
(***************************************************************************)
(* Login on a small machine: constants for TLC.                            *)
(***************************************************************************)
EXTENDS LoginProperties, TLC

CONSTANTS alice, root, odd, p1, p2

\* odd is an account whose name config_valid_username() refuses.
ThreeNames     == {alice, root, odd}
TwoNames       == {alice, root}
OnlyRoot       == {root}
JustAlice      == {alice}
NoRoots        == {}
OnePid         == {p1}
TwoPids        == {p1, p2}

\* The form and the file; the form, the menu and the shutdown child.
FormInputs     == {"type", "toggle", "submit", "options", "background"}
MenuInputs     == {"motion", "type", "submit", "options", "console", "power"}

\* A file as install.sh leaves it, with a name in it or not.
Plain(u)       == [name |-> u, trusted |-> TRUE, exact |-> TRUE]
PlainFiles     == {Plain(None), Plain(alice)}

\* ... and files that are not read as they stand: one that others can write,
\* one with a name that is not valid, one with lines joined or repeated.
ManyFiles      == {Plain(None), Plain(alice), Plain(odd),
                   [Plain(alice) EXCEPT !.trusted = FALSE],
                   [Plain(alice) EXCEPT !.exact = FALSE]}
=============================================================================
