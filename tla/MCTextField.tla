---------------------------- MODULE MCTextField ----------------------------
(***************************************************************************)
(* TextField with characters of one, two and three bytes: constants.       *)
(***************************************************************************)
EXTENDS TextFieldProperties

Starts == {"a", "b", "2", "3"}
Widths == [f \in Starts |-> CASE f = "2" -> 2 [] f = "3" -> 3 [] OTHER -> 1]

\* Nothing, a control on its own, one character, a sequence that composed
\* two with a control between them, and a string that is too long.
Strokes == {<<>>, <<"^">>, <<"a">>, <<"b">>, <<"2", "c">>, <<"3", "c", "c">>,
            <<"2", "c", "^", "a">>, <<"a", "b", "a", "b", "a", "b">>}

Users == {<<"a", "b", "a", "b", "b">>, <<"b">>}
=============================================================================
