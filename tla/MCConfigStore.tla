--------------------------- MODULE MCConfigStore ----------------------------
(***************************************************************************)
(* ConfigStore with some files people have: constants for TLC.             *)
(***************************************************************************)
EXTENDS ConfigStore, TLC

CONSTANTS alice, wide, quoted, flags

JustAlice == {alice}
TwoImages == {wide, quoted}
OneUnsafe == {quoted}
OneRest   == {flags}

Other      == [key |-> "other", seen |-> FALSE, val |-> flags]
Seen(k, v) == [key |-> k, seen |-> TRUE, val |-> v]
Blanks(k)  == [key |-> k, seen |-> FALSE, val |-> wide]
Text(ls)   == [lines |-> ls, whole |-> TRUE, trusted |-> TRUE]

Auto == Seen("autologin", alice)
Bg   == Seen("background", wide)
NoBg == Seen("background", Empty)

\* The line of a long name takes the place of two.
LineSize(l) == CASE l.val = wide -> 4 [] l.val = Empty -> 1 [] OTHER -> 2

\* None; what install.sh writes; with a key twice; longer than is read; with a
\* blank before "="; in the hands of somebody else; and without a newline at
\* the end.  A background pushes the user of the second file out of what is
\* read; removed again, it brings him back.
SomeFiles ==
    {NoFile, Text(<<Other, NoBg, Auto>>), Text(<<Bg, Other, NoBg>>),
     Text(<<Other, Other, Other, Auto>>), Text(<<Blanks("background"), Other>>),
     [Text(<<Auto, Other>>) EXCEPT !.trusted = FALSE],
     [Text(<<Other, Auto>>) EXCEPT !.whole = FALSE]}
=============================================================================
