------------------------------- MODULE Editor -------------------------------
(***************************************************************************)
(* What an entry field promises: a line of characters with a caret between *)
(* two of them.  A key enters all of what it produced or nothing, and      *)
(* moves over or takes away one character; a masked field shows one dot    *)
(* for every character.  There are no bytes here.                          *)
(***************************************************************************)
EXTENDS Sequences, Naturals

CONSTANTS Strings,  \* what one key can enter, as sequences of characters
          Values    \* what the program can put in the field

VARIABLES before, after,   \* the characters on the two sides of the caret
          dots             \* how many are shown

vars == <<before, after, dots>>

Line(b, a) == before' = b /\ after' = a /\ dots' = Len(b) + Len(a)

Front(s) == SubSeq(s, 1, Len(s) - 1)
Last(s)  == s[Len(s)]

Init == before = <<>> /\ after = <<>> /\ dots = 0

Enter     == \E s \in Strings : Line(before \o s, after)
Backspace == before # <<>> /\ Line(Front(before), after)
Delete    == after # <<>> /\ Line(before, Tail(after))
Left      == /\ before # <<>>
             /\ Line(Front(before), <<Last(before)>> \o after)
Right     == after # <<>> /\ Line(Append(before, Head(after)), Tail(after))
Home      == Line(<<>>, before \o after)
End       == Line(before \o after, <<>>)
Put       == \E v \in Values : Line(v, <<>>)

Next == Enter \/ Backspace \/ Delete \/ Left \/ Right \/ Home \/ End \/ Put

Spec == Init /\ [][Next]_vars
=============================================================================
