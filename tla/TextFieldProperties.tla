------------------------ MODULE TextFieldProperties ------------------------
(***************************************************************************)
(* The field as a line of characters: the mapping under which TextField    *)
(* implements Editor.                                                      *)
(***************************************************************************)
EXTENDS TextField, FiniteSetsExt

\* Where the characters in the bytes lo .. hi - 1 of the array f begin: at lo
\* and at every byte that is not a continuation.
Heads(f, lo, hi) == {i \in lo .. hi - 1 : i = lo \/ f[i] \notin Cont}

\* Where the character that begins at i ends, and the next one begins.
Past(f, i, hi) == Min({e \in i + 1 .. hi : e = hi \/ f[e] \notin Cont})

\* The bytes lo .. hi - 1 one after the other.
Bytes(f, lo, hi) == [j \in 1 .. hi - lo |-> f[lo + j - 1]]

\* The k-th number of a set, counted from 1.
Nth(S, k) == CHOOSE i \in S : Cardinality({j \in S : j < i}) = k - 1

Characters(f, lo, hi) ==
    LET heads == Heads(f, lo, hi)
    IN  [k \in 1 .. Cardinality(heads) |->
            Bytes(f, Nth(heads, k), Past(f, Nth(heads, k), hi))]

CharactersOf(t) == Characters([i \in 0 .. Len(t) - 1 |-> t[i + 1]], 0, Len(t))

\* Fault: every byte is a dot, so that an accented letter shows two.
FaultyShown == len

\* The dots of a masked field: charsBeforeCaret() and those after it.
Shown == Cardinality({i \in 0 .. len - 1 : buf[i] \notin Cont})

KeyStrings  == {CharactersOf(Accepted(LookedUp(s))) : s \in Typed}
FieldValues == {CharactersOf(n) : n \in Names \cup {<<>>}}

Promise == INSTANCE Editor WITH
    Strings <- KeyStrings,
    Values  <- FieldValues,
    before  <- Characters(buf, 0, caret),
    after   <- Characters(buf, caret, len),
    dots    <- Shown

\* Backspace, Delete, the arrows, typing and setText() on bytes are the
\* operations of a line editor on characters, at any fill of the array.
ImplementsEditor == Promise!Spec
=============================================================================
