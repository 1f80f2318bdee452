----------------------------- MODULE TextField -----------------------------
(***************************************************************************)
(* One entry field of the form: class TextField (src/src/gfx/textfield.h   *)
(* and textfield.cpp), a fixed array of bytes with a length and a caret,   *)
(* and the key press that reaches it (KeyPress in X11Window::run and       *)
(* keyFromSym()).                                                          *)
(*                                                                         *)
(* Of a byte the code sees only its class: a control, a continuation byte  *)
(* of UTF-8 (10xxxxxx), or the first byte of a character, whose number of  *)
(* bytes is Width.  The array is a function from byte offsets, as in C.    *)
(* The outline that follows the pointer and the scrolled-off part of a     *)
(* long text are drawing and are left out; the number of dots is not.      *)
(***************************************************************************)
EXTENDS Naturals, Sequences, FiniteSets

CONSTANTS
    Capacity,    \* kCapacity, the bytes of mBuf
    AcceptMax,   \* sizeof(accepted) in insert()
    PieceMax,    \* how many bytes setText() hands to insert() at a time
    KeyMax,      \* sizeof(buf) - 1 in the KeyPress case of the loop
    First,       \* the bytes that begin a character
    Width,       \* how many bytes a character has that begins with b
    Cont,        \* the continuation bytes, isContinuation()
    Control,     \* the bytes below 0x20, and DEL
    Nul,         \* the zero byte
    Composed,    \* there is an input context, mXic: text comes as UTF-8
    Typed,       \* what a key press can produce, in bytes, <<>> included
    Names        \* what XLOGIN_AUTOLOGIN can be, for setText()

Text  == First \cup Cont
Byte  == Text \cup {Nul}
Slots == 0 .. Capacity - 1

\* The bytes f[0] .. f[n - 1] are a run of whole characters.
WholeBytes(f, n) ==
    /\ n > 0 => f[0] \in First
    /\ \A i \in 0 .. n - 1 : f[i] \in First =>
          /\ i + Width[f[i]] <= n
          /\ \A j \in i + 1 .. i + Width[f[i]] - 1 : f[j] \in Cont
          /\ i + Width[f[i]] < n => f[i + Width[f[i]]] \in First

WholeText(t) == WholeBytes([i \in 0 .. Len(t) - 1 |-> t[i + 1]], Len(t))

\* The text bytes of what arrived, as many as the filter's array holds.
Accepted(s) ==
    LET text == SelectSeq(s, LAMBDA b : b \in Text)
    IN  SubSeq(text, 1, IF Len(text) < AcceptMax THEN Len(text) ELSE AcceptMax)

\* What the lookup leaves of a string: with an input context one that does
\* not fit is not delivered (XBufferOverflow), without one it is cut.
LookedUp(s) == IF Len(s) <= KeyMax THEN s
               ELSE IF Composed THEN <<>> ELSE SubSeq(s, 1, KeyMax)

ASSUME SizesAssumption ==
    /\ Capacity \in Nat \ {0} /\ AcceptMax \in Nat
    /\ PieceMax \in 1 .. AcceptMax /\ KeyMax \in 0 .. AcceptMax
ASSUME BytesAssumption ==
    /\ First \cap Cont = {} /\ Nul \notin Text /\ Control \cap Byte = {}
    /\ Width \in [First -> Nat \ {0}] /\ Composed \in BOOLEAN
\* An input context composes whole characters, and controls on their own.
ASSUME TypedAssumption ==
    \A s \in Typed : /\ Accepted(LookedUp(s)) \in Seq(Text)
                     /\ Composed => WholeText(Accepted(LookedUp(s)))
\* config_load() takes an ASCII name, shorter than a field, or none.
ASSUME NamesAssumption ==
    \A n \in Names : /\ n \in Seq(First) /\ Len(n) < Capacity
                     /\ \A i \in 1 .. Len(n) : Width[n[i]] = 1

VARIABLES
    buf,       \* mBuf
    len,       \* mLen
    caret,     \* mCaret
    focused,   \* mFocused
    enabled    \* mEnabled

content == <<buf, len, caret>>
vars == <<content, focused, enabled>>

TypeOK == /\ buf \in [Slots -> Byte]
          /\ len \in Slots /\ caret \in 0 .. len
          /\ focused \in BOOLEAN /\ enabled \in BOOLEAN

Init == /\ buf = [i \in Slots |-> Nul] /\ len = 0 /\ caret = 0
        /\ focused = FALSE /\ enabled = TRUE
-----------------------------------------------------------------------------
(* Editing.  A definition called Faulty... is a plausible bug in the one it *)
(* precedes, which no specification uses.                                  *)

\* Fault: only the bytes in use are looked at, and the rest stays.
FaultyErase == len' = 0 /\ caret' = 0 /\ UNCHANGED buf

\* clear(): the whole array, whatever is in use.
Erase == len' = 0 /\ caret' = 0 /\ buf' = [i \in Slots |-> Nul]

\* Fault: the text always goes to the end.
FaultyInserted(t) ==
    [i \in Slots |-> CASE i < len          -> buf[i]
                       [] i \in len .. len + Len(t) - 1 -> t[i - len + 1]
                       [] OTHER            -> buf[i]]

\* The array with t moved in at the caret.
Inserted(t) ==
    [i \in Slots |-> CASE i < caret                          -> buf[i]
                       [] i \in caret .. caret + Len(t) - 1  -> t[i - caret + 1]
                       [] i \in caret + Len(t) .. len + Len(t) - 1
                                                             -> buf[i - Len(t)]
                       [] i = len + Len(t)                   -> Nul
                       [] OTHER                              -> buf[i]]

\* insert(): all of it or, if it does not fit with the zero, none.
Insert(t) ==
    IF t = <<>> \/ len + Len(t) >= Capacity
      THEN UNCHANGED content
      ELSE /\ buf' = Inserted(t)
           /\ len' = len + Len(t) /\ caret' = caret + Len(t)

\* Fault: the tail that was moved down stays where it was as well.
FaultyRemoved(from, to) ==
    [i \in Slots |-> IF i < from \/ i + to - from >= len THEN buf[i]
                     ELSE buf[i + to - from]]

\* The array without the bytes from .. to - 1, the tail zeroed.
Removed(from, to) ==
    [i \in Slots |-> CASE i < from             -> buf[i]
                       [] i >= from /\ i + to - from < len
                                               -> buf[i + to - from]
                       [] OTHER                -> Nul]

\* Fault: one byte back, as in an ASCII field.
FaultyBegins(s, c) == s = c - 1

\* The character in front of c > 0 begins at s.
Begins(s, c) == /\ s < c
                /\ s = 0 \/ buf[s] \notin Cont
                /\ \A i \in s + 1 .. c - 1 : buf[i] \in Cont

\* The character at c < len ends before e.
Ends(e, c) == /\ c < e /\ e <= len
              /\ e = len \/ buf[e] \notin Cont
              /\ \A i \in c + 1 .. e - 1 : buf[i] \in Cont

DeleteBack ==
    IF caret = 0 THEN UNCHANGED content
    ELSE \E s \in Slots :
            /\ Begins(s, caret)
            /\ buf' = Removed(s, caret)
            /\ len' = len - (caret - s) /\ caret' = s

DeleteForward ==
    IF caret >= len THEN UNCHANGED content
    ELSE \E e \in Slots :
            /\ Ends(e, caret)
            /\ buf' = Removed(caret, e)
            /\ len' = len - (e - caret) /\ UNCHANGED caret

MoveLeft ==
    /\ UNCHANGED <<buf, len>>
    /\ IF caret = 0 THEN UNCHANGED caret
       ELSE \E s \in Slots : Begins(s, caret) /\ caret' = s

MoveRight ==
    /\ UNCHANGED <<buf, len>>
    /\ IF caret >= len THEN UNCHANGED caret
       ELSE \E e \in Slots : Ends(e, caret) /\ caret' = e

Go(to) == caret' = to /\ UNCHANGED <<buf, len>>
-----------------------------------------------------------------------------
(* A key press.                                                            *)

\* The keysyms that mean something, those of the number pad included.
KeyOf == [XK_BackSpace |-> "Backspace",
          XK_Delete |-> "Delete",    XK_KP_Delete |-> "Delete",
          XK_Left   |-> "Left",      XK_KP_Left   |-> "Left",
          XK_Right  |-> "Right",     XK_KP_Right  |-> "Right",
          XK_Up     |-> "Up",        XK_KP_Up     |-> "Up",
          XK_Down   |-> "Down",      XK_KP_Down   |-> "Down",
          XK_Home   |-> "Home",      XK_KP_Home   |-> "Home",
          XK_End    |-> "End",       XK_KP_End    |-> "End",
          XK_Tab    |-> "Tab",       XK_ISO_Left_Tab |-> "BackTab",
          XK_Return |-> "Enter",     XK_KP_Enter  |-> "Enter",
          XK_Escape |-> "Escape",    NoSymbol     |-> "Plain"]

\* handleKey(): the keys that are not the field's own are handed back.
HandleKey(k, t) ==
    /\ enabled /\ focused
    /\ CASE k = "Backspace" -> DeleteBack
         [] k = "Delete"    -> DeleteForward
         [] k = "Left"      -> MoveLeft
         [] k = "Right"     -> MoveRight
         [] k = "Home"      -> Go(0)
         [] k = "End"       -> Go(len)
         [] k = "Plain"     -> Insert(t)
         [] OTHER           -> UNCHANGED content
    /\ UNCHANGED <<focused, enabled>>

\* A key press whose lookup found a keysym, with text or without: a key that
\* is not Plain never looks at the text.
KeyPressSym ==
    \E sym \in DOMAIN KeyOf \ {"NoSymbol"} : HandleKey(KeyOf[sym], <<>>)

\* A key press with text and no keysym that means anything, or with neither:
\* the lookup's status, or a text that did not fit, leaves none.
KeyPressText ==
    \E s \in Typed : HandleKey(KeyOf["NoSymbol"], Accepted(LookedUp(s)))
-----------------------------------------------------------------------------
(* What the panel and App do with the field.                               *)

\* handleClick(): where it lands does not matter, and a grey field ignores it.
Click == /\ enabled
         /\ focused' = TRUE /\ caret' = len
         /\ UNCHANGED <<buf, len, enabled>>

SetFocused == focused' \in BOOLEAN /\ UNCHANGED <<content, enabled>>

SetEnabled == enabled' \in BOOLEAN /\ UNCHANGED <<content, focused>>

Clear == Erase /\ UNCHANGED <<focused, enabled>>

\* Fault: the last piece, which is shorter than the others, is forgotten.
FaultyKept(n) == SubSeq(n, 1, (Len(n) \div PieceMax) * PieceMax)

\* What setText() has inserted when it stops: every piece, or as many whole
\* ones as there was room for.
Kept(n) == IF Len(n) < Capacity THEN n
           ELSE SubSeq(n, 1, ((Capacity - 1) \div PieceMax) * PieceMax)

SetText == \E n \in Names :
    /\ buf' = [i \in Slots |-> IF i < Len(Kept(n)) THEN Kept(n)[i + 1] ELSE Nul]
    /\ len' = Len(Kept(n)) /\ caret' = Len(Kept(n))
    /\ UNCHANGED <<focused, enabled>>

Next == KeyPressSym \/ KeyPressText \/ Click \/ SetFocused \/ SetEnabled \/ Clear \/ SetText

Spec == Init /\ [][Next]_vars
-----------------------------------------------------------------------------
(* The properties, for every sequence of keys, clicks and calls.           *)

\* The text ends with its length: what was deleted or cleared is nowhere in
\* the array, which for a password is the point, and text(), a C string that
\* is handed to PAM, is the whole of what was entered.
NothingBehind == \A i \in Slots : buf[i] = Nul <=> i >= len

\* With an input context the array holds whole characters only, full or not,
\* and the caret is never inside one (textfield.h, mCaret).
WholeCharacters ==
    Composed => /\ WholeBytes(buf, len)
                /\ caret < len => buf[caret] \in First
=============================================================================
