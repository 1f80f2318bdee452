-------------------------- MODULE TextFieldProofs --------------------------
(***************************************************************************)
(* Proofs about the entry field, for every size of its array, every table  *)
(* of character widths and every keyboard.                                 *)
(*                                                                         *)
(* The three parts of the invariant lean on each other: that a removal     *)
(* zeroes exactly the tail needs the caret in range, that it takes whole   *)
(* characters needs that no byte in use is zero.  First the two ways in    *)
(* which the array changes shape, then one lemma for each action.          *)
(*                                                                         *)
(* The refinement is about the characters of a stretch of the array: what  *)
(* is cut into characters at a place where one begins is the characters of *)
(* the two halves (Split), and what is moved as a whole keeps them (Same). *)
(* With these each key is a lemma over the line as a sequence.             *)
(***************************************************************************)
EXTENDS TextFieldProperties, Induction, SequenceTheorems, TLAPS

Inv == TypeOK /\ NothingBehind /\ WholeCharacters

-----------------------------------------------------------------------------
(* The k-th number of a set.                                               *)

Below(S, i) == {j \in S : j < i}

\* A number has its own number of smaller ones.
LEMMA NthIs ==
    ASSUME NEW S \in SUBSET Nat, IsFiniteSet(S), NEW k \in Nat,
           NEW i \in S, Cardinality(Below(S, i)) = k - 1
    PROVE  Nth(S, k) = i
<1>1. ASSUME NEW a \in S, NEW b \in S, a < b
      PROVE  Cardinality(Below(S, a)) < Cardinality(Below(S, b))
  <2>1. IsFiniteSet(Below(S, a)) /\ IsFiniteSet(Below(S, b))
    BY FS_Subset DEF Below
  <2>2. Below(S, a) \cup {a} \subseteq Below(S, b) /\ a \notin Below(S, a)
    <3>1. \A j \in S : j < a => j < b
      BY <1>1
    <3>2. ~(a < a)
      OBVIOUS
    <3>. QED BY <1>1, <3>1, <3>2, Zenon DEF Below
  <2>3. /\ Cardinality(Below(S, a) \cup {a}) = Cardinality(Below(S, a)) + 1
        /\ Cardinality(Below(S, a) \cup {a}) <= Cardinality(Below(S, b))
    BY <2>1, <2>2, FS_AddElement, FS_Subset
  <2>. QED BY <2>1, <2>3, FS_CardinalityType
<1>2. \A j \in S : Cardinality(Below(S, j)) = k - 1 => j = i
  <2>. SUFFICES ASSUME NEW j \in S, Cardinality(Below(S, j)) = k - 1, j # i
                PROVE  FALSE
    OBVIOUS
  <2>1. i < j \/ j < i
    OBVIOUS
  <2>. QED BY <2>1, <1>1
<1>. QED BY <1>2 DEF Nth, Below

LEMMA NthExists ==
    ASSUME NEW S \in SUBSET Nat, IsFiniteSet(S)
    PROVE  \A k \in 1 .. Cardinality(S) :
              Nth(S, k) \in S /\ Cardinality(Below(S, Nth(S, k))) = k - 1
<1>. DEFINE T == {k \in Nat : k + 1 <= Cardinality(S) =>
                     \E i \in S : Cardinality(Below(S, i)) = k}
<1>0. Cardinality(S) \in Nat
  BY FS_CardinalityType
<1>1. 0 \in T
  <2>. SUFFICES ASSUME 1 <= Cardinality(S)
                PROVE  \E i \in S : Cardinality(Below(S, i)) = 0
    BY <1>0
  <2>1. S # {}
    BY FS_EmptySet
  <2>2. PICK i \in S : \A j \in S : i <= j
    BY <2>1, LeastNatural
  <2>3. Below(S, i) = {}
    <3>1. \A j \in S : ~(j < i)
      BY <2>2
    <3>. QED BY <3>1 DEF Below
  <2>. QED BY <2>3, FS_EmptySet
<1>2. ASSUME NEW k \in Nat, k \in T PROVE k + 1 \in T
  <2>. SUFFICES ASSUME k + 2 <= Cardinality(S)
                PROVE  \E i \in S : Cardinality(Below(S, i)) = k + 1
    BY <1>0
  <2>1. PICK i \in S : Cardinality(Below(S, i)) = k
    BY <1>0, <1>2
  <2>. DEFINE B == Below(S, i) \cup {i}
              U == S \ B
  <2>2. /\ IsFiniteSet(Below(S, i)) /\ i \notin Below(S, i)
    BY FS_Subset DEF Below
  <2>3. IsFiniteSet(B) /\ Cardinality(B) = k + 1
    BY <2>1, <2>2, FS_AddElement
  <2>4. U # {}
    <3>1. SUFFICES ASSUME S \subseteq B PROVE FALSE
      OBVIOUS
    <3>2. Cardinality(S) <= Cardinality(B)
      BY <2>3, <3>1, FS_Subset
    <3>. QED BY <1>0, <2>3, <3>2
  <2>5. PICK m \in U : \A j \in U : m <= j
    BY <2>4, LeastNatural
  <2>6. Below(S, m) = B
    <3>1. \A j \in S : j \in B <=> j <= i
      BY DEF Below
    <3>2. i < m
      BY <3>1
    <3>3. \A j \in S : j < m <=> j \in B
      BY <2>5, <3>1, <3>2
    <3>. QED BY <3>3 DEF Below
  <2>. QED BY <2>3, <2>6
<1>3. Nat \subseteq T
  <2>. HIDE DEF T
  <2>. QED BY <1>1, <1>2, SetInduction
<1>4. ASSUME NEW k \in 1 .. Cardinality(S)
      PROVE  Nth(S, k) \in S /\ Cardinality(Below(S, Nth(S, k))) = k - 1
  <2>1. k - 1 \in Nat /\ (k - 1) + 1 <= Cardinality(S)
    BY <1>0
  <2>2. PICK i \in S : Cardinality(Below(S, i)) = k - 1
    BY <1>3, <2>1
  <2>. QED BY <2>2, <1>0, NthIs
<1>. QED BY <1>4

LEMMA DisjointUnion ==
    ASSUME NEW S, NEW T, IsFiniteSet(S), IsFiniteSet(T), \A a \in S : a \notin T
    PROVE  /\ IsFiniteSet(S \cup T)
           /\ Cardinality(S \cup T) = Cardinality(S) + Cardinality(T)
<1>1. S \cap T = {}
  OBVIOUS
<1>2. Cardinality(S \cap T) = 0
  BY <1>1, FS_EmptySet
<1>3. /\ IsFiniteSet(S \cup T)
      /\ Cardinality(S \cup T) =
            Cardinality(S) + Cardinality(T) - Cardinality(S \cap T)
  BY FS_Union, Zenon
<1>4. Cardinality(S) \in Nat /\ Cardinality(T) \in Nat
  BY FS_CardinalityType
<1>. QED BY <1>2, <1>3, <1>4

\* Numbering goes on from one set to another whose numbers are all greater.
LEMMA NthUnion ==
    ASSUME NEW S \in SUBSET Nat, NEW T \in SUBSET Nat,
           IsFiniteSet(S), IsFiniteSet(T), \A a \in S : \A b \in T : a < b
    PROVE  /\ Cardinality(S \cup T) = Cardinality(S) + Cardinality(T)
           /\ \A k \in 1 .. Cardinality(S) : Nth(S \cup T, k) = Nth(S, k)
           /\ \A k \in 1 .. Cardinality(T) :
                 Nth(S \cup T, Cardinality(S) + k) = Nth(T, k)
<1>. DEFINE V == S \cup T
            m == Cardinality(S)
            n == Cardinality(T)
<1>1. \A a \in S : a \notin T
  OBVIOUS
<1>2. IsFiniteSet(V) /\ Cardinality(V) = m + n
  BY <1>1, DisjointUnion
<1>3. m \in Nat /\ n \in Nat /\ V \in SUBSET Nat
  BY FS_CardinalityType
<1>4. /\ \A k \in 1 .. m : Nth(S, k) \in S /\ Cardinality(Below(S, Nth(S, k))) = k - 1
      /\ \A k \in 1 .. n : Nth(T, k) \in T /\ Cardinality(Below(T, Nth(T, k))) = k - 1
  BY NthExists, Zenon
<1>5. S \subseteq V /\ T \subseteq V
  OBVIOUS
<1>6. ASSUME NEW i \in S PROVE Below(V, i) = Below(S, i)
  <2>1. \A b \in T : ~(b < i)
    BY <1>1
  <2>. QED BY <2>1 DEF Below
<1>7. ASSUME NEW i \in T
      PROVE  Cardinality(Below(V, i)) = m + Cardinality(Below(T, i))
  <2>1. Below(V, i) = S \cup Below(T, i)
    BY DEF Below
  <2>2. IsFiniteSet(Below(T, i)) /\ \A a \in S : a \notin Below(T, i)
    BY <1>1, FS_Subset DEF Below
  <2>. QED BY <2>1, <2>2, DisjointUnion
<1>. HIDE DEF V, m, n
<1>8. ASSUME NEW k \in 1 .. m PROVE Nth(V, k) = Nth(S, k)
  <2>1. PICK i \in S : i = Nth(S, k) /\ Cardinality(Below(S, i)) = k - 1
    BY <1>4
  <2>2. Cardinality(Below(V, i)) = k - 1
    BY <2>1, <1>6
  <2>. QED BY <1>2, <1>3, <1>5, <2>1, <2>2, NthIs
<1>9. ASSUME NEW k \in 1 .. n PROVE Nth(V, m + k) = Nth(T, k)
  <2>1. PICK i \in T : i = Nth(T, k) /\ Cardinality(Below(T, i)) = k - 1
    BY <1>4
  <2>2. Cardinality(Below(V, i)) = (m + k) - 1 /\ m + k \in Nat
    BY <2>1, <1>7, <1>3
  <2>. QED BY <1>2, <1>3, <1>5, <2>1, <2>2, NthIs
<1>. QED BY <1>2, <1>8, <1>9 DEF V, m, n

\* As many, in the same order, when all are moved by the same distance.
LEMMA MovedCardinality ==
    ASSUME NEW S \in SUBSET Nat, IsFiniteSet(S), NEW d \in Int,
           NEW T \in SUBSET Nat, \A i \in S : i + d \in T,
           \A j \in T : j - d \in S
    PROVE  IsFiniteSet(T) /\ Cardinality(T) = Cardinality(S)
<1>. DEFINE g == [i \in S |-> i + d]
<1>1. g \in Bijection(S, T)
  <2>1. \A j \in T : j - d \in S /\ g[j - d] = j
    OBVIOUS
  <2>. QED BY <2>1 DEF Bijection, Injection, Surjection, IsInjective
<1>. QED BY <1>1, FS_Bijection DEF ExistsBijection

LEMMA NthMoved ==
    ASSUME NEW S \in SUBSET Nat, IsFiniteSet(S), NEW d \in Int,
           NEW T \in SUBSET Nat, \A i \in S : i + d \in T,
           \A j \in T : j - d \in S, NEW k \in 1 .. Cardinality(S)
    PROVE  Nth(T, k) = Nth(S, k) + d
<1>0. IsFiniteSet(T)
  BY MovedCardinality
<1>1. PICK i \in S : i = Nth(S, k) /\ Cardinality(Below(S, i)) = k - 1
  BY NthExists
<1>2. i + d \in T
  OBVIOUS
<1>. DEFINE A == Below(S, i)
            B == Below(T, i + d)
<1>3. /\ \A j \in A : j + d \in B
      /\ \A j \in B : j - d \in A
      /\ A \in SUBSET Nat /\ B \in SUBSET Nat /\ IsFiniteSet(A)
  <2>1. \A j \in S : j < i <=> j + d < i + d
    OBVIOUS
  <2>2. \A j \in T : j < i + d <=> j - d < i
    OBVIOUS
  <2>3. \A j \in A : j + d \in B
    BY <2>1 DEF Below
  <2>4. \A j \in B : j - d \in A
    BY <2>2 DEF Below
  <2>5. A \in SUBSET Nat /\ B \in SUBSET Nat
    BY DEF Below
  <2>6. IsFiniteSet(A)
    BY FS_Subset DEF Below
  <2>. QED BY <2>3, <2>4, <2>5, <2>6
<1>4. Cardinality(B) = k - 1
  <2>. HIDE DEF A, B
  <2>1. Cardinality(B) = Cardinality(A)
    BY <1>3, MovedCardinality
  <2>. QED BY <1>1, <2>1 DEF A
<1>5. k \in Nat
  BY FS_CardinalityType
<1>6. Nth(T, k) = i + d
  BY <1>0, <1>2, <1>4, <1>5, NthIs
<1>. QED BY <1>1, <1>6
-----------------------------------------------------------------------------
(* The array.                                                              *)

USE SizesAssumption, BytesAssumption DEF Text, Byte, Slots

\* A run of whole characters put in where a character begins, or at the
\* end, leaves whole characters, and the next one begins behind it.
LEMMA Splice ==
    ASSUME NEW f, NEW n \in Nat, NEW g, NEW m \in Nat \ {0}, NEW h,
           NEW c \in 0 .. n, WholeBytes(f, n), WholeBytes(g, m),
           \A i \in 0 .. n - 1 : f[i] \in Text,
           \A i \in 0 .. m - 1 : g[i] \in Text,
           c < n => f[c] \in First,
           \A i \in 0 .. c - 1 : h[i] = f[i],
           \A i \in c .. c + m - 1 : h[i] = g[i - c],
           \A i \in c + m .. n + m - 1 : h[i] = f[i - m]
    PROVE  /\ WholeBytes(h, n + m)
           /\ c + m < n + m => h[c + m] \in First
<1>1. c + m < n + m => h[c + m] \in First
  <2>1. ASSUME c + m < n + m PROVE h[c + m] = f[c] /\ c < n
    BY <2>1
  <2>. QED BY <2>1
<1>2. h[c] \in First
  <2>1. h[c] = g[0]
    BY c \in c .. c + m - 1
  <2>. QED BY <2>1 DEF WholeBytes
<1>3. h[0] \in First
  <2>1. CASE c = 0
    BY <2>1, <1>2
  <2>2. CASE c > 0
    BY <2>2 DEF WholeBytes
  <2>. QED BY <2>1, <2>2
<1>4. ASSUME NEW i \in 0 .. n + m - 1, h[i] \in First
      PROVE  /\ i + Width[h[i]] <= n + m
             /\ \A j \in i + 1 .. i + Width[h[i]] - 1 : h[j] \in Cont
             /\ i + Width[h[i]] < n + m => h[i + Width[h[i]]] \in First
  <2>. DEFINE w == Width[h[i]]
  <2>0. w \in Nat \ {0}
    BY <1>4
  <2>. HIDE DEF w
  <2>1. CASE i < c
    <3>1. h[i] = f[i] /\ i \in 0 .. n - 1
      BY <2>1
    <3>2. /\ i + w <= n
          /\ \A j \in i + 1 .. i + w - 1 : f[j] \in Cont
          /\ i + w < n => f[i + w] \in First
      BY <3>1, <1>4 DEF WholeBytes, w
    <3>3. i + w <= c
      <4>1. SUFFICES ASSUME c < i + w PROVE FALSE
        BY <2>0
      <4>2. c \in i + 1 .. i + w - 1 /\ c < n
        BY <4>1, <3>2, <2>1, <2>0
      <4>. QED BY <4>2, <3>2
    <3>4. \A j \in i + 1 .. i + w - 1 : h[j] \in Cont
      BY <3>2, <3>3, <2>0
    <3>5. h[i + w] \in First
      <4>1. CASE i + w = c
        BY <4>1, <1>2
      <4>2. CASE i + w < c
        BY <4>2, <3>2, <2>0
      <4>. QED BY <4>1, <4>2, <3>3, <2>0
    <3>. QED BY <3>2, <3>4, <3>5, <2>0 DEF w
  <2>2. CASE i \in c .. c + m - 1
    <3>1. h[i] = g[i - c] /\ i - c \in 0 .. m - 1
      BY <2>2
    <3>2. /\ i - c + w <= m
          /\ \A j \in i - c + 1 .. i - c + w - 1 : g[j] \in Cont
          /\ i - c + w < m => g[i - c + w] \in First
      BY <3>1, <1>4 DEF WholeBytes, w
    <3>3. \A j \in i + 1 .. i + w - 1 : h[j] \in Cont
      <4>1. ASSUME NEW j \in i + 1 .. i + w - 1 PROVE h[j] = g[j - c]
        BY <3>2, <2>2, <2>0
      <4>2. ASSUME NEW j \in i + 1 .. i + w - 1
            PROVE  j - c \in i - c + 1 .. i - c + w - 1
        BY <2>0, <2>2
      <4>. QED BY <4>1, <4>2, <3>2
    <3>4. i + w < n + m => h[i + w] \in First
      <4>1. CASE i + w = c + m
        BY <4>1, <1>1
      <4>2. CASE i + w < c + m
        <5>1. h[i + w] = g[i - c + w]
          <6>1. PICK e \in c .. c + m - 1 : e = i + w
            BY <4>2, <2>0, <2>2
          <6>2. h[e] = g[e - c]
            OBVIOUS
          <6>3. e - c = i - c + w
            BY <6>1, <2>0, <2>2
          <6>. QED BY <6>1, <6>2, <6>3
        <5>. QED BY <5>1, <4>2, <3>2, <2>0, <2>2
      <4>. QED BY <4>1, <4>2, <3>2, <2>0, <2>2
    <3>. QED BY <3>2, <3>3, <3>4, <2>0, <2>2 DEF w
  <2>3. CASE i \in c + m .. n + m - 1
    <3>1. h[i] = f[i - m] /\ i - m \in 0 .. n - 1
      BY <2>3
    <3>2. /\ i - m + w <= n
          /\ \A j \in i - m + 1 .. i - m + w - 1 : f[j] \in Cont
          /\ i - m + w < n => f[i - m + w] \in First
      BY <3>1, <1>4 DEF WholeBytes, w
    <3>3. \A j \in i + 1 .. i + w - 1 : h[j] \in Cont
      <4>1. ASSUME NEW j \in i + 1 .. i + w - 1 PROVE h[j] = f[j - m]
        BY <3>2, <2>3, <2>0
      <4>2. ASSUME NEW j \in i + 1 .. i + w - 1
            PROVE  j - m \in i - m + 1 .. i - m + w - 1
        BY <2>0, <2>3
      <4>. QED BY <4>1, <4>2, <3>2
    <3>4. i + w < n + m => h[i + w] \in First
      <4>1. SUFFICES ASSUME i + w < n + m PROVE h[i + w] \in First
        OBVIOUS
      <4>2. PICK e \in c + m .. n + m - 1 : e = i + w
        BY <4>1, <2>0, <2>3
      <4>3. h[e] = f[e - m]
        OBVIOUS
      <4>4. e - m = i - m + w
        BY <4>2, <2>0, <2>3
      <4>. QED BY <4>1, <4>2, <4>3, <4>4, <3>2, <2>0, <2>3
    <3>. QED BY <3>2, <3>3, <3>4, <2>0, <2>3 DEF w
  <2>. QED BY <2>1, <2>2, <2>3
<1>. QED BY <1>1, <1>3, <1>4 DEF WholeBytes

\* Taking out the bytes from .. to - 1, both of them ends of characters,
\* leaves whole characters, and one begins at from or nothing is left there.
LEMMA Cut ==
    ASSUME NEW f, NEW n \in Nat, NEW h,
           NEW from \in 0 .. n, NEW to \in from .. n, WholeBytes(f, n),
           from < n => f[from] \in First,
           to < n => f[to] \in First,
           \A i \in 0 .. from - 1 : h[i] = f[i],
           \A i \in from .. n - (to - from) - 1 : h[i] = f[i + to - from]
    PROVE  /\ WholeBytes(h, n - (to - from))
           /\ from < n - (to - from) => h[from] \in First
<1>. DEFINE d == to - from
            k == n - d
<1>0. d \in Nat /\ k \in Nat /\ k + d = n /\ from + d = to /\ from <= k
  OBVIOUS
<1>1. \A i \in from .. k - 1 : h[i] = f[i + d]
  <2>1. \A i \in from .. k - 1 : i + d = i + to - from
    OBVIOUS
  <2>. QED BY <2>1
<1>. HIDE DEF d, k
<1>2. from < k => h[from] \in First
  <2>1. from < k => h[from] = f[to] /\ to < n
    BY <1>0, <1>1
  <2>. QED BY <2>1
<1>3. k > 0 => h[0] \in First
  <2>1. CASE from = 0
    BY <2>1, <1>2
  <2>2. CASE from > 0
    BY <2>2 DEF WholeBytes
  <2>. QED BY <2>1, <2>2
<1>4. ASSUME NEW i \in 0 .. k - 1, h[i] \in First
      PROVE  /\ i + Width[h[i]] <= k
             /\ \A j \in i + 1 .. i + Width[h[i]] - 1 : h[j] \in Cont
             /\ i + Width[h[i]] < k => h[i + Width[h[i]]] \in First
  <2>. DEFINE w == Width[h[i]]
  <2>0. w \in Nat \ {0}
    BY <1>4
  <2>. HIDE DEF w
  <2>1. CASE i < from
    <3>1. h[i] = f[i] /\ i \in 0 .. n - 1
      BY <2>1
    <3>2. /\ i + w <= n
          /\ \A j \in i + 1 .. i + w - 1 : f[j] \in Cont
          /\ i + w < n => f[i + w] \in First
      BY <3>1, <1>4 DEF WholeBytes, w
    <3>3. i + w <= from
      <4>1. SUFFICES ASSUME from < i + w PROVE FALSE
        BY <2>0
      <4>2. from \in i + 1 .. i + w - 1 /\ from < n
        BY <4>1, <3>2, <2>1, <2>0
      <4>. QED BY <4>2, <3>2
    <3>4. \A j \in i + 1 .. i + w - 1 : h[j] \in Cont
      BY <3>2, <3>3, <2>0
    <3>5. i + w < k => h[i + w] \in First
      <4>1. CASE i + w = from
        BY <4>1, <1>2
      <4>2. CASE i + w < from
        BY <4>2, <3>2, <2>0
      <4>. QED BY <4>1, <4>2, <3>3, <2>0
    <3>. QED BY <3>3, <3>4, <3>5, <2>0, <1>0 DEF w
  <2>2. CASE i >= from
    <3>1. h[i] = f[i + d] /\ i + d \in 0 .. n - 1
      BY <2>2, <1>0, <1>1
    <3>2. /\ i + d + w <= n
          /\ \A j \in i + d + 1 .. i + d + w - 1 : f[j] \in Cont
          /\ i + d + w < n => f[i + d + w] \in First
      BY <3>1, <1>4 DEF WholeBytes, w
    <3>3. i + w <= k
      BY <3>2, <2>0, <1>0
    <3>4. \A j \in i + 1 .. i + w - 1 : h[j] \in Cont
      <4>1. ASSUME NEW j \in i + 1 .. i + w - 1 PROVE h[j] = f[j + d]
        BY <3>3, <2>2, <2>0, <1>1, <1>0
      <4>2. ASSUME NEW j \in i + 1 .. i + w - 1
            PROVE  j + d \in i + d + 1 .. i + d + w - 1
        BY <2>0, <1>0
      <4>. QED BY <4>1, <4>2, <3>2
    <3>5. i + w < k => h[i + w] \in First
      <4>1. SUFFICES ASSUME i + w < k PROVE h[i + w] \in First
        OBVIOUS
      <4>2. i + w \in from .. k - 1
        BY <4>1, <2>0, <2>2, <1>0
      <4>3. h[i + w] = f[i + w + d]
        BY <4>2, <1>1, Zenon
      <4>4. i + w + d = i + d + w
        BY <2>0, <1>0
      <4>. QED BY <4>1, <4>3, <4>4, <3>2, <2>0, <1>0
    <3>. QED BY <3>3, <3>4, <3>5 DEF w
  <2>. QED BY <2>1, <2>2
<1>. QED BY <1>0, <1>2, <1>3, <1>4 DEF WholeBytes, d, k
-----------------------------------------------------------------------------
(* The array and the caret, without the flags.                             *)

ContentType == buf \in [Slots -> Byte] /\ len \in Slots /\ caret \in 0 .. len
Good == ContentType /\ NothingBehind /\ WholeCharacters

\* What memmove() and memcpy() leave in the array.
LEMMA InsertedBytes ==
    ASSUME ContentType, NEW t, Len(t) \in Nat,
           len + Len(t) < Capacity, buf' = Inserted(t)
    PROVE  /\ \A i \in 0 .. caret - 1 : buf'[i] = buf[i]
           /\ \A i \in caret .. caret + Len(t) - 1 : buf'[i] = t[i - caret + 1]
           /\ \A i \in caret + Len(t) .. len + Len(t) - 1 : buf'[i] = buf[i - Len(t)]
           /\ buf'[len + Len(t)] = Nul
           /\ \A i \in Slots : i > len + Len(t) => buf'[i] = buf[i]
<1>. DEFINE m == Len(t)
<1>0. len \in Nat /\ caret \in 0 .. len /\ m \in Nat
  BY DEF ContentType
<1>1. \A i \in Slots :
         buf'[i] = CASE i < caret                      -> buf[i]
                     [] i \in caret .. caret + m - 1   -> t[i - caret + 1]
                     [] i \in caret + m .. len + m - 1 -> buf[i - m]
                     [] i = len + m                    -> Nul
                     [] OTHER                          -> buf[i]
  BY Zenon DEF Inserted
<1>a. len + m < Capacity
  OBVIOUS
<1>. HIDE DEF m
<1>2. ASSUME NEW i \in 0 .. caret - 1 PROVE buf'[i] = buf[i]
  <2>1. /\ i \in Slots /\ i < caret
        /\ i \notin caret .. caret + m - 1
        /\ i \notin caret + m .. len + m - 1 /\ i # len + m
    BY <1>0, <1>a
  <2>. QED BY <1>1, <2>1
<1>3. ASSUME NEW i \in caret .. caret + m - 1 PROVE buf'[i] = t[i - caret + 1]
  <2>1. /\ i \in Slots /\ ~(i < caret)
        /\ i \notin caret + m .. len + m - 1 /\ i # len + m
    BY <1>0, <1>a
  <2>. QED BY <1>1, <2>1
<1>4. ASSUME NEW i \in caret + m .. len + m - 1 PROVE buf'[i] = buf[i - m]
  <2>1. /\ i \in Slots /\ ~(i < caret)
        /\ i \notin caret .. caret + m - 1 /\ i # len + m
    BY <1>0, <1>a
  <2>. QED BY <1>1, <2>1
<1>5. buf'[len + m] = Nul
  <2>1. /\ len + m \in Slots /\ ~(len + m < caret)
        /\ len + m \notin caret .. caret + m - 1
        /\ len + m \notin caret + m .. len + m - 1
    BY <1>0, <1>a
  <2>. QED BY <1>1, <2>1
<1>6. ASSUME NEW i \in Slots, i > len + m PROVE buf'[i] = buf[i]
  <2>1. /\ ~(i < caret) /\ i \notin caret .. caret + m - 1
        /\ i \notin caret + m .. len + m - 1 /\ i # len + m
    BY <1>0, <1>a, <1>6
  <2>. QED BY <1>1, <2>1
<1>. QED BY <1>2, <1>3, <1>4, <1>5, <1>6 DEF m

\* insert() keeps the field good, whether or not there is room.
LEMMA InsertKeeps ==
    ASSUME Good, NEW t \in Seq(Text), Composed => WholeText(t), Insert(t)
    PROVE  Good'
<1>1. CASE UNCHANGED content
  BY <1>1 DEF Good, ContentType, NothingBehind, WholeCharacters, WholeBytes, content
<1>2. ASSUME t # <<>>, len + Len(t) < Capacity,
             buf' = Inserted(t), len' = len + Len(t), caret' = caret + Len(t)
      PROVE  Good'
  <2>. DEFINE m == Len(t)
              g == [i \in 0 .. m - 1 |-> t[i + 1]]
  <2>0. m \in Nat \ {0} /\ \A i \in 0 .. m - 1 : g[i] \in Text
    <3>1. m \in Nat /\ \A k \in 1 .. m : t[k] \in Text
      OBVIOUS
    <3>2. m # 0
      BY <1>2
    <3>. QED BY <3>1, <3>2
  <2>a. Composed => WholeBytes(g, m)
    BY DEF WholeText
  <2>b. len \in Nat /\ caret \in 0 .. len /\ len + m < Capacity
    BY <1>2 DEF Good, ContentType
  <2>c. \A i \in Slots : buf[i] \in Byte /\ (buf[i] = Nul <=> i >= len)
    BY DEF Good, ContentType, NothingBehind
  <2>1. /\ \A i \in 0 .. caret - 1 : buf'[i] = buf[i]
        /\ \A i \in caret .. caret + m - 1 : buf'[i] = g[i - caret]
        /\ \A i \in caret + m .. len + m - 1 : buf'[i] = buf[i - m]
        /\ buf'[len + m] = Nul
        /\ \A i \in Slots : i > len + m => buf'[i] = buf[i]
    <3>1. \A i \in caret .. caret + m - 1 :
             i - caret \in 0 .. m - 1 /\ g[i - caret] = t[i - caret + 1]
      BY <2>b, <2>0
    <3>2. ContentType /\ len + m < Capacity /\ buf' = Inserted(t)
      BY <1>2, <2>b DEF Good
    <3>3. /\ \A i \in 0 .. caret - 1 : buf'[i] = buf[i]
          /\ \A i \in caret .. caret + m - 1 : buf'[i] = t[i - caret + 1]
          /\ \A i \in caret + m .. len + m - 1 : buf'[i] = buf[i - m]
          /\ buf'[len + m] = Nul
          /\ \A i \in Slots : i > len + m => buf'[i] = buf[i]
      BY <2>0, <3>2, InsertedBytes, Zenon
    <3>. QED BY <3>1, <3>3
  <2>. HIDE DEF g, m
  <2>2. \A i \in Slots : buf'[i] \in Byte /\ (buf'[i] = Nul <=> i >= len + m)
    <3>. SUFFICES ASSUME NEW i \in Slots
                  PROVE  buf'[i] \in Byte /\ (buf'[i] = Nul <=> i >= len + m)
      OBVIOUS
    <3>1. CASE i < caret
      BY <3>1, <2>1, <2>b, <2>c, <2>0
    <3>2. CASE i \in caret .. caret + m - 1
      <4>1. i - caret \in 0 .. m - 1 /\ buf'[i] = g[i - caret]
        BY <3>2, <2>1, <2>b, <2>0
      <4>. QED BY <4>1, <3>2, <2>b, <2>0
    <3>3. CASE i \in caret + m .. len + m - 1
      <4>1. i - m \in Slots /\ i - m < len /\ buf'[i] = buf[i - m]
        BY <3>3, <2>1, <2>b, <2>0
      <4>. QED BY <4>1, <3>3, <2>b, <2>0, <2>c
    <3>4. CASE i = len + m
      BY <3>4, <2>1, <2>b, <2>0
    <3>5. CASE i > len + m
      BY <3>5, <2>1, <2>b, <2>0, <2>c
    <3>. QED BY <3>1, <3>2, <3>3, <3>4, <3>5, <2>b, <2>0
  <2>3. ContentType'
    <3>1. DOMAIN buf' = Slots /\ buf' = [i \in Slots |-> buf'[i]]
      BY <1>2 DEF Inserted
    <3>2. buf' \in [Slots -> Byte]
      BY <3>1, <2>2
    <3>3. len' \in Slots /\ caret' \in 0 .. len'
      BY <1>2, <2>b, <2>0 DEF m
    <3>. QED BY <3>2, <3>3 DEF ContentType
  <2>4. NothingBehind'
    BY <2>2, <1>2 DEF NothingBehind, m
  <2>5. ASSUME Composed
        PROVE  /\ WholeBytes(buf', len + m)
               /\ caret + m < len + m => buf'[caret + m] \in First
    <3>1. WholeBytes(buf, len) /\ (caret < len => buf[caret] \in First)
      BY <2>5 DEF Good, WholeCharacters
    <3>2. \A i \in 0 .. len - 1 : buf[i] \in Text
      BY <2>c, <2>b, <2>0
    <3>. QED BY <3>1, <3>2, <2>5, <2>a, <2>b, <2>0, <2>1, Splice
  <2>. QED BY <2>3, <2>4, <2>5, <1>2 DEF Good, WholeCharacters, WholeBytes, m
<1>3. len \in Nat /\ Len(t) \in Nat
  BY DEF Good, ContentType
<1>. QED BY <1>1, <1>2, <1>3 DEF Insert

LEMMA RemovedBytes ==
    ASSUME ContentType, NEW from \in 0 .. len, NEW to \in from + 1 .. len,
           NEW k, k = len - (to - from), buf' = Removed(from, to)
    PROVE  /\ \A i \in 0 .. from - 1 : buf'[i] = buf[i]
           /\ \A i \in from .. k - 1 : buf'[i] = buf[i + to - from]
           /\ \A i \in Slots : i >= k => buf'[i] = Nul
<1>0. len \in Nat /\ len < Capacity
  BY DEF ContentType
<1>1. \A i \in Slots :
         buf'[i] = CASE i < from -> buf[i]
                     [] i >= from /\ i + to - from < len -> buf[i + to - from]
                     [] OTHER -> Nul
  BY Zenon DEF Removed
<1>2. \A i \in 0 .. from - 1 : buf'[i] = buf[i]
  BY <1>0, <1>1
<1>3. \A i \in from .. k - 1 : buf'[i] = buf[i + to - from]
  BY <1>0, <1>1
<1>4. \A i \in Slots : i >= k => buf'[i] = Nul
  BY <1>0, <1>1
<1>. QED BY <1>2, <1>3, <1>4

\* Taking out whole characters in front of or behind the caret keeps the
\* field good: the caret is left where the removal began.
LEMMA RemoveKeeps ==
    ASSUME Good, NEW from \in 0 .. len, NEW to \in from + 1 .. len,
           Composed => /\ buf[from] \in First
                       /\ to < len => buf[to] \in First,
           buf' = Removed(from, to), len' = len - (to - from), caret' = from
    PROVE  Good'
<1>. DEFINE k == len - (to - from)
<1>0. /\ len \in Nat /\ len < Capacity /\ k \in from .. len - 1
      /\ from \in Nat /\ to \in Nat /\ from < to /\ to <= len
  BY DEF Good, ContentType
<1>1. \A i \in Slots : buf[i] \in Byte /\ (buf[i] = Nul <=> i >= len)
  BY DEF Good, ContentType, NothingBehind
<1>2. /\ \A i \in 0 .. from - 1 : buf'[i] = buf[i]
      /\ \A i \in from .. k - 1 : buf'[i] = buf[i + to - from]
      /\ \A i \in Slots : i >= k => buf'[i] = Nul
  BY RemovedBytes DEF Good
<1>3. \A i \in Slots : buf'[i] \in Byte /\ (buf'[i] = Nul <=> i >= k)
  <2>. SUFFICES ASSUME NEW i \in Slots
                PROVE  buf'[i] \in Byte /\ (buf'[i] = Nul <=> i >= k)
    OBVIOUS
  <2>1. CASE i < from
    BY <2>1, <1>0, <1>1, <1>2
  <2>2. CASE i \in from .. k - 1
    <3>1. i + to - from \in Slots /\ i + to - from < len
      BY <2>2, <1>0
    <3>. QED BY <3>1, <2>2, <1>0, <1>1, <1>2
  <2>3. CASE i >= k
    BY <2>3, <1>2
  <2>. QED BY <2>1, <2>2, <2>3, <1>0
<1>4. ContentType'
  <2>1. DOMAIN buf' = Slots /\ buf' = [i \in Slots |-> buf'[i]]
    BY DEF Removed
  <2>2. buf' \in [Slots -> Byte]
    BY <2>1, <1>3
  <2>. QED BY <2>2, <1>0 DEF ContentType
<1>5. NothingBehind'
  BY <1>3 DEF NothingBehind
<1>6. ASSUME Composed
      PROVE  /\ WholeBytes(buf', k)
             /\ from < k => buf'[from] \in First
  <2>1. WholeBytes(buf, len)
    BY <1>6 DEF Good, WholeCharacters
  <2>. QED BY <2>1, <1>6, <1>0, <1>2, Cut
<1>. QED BY <1>4, <1>5, <1>6 DEF Good, WholeCharacters, WholeBytes

\* Where the loops over continuation bytes stop, a character begins.
LEMMA Backward ==
    ASSUME Good, NEW s \in Slots, caret # 0, Begins(s, caret)
    PROVE  /\ s \in 0 .. len /\ caret \in s + 1 .. len
           /\ Composed => buf[s] \in First
<1>1. s \in 0 .. len - 1 /\ caret \in s + 1 .. len
  BY DEF Good, ContentType, Begins
<1>2. buf[s] \in Text
  BY <1>1 DEF Good, ContentType, NothingBehind
<1>3. ASSUME Composed, s = 0 PROVE buf[s] \in First
  BY <1>1, <1>3 DEF Good, ContentType, WholeCharacters, WholeBytes
<1>4. ASSUME s # 0 PROVE buf[s] \in First
  BY <1>2, <1>4 DEF Begins
<1>. QED BY <1>1, <1>3, <1>4 DEF Good, ContentType

LEMMA Forward ==
    ASSUME Good, NEW e \in Slots, caret < len, Ends(e, caret)
    PROVE  /\ caret \in 0 .. len /\ e \in caret + 1 .. len
           /\ e < len => buf[e] \in First
<1>1. caret \in 0 .. len /\ e \in caret + 1 .. len
  BY DEF Good, ContentType, Ends
<1>2. ASSUME e < len PROVE buf[e] \in First
  <2>1. buf[e] \in Text
    BY <1>1, <1>2 DEF Good, ContentType, NothingBehind
  <2>. QED BY <2>1, <1>2 DEF Ends, Good, ContentType
<1>. QED BY <1>1, <1>2
-----------------------------------------------------------------------------
(* The operations of the field.                                            *)

LEMMA ContentKept ==
    ASSUME Good, UNCHANGED content PROVE Good'
BY DEF Good, ContentType, NothingBehind, WholeCharacters, WholeBytes, content

\* Moving the caret to the end of a character, or of the text.
LEMMA MoveKeeps ==
    ASSUME Good, UNCHANGED <<buf, len>>, caret' \in 0 .. len,
           Composed /\ caret' < len => buf[caret'] \in First
    PROVE  Good'
BY DEF Good, ContentType, NothingBehind, WholeCharacters, WholeBytes

LEMMA DeleteBackKeeps == ASSUME Good, DeleteBack PROVE Good'
<1>1. CASE caret = 0
  BY <1>1, ContentKept DEF DeleteBack
<1>2. CASE caret # 0
  <2>1. PICK s \in Slots :
           /\ Begins(s, caret) /\ buf' = Removed(s, caret)
           /\ len' = len - (caret - s) /\ caret' = s
    BY <1>2 DEF DeleteBack
  <2>2. /\ s \in 0 .. len /\ caret \in s + 1 .. len
        /\ Composed => buf[s] \in First
    BY <1>2, <2>1, Backward
  <2>3. Composed => (caret < len => buf[caret] \in First)
    BY DEF Good, WholeCharacters
  <2>. QED BY <2>1, <2>2, <2>3, RemoveKeeps
<1>. QED BY <1>1, <1>2

LEMMA DeleteForwardKeeps == ASSUME Good, DeleteForward PROVE Good'
<1>0. len \in Nat /\ caret \in 0 .. len
  BY DEF Good, ContentType
<1>1. CASE caret >= len
  BY <1>1, ContentKept DEF DeleteForward
<1>2. CASE caret < len
  <2>1. PICK e \in Slots :
           /\ Ends(e, caret) /\ buf' = Removed(caret, e)
           /\ len' = len - (e - caret) /\ caret' = caret
    BY <1>0, <1>2 DEF DeleteForward
  <2>2. /\ caret \in 0 .. len /\ e \in caret + 1 .. len
        /\ e < len => buf[e] \in First
    BY <1>2, <2>1, Forward
  <2>3. Composed => buf[caret] \in First
    BY <1>2 DEF Good, WholeCharacters
  <2>. QED BY <2>1, <2>2, <2>3, RemoveKeeps
<1>. QED BY <1>0, <1>1, <1>2

LEMMA MoveLeftKeeps == ASSUME Good, MoveLeft PROVE Good'
<1>1. CASE caret = 0
  BY <1>1, ContentKept DEF MoveLeft, content
<1>2. CASE caret # 0
  <2>1. PICK s \in Slots : Begins(s, caret) /\ caret' = s
    BY <1>2 DEF MoveLeft
  <2>2. s \in 0 .. len /\ (Composed => buf[s] \in First)
    BY <1>2, <2>1, Backward
  <2>. QED BY <2>1, <2>2, MoveKeeps DEF MoveLeft
<1>. QED BY <1>1, <1>2

LEMMA MoveRightKeeps == ASSUME Good, MoveRight PROVE Good'
<1>0. len \in Nat /\ caret \in 0 .. len
  BY DEF Good, ContentType
<1>1. CASE caret >= len
  BY <1>1, ContentKept DEF MoveRight, content
<1>2. CASE caret < len
  <2>1. PICK e \in Slots : Ends(e, caret) /\ caret' = e
    BY <1>0, <1>2 DEF MoveRight
  <2>2. e \in caret + 1 .. len /\ (e < len => buf[e] \in First)
    BY <1>2, <2>1, Forward
  <2>. QED BY <1>0, <2>1, <2>2, MoveKeeps DEF MoveRight
<1>. QED BY <1>0, <1>1, <1>2

LEMMA GoKeeps ==
    /\ Good /\ Go(0) => Good'
    /\ Good /\ Go(len) => Good'
<1>1. ASSUME Good PROVE len \in Nat
  BY <1>1 DEF Good, ContentType
<1>2. ASSUME Good, Go(0) PROVE Good'
  <2>1. Composed /\ 0 < len => buf[0] \in First
    BY <1>2 DEF Good, WholeCharacters, WholeBytes
  <2>. QED BY <1>1, <1>2, <2>1, MoveKeeps DEF Go
<1>3. ASSUME Good, Go(len) PROVE Good'
  BY <1>1, <1>3, MoveKeeps DEF Go
<1>. QED BY <1>2, <1>3

LEMMA EraseKeeps == ASSUME Good, Erase PROVE Good'
<1>1. \A i \in Slots : buf'[i] = Nul
  BY DEF Erase
<1>. QED BY <1>1 DEF Erase, Good, ContentType, NothingBehind, WholeCharacters, WholeBytes

\* Any key with the text of any stroke, or none.
LEMMA HandleKeyKeeps ==
    ASSUME Good, NEW k, NEW t \in Seq(Text), Composed => WholeText(t),
           HandleKey(k, t)
    PROVE  Good'
<1>1. CASE k = "Backspace"
  BY <1>1, DeleteBackKeeps DEF HandleKey
<1>2. CASE k = "Delete"
  BY <1>2, DeleteForwardKeeps DEF HandleKey
<1>3. CASE k = "Left"
  BY <1>3, MoveLeftKeeps DEF HandleKey
<1>4. CASE k = "Right"
  BY <1>4, MoveRightKeeps DEF HandleKey
<1>5. CASE k = "Home"
  BY <1>5, GoKeeps DEF HandleKey
<1>6. CASE k = "End"
  BY <1>6, GoKeeps DEF HandleKey
<1>7. CASE k = "Plain"
  BY <1>7, InsertKeeps DEF HandleKey
<1>8. CASE k \notin {"Backspace", "Delete", "Left", "Right", "Home", "End", "Plain"}
  BY <1>8, ContentKept DEF HandleKey
<1>. QED BY <1>1, <1>2, <1>3, <1>4, <1>5, <1>6, <1>7, <1>8

\* A key without text: the premises of HandleKeyKeeps hold of it.
LEMMA NoText == <<>> \in Seq(Text) /\ WholeText(<<>>)
BY DEF WholeText, WholeBytes

\* The settings' user name, which is ASCII and fits, as a whole.
LEMMA SetTextKeeps == ASSUME Good, SetText PROVE Good'
<1>1. PICK n \in Names :
         /\ buf' = [i \in Slots |-> IF i < Len(Kept(n)) THEN Kept(n)[i + 1] ELSE Nul]
         /\ len' = Len(Kept(n)) /\ caret' = Len(Kept(n))
  BY DEF SetText
<1>2. /\ Kept(n) = n /\ n \in Seq(First) /\ Len(n) \in Slots
      /\ \A i \in 1 .. Len(n) : n[i] \in First /\ Width[n[i]] = 1
  BY NamesAssumption DEF Kept
<1>3. \A i \in 0 .. Len(n) - 1 : /\ buf'[i] = n[i + 1]
                                 /\ buf'[i] \in First /\ Width[buf'[i]] = 1
  BY <1>1, <1>2
<1>4. \A i \in Slots : i >= Len(n) => buf'[i] = Nul
  BY <1>1, <1>2
<1>5. \A i \in Slots : buf'[i] \in Byte /\ (buf'[i] = Nul <=> i >= Len(n))
  BY <1>2, <1>3, <1>4
<1>6. ContentType'
  BY <1>1, <1>2, <1>5 DEF ContentType
<1>7. NothingBehind'
  BY <1>1, <1>2, <1>5 DEF NothingBehind
<1>8. WholeBytes(buf', Len(n))
  BY <1>2, <1>3 DEF WholeBytes
<1>. QED BY <1>1, <1>2, <1>6, <1>7, <1>8 DEF Good, WholeCharacters, WholeBytes

\* Every step of the form, from any good field.
LEMMA Step == ASSUME Good, [Next]_vars PROVE Good'
<1>1. CASE KeyPressSym
  <2>1. PICK sym \in DOMAIN KeyOf \ {"NoSymbol"} : HandleKey(KeyOf[sym], <<>>)
    BY <1>1 DEF KeyPressSym
  <2>. QED BY <2>1, NoText, HandleKeyKeeps
<1>2. CASE KeyPressText
  <2>1. PICK s \in Typed : HandleKey(KeyOf["NoSymbol"], Accepted(LookedUp(s)))
    BY <1>2 DEF KeyPressText
  <2>. QED BY <2>1, TypedAssumption, HandleKeyKeeps
<1>3. CASE Click
  <2>1. ContentType
    BY DEF Good
  <2>. QED BY <1>3, <2>1, MoveKeeps DEF Click, ContentType
<1>4. CASE SetFocused
  BY <1>4, ContentKept DEF SetFocused
<1>5. CASE SetEnabled
  BY <1>5, ContentKept DEF SetEnabled
<1>6. CASE Clear
  BY <1>6, EraseKeeps DEF Clear
<1>7. CASE SetText
  BY <1>7, SetTextKeeps
<1>8. CASE UNCHANGED vars
  BY <1>8, ContentKept DEF vars
<1>. QED BY <1>1, <1>2, <1>3, <1>4, <1>5, <1>6, <1>7, <1>8 DEF Next

LEMMA Flags ==
    ASSUME focused \in BOOLEAN, enabled \in BOOLEAN, [Next]_vars
    PROVE  focused' \in BOOLEAN /\ enabled' \in BOOLEAN
BY DEF Next, KeyPressSym, KeyPressText, HandleKey, Click, SetFocused,
       SetEnabled, Clear, SetText, vars

LEMMA Start == Init => Good /\ focused \in BOOLEAN /\ enabled \in BOOLEAN
<1>. SUFFICES ASSUME Init PROVE Good /\ focused \in BOOLEAN /\ enabled \in BOOLEAN
  OBVIOUS
<1>1. buf = [i \in Slots |-> Nul] /\ len = 0 /\ caret = 0
  BY DEF Init
<1>2. ContentType /\ NothingBehind
  BY <1>1 DEF ContentType, NothingBehind
<1>3. WholeCharacters
  BY <1>1 DEF WholeCharacters, WholeBytes
<1>. QED BY <1>2, <1>3 DEF Init, Good

LEMMA Invariance == Spec => []Inv
<1>1. Init => Inv
  BY Start DEF Inv, Good, ContentType, TypeOK
<1>2. Inv /\ [Next]_vars => Inv'
  <2>. SUFFICES ASSUME Inv, [Next]_vars PROVE Inv'
    OBVIOUS
  <2>1. Good /\ focused \in BOOLEAN /\ enabled \in BOOLEAN
    BY DEF Inv, Good, ContentType, TypeOK
  <2>2. Good' /\ focused' \in BOOLEAN /\ enabled' \in BOOLEAN
    BY <2>1, Step, Flags
  <2>. QED BY <2>2 DEF Inv, Good, ContentType, TypeOK
<1>. QED BY <1>1, <1>2, PTL DEF Spec

\* The array, the length and the caret stay in range whatever is typed,
\* clicked or set (every index of textfield.cpp).
THEOREM TypeCorrect == Spec => []TypeOK
<1>1. Inv => TypeOK
  BY DEF Inv
<1>. QED BY <1>1, Invariance, PTL

\* Nothing of a deleted or cleared password is left in the array, and the C
\* string given to PAM ends where the text does (textfield.cpp 65-72, 153).
THEOREM NothingIsBehind == Spec => []NothingBehind
<1>1. Inv => NothingBehind
  BY DEF Inv
<1>. QED BY <1>1, Invariance, PTL

\* With an input context the field holds whole characters at any fill and
\* the caret is between two of them (textfield.h, mCaret).
THEOREM CharactersAreWhole == Spec => []WholeCharacters
<1>1. Inv => WholeCharacters
  BY DEF Inv
<1>. QED BY <1>1, Invariance, PTL
-----------------------------------------------------------------------------
(* Bytes and the characters in them.                                       *)

\* A character goes on to the first byte behind it that is no continuation.
LEMMA PastIs ==
    ASSUME NEW f, NEW i \in Nat, NEW hi \in Nat, i < hi
    PROVE  /\ Past(f, i, hi) \in i + 1 .. hi
           /\ Past(f, i, hi) = hi \/ f[Past(f, i, hi)] \notin Cont
           /\ \A j \in i + 1 .. Past(f, i, hi) - 1 : f[j] \in Cont
<1>. DEFINE E == {e \in i + 1 .. hi : e = hi \/ f[e] \notin Cont}
<1>1. E \in SUBSET Nat /\ hi \in E
  OBVIOUS
<1>2. Min(E) \in E /\ \A e \in E : Min(E) <= e
  <2>. HIDE DEF E
  <2>. QED BY <1>1, MinIsLeast
<1>3. ASSUME NEW j \in i + 1 .. Min(E) - 1 PROVE f[j] \in Cont
  <2>1. j \in i + 1 .. hi /\ ~(Min(E) <= j) /\ j # hi
    BY <1>2
  <2>2. j \notin E
    BY <1>2, <2>1
  <2>. QED BY <2>1, <2>2
<1>. QED BY <1>2, <1>3 DEF Past

LEMMA PastUnique ==
    ASSUME NEW f, NEW i \in Nat, NEW hi \in Nat, NEW e \in i + 1 .. hi,
           e = hi \/ f[e] \notin Cont, \A j \in i + 1 .. e - 1 : f[j] \in Cont
    PROVE  Past(f, i, hi) = e
<1>. DEFINE p == Past(f, i, hi)
<1>1. /\ p \in i + 1 .. hi /\ (p = hi \/ f[p] \notin Cont)
      /\ \A j \in i + 1 .. p - 1 : f[j] \in Cont
  <2>1. i < hi
    OBVIOUS
  <2>. QED BY <2>1, PastIs
<1>. HIDE DEF p
<1>2. ~(p < e)
  <2>1. p < e => p \in i + 1 .. e - 1 /\ p # hi
    BY <1>1
  <2>. QED BY <1>1, <2>1
<1>3. ~(e < p)
  <2>1. e < p => e \in i + 1 .. p - 1 /\ e # hi
    BY <1>1
  <2>. QED BY <1>1, <2>1
<1>. QED BY <1>1, <1>2, <1>3 DEF p

LEMMA HeadsType ==
    ASSUME NEW f, NEW lo \in Nat, NEW hi \in Nat
    PROVE  /\ Heads(f, lo, hi) \in SUBSET Nat /\ Heads(f, lo, hi) \subseteq lo .. hi - 1
           /\ IsFiniteSet(Heads(f, lo, hi))
           /\ Cardinality(Heads(f, lo, hi)) \in Nat
<1>1. Heads(f, lo, hi) \subseteq lo .. hi - 1 /\ lo .. hi - 1 \subseteq Nat
  BY DEF Heads
<1>2. IsFiniteSet(lo .. hi - 1)
  BY FS_Interval
<1>. QED BY <1>1, <1>2, FS_Subset, FS_CardinalityType

Character == Seq(Text)
TextIn(f, lo, hi) == \A i \in lo .. hi - 1 : f[i] \in Text

LEMMA CharactersType ==
    ASSUME NEW f, NEW lo \in Nat, NEW hi \in Nat, TextIn(f, lo, hi)
    PROVE  /\ Characters(f, lo, hi) \in Seq(Character)
           /\ Len(Characters(f, lo, hi)) = Cardinality(Heads(f, lo, hi))
           /\ \A k \in 1 .. Cardinality(Heads(f, lo, hi)) :
                 /\ Nth(Heads(f, lo, hi), k) \in lo .. hi - 1
                 /\ Characters(f, lo, hi)[k] =
                       Bytes(f, Nth(Heads(f, lo, hi), k),
                                Past(f, Nth(Heads(f, lo, hi), k), hi))
<1>. DEFINE H == Heads(f, lo, hi)
            n == Cardinality(H)
            C == Characters(f, lo, hi)
<1>1. H \in SUBSET Nat /\ H \subseteq lo .. hi - 1 /\ IsFiniteSet(H) /\ n \in Nat
  BY HeadsType
<1>2. \A k \in 1 .. n : Nth(H, k) \in H
  BY <1>1, NthExists
<1>3. C = [k \in 1 .. n |-> Bytes(f, Nth(H, k), Past(f, Nth(H, k), hi))]
  BY DEF Characters
<1>. HIDE DEF H, n, C
<1>4. ASSUME NEW k \in 1 .. n
      PROVE  Bytes(f, Nth(H, k), Past(f, Nth(H, k), hi)) \in Character
  <2>1. PICK i \in lo .. hi - 1 : i = Nth(H, k)
    BY <1>1, <1>2
  <2>2. PICK e \in i + 1 .. hi : e = Past(f, i, hi)
    <3>1. i \in Nat /\ i < hi
      OBVIOUS
    <3>. QED BY <3>1, PastIs
  <2>3. \A j \in 1 .. e - i : f[i + j - 1] \in Text
    <3>1. \A j \in 1 .. e - i : i + j - 1 \in lo .. hi - 1
      OBVIOUS
    <3>. QED BY <3>1 DEF TextIn
  <2>4. [j \in 1 .. e - i |-> f[i + j - 1]] \in Seq(Text)
    BY <2>3
  <2>. QED BY <2>1, <2>2, <2>4 DEF Bytes, Character
<1>5. C \in Seq(Character) /\ Len(C) = n
  BY <1>1, <1>3, <1>4
<1>. QED BY <1>1, <1>2, <1>3, <1>5 DEF H, n, C

\* One after the other, as an operator that the provers leave alone.
Then(A, B) == A \o B

LEMMA Joined ==
    ASSUME NEW A \in Seq(Character), NEW B \in Seq(Character)
    PROVE  /\ A \o B \in Seq(Character) /\ Len(A \o B) = Len(A) + Len(B)
           /\ \A k \in 1 .. Len(A) + Len(B) :
                (A \o B)[k] = IF k <= Len(A) THEN A[k] ELSE B[k - Len(A)]
<1>1. A \o B \in Seq(Character) /\ Len(A \o B) = Len(A) + Len(B)
  BY ConcatProperties
<1>2. ASSUME NEW k \in 1 .. Len(A) + Len(B)
      PROVE (A \o B)[k] = IF k <= Len(A) THEN A[k] ELSE B[k - Len(A)]
  BY ConcatProperties
<1>. QED BY <1>1, <1>2

\* The characters up to a byte where one begins, and those from there on.
LEMMA Split ==
    ASSUME NEW f, NEW lo \in Nat, NEW m \in Nat, NEW hi \in Nat,
           lo <= m, m <= hi, m < hi => f[m] \notin Cont, TextIn(f, lo, hi)
    PROVE  Characters(f, lo, hi) = Then(Characters(f, lo, m), Characters(f, m, hi))
<1>. DEFINE S == Heads(f, lo, m)
            T == Heads(f, m, hi)
            V == Heads(f, lo, hi)
            A == Characters(f, lo, m)
            B == Characters(f, m, hi)
            C == Characters(f, lo, hi)
<1>1. /\ S \in SUBSET Nat /\ IsFiniteSet(S) /\ S \subseteq lo .. m - 1
      /\ T \in SUBSET Nat /\ IsFiniteSet(T) /\ T \subseteq m .. hi - 1
      /\ Cardinality(S) \in Nat /\ Cardinality(T) \in Nat
  BY HeadsType
<1>2. V = S \cup T
  <2>1. \A i \in lo .. hi - 1 : i < m \/ i \in m .. hi - 1
    OBVIOUS
  <2>2. \A i \in m .. hi - 1 : i = lo => i = m
    OBVIOUS
  <2>. QED BY <2>1, <2>2 DEF Heads
<1>3. TextIn(f, lo, m) /\ TextIn(f, m, hi)
  BY DEF TextIn
<1>4. /\ A \in Seq(Character) /\ Len(A) = Cardinality(S)
      /\ \A k \in 1 .. Cardinality(S) :
            /\ Nth(S, k) \in lo .. m - 1
            /\ A[k] = Bytes(f, Nth(S, k), Past(f, Nth(S, k), m))
  BY <1>3, CharactersType
<1>5. /\ B \in Seq(Character) /\ Len(B) = Cardinality(T)
      /\ \A k \in 1 .. Cardinality(T) :
            B[k] = Bytes(f, Nth(T, k), Past(f, Nth(T, k), hi))
  BY <1>3, CharactersType
<1>6. /\ C \in Seq(Character) /\ Len(C) = Cardinality(V)
      /\ \A k \in 1 .. Cardinality(V) :
            C[k] = Bytes(f, Nth(V, k), Past(f, Nth(V, k), hi))
  BY CharactersType
<1>. HIDE DEF S, T, V, A, B, C
<1>7. /\ Cardinality(V) = Cardinality(S) + Cardinality(T)
      /\ \A k \in 1 .. Cardinality(S) : Nth(V, k) = Nth(S, k)
      /\ \A k \in 1 .. Cardinality(T) : Nth(V, Cardinality(S) + k) = Nth(T, k)
  <2>1. \A a \in S : \A b \in T : a < b
    BY <1>1
  <2>2. /\ Cardinality(S \cup T) = Cardinality(S) + Cardinality(T)
        /\ \A k \in 1 .. Cardinality(S) : Nth(S \cup T, k) = Nth(S, k)
        /\ \A k \in 1 .. Cardinality(T) :
              Nth(S \cup T, Cardinality(S) + k) = Nth(T, k)
    BY <1>1, <2>1, NthUnion
  <2>. QED BY <1>2, <2>2
<1>8. ASSUME NEW i \in lo .. m - 1 PROVE Past(f, i, hi) = Past(f, i, m)
  <2>1. PICK e \in i + 1 .. m :
           /\ e = Past(f, i, m) /\ (e = m \/ f[e] \notin Cont)
           /\ \A j \in i + 1 .. e - 1 : f[j] \in Cont
    <3>1. i \in Nat /\ i < m
      OBVIOUS
    <3>. QED BY <3>1, PastIs
  <2>2. e \in i + 1 .. hi /\ (e = hi \/ f[e] \notin Cont) /\ i \in Nat
    BY <2>1
  <2>. QED BY <2>1, <2>2, PastUnique
<1>c. /\ A \o B \in Seq(Character) /\ Len(A \o B) = Len(A) + Len(B)
      /\ \A k \in 1 .. Len(A) + Len(B) :
            (A \o B)[k] = IF k <= Len(A) THEN A[k] ELSE B[k - Len(A)]
  BY <1>4, <1>5, Joined
<1>9. ASSUME NEW k \in 1 .. Len(C) PROVE C[k] = (A \o B)[k]
  <2>1. CASE k <= Cardinality(S)
    <3>1. k \in 1 .. Cardinality(S)
      BY <1>1, <1>6, <1>7, <2>1
    <3>2. C[k] = A[k]
      BY <1>4, <1>6, <1>7, <1>8, <3>1
    <3>3. (A \o B)[k] = A[k]
      BY <1>1, <1>4, <1>5, <1>c, <3>1
    <3>. QED BY <3>2, <3>3
  <2>2. CASE k > Cardinality(S)
    <3>1. PICK j \in 1 .. Cardinality(T) : k = Cardinality(S) + j
      <4>1. k - Cardinality(S) \in 1 .. Cardinality(T)
        BY <1>1, <1>6, <1>7, <2>2
      <4>. QED BY <1>1, <1>6, <4>1
    <3>2. Nth(V, k) = Nth(T, j)
      BY <1>7, <3>1
    <3>3. C[k] = B[j]
      BY <1>5, <1>6, <3>2
    <3>4. /\ k \in 1 .. Len(A) + Len(B) /\ ~(k <= Len(A)) /\ k - Len(A) = j
      BY <1>1, <1>4, <1>5, <1>6, <1>7, <2>2, <3>1
    <3>5. (A \o B)[k] = B[k - Len(A)]
      BY <1>c, <3>4
    <3>. QED BY <3>3, <3>4, <3>5
  <2>3. k <= Cardinality(S) \/ k > Cardinality(S)
    BY <1>1, <1>6, <1>7
  <2>. QED BY <2>1, <2>2, <2>3, Zenon
<1>10. A \o B \in Seq(Character) /\ Len(A \o B) = Len(C)
  BY <1>4, <1>5, <1>6, <1>7, <1>c
<1>11. C = A \o B
  BY <1>6, <1>9, <1>10, SeqEqual
<1>. QED BY <1>11 DEF A, B, C, Then

\* The same bytes at another place are the same characters.
SameBytes(g, from, to, f, lo, hi) ==
    /\ lo <= hi /\ to - from = hi - lo
    /\ \A k \in 0 .. hi - lo - 1 : g[from + k] = f[lo + k]

LEMMA Same ==
    ASSUME NEW f, NEW g, NEW lo \in Nat, NEW hi \in Nat, NEW from \in Nat,
           NEW to \in Nat, SameBytes(g, from, to, f, lo, hi)
    PROVE  Characters(g, from, to) = Characters(f, lo, hi)
<1>. DEFINE d == from - lo
<1>a. d \in Int /\ from = lo + d /\ to = hi + d
  BY DEF SameBytes
<1>b. ASSUME NEW i \in lo .. hi - 1 PROVE g[i + d] = f[i]
  <2>1. i - lo \in 0 .. hi - lo - 1 /\ from + (i - lo) = i + d /\ lo + (i - lo) = i
    OBVIOUS
  <2>. QED BY <2>1 DEF SameBytes
<1>. HIDE DEF d
<1>. DEFINE S == Heads(f, lo, hi)
            T == Heads(g, from, to)
<1>1. /\ S \in SUBSET Nat /\ IsFiniteSet(S) /\ S \subseteq lo .. hi - 1
      /\ T \in SUBSET Nat
  BY HeadsType
<1>2. /\ \A i \in S : i + d \in T
      /\ \A j \in T : j - d \in S
  <2>1. ASSUME NEW i \in S PROVE i + d \in T
    <3>1. i \in lo .. hi - 1 /\ (i = lo \/ f[i] \notin Cont)
      BY DEF Heads
    <3>2. i + d \in from .. to - 1 /\ (i + d = from \/ g[i + d] \notin Cont)
      BY <1>a, <1>b, <3>1
    <3>. QED BY <3>2 DEF Heads
  <2>2. ASSUME NEW j \in T PROVE j - d \in S
    <3>1. j \in from .. to - 1 /\ (j = from \/ g[j] \notin Cont)
      BY DEF Heads
    <3>2. j - d \in lo .. hi - 1 /\ (j - d) + d = j
      BY <1>a, <3>1
    <3>3. j - d = lo \/ f[j - d] \notin Cont
      BY <1>a, <1>b, <3>1, <3>2
    <3>. QED BY <3>2, <3>3 DEF Heads
  <2>. QED BY <2>1, <2>2
<1>. HIDE DEF S, T
<1>3. Cardinality(T) = Cardinality(S)
  BY <1>a, <1>1, <1>2, MovedCardinality
<1>4. ASSUME NEW k \in 1 .. Cardinality(S)
      PROVE  Bytes(g, Nth(T, k), Past(g, Nth(T, k), to)) =
                Bytes(f, Nth(S, k), Past(f, Nth(S, k), hi))
  <2>1. PICK i \in lo .. hi - 1 : i = Nth(S, k) /\ Nth(T, k) = i + d
    <3>1. Nth(S, k) \in S
      BY <1>1, NthExists
    <3>2. Nth(T, k) = Nth(S, k) + d
      BY <1>a, <1>1, <1>2, NthMoved
    <3>. QED BY <1>1, <3>1, <3>2
  <2>2. PICK e \in i + 1 .. hi :
           /\ e = Past(f, i, hi) /\ (e = hi \/ f[e] \notin Cont)
           /\ \A j \in i + 1 .. e - 1 : f[j] \in Cont
    <3>1. i \in Nat /\ i < hi
      OBVIOUS
    <3>. QED BY <3>1, PastIs
  <2>3. Past(g, i + d, to) = e + d
    <3>1. i + d \in Nat /\ e + d \in (i + d) + 1 .. to
      BY <1>a
    <3>2. e + d = to \/ g[e + d] \notin Cont
      BY <1>a, <1>b, <2>2
    <3>3. ASSUME NEW j \in (i + d) + 1 .. (e + d) - 1 PROVE g[j] \in Cont
      <4>1. j - d \in i + 1 .. e - 1 /\ j - d \in lo .. hi - 1 /\ (j - d) + d = j
        BY <1>a
      <4>2. g[(j - d) + d] = f[j - d]
        BY <1>b, <4>1
      <4>. QED BY <2>2, <4>1, <4>2
    <3>. QED BY <3>1, <3>2, <3>3, PastUnique
  <2>4. \A j \in 1 .. e - i : g[(i + d) + j - 1] = f[i + j - 1]
    <3>1. \A j \in 1 .. e - i : /\ i + j - 1 \in lo .. hi - 1
                                /\ (i + j - 1) + d = (i + d) + j - 1
      BY <1>a
    <3>. QED BY <1>b, <3>1
  <2>5. (e + d) - (i + d) = e - i
    BY <1>a
  <2>6. Bytes(g, i + d, e + d) = Bytes(f, i, e)
    BY <2>4, <2>5, Zenon DEF Bytes
  <2>. QED BY <2>1, <2>2, <2>3, <2>6
<1>. QED BY <1>3, <1>4, Zenon DEF Characters, S, T

\* What is followed by continuations only is one character.
LEMMA Single ==
    ASSUME NEW f, NEW lo \in Nat, NEW hi \in Nat, lo < hi, TextIn(f, lo, hi),
           \A j \in lo + 1 .. hi - 1 : f[j] \in Cont
    PROVE  \E x \in Character : Characters(f, lo, hi) = <<x>>
<1>. DEFINE C == Characters(f, lo, hi)
<1>1. Heads(f, lo, hi) = {lo}
  <2>1. ASSUME NEW i \in lo .. hi - 1, i # lo PROVE f[i] \in Cont
    <3>1. i \in lo + 1 .. hi - 1
      BY <2>1
    <3>. QED BY <3>1
  <2>. QED BY <2>1 DEF Heads
<1>2. Cardinality(Heads(f, lo, hi)) = 1
  BY <1>1, FS_Singleton
<1>3. C \in Seq(Character) /\ Len(C) = 1
  BY <1>2, CharactersType
<1>. HIDE DEF C
<1>4. C[1] \in Character /\ <<C[1]>> \in Seq(Character)
  BY <1>3
<1>5. Len(<<C[1]>>) = 1 /\ <<C[1]>>[1] = C[1]
  OBVIOUS
<1>6. C = <<C[1]>>
  <2>1. \A k \in 1 .. Len(C) : C[k] = <<C[1]>>[k]
    BY <1>3, <1>5
  <2>. QED BY <1>3, <1>4, <1>5, <2>1, SeqEqual
<1>. QED BY <1>4, <1>6 DEF C

LEMMA Nothing == ASSUME NEW f, NEW i \in Nat PROVE Characters(f, i, i) = <<>>
<1>1. Heads(f, i, i) = {}
  BY DEF Heads
<1>2. Cardinality(Heads(f, i, i)) = 0
  BY <1>1, FS_EmptySet
<1>. QED BY <1>2 DEF Characters

\* The bytes of a field: whole characters on both sides of the caret.
Parted(f, n, c) ==
    /\ n \in Nat /\ c \in 0 .. n /\ TextIn(f, 0, n)
    /\ n > 0 => f[0] \in First
    /\ c < n => f[c] \in First

\* A dot for each character, on whichever side it is.
LEMMA DotsAre ==
    ASSUME NEW f, NEW n, NEW c, Parted(f, n, c)
    PROVE  Cardinality({i \in 0 .. n - 1 : f[i] \notin Cont}) =
              Len(Characters(f, 0, c)) + Len(Characters(f, c, n))
<1>1. /\ n \in Nat /\ c \in Nat /\ 0 <= c /\ c <= n /\ TextIn(f, 0, n)
      /\ c < n => f[c] \notin Cont
  BY DEF Parted
<1>2. {i \in 0 .. n - 1 : f[i] \notin Cont} = Heads(f, 0, n)
  BY DEF Parted, Heads
<1>3. Characters(f, 0, n) = Then(Characters(f, 0, c), Characters(f, c, n))
  BY <1>1, Split
<1>4. Len(Characters(f, 0, n)) = Cardinality(Heads(f, 0, n))
  BY <1>1, CharactersType
<1>5. /\ Characters(f, 0, c) \in Seq(Character)
      /\ Characters(f, c, n) \in Seq(Character)
  <2>1. TextIn(f, 0, c) /\ TextIn(f, c, n)
    BY <1>1 DEF TextIn
  <2>. QED BY <1>1, <2>1, CharactersType
<1>. QED BY <1>2, <1>3, <1>4, <1>5, Joined DEF Then
-----------------------------------------------------------------------------
(* The field implements the line editor.                                   *)

LEMMA FrontAndLast ==
    ASSUME NEW A \in Seq(Character), NEW x \in Character, NEW B,
           B = Then(A, <<x>>)
    PROVE  /\ B # <<>> /\ SubSeq(B, 1, Len(B) - 1) = A /\ B[Len(B)] = x
           /\ Append(A, x) = B
<1>. DEFINE X == <<x>>
<1>1. X \in Seq(Character) /\ Len(X) = 1 /\ X[1] = x
  OBVIOUS
<1>. HIDE DEF X
<1>2. /\ B \in Seq(Character) /\ Len(B) = Len(A) + 1 /\ Len(A) \in Nat
      /\ \A k \in 1 .. Len(A) + 1 :
            B[k] = IF k <= Len(A) THEN A[k] ELSE X[k - Len(A)]
  BY <1>1, Joined DEF Then, X
<1>3. (\A k \in 1 .. Len(A) : B[k] = A[k]) /\ B[Len(A) + 1] = x
  BY <1>1, <1>2
<1>4. SubSeq(B, 1, Len(A)) = A
  <2>1. /\ SubSeq(B, 1, Len(A)) \in Seq(Character)
        /\ Len(SubSeq(B, 1, Len(A))) = Len(A)
        /\ \A k \in 1 .. Len(A) : SubSeq(B, 1, Len(A))[k] = B[k]
    <3>1. 1 \in Int /\ Len(A) \in Int /\ \A k \in 1 .. Len(A) : B[k] \in Character
      BY <1>2, <1>3
    <3>. QED BY <1>2, <3>1, SubSeqProperties
  <2>. QED BY <1>3, <2>1, SeqEqual
<1>5. Append(A, x) = B
  <2>1. /\ Append(A, x) \in Seq(Character) /\ Len(Append(A, x)) = Len(A) + 1
        /\ \A k \in 1 .. Len(A) : Append(A, x)[k] = A[k]
        /\ Append(A, x)[Len(A) + 1] = x
    BY AppendProperties
  <2>2. \A k \in 1 .. Len(B) : Append(A, x)[k] = B[k]
    <3>1. \A k \in 1 .. Len(B) : k \in 1 .. Len(A) \/ k = Len(A) + 1
      BY <1>2
    <3>. QED BY <1>3, <2>1, <3>1
  <2>. QED BY <1>2, <2>1, <2>2, SeqEqual
<1>. QED BY <1>2, <1>3, <1>4, <1>5

LEMMA HeadAndTail ==
    ASSUME NEW A \in Seq(Character), NEW x \in Character, NEW B,
           B = Then(<<x>>, A)
    PROVE  B # <<>> /\ Head(B) = x /\ Tail(B) = A
<1>. DEFINE X == <<x>>
<1>1. X \in Seq(Character) /\ Len(X) = 1 /\ X[1] = x
  OBVIOUS
<1>. HIDE DEF X
<1>2. /\ B \in Seq(Character) /\ Len(B) = 1 + Len(A) /\ Len(A) \in Nat
      /\ \A k \in 1 .. 1 + Len(A) :
            B[k] = IF k <= 1 THEN X[k] ELSE A[k - 1]
  BY <1>1, Joined DEF Then, X
<1>3. B # <<>> /\ Head(B) = x
  BY <1>1, <1>2
<1>4. ASSUME NEW k \in 1 .. Len(A) PROVE B[k + 1] = A[k]
  <2>1. k + 1 \in 1 .. 1 + Len(A) /\ ~(k + 1 <= 1) /\ (k + 1) - 1 = k
    BY <1>2
  <2>. QED BY <1>2, <2>1
<1>5. /\ Tail(B) \in Seq(Character) /\ Len(Tail(B)) = Len(A)
      /\ \A k \in 1 .. Len(A) : Tail(B)[k] = B[k + 1]
  BY <1>2, <1>3, HeadTailProperties
<1>6. Tail(B) = A
  <2>1. \A k \in 1 .. Len(Tail(B)) : Tail(B)[k] = A[k]
    BY <1>4, <1>5
  <2>. QED BY <1>5, <2>1, SeqEqual
<1>. QED BY <1>3, <1>6

\* The caret of a field is between two characters.
LEMMA FieldIsParted ==
    /\ Good /\ Composed => Parted(buf, len, caret)
    /\ Good' /\ Composed => Parted(buf', len', caret')
  BY DEF Good, ContentType, NothingBehind, WholeCharacters, WholeBytes, Parted, TextIn

LEMMA Sides ==
    ASSUME NEW f, NEW n, NEW c, Parted(f, n, c)
    PROVE  /\ Characters(f, 0, c) \in Seq(Character)
           /\ Characters(f, c, n) \in Seq(Character)
           /\ Characters(f, 0, n) = Then(Characters(f, 0, c), Characters(f, c, n))
<1>1. /\ n \in Nat /\ c \in Nat /\ 0 <= c /\ c <= n /\ TextIn(f, 0, n)
      /\ c < n => f[c] \notin Cont
  BY DEF Parted
<1>2. TextIn(f, 0, c) /\ TextIn(f, c, n)
  BY <1>1 DEF TextIn
<1>3. Characters(f, 0, c) \in Seq(Character) /\ Characters(f, c, n) \in Seq(Character)
  BY <1>1, <1>2, CharactersType
<1>4. Characters(f, 0, n) = Then(Characters(f, 0, c), Characters(f, c, n))
  BY <1>1, Split
<1>. QED BY <1>3, <1>4

\* A text goes in whole in front of the caret.
LEMMA InsertEnters ==
    ASSUME Good, Composed, NEW t \in Seq(Text), WholeText(t), Insert(t), Good'
    PROVE  \/ UNCHANGED content
           \/ /\ Characters(buf', 0, caret') =
                    Then(Characters(buf, 0, caret), CharactersOf(t))
              /\ Characters(buf', caret', len') = Characters(buf, caret, len)
<1>. DEFINE m == Len(t)
            g == [i \in 0 .. m - 1 |-> t[i + 1]]
<1>1. SUFFICES ASSUME t # <<>>, len + m < Capacity, buf' = Inserted(t),
                      len' = len + m, caret' = caret + m
               PROVE  /\ Characters(buf', 0, caret + m) =
                            Then(Characters(buf, 0, caret), CharactersOf(t))
                      /\ Characters(buf', caret + m, len + m) =
                            Characters(buf, caret, len)
  BY DEF Insert, Good, ContentType
<1>2. m \in Nat /\ m > 0
  BY <1>1
<1>3. len \in Nat /\ caret \in Nat /\ caret <= len /\ ContentType
  BY DEF Good, ContentType
<1>4. WholeBytes(g, m) /\ CharactersOf(t) = Characters(g, 0, m)
  BY DEF WholeText, CharactersOf
<1>5. /\ \A i \in 0 .. caret - 1 : buf'[i] = buf[i]
      /\ \A i \in caret .. caret + m - 1 : buf'[i] = t[i - caret + 1]
      /\ \A i \in caret + m .. len + m - 1 : buf'[i] = buf[i - m]
  BY <1>1, <1>2, <1>3, InsertedBytes, Zenon
<1>6. \A i \in 0 .. m - 1 : g[i] = t[i + 1]
  OBVIOUS
<1>. HIDE DEF m, g
<1>7. Parted(buf', len + m, caret + m)
  BY <1>1, FieldIsParted
<1>8. Characters(buf', 0, caret) = Characters(buf, 0, caret)
  <2>1. SameBytes(buf', 0, caret, buf, 0, caret)
    BY <1>5, <1>3 DEF SameBytes
  <2>. QED BY <1>3, <2>1, Same
<1>9. Characters(buf', caret, caret + m) = Characters(g, 0, m)
  <2>1. ASSUME NEW k \in 0 .. m - 1 PROVE buf'[caret + k] = g[k]
    <3>1. /\ caret + k \in caret .. caret + m - 1 /\ k \in 0 .. m - 1
          /\ (caret + k) - caret + 1 = k + 1 /\ 0 + k = k
      BY <1>2, <1>3
    <3>. QED BY <1>5, <1>6, <3>1
  <2>2. SameBytes(buf', caret, caret + m, g, 0, m)
    <3>1. /\ 0 <= m /\ (caret + m) - caret = m - 0
          /\ 0 .. m - 0 - 1 = 0 .. m - 1 /\ \A k \in 0 .. m - 1 : 0 + k = k
      BY <1>2, <1>3
    <3>. QED BY <2>1, <3>1, Zenon DEF SameBytes
  <2>. QED BY <1>2, <1>3, <2>2, Same
<1>10. Characters(buf', caret + m, len + m) = Characters(buf, caret, len)
  <2>1. ASSUME NEW k \in 0 .. len - caret - 1
        PROVE  buf'[(caret + m) + k] = buf[caret + k]
    <3>1. /\ (caret + m) + k \in caret + m .. len + m - 1
          /\ ((caret + m) + k) - m = caret + k
      BY <1>2, <1>3
    <3>. QED BY <1>5, <3>1
  <2>2. SameBytes(buf', caret + m, len + m, buf, caret, len)
    BY <1>2, <1>3, <2>1 DEF SameBytes
  <2>. QED BY <1>2, <1>3, <2>2, Same
<1>11. Characters(buf', 0, caret + m) =
          Then(Characters(buf', 0, caret), Characters(buf', caret, caret + m))
  <2>1. buf'[caret] \notin Cont
    <3>1. caret \in caret .. caret + m - 1 /\ caret - caret + 1 = 0 + 1
      BY <1>2, <1>3
    <3>2. buf'[caret] = g[0]
      BY <1>2, <1>5, <1>6, <3>1
    <3>. QED BY <1>2, <1>4, <3>2 DEF WholeBytes
  <2>2. TextIn(buf', 0, caret + m)
    BY <1>2, <1>3, <1>7 DEF Parted, TextIn
  <2>. QED BY <1>2, <1>3, <2>1, <2>2, Split
<1>. QED BY <1>4, <1>8, <1>9, <1>10, <1>11

\* What is taken out is gone, and what is on its two sides is not touched.
LEMMA RemoveTakes ==
    ASSUME Good, NEW from \in 0 .. len, NEW to \in from + 1 .. len,
           buf' = Removed(from, to), len' = len - (to - from), caret' = from
    PROVE  /\ Characters(buf', 0, caret') = Characters(buf, 0, from)
           /\ Characters(buf', caret', len') = Characters(buf, to, len)
<1>1. /\ len \in Nat /\ from \in Nat /\ to \in Nat /\ len' \in Nat
      /\ len' - from = len - to /\ ContentType
  BY DEF Good, ContentType
<1>2. /\ \A i \in 0 .. from - 1 : buf'[i] = buf[i]
      /\ \A i \in from .. len' - 1 : buf'[i] = buf[i + to - from]
  BY <1>1, RemovedBytes
<1>3. Characters(buf', 0, from) = Characters(buf, 0, from)
  <2>1. SameBytes(buf', 0, from, buf, 0, from)
    BY <1>1, <1>2 DEF SameBytes
  <2>. QED BY <1>1, <2>1, Same
<1>4. Characters(buf', from, len') = Characters(buf, to, len)
  <2>1. ASSUME NEW k \in 0 .. len - to - 1 PROVE buf'[from + k] = buf[to + k]
    <3>1. from + k \in from .. len' - 1 /\ (from + k) + to - from = to + k
      BY <1>1
    <3>. QED BY <1>2, <3>1
  <2>2. SameBytes(buf', from, len', buf, to, len)
    BY <1>1, <2>1 DEF SameBytes
  <2>. QED BY <1>1, <2>2, Same
<1>. QED BY <1>3, <1>4

\* The character in front of the caret, and the one behind it.
LEMMA CharacterBefore ==
    ASSUME Good, Composed, NEW s \in 0 .. len, caret \in s + 1 .. len,
           Begins(s, caret), buf[s] \in First
    PROVE  \E x \in Character :
              /\ Characters(buf, s, caret) = <<x>>
              /\ Characters(buf, 0, caret) = Then(Characters(buf, 0, s), <<x>>)
<1>1. /\ len \in Nat /\ caret \in Nat /\ s \in Nat /\ 0 <= s /\ s < caret
      /\ s <= caret /\ TextIn(buf, 0, caret) /\ TextIn(buf, s, caret)
  BY FieldIsParted DEF Parted, TextIn
<1>2. \A j \in s + 1 .. caret - 1 : buf[j] \in Cont
  BY DEF Begins
<1>3. PICK x \in Character : Characters(buf, s, caret) = <<x>>
  BY <1>1, <1>2, Single
<1>4. Characters(buf, 0, caret) =
         Then(Characters(buf, 0, s), Characters(buf, s, caret))
  BY <1>1, Split
<1>. QED BY <1>3, <1>4

LEMMA CharacterBehind ==
    ASSUME Good, Composed, NEW e \in caret + 1 .. len, Ends(e, caret)
    PROVE  \E x \in Character :
              /\ Characters(buf, caret, e) = <<x>>
              /\ Characters(buf, caret, len) = Then(<<x>>, Characters(buf, e, len))
<1>1. /\ len \in Nat /\ caret \in Nat /\ e \in Nat /\ caret < e /\ caret <= e
      /\ e <= len /\ TextIn(buf, caret, len) /\ TextIn(buf, caret, e)
  BY FieldIsParted DEF Parted, TextIn
<1>2. /\ \A j \in caret + 1 .. e - 1 : buf[j] \in Cont
      /\ e < len => buf[e] \notin Cont
  BY <1>1 DEF Ends
<1>3. PICK x \in Character : Characters(buf, caret, e) = <<x>>
  BY <1>1, <1>2, Single
<1>4. Characters(buf, caret, len) =
         Then(Characters(buf, caret, e), Characters(buf, e, len))
  BY <1>1, <1>2, Split
<1>. QED BY <1>3, <1>4

LEMMA DeleteBackIs ==
    ASSUME Good, Composed, caret # 0, DeleteBack
    PROVE  \E x \in Character :
              /\ Characters(buf, 0, caret) = Then(Characters(buf', 0, caret'), <<x>>)
              /\ Characters(buf', caret', len') = Characters(buf, caret, len)
<1>1. PICK s \in Slots :
         /\ Begins(s, caret) /\ buf' = Removed(s, caret)
         /\ len' = len - (caret - s) /\ caret' = s
  BY DEF DeleteBack
<1>2. /\ s \in 0 .. len /\ caret \in s + 1 .. len
      /\ buf[s] \in First
  BY <1>1, Backward
<1>3. /\ Characters(buf', 0, caret') = Characters(buf, 0, s)
      /\ Characters(buf', caret', len') = Characters(buf, caret, len)
  BY <1>1, <1>2, RemoveTakes
<1>4. PICK x \in Character :
         Characters(buf, 0, caret) = Then(Characters(buf, 0, s), <<x>>)
  BY <1>1, <1>2, CharacterBefore
<1>. QED BY <1>3, <1>4

\* Where the characters are as the editor has them, so are the dots.
LEMMA LineIs ==
    ASSUME Good', Composed, NEW b, NEW a,
           Characters(buf', 0, caret') = b, Characters(buf', caret', len') = a
    PROVE  Promise!Line(b, a)
<1>1. Shown' = Len(b) + Len(a)
  BY FieldIsParted, DotsAre DEF Shown
<1>. QED BY <1>1 DEF Promise!Line

LEMMA BackspaceStep ==
    ASSUME Good, Good', Composed, DeleteBack
    PROVE  Promise!Backspace \/ UNCHANGED content
<1>1. CASE caret = 0
  BY <1>1 DEF DeleteBack
<1>2. CASE caret # 0
  <2>1. PICK x \in Character :
           /\ Characters(buf, 0, caret) = Then(Characters(buf', 0, caret'), <<x>>)
           /\ Characters(buf', caret', len') = Characters(buf, caret, len)
    BY <1>2, DeleteBackIs
  <2>2. Characters(buf', 0, caret') \in Seq(Character)
    BY FieldIsParted, Sides
  <2>3. /\ Characters(buf, 0, caret) # <<>>
        /\ Promise!Front(Characters(buf, 0, caret)) = Characters(buf', 0, caret')
    BY <2>1, <2>2, FrontAndLast DEF Promise!Front
  <2>4. Promise!Line(Promise!Front(Characters(buf, 0, caret)), Characters(buf, caret, len))
    BY <2>1, <2>3, LineIs
  <2>. QED BY <2>3, <2>4 DEF Promise!Backspace
<1>. QED BY <1>1, <1>2

LEMMA DeleteStep ==
    ASSUME Good, Good', Composed, DeleteForward
    PROVE  Promise!Delete \/ UNCHANGED content
<1>0. len \in Nat /\ caret \in 0 .. len
  BY DEF Good, ContentType
<1>1. CASE caret >= len
  BY <1>1 DEF DeleteForward
<1>2. CASE caret < len
  <2>1. PICK e \in Slots :
           /\ Ends(e, caret) /\ buf' = Removed(caret, e)
           /\ len' = len - (e - caret) /\ caret' = caret
    BY <1>0, <1>2 DEF DeleteForward
  <2>2. caret \in 0 .. len /\ e \in caret + 1 .. len
    BY <1>2, <2>1, Forward
  <2>3. /\ Characters(buf', 0, caret') = Characters(buf, 0, caret)
        /\ Characters(buf', caret', len') = Characters(buf, e, len)
    BY <2>1, <2>2, RemoveTakes
  <2>4. PICK x \in Character :
           Characters(buf, caret, len) = Then(<<x>>, Characters(buf', caret', len'))
    BY <2>1, <2>2, <2>3, CharacterBehind
  <2>5. Characters(buf', caret', len') \in Seq(Character)
    BY FieldIsParted, Sides
  <2>6. /\ Characters(buf, caret, len) # <<>>
        /\ Tail(Characters(buf, caret, len)) = Characters(buf', caret', len')
    BY <2>4, <2>5, HeadAndTail
  <2>7. Promise!Line(Characters(buf, 0, caret), Tail(Characters(buf, caret, len)))
    BY <2>3, <2>6, LineIs
  <2>. QED BY <2>6, <2>7 DEF Promise!Delete
<1>. QED BY <1>0, <1>1, <1>2

LEMMA LeftStep ==
    ASSUME Good, Good', Composed, MoveLeft
    PROVE  Promise!Left \/ UNCHANGED content
<1>1. CASE caret = 0
  BY <1>1 DEF MoveLeft, content
<1>2. CASE caret # 0
  <2>1. PICK s \in Slots : Begins(s, caret) /\ caret' = s
    BY <1>2 DEF MoveLeft
  <2>2. /\ s \in 0 .. len /\ caret \in s + 1 .. len /\ buf[s] \in First
        /\ buf' = buf /\ len' = len
    BY <1>2, <2>1, Backward DEF MoveLeft
  <2>. DEFINE B == Characters(buf, 0, s)
  <2>3. PICK x \in Character : /\ Characters(buf, s, caret) = <<x>>
                               /\ Characters(buf, 0, caret) = Then(B, <<x>>)
    BY <2>1, <2>2, CharacterBefore
  <2>4. Characters(buf', 0, caret') = B /\ B \in Seq(Character)
    BY <2>1, <2>2, FieldIsParted, Sides
  <2>5. /\ Characters(buf, 0, caret) # <<>>
        /\ Promise!Front(Characters(buf, 0, caret)) = B
        /\ Promise!Last(Characters(buf, 0, caret)) = x
    BY <2>3, <2>4, FrontAndLast DEF Promise!Front, Promise!Last
  <2>6. Characters(buf', caret', len') = Then(<<x>>, Characters(buf, caret, len))
    <3>1. /\ len \in Nat /\ caret \in Nat /\ s \in Nat /\ s <= caret /\ caret <= len
          /\ TextIn(buf, s, len) /\ (caret < len => buf[caret] \notin Cont)
      BY <2>2, FieldIsParted DEF Parted, TextIn
    <3>2. Characters(buf, s, len) =
             Then(Characters(buf, s, caret), Characters(buf, caret, len))
      BY <3>1, Split
    <3>. QED BY <2>1, <2>2, <2>3, <3>2
  <2>7. Promise!Line(Promise!Front(Characters(buf, 0, caret)),
                     <<Promise!Last(Characters(buf, 0, caret))>>
                        \o Characters(buf, caret, len))
    BY <2>4, <2>5, <2>6, LineIs DEF Then
  <2>. QED BY <2>5, <2>7 DEF Promise!Left
<1>. QED BY <1>1, <1>2

LEMMA RightStep ==
    ASSUME Good, Good', Composed, MoveRight
    PROVE  Promise!Right \/ UNCHANGED content
<1>0. len \in Nat /\ caret \in 0 .. len
  BY DEF Good, ContentType
<1>1. CASE caret >= len
  BY <1>1 DEF MoveRight, content
<1>2. CASE caret < len
  <2>1. PICK e \in Slots : Ends(e, caret) /\ caret' = e
    BY <1>0, <1>2 DEF MoveRight
  <2>2. /\ caret \in 0 .. len /\ e \in caret + 1 .. len
        /\ buf' = buf /\ len' = len
    BY <1>2, <2>1, Forward DEF MoveRight
  <2>3. PICK x \in Character :
           /\ Characters(buf, caret, e) = <<x>>
           /\ Characters(buf, caret, len) = Then(<<x>>, Characters(buf, e, len))
    BY <2>1, <2>2, CharacterBehind
  <2>4. /\ Characters(buf', caret', len') = Characters(buf, e, len)
        /\ Characters(buf, e, len) \in Seq(Character)
        /\ Characters(buf, 0, caret) \in Seq(Character)
    BY <2>1, <2>2, FieldIsParted, Sides
  <2>5. /\ Characters(buf, caret, len) # <<>>
        /\ Head(Characters(buf, caret, len)) = x
        /\ Tail(Characters(buf, caret, len)) = Characters(buf, e, len)
    BY <2>3, <2>4, HeadAndTail
  <2>6. Characters(buf', 0, caret') = Then(Characters(buf, 0, caret), <<x>>)
    <3>1. /\ 0 <= caret /\ caret \in Nat /\ e \in Nat /\ caret <= e
          /\ TextIn(buf, 0, e) /\ buf[caret] \notin Cont
      BY <1>2, <2>2, FieldIsParted DEF Parted, TextIn
    <3>2. Characters(buf, 0, e) =
             Then(Characters(buf, 0, caret), Characters(buf, caret, e))
      BY <3>1, Split
    <3>. QED BY <2>1, <2>2, <2>3, <3>2
  <2>7. Characters(buf', 0, caret') =
           Append(Characters(buf, 0, caret), Head(Characters(buf, caret, len)))
    BY <2>4, <2>5, <2>6, FrontAndLast
  <2>8. Promise!Line(Append(Characters(buf, 0, caret), Head(Characters(buf, caret, len))),
                     Tail(Characters(buf, caret, len)))
    BY <2>4, <2>5, <2>7, LineIs
  <2>. QED BY <2>5, <2>8 DEF Promise!Right
<1>. QED BY <1>0, <1>1, <1>2

\* Home, End and a click, wherever it lands.
LEMMA EndsStep ==
    ASSUME Good, Good', Composed, UNCHANGED <<buf, len>>
    PROVE  /\ caret' = 0   => Promise!Home
           /\ caret' = len => Promise!End
<1>1. /\ len \in Nat /\ len' = len /\ buf' = buf
      /\ Characters(buf, 0, len) =
            Then(Characters(buf, 0, caret), Characters(buf, caret, len))
  BY FieldIsParted, Sides DEF Parted
<1>2. Characters(buf, 0, 0) = <<>> /\ Characters(buf, len, len) = <<>>
  BY <1>1, Nothing
<1>3. ASSUME caret' = 0 PROVE Promise!Home
  <2>1. Promise!Line(<<>>, Characters(buf, 0, caret) \o Characters(buf, caret, len))
    BY <1>1, <1>2, <1>3, LineIs DEF Then
  <2>. QED BY <2>1 DEF Promise!Home
<1>4. ASSUME caret' = len PROVE Promise!End
  <2>1. Promise!Line(Characters(buf, 0, caret) \o Characters(buf, caret, len), <<>>)
    BY <1>1, <1>2, <1>4, LineIs DEF Then
  <2>. QED BY <2>1 DEF Promise!End
<1>. QED BY <1>3, <1>4

LEMMA EnterStep ==
    ASSUME Good, Good', Composed, NEW s \in Typed, Insert(Accepted(LookedUp(s)))
    PROVE  Promise!Enter \/ UNCHANGED content
<1>. DEFINE t == Accepted(LookedUp(s))
<1>1. t \in Seq(Text) /\ WholeText(t) /\ CharactersOf(t) \in KeyStrings
  BY TypedAssumption DEF KeyStrings
<1>. HIDE DEF t
<1>2. CASE UNCHANGED content
  BY <1>2
<1>3. CASE /\ Characters(buf', 0, caret') =
                Then(Characters(buf, 0, caret), CharactersOf(t))
           /\ Characters(buf', caret', len') = Characters(buf, caret, len)
  <2>1. Promise!Line(Characters(buf, 0, caret) \o CharactersOf(t),
                     Characters(buf, caret, len))
    BY <1>3, LineIs DEF Then
  <2>. QED BY <1>1, <2>1 DEF Promise!Enter
<1>. QED BY <1>1, <1>2, <1>3, InsertEnters DEF t

LEMMA NoKeyText == Insert(<<>>) => UNCHANGED content
BY DEF Insert

\* clear(), and the user name of the settings.
LEMMA PutStep ==
    ASSUME Good', Composed, Clear \/ SetText PROVE Promise!Put
<1>1. PICK n \in Names \cup {<<>>} :
         /\ buf' = [i \in Slots |-> IF i < Len(n) THEN n[i + 1] ELSE Nul]
         /\ len' = Len(n) /\ caret' = Len(n) /\ Len(n) \in Slots
  <2>1. CASE Clear
    <3>1. Len(<<>>) = 0 /\ 0 \in Slots
      OBVIOUS
    <3>2. /\ buf' = [i \in Slots |-> IF i < Len(<<>>) THEN <<>>[i + 1] ELSE Nul]
          /\ len' = Len(<<>>) /\ caret' = Len(<<>>)
      BY <2>1, <3>1 DEF Clear, Erase
    <3>. QED BY <3>1, <3>2
  <2>2. CASE SetText
    <3>1. PICK n \in Names :
             /\ buf' = [i \in Slots |-> IF i < Len(Kept(n)) THEN Kept(n)[i + 1] ELSE Nul]
             /\ len' = Len(Kept(n)) /\ caret' = Len(Kept(n))
      BY <2>2 DEF SetText
    <3>2. Kept(n) = n /\ Len(n) \in Slots
      BY NamesAssumption DEF Kept
    <3>. QED BY <3>1, <3>2
  <2>. QED BY <2>1, <2>2
<1>. DEFINE m == Len(n)
            g == [i \in 0 .. m - 1 |-> n[i + 1]]
<1>2. m \in Nat /\ m < Capacity /\ CharactersOf(n) = Characters(g, 0, m)
  BY <1>1 DEF CharactersOf
<1>3. \A k \in 0 .. m - 1 : g[k] = buf'[k]
  BY <1>1
<1>. HIDE DEF m, g
<1>4. SameBytes(buf', 0, m, g, 0, m)
  BY <1>2, <1>3 DEF SameBytes
<1>5. Characters(buf', 0, m) = CharactersOf(n)
  BY <1>2, <1>4, Same
<1>6. Characters(buf', m, m) = <<>>
  BY <1>2, Nothing
<1>7. Promise!Line(CharactersOf(n), <<>>)
  BY <1>1, <1>5, <1>6, LineIs DEF m
<1>. QED BY <1>7 DEF Promise!Put, FieldValues

LEMMA PromiseInit == Init => Promise!Init
<1>. SUFFICES ASSUME Init PROVE Promise!Init
  OBVIOUS
<1>1. Characters(buf, 0, caret) = <<>> /\ Characters(buf, caret, len) = <<>>
  BY Nothing DEF Init
<1>2. Shown = 0
  <2>1. {i \in 0 .. len - 1 : buf[i] \notin Cont} = {}
    BY DEF Init
  <2>. QED BY <2>1, FS_EmptySet DEF Shown
<1>. QED BY <1>1, <1>2 DEF Promise!Init

\* A key is one operation of the editor, or none.
LEMMA HandleKeyStep ==
    ASSUME Good, Good', Composed, NEW k, NEW t, HandleKey(k, t),
           Insert(t) => Promise!Enter \/ UNCHANGED content
    PROVE  Promise!Next \/ UNCHANGED content
<1>1. CASE k = "Backspace"
  BY <1>1, BackspaceStep DEF HandleKey, Promise!Next
<1>2. CASE k = "Delete"
  BY <1>2, DeleteStep DEF HandleKey, Promise!Next
<1>3. CASE k = "Left"
  BY <1>3, LeftStep DEF HandleKey, Promise!Next
<1>4. CASE k = "Right"
  BY <1>4, RightStep DEF HandleKey, Promise!Next
<1>5. CASE k = "Home"
  BY <1>5, EndsStep DEF HandleKey, Go, Promise!Next
<1>6. CASE k = "End"
  BY <1>6, EndsStep DEF HandleKey, Go, Promise!Next
<1>7. CASE k = "Plain"
  BY <1>7 DEF HandleKey, Promise!Next
<1>8. CASE k \notin {"Backspace", "Delete", "Left", "Right", "Home", "End", "Plain"}
  BY <1>8 DEF HandleKey
<1>. QED BY <1>1, <1>2, <1>3, <1>4, <1>5, <1>6, <1>7, <1>8

LEMMA PromiseStep ==
    ASSUME Good, Composed, [Next]_vars PROVE [Promise!Next]_(Promise!vars)
<1>0. Good'
  BY Step
<1>1. UNCHANGED content => UNCHANGED Promise!vars
  BY DEF content, Promise!vars, Shown
<1>2. CASE KeyPressSym
  <2>1. PICK sym \in DOMAIN KeyOf \ {"NoSymbol"} : HandleKey(KeyOf[sym], <<>>)
    BY <1>2 DEF KeyPressSym
  <2>. QED BY <1>0, <1>1, <2>1, NoKeyText, HandleKeyStep
<1>3. CASE KeyPressText
  <2>1. PICK s \in Typed : HandleKey(KeyOf["NoSymbol"], Accepted(LookedUp(s)))
    BY <1>3 DEF KeyPressText
  <2>. QED BY <1>0, <1>1, <2>1, EnterStep, HandleKeyStep
<1>4. CASE Click
  BY <1>0, <1>4, EndsStep DEF Click, Promise!Next
<1>5. CASE SetFocused \/ SetEnabled
  BY <1>1, <1>5 DEF SetFocused, SetEnabled
<1>6. CASE Clear \/ SetText
  BY <1>0, <1>6, PutStep DEF Promise!Next
<1>7. CASE UNCHANGED vars
  BY <1>1, <1>7 DEF vars
<1>. QED BY <1>2, <1>3, <1>4, <1>5, <1>6, <1>7 DEF Next

\* With an input context the operations on bytes are those of a line editor
\* on characters, with one dot for each, for every array, keyboard and
\* length of text.
THEOREM Implementation == ASSUME Composed PROVE Spec => ImplementsEditor
<1>1. Inv /\ [Next]_vars => [Promise!Next]_(Promise!vars)
  BY PromiseStep DEF Inv, Good, ContentType, TypeOK
<1>. QED BY <1>1, Invariance, PromiseInit, PTL
         DEF Spec, ImplementsEditor, Promise!Spec
=============================================================================
