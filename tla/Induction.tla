----------------------------- MODULE Induction ------------------------------
(***************************************************************************)
(* Induction over natural numbers as the provers can use it: the library's *)
(* theorem takes a predicate, these lemmas take a set.  From it, that a    *)
(* bounded set of numbers has a greatest and a least one, which is what    *)
(* Max and Min of the models rest on.                                      *)
(***************************************************************************)
EXTENDS Integers, FiniteSetsExt, FiniteSetTheorems, WellFoundedInduction, TLAPS

LEMMA LeastNatural ==
    ASSUME NEW T \in SUBSET Nat, T # {}
    PROVE  \E m \in T : \A n \in T : m <= n
<1>. DEFINE R == {p \in Nat \X Nat : p[1] < p[2]}
<1>1. R = OpToRel(<, Nat)
  BY Zenon DEF OpToRel
<1>2. IsWellFoundedOn(R, Nat)
  BY <1>1, NatLessThanWellFounded, Zenon
<1>. HIDE DEF R
<1>3. PICK m \in T : \A n \in T : <<n, m>> \notin R
  BY <1>2, WFMin
<1>4. ASSUME NEW n \in T PROVE m <= n
  <2>1. <<n, m>> \in Nat \X Nat /\ <<n, m>>[1] = n /\ <<n, m>>[2] = m
    OBVIOUS
  <2>2. ~ (<<n, m>>[1] < <<n, m>>[2])
    BY <1>3, <2>1 DEF R
  <2>. QED BY <2>1, <2>2
<1>. QED BY <1>4

\* A set with 0 and, with each number, the next one has all of them.
LEMMA SetInduction ==
    ASSUME NEW T, 0 \in T, \A n \in Nat : n \in T => n + 1 \in T
    PROVE  Nat \subseteq T
<1>. DEFINE U == Nat \ T
<1>1. SUFFICES ASSUME U # {} PROVE FALSE
  OBVIOUS
<1>2. PICK m \in U : \A n \in U : m <= n
  BY <1>1, LeastNatural
<1>3. m \in Nat /\ m # 0 /\ m - 1 \in Nat /\ m - 1 \notin U
  BY <1>2
<1>4. m - 1 \in T /\ (m - 1) + 1 = m
  BY <1>3
<1>. QED BY <1>2, <1>3, <1>4

LEMMA GreatestNatural ==
    ASSUME NEW T \in SUBSET Nat, T # {}, NEW top \in Nat, \A n \in T : n <= top
    PROVE  \E m \in T : \A n \in T : m >= n
<1>. DEFINE U == {top - n : n \in T}
<1>1. U \in SUBSET Nat /\ U # {}
  <2>1. \A n \in T : top - n \in Nat
    OBVIOUS
  <2>2. PICK t \in T : TRUE
    OBVIOUS
  <2>. QED BY <2>1, <2>2
<1>2. PICK d \in U : \A e \in U : d <= e
  BY <1>1, LeastNatural
<1>3. PICK m \in T : d = top - m
  BY <1>2
<1>4. ASSUME NEW n \in T PROVE m >= n
  BY <1>2, <1>3
<1>. QED BY <1>4

\* Max and Min of FiniteSetsExt are what they are called.
LEMMA MaxIsGreatest ==
    ASSUME NEW T \in SUBSET Nat, T # {}, NEW top \in Nat, \A n \in T : n <= top
    PROVE  Max(T) \in T /\ \A n \in T : Max(T) >= n
BY GreatestNatural DEF Max

LEMMA MinIsLeast ==
    ASSUME NEW T \in SUBSET Nat, T # {}
    PROVE  Min(T) \in T /\ \A n \in T : Min(T) <= n
BY LeastNatural DEF Min
=============================================================================
