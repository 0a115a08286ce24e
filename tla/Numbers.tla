------------------------------ MODULE Numbers ------------------------------
(***************************************************************************)
(* Facts about natural numbers on which the proofs of several modules rest. *)
(***************************************************************************)
EXTENDS Integers, FiniteSetTheorems, WellFoundedInduction, TLAPS

\* The least-number principle.  An induction is a proof that the set of its
\* counterexamples has no least element.
LEMMA LeastNumber ==
  ASSUME NEW X \in SUBSET Nat, X # {}
  PROVE  \E m \in X : \A n \in X : m <= n
<1> DEFINE below(x) == 0 .. x
           T == {below(x) : x \in X}
           Less == StrictSubsetOrdering(Nat)
<1>1. T \subseteq FiniteSubsetsOf(Nat) /\ T # {}
  <2>1. ASSUME NEW x \in X PROVE IsFiniteSet(below(x)) /\ below(x) \in SUBSET Nat
    BY FS_Interval
  <2> QED BY <2>1 DEF FiniteSubsetsOf
<1>2. IsWellFoundedOn(Less, FiniteSubsetsOf(Nat))
  BY FS_StrictSubsetOrderingWellFounded
<1> HIDE DEF T, Less
<1>3. PICK t \in T : \A u \in T : <<u, t>> \notin Less
  BY <1>1, <1>2, WFMin
<1>4. PICK m \in X : t = below(m)
  BY DEF T
<1>5. ASSUME NEW n \in X, n < m PROVE FALSE
  <2>1. below(n) \in T
    BY DEF T
  <2>2. below(n) \subseteq below(m) /\ m \in below(m) /\ m \notin below(n)
    BY <1>5
  <2>3. <<below(n), below(m)>> \in Less
    BY <1>1, <1>4, <2>1, <2>2 DEF Less, StrictSubsetOrdering, FiniteSubsetsOf
  <2> QED BY <1>3, <1>4, <2>1, <2>3
<1> QED BY <1>5

\* Induction: what is so of low, and of n + 1 when it is of n, is so up to high.  S is
\* the set of the numbers of which it is so.
LEMMA Climb ==
  ASSUME NEW low \in Nat, NEW high \in Nat, NEW S \in SUBSET (low .. high), low \in S,
         \A n \in low .. high - 1 : n \in S => n + 1 \in S
  PROVE  S = low .. high
<1> DEFINE Bad == {n \in low .. high : n \notin S}
<1> SUFFICES ASSUME Bad # {} PROVE FALSE
  OBVIOUS
<1>1. Bad \in SUBSET Nat
  OBVIOUS
<1>2. PICK n \in Bad : \A k \in Bad : n <= k
  BY <1>1, LeastNumber
<1>3. n \in low .. high /\ n \notin S /\ n # low
  BY <1>2
<1>4. n - 1 \in low .. high - 1 /\ n - 1 \in low .. high /\ (n - 1) + 1 = n /\ ~ (n <= n - 1)
  BY <1>3
<1>5. n - 1 \in S
  BY <1>2, <1>4
<1> QED BY <1>3, <1>4, <1>5

\* The multiples of R are in the order of their factors, R apart at least
LEMMA Multiples ==
  ASSUME NEW R \in Nat, NEW a \in Nat, NEW b \in Nat
  PROVE  /\ a * R \in Nat /\ (a + 1) * R = a * R + R
         /\ R # 0 => a <= a * R
         /\ a < b => a * R + R <= b * R
         /\ a * R < b * R => a < b
<1>1. \A c, d \in Nat : c * R \in Nat /\ (c + d) * R = c * R + d * R
  OBVIOUS
<1>2. ASSUME R # 0 PROVE a <= a * R
  <2>1. R - 1 \in Nat /\ R = 1 + (R - 1)
    BY <1>2
  <2>2. a * (R - 1) \in Nat /\ a * R = a + a * (R - 1)
    BY <2>1
  <2> QED BY <2>2
<1>3. ASSUME NEW c \in Nat, NEW d \in Nat, c < d PROVE c * R + R <= d * R
  <2>1. d - c - 1 \in Nat /\ d = c + (1 + (d - c - 1))
    BY <1>3
  <2>2. (d - c - 1) * R \in Nat /\ d * R = c * R + (1 * R + (d - c - 1) * R)
    BY <1>1, <2>1
  <2> QED BY <1>1, <2>2
<1>4. a * R < b * R => a < b
  <2>1. CASE b < a
    BY <1>1, <1>3, <2>1
  <2> QED BY <1>1, <2>1
<1> QED BY <1>1, <1>2, <1>3, <1>4
=============================================================================
