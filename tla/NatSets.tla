------------------------------ MODULE NatSets -------------------------------
(***************************************************************************)
(* The least number of a set and induction over a set of numbers, for the  *)
(* proofs about scans for a first match and about recursive functions.     *)
(***************************************************************************)
EXTENDS Naturals, TLAPS, FiniteSets, FiniteSetTheorems, WellFoundedInduction

(* A set of numbers that is not empty has a least element. *)
LEMMA LeastElement ==
  ASSUME NEW S, S \subseteq Nat, S # {}
  PROVE  \E m \in S : \A k \in S : m <= k
  <1> DEFINE Less == {ss \in Nat \X Nat : ss[1] < ss[2]}
  <1>1. IsWellFoundedOn(Less, Nat)
    BY NatLessThanWellFounded DEF OpToRel
  <1>2. \E m \in S : \A k \in S : ~ (<<k, m>> \in Less)
    <2> HIDE DEF Less
    <2> QED BY <1>1, WFMin
  <1>3. \A k, m \in S : ~ (<<k, m>> \in Less) => m <= k
    OBVIOUS
  <1> HIDE DEF Less
  <1> QED BY <1>2, <1>3, Zenon

(* A set that has 0 and the successor of each of its numbers has them all. *)
LEMMA SetInduction ==
  ASSUME NEW S, 0 \in S, \A n \in Nat : n \in S => n + 1 \in S
  PROVE  Nat \subseteq S
  <1> SUFFICES ASSUME Nat \ S # {} PROVE FALSE
    OBVIOUS
  <1>1. PICK m \in Nat \ S : \A k \in Nat \ S : m <= k
    BY LeastElement
  <1>2. m - 1 \in Nat /\ (m - 1) + 1 = m
    BY <1>1
  <1>3. m - 1 \in S
    BY <1>1, <1>2
  <1> QED BY <1>1, <1>2, <1>3
-----------------------------------------------------------------------------
(* One step of the sum over a set, as MapThenSumSet takes it: an element's *)
(* weight and the sum g has for the others.                                *)
SumStep(w, g, s) ==
  IF s = {} THEN 0
  ELSE w[CHOOSE x \in s : TRUE] + g[s \ {CHOOSE x \in s : TRUE}]

(* The sums over the subsets of T. *)
Sums(w, T) == CHOOSE g : g = [s \in SUBSET T |-> SumStep(w, g, s)]

(* The function of sums exists, for a finite set: it is built from the     *)
(* subsets with fewer elements.                                            *)
LEMMA SumsIs ==
  ASSUME NEW T, IsFiniteSet(T), NEW w
  PROVE  \A s \in SUBSET T : Sums(w, T)[s] = SumStep(w, Sums(w, T), s)
  <1> DEFINE Upto(n) == {s \in SUBSET T : Cardinality(s) <= n}
             Is(g, n) == g = [s \in Upto(n) |-> SumStep(w, g, s)]
             S == {n \in Nat : \E g : Is(g, n)}
  <1>1. \A s \in SUBSET T : IsFiniteSet(s) /\ Cardinality(s) \in Nat
                            /\ Cardinality(s) <= Cardinality(T)
    BY FS_Subset, FS_CardinalityType
  <1>2. ASSUME NEW s \in SUBSET T, s # {}
        PROVE  /\ s \ {CHOOSE x \in s : TRUE} \in SUBSET T
               /\ Cardinality(s \ {CHOOSE x \in s : TRUE}) = Cardinality(s) - 1
    <2> DEFINE x == CHOOSE y \in s : TRUE
    <2>1. x \in s
      BY <1>2
    <2> HIDE DEF x
    <2>2. Cardinality(s \ {x}) = Cardinality(s) - 1
      BY <1>1, <2>1, FS_RemoveElement
    <2> QED BY <2>2 DEF x
  <1>3. 0 \in S
    <2> DEFINE g == [s \in Upto(0) |-> 0]
    <2>1. \A s \in Upto(0) : s = {}
      BY <1>1, FS_EmptySet
    <2>2. [s \in Upto(0) |-> SumStep(w, g, s)] = g
      BY <2>1 DEF SumStep
    <2>3. Is(g, 0)
      BY <2>2
    <2> QED BY <2>3
  <1>4. ASSUME NEW n \in Nat, n \in S PROVE n + 1 \in S
    <2>1. PICK g : Is(g, n)
      BY <1>4
    <2> DEFINE h == [s \in Upto(n + 1) |-> SumStep(w, g, s)]
    <2>2. Upto(n) \subseteq Upto(n + 1)
      BY <1>1
    <2>3. ASSUME NEW s \in Upto(n) PROVE h[s] = g[s]
      BY <2>1, <2>2
    <2>4. ASSUME NEW s \in Upto(n + 1) PROVE h[s] = SumStep(w, h, s)
      <3>1. CASE s = {}
        BY <3>1 DEF SumStep
      <3>2. CASE s # {}
        <4> DEFINE r == s \ {CHOOSE x \in s : TRUE}
        <4>1. r \in Upto(n)
          BY <1>1, <1>2, <3>2
        <4>2. h[r] = g[r]
          BY <2>3, <4>1
        <4>3. h[s] = SumStep(w, g, s)
          OBVIOUS
        <4> HIDE DEF h
        <4> QED BY <3>2, <4>2, <4>3 DEF SumStep
      <3> QED BY <3>1, <3>2
    <2>5. Is(h, n + 1)
      <3>1. h = [s \in Upto(n + 1) |-> h[s]]
        OBVIOUS
      <3> HIDE DEF h, Upto
      <3> QED BY <2>4, <3>1
    <2> HIDE DEF h, Is
    <2> QED BY <2>5
  <1>5. Cardinality(T) \in S
    <2> HIDE DEF S
    <2>1. Nat \subseteq S
      BY <1>3, <1>4, SetInduction
    <2> QED BY <2>1, FS_CardinalityType
  <1>6. \E g : Is(g, Cardinality(T))
    BY <1>5
  <1>7. Upto(Cardinality(T)) = SUBSET T
    BY <1>1
  <1>8. \E g : g = [s \in SUBSET T |-> SumStep(w, g, s)]
    BY <1>6, <1>7
  <1> DEFINE f == Sums(w, T)
  <1>9. f = [s \in SUBSET T |-> SumStep(w, f, s)]
    BY <1>8, Zenon DEF Sums
  <1> HIDE DEF f
  <1>10. \A s \in SUBSET T : f[s] = SumStep(w, f, s)
    BY <1>9
  <1> QED BY <1>10 DEF f

(* A sum of natural numbers is one, and at least as large as each of them. *)
LEMMA SumBounds ==
  ASSUME NEW T, IsFiniteSet(T), NEW w, \A c \in T : w[c] \in Nat
  PROVE  Sums(w, T)[T] \in Nat /\ \A c \in T : w[c] <= Sums(w, T)[T]
  <1> DEFINE f == Sums(w, T)
             Good(s) == f[s] \in Nat /\ \A c \in s : w[c] <= f[s]
             S == {n \in Nat : \A s \in SUBSET T : Cardinality(s) = n => Good(s)}
  <1>1. \A s \in SUBSET T : IsFiniteSet(s) /\ Cardinality(s) \in Nat
    BY FS_Subset, FS_CardinalityType
  <1>2. \A s \in SUBSET T : f[s] = SumStep(w, f, s)
    BY SumsIs
  <1> HIDE DEF f
  <1>3. 0 \in S
    <2>1. ASSUME NEW s \in SUBSET T, Cardinality(s) = 0 PROVE Good(s)
      <3>1. s = {}
        BY <1>1, <2>1, FS_EmptySet
      <3>2. SumStep(w, f, s) = 0
        BY <3>1 DEF SumStep
      <3>3. f[s] = 0
        BY <1>2, <3>2
      <3> QED BY <3>1, <3>3
    <2> QED BY <2>1
  <1>4. ASSUME NEW n \in Nat, n \in S PROVE n + 1 \in S
    <2> SUFFICES ASSUME NEW s \in SUBSET T, Cardinality(s) = n + 1 PROVE Good(s)
      OBVIOUS
    <2> DEFINE x == CHOOSE y \in s : TRUE  r == s \ {x}
    <2>1. s # {}
      BY FS_EmptySet
    <2>2. x \in s
      BY <2>1
    <2>5. f[s] = w[x] + f[r]
      BY <1>2, <2>1 DEF SumStep
    <2> HIDE DEF x
    <2>3. r \in SUBSET T /\ Cardinality(r) = n
      <3>1. Cardinality(s \ {x}) = Cardinality(s) - 1
        BY <1>1, <2>2, FS_RemoveElement
      <3>2. (n + 1) - 1 = n
        OBVIOUS
      <3> QED BY <3>1, <3>2
    <2>4. Good(r)
      BY <1>4, <2>3
    <2>6. \A c \in s : c = x \/ c \in r
      OBVIOUS
    <2>7. w[x] \in Nat /\ f[r] \in Nat /\ \A c \in r : w[c] \in Nat /\ w[c] <= f[r]
      BY <2>2, <2>4
    <2> HIDE DEF r
    <2> QED BY <2>5, <2>6, <2>7
  <1>5. Nat \subseteq S
    <2> HIDE DEF S
    <2> QED BY <1>3, <1>4, SetInduction
  <1>6. Cardinality(T) \in S /\ T \in SUBSET T
    BY <1>5, FS_CardinalityType
  <1> QED BY <1>6 DEF f
=============================================================================
