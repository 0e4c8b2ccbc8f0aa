--------------------------- MODULE NumberTheorems ---------------------------
(***************************************************************************)
(* Least and greatest elements of sets of natural numbers, and induction,  *)
(* stated for sets.                                                        *)
(***************************************************************************)
EXTENDS Integers, FiniteSets, FiniteSetTheorems, WellFoundedInduction, TLAPS

(* A set of naturals that is not empty has a least element.  The chain of *)
(* the sets below its elements stands for it among the finite sets.        *)
LEMMA LeastOf ==
    ASSUME NEW B \in SUBSET Nat, B # {}
    PROVE  \E m \in B : \A k \in B : m <= k
<1>. DEFINE Below(n) == 0 .. n - 1
            T == {Below(n) : n \in B}
<1>1. IsWellFoundedOn(StrictSubsetOrdering(Nat), FiniteSubsetsOf(Nat))
  BY FS_StrictSubsetOrderingWellFounded
<1>2. T \subseteq FiniteSubsetsOf(Nat)
  <2>1. \A n \in B : IsFiniteSet(0 .. n - 1)
    BY FS_Interval
  <2>. QED
    BY <2>1 DEF FiniteSubsetsOf
<1>3. T # {}
  OBVIOUS
<1>4. PICK X \in T : \A Y \in T : ~ (<<Y, X>> \in StrictSubsetOrdering(Nat))
  <2>. HIDE DEF T
  <2>. QED
    BY <1>1, <1>2, <1>3, WFMin
<1>5. PICK m \in B : X = Below(m)
  OBVIOUS
<1>6. ASSUME NEW k \in B PROVE m <= k
  <2>1. SUFFICES ASSUME k < m PROVE FALSE
    OBVIOUS
  <2>2. Below(k) \in T
    OBVIOUS
  <2>3. <<Below(k), Below(m)>> \in StrictSubsetOrdering(Nat)
    <3>1. Below(k) \subseteq Below(m) /\ k \in Below(m) /\ k \notin Below(k)
      BY <2>1
    <3>2. Below(k) \in SUBSET Nat /\ Below(m) \in SUBSET Nat
      OBVIOUS
    <3>. HIDE DEF Below
    <3>. QED
      BY <3>1, <3>2 DEF StrictSubsetOrdering
  <2>. QED
    BY <1>4, <1>5, <2>2, <2>3
<1>. QED
  BY <1>6

(* One that is bounded has a greatest element. *)
LEMMA GreatestOf ==
    ASSUME NEW n \in Nat, NEW B \in SUBSET (0 .. n), B # {}
    PROVE  \E m \in B : \A k \in B : k <= m
<1>. DEFINE U == {b \in 0 .. n : \A k \in B : k <= b}
<1>1. U \in SUBSET Nat /\ n \in U
  OBVIOUS
<1>2. PICK m \in U : \A k \in U : m <= k
  <2>. HIDE DEF U
  <2>. QED
    BY <1>1, LeastOf
<1>3. m \in B
  <2>1. SUFFICES ASSUME m \notin B PROVE FALSE
    OBVIOUS
  <2>2. \A k \in B : k <= m - 1
    BY <2>1
  <2>a. PICK k \in B : TRUE
    OBVIOUS
  <2>3. m - 1 \in 0 .. n
    BY <2>2, <2>a
  <2>. QED
    BY <1>2, <2>2, <2>3
<1>. QED
  BY <1>3

(* Induction: a set of naturals with 0 and all successors has them all. *)
LEMMA InductiveSet ==
    ASSUME NEW S, 0 \in S, \A n \in Nat : n \in S => n + 1 \in S
    PROVE  \A n \in Nat : n \in S
<1>1. SUFFICES ASSUME Nat \ S # {} PROVE FALSE
  OBVIOUS
<1>2. PICK m \in Nat \ S : \A k \in Nat \ S : m <= k
  <2>. DEFINE B == Nat \ S
  <2>1. B \in SUBSET Nat /\ B # {}
    BY <1>1
  <2>. HIDE DEF B
  <2>2. \E m \in B : \A k \in B : m <= k
    BY <2>1, LeastOf
  <2>. QED
    BY <2>2 DEF B
<1>3. m # 0 /\ m - 1 \in Nat /\ m - 1 + 1 = m
  OBVIOUS
<1>4. m - 1 \in S
  BY <1>2, <1>3
<1>. QED
  BY <1>3, <1>4
=============================================================================
