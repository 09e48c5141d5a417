---------------------------- MODULE NaturalFacts ----------------------------
(***************************************************************************)
(* Least and greatest elements of sets of naturals.                        *)
(***************************************************************************)
EXTENDS Integers, FiniteSetTheorems, WellFoundedInduction, TLAPS

\* Every non-empty set of naturals has a least element (by the intervals its
\* elements span, which strict inclusion orders well).
LEMMA LeastNatural ==
  ASSUME NEW S \in SUBSET Nat, S # {}
  PROVE  \E x \in S : \A y \in S : x <= y
<1> DEFINE Spans == {1 .. v : v \in S}
<1>1. IsWellFoundedOn(StrictSubsetOrdering(Nat), FiniteSubsetsOf(Nat))
  BY FS_StrictSubsetOrderingWellFounded
<1>2. Spans \subseteq FiniteSubsetsOf(Nat)
  <2>1. ASSUME NEW v \in S PROVE 1 .. v \in FiniteSubsetsOf(Nat)
    <3>1. IsFiniteSet(1 .. v)
      BY FS_Interval
    <3> QED BY <3>1 DEF FiniteSubsetsOf
  <2> QED BY <2>1
<1>3. Spans # {}
  OBVIOUS
<1>4. PICK span \in Spans : \A other \in Spans : ~(<<other, span>> \in StrictSubsetOrdering(Nat))
  <2> HIDE DEF Spans
  <2> QED BY <1>1, <1>2, <1>3, WFMin
<1>5. PICK x \in S : span = 1 .. x
  OBVIOUS
<1>6. ASSUME NEW y \in S, y < x PROVE FALSE
  <2>1. 1 .. y \subseteq 1 .. x
    BY <1>6
  <2>2. x \in 1 .. x /\ x \notin 1 .. y
    BY <1>6
  <2>3. <<1 .. y, 1 .. x>> \in StrictSubsetOrdering(Nat)
    BY <2>1, <2>2 DEF StrictSubsetOrdering
  <2> QED BY <2>3, <1>4, <1>5
<1> QED BY <1>6

\* Every non-empty bounded set of naturals has a greatest element.
LEMMA GreatestNatural ==
  ASSUME NEW bound \in Nat, NEW S \in SUBSET (0 .. bound), S # {}
  PROVE  \E x \in S : \A y \in S : y <= x
<1> DEFINE T == {bound - x : x \in S}
<1>1. T \in SUBSET Nat /\ T # {}
  <2>1. \A x \in S : x \in 0 .. bound
    OBVIOUS
  <2>2. \A x \in S : bound - x \in Nat
    BY <2>1
  <2> QED
    BY <2>2
<1>2. PICK t \in T : \A u \in T : t <= u
  <2> HIDE DEF T
  <2> QED
    BY <1>1, LeastNatural
<1>3. PICK x \in S : t = bound - x
  OBVIOUS
<1>4. ASSUME NEW y \in S PROVE y <= x
  <2>1. bound - y \in T
    OBVIOUS
  <2>2. t <= bound - y
    BY <1>2, <2>1
  <2>3. x \in 0 .. bound /\ y \in 0 .. bound
    OBVIOUS
  <2> HIDE DEF T
  <2> QED
    BY <1>3, <2>2, <2>3
<1> QED
  BY <1>4
=============================================================================
