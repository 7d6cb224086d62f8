--------------------------- MODULE ExtremaProofs ---------------------------
(***************************************************************************)
(* A set of positions that is not empty has a first and a last element, so *)
(* the choice operators of Extrema return what they are named for.         *)
(***************************************************************************)
EXTENDS Extrema, WellFoundedInduction, TLAPS

(* A nonempty set of positions has a first one.                             *)
LEMMA EarliestExists ==
    ASSUME NEW S \in SUBSET Nat, S # {}
    PROVE  \E p \in S : IsEarliest(p, S)
<1>1. PICK p \in S : \A q \in S : ~(<<q, p>> \in OpToRel(<, Nat))
  BY WFMin, NatLessThanWellFounded
<1>2. \A q \in S : ~(q < p)
  BY <1>1 DEF OpToRel
<1>. QED  BY <1>2, SMT DEF IsEarliest

(* A nonempty set of positions up to a bound has a last one.                *)
LEMMA LatestExists ==
    ASSUME NEW n \in Nat, NEW S \in SUBSET (0 .. n), S # {}
    PROVE  \E p \in S : IsLatest(p, S)
<1>. DEFINE T == {n - q : q \in S}
<1>1. T \in SUBSET Nat /\ T # {}
  <2>1. \A q \in S : n - q \in Nat
    OBVIOUS
  <2>2. T \in SUBSET Nat
    BY <2>1
  <2>3. T # {}
    BY Zenon
  <2>. QED  BY <2>2, <2>3
<1>2. PICK t \in T : IsEarliest(t, T)
  BY <1>1, EarliestExists
<1>3. PICK p \in S : t = n - p
  BY <1>2
<1>4. \A q \in S : n - p <= n - q
  BY <1>2, <1>3 DEF IsEarliest
<1>. QED  BY <1>4, SMT DEF IsLatest

(* What the two choice operators of the model return.                       *)
LEMMA EarliestIsFirst ==
    ASSUME NEW S \in SUBSET Nat
    PROVE  /\ S = {} => Earliest(S) = 0
           /\ S # {} => IsEarliest(Earliest(S), S)
<1>1. CASE S = {}
  BY <1>1 DEF Earliest
<1>2. CASE S # {}
  <2>1. \E p \in S : IsEarliest(p, S)
    BY <1>2, EarliestExists
  <2>. QED  BY <1>2, <2>1 DEF Earliest
<1>. QED  BY <1>1, <1>2

(* Latest returns the last one, or 0 when there is none.                    *)
LEMMA LatestIsLast ==
    ASSUME NEW n \in Nat, NEW S \in SUBSET (0 .. n)
    PROVE  /\ S = {} => Latest(S) = 0
           /\ S # {} => IsLatest(Latest(S), S)
<1>1. CASE S = {}
  BY <1>1 DEF Latest
<1>2. CASE S # {}
  <2>1. \E p \in S : IsLatest(p, S)
    BY <1>2, LatestExists
  <2>. QED  BY <1>2, <2>1 DEF Latest
<1>. QED  BY <1>1, <1>2
============================================================================
