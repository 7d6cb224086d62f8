------------------------------ MODULE Extrema ------------------------------
(***************************************************************************)
(* First and last of a set of log positions; 0, the integer that stands    *)
(* for None, when the set is empty.                                        *)
(***************************************************************************)
EXTENDS Integers

IsEarliest(p, S) == p \in S /\ \A q \in S : p <= q
IsLatest(p, S) == p \in S /\ \A q \in S : q <= p

Earliest(S) == IF S = {} THEN 0 ELSE CHOOSE p \in S : IsEarliest(p, S)
Latest(S) == IF S = {} THEN 0 ELSE CHOOSE p \in S : IsLatest(p, S)
============================================================================
