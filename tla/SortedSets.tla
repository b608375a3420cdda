----------------------------- MODULE SortedSets ------------------------------
(***************************************************************************)
(* What the maps, iterators and sorts of the code keep in order: the       *)
(* members of a finite set, in a strict total order given as a relation.   *)
(***************************************************************************)
EXTENDS Integers, FiniteSets

IsStrictOrder(R, S) ==
    /\ \A x, y \in S : x # y <=> (<<x, y>> \in R \/ <<y, x>> \in R)
    /\ \A x, y, z \in S : <<x, y>> \in R /\ <<y, z>> \in R => <<x, z>> \in R

\* How many come before x.
Place(x, S, R) == Cardinality({y \in S : <<y, x>> \in R})

SortedBy(S, R) == [i \in 1..Cardinality(S) |-> CHOOSE x \in S : Place(x, S, R) = i - 1]
=============================================================================
