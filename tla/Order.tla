-------------------------------- MODULE Order --------------------------------
(***************************************************************************)
(* The elements of a set of numbers in ascending order.  It is what        *)
(* SetToSortSeq of the community modules returns for <, by a definition    *)
(* that proofs can use: the i-th element is the one up to which there are  *)
(* i elements.                                                             *)
(***************************************************************************)
EXTENDS Integers, FiniteSets

UpTo(S, x) == {y \in S : y <= x}

InOrder(S) == [i \in 1..Cardinality(S) |->
                 CHOOSE x \in S : Cardinality(UpTo(S, x)) = i]

=============================================================================
