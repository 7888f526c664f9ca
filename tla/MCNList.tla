------------------------------- MODULE MCNList -------------------------------
(***************************************************************************)
(* An instance of NListHistory for TLC.                                    *)
(***************************************************************************)
EXTENDS NListHistory, TLC

Symmetry == Permutations(Node)

=============================================================================
