---------------------------- MODULE MCTokenPrice ----------------------------
(***************************************************************************)
(* Instances of TokenPrice for TLC.                                        *)
(***************************************************************************)
EXTENDS TokenPrice, TLC

Symmetry == Permutations(Requests)

=============================================================================
