------------------------------ MODULE MCWallets ------------------------------
(***************************************************************************)
(* Instances of Wallets for TLC: two addresses that batches list in either *)
(* order, so that concurrent registrations can wait for each other.        *)
(***************************************************************************)
EXTENDS Wallets, TLC

CONSTANTS a1, a2   \* the two addresses

MCBatches == {<<a1, a2>>, <<a2, a1>>}

Symmetry == Permutations(Requests) \cup Permutations(Satellites)

=============================================================================
