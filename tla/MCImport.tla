------------------------------ MODULE MCImport ------------------------------
(***************************************************************************)
(* Instances of Import for TLC: two satellites that generate the same      *)
(* range, from the second index of three.                                  *)
(***************************************************************************)
EXTENDS Import

CONSTANTS a0, a1, a2

ThreeIndexes == [i \in 0 .. 2 |-> IF i = 0 THEN a0 ELSE IF i = 1 THEN a1 ELSE a2]
LastTwo      == [s \in Satellites |-> {<<1, 2>>}]

=============================================================================
