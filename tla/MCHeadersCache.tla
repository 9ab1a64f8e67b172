--------------------------- MODULE MCHeadersCache ---------------------------
(***************************************************************************)
(* Instances of HeadersCache for TLC: two chains that share a block hash.  *)
(***************************************************************************)
EXTENDS HeadersCache

CONSTANTS c1, c2

Timestamps == [b \in Blocks |-> IF b[1] = c1 THEN 0 ELSE 1]

=============================================================================
