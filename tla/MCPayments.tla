----------------------------- MODULE MCPayments -----------------------------
(***************************************************************************)
(* Instances of Payments for TLC.                                          *)
(***************************************************************************)
EXTENDS Payments, TLC

CONSTANTS s1, s2, a1, a2, t1, t2, c1

OneOwner   == [a \in Addresses |-> s1]
TwoOwners  == [a \in Addresses |-> IF a = a1 THEN s1 ELSE s2]
OneChain   == <<c1>>
SameChain  == [t \in Transfers |-> c1]
Recipients == [t \in Transfers |-> IF t = t1 THEN a1 ELSE a2]

Symmetry == Permutations(Requests)

=============================================================================
