------------------------------ MODULE MCEvents ------------------------------
(***************************************************************************)
(* Instances of Events for TLC.                                            *)
(***************************************************************************)
EXTENDS Events, TLC

CONSTANTS s1, a1, a2, t1, t2, c1, c2

OneOwner     == [a \in Addresses |-> s1]
OneChain     == <<c1>>
TwoChains    == <<c1, c2>>
SameChain    == [t \in Transfers |-> c1]
ChainEach    == [t \in Transfers |-> IF t = t1 THEN c1 ELSE c2]
Recipients   == [t \in Transfers |-> IF t = t1 THEN a1 ELSE a2]

Symmetry == Permutations(Requests)

=============================================================================
