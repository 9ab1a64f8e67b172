----------------------------- MODULE WalletPool -----------------------------
(***************************************************************************)
(* What the wallet store promises its clients, with every operation atomic *)
(* (wallets/db.go, interface DB): an address enters the pool of one        *)
(* satellite and stays there, and a Claim hands an address of the pool to  *)
(* one request.  Module Wallets, where each operation is a database        *)
(* transaction of several statements, is shown to implement it.            *)
(***************************************************************************)

CONSTANTS
    Satellites,   \* the satellites that share one storjscan
    Addresses,    \* deposit addresses
    Requests,     \* API requests, each identified for its whole life
    NoSatellite   \* owner of an address that has no row

VARIABLES
    owner,        \* the satellite column of the row of each address
    claimers      \* the requests that have set the claimed column of the row

poolVars == <<owner, claimers>>

Init ==
    /\ owner = [a \in Addresses |-> NoSatellite]
    /\ claimers = [a \in Addresses |-> {}]

\* RegisterBatch: new addresses become wallets of satellite s, all at once;
\* an address that already is a wallet stays with its owner.
Register(s, new) ==
    /\ \A a \in new : owner[a] = NoSatellite
    /\ owner' = [a \in Addresses |-> IF a \in new THEN s ELSE owner[a]]
    /\ UNCHANGED claimers

\* Claim: an unclaimed wallet goes to one request, which gets no other.
Claim(r, a) ==
    /\ owner[a] # NoSatellite
    /\ claimers[a] = {}
    /\ \A b \in Addresses : r \notin claimers[b]
    /\ claimers' = [claimers EXCEPT ![a] = {r}]
    /\ UNCHANGED owner

Next ==
    \/ \E s \in Satellites, new \in SUBSET Addresses : Register(s, new)
    \/ \E r \in Requests, a \in Addresses : Claim(r, a)

Spec == Init /\ [][Next]_poolVars

=============================================================================
