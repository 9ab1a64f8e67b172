---------------------------- MODULE EventsProofs ----------------------------
(***************************************************************************)
(* Proofs about module Events, for every set of satellites, addresses,     *)
(* transfers and requests, every list of endpoints, every size of batches  *)
(* and buffers, and every number of faults.                                *)
(*                                                                         *)
(* The inductive invariant has four parts: the types (TypeOK), what a      *)
(* request knows of the chains (Progress), where each event was found      *)
(* (InBatches), and which part of the scan is complete (Covered).  A fifth *)
(* part, which blocks need not be looked at again (Accounted), is an       *)
(* invariant only when no client starts from a negative block: the first   *)
(* request of a satellite that does scans nothing, and counts as done.     *)
(***************************************************************************)
EXTENDS Events, TLAPS

Indices == 1 .. Len(Endpoints)

\* Request r has scanned chain c to its end.
HasScanned(r, c) ==
    \E i \in Indices :
        /\ c = Endpoints[i]
        /\ \/ pc[r] \in {"store", "convert"}
           \/ pc[r] \in {"header", "scan"} /\ i < endpoint[r]

\* The latest block that a request knows is one the chain has reached, and the
\* current scan is between its first block and the batch it is about to query.
Progress ==
    /\ \A r \in Requests, c \in Chains : latest[r][c] <= head[c]
    /\ \A r \in Requests : /\ pc[r] = "store" => sat[r] # NoSatellite
                           /\ pc[r] = "list" => endpoint[r] = 1
    /\ \A r \in Requests : pc[r] = "scan" =>
           /\ start[r][Chain(r)] \in Nat
           /\ start[r][Chain(r)] <= j[r]
           /\ rest[r] \subseteq wallets[r]
           /\ wallets[r] # {} => rest[r] # {}

\* An event is in the batch that found it, which has an end unless it is the
\* last; the batches of a chain are BlockBatchSize apart.
BatchesOf(r) ==
    \A e \in found[r] :
        LET c == chainOf[e[1]]
        IN  /\ e[3] <= e[2] /\ e[3] < latest[r][c]
            /\ e[3] + BlockBatchSize <= latest[r][c] => e[2] <= e[3] + BlockBatchSize
            /\ \A f \in found[r] :
                   chainOf[f[1]] = c /\ e[3] < f[3] => e[3] + BlockBatchSize <= f[3]
            /\ pc[r] = "scan" /\ c = Chain(r) => e[3] = j[r] \/ e[3] + BlockBatchSize <= j[r]
            /\ pc[r] # "list"
            /\ pc[r] \in {"header", "scan"} =>
                   HasScanned(r, c) \/ (pc[r] = "scan" /\ c = Chain(r))

InBatches == \A r \in Requests : BatchesOf(r)

\* A final event that request r has to find on chain c.
Wanted(r, t, c) ==
    /\ chainOf[t] = c
    /\ recipientOf[t] \in wallets[r]
    /\ mined[t] # 0
    /\ mined[t] \in start[r][c] .. latest[r][c] - ReorgDepth
    /\ start[r][c] < latest[r][c]

HasFound(r, t) == \E e \in found[r] : e[1] = t /\ e[2] = mined[t]

\* The chains already scanned are complete.  The one being scanned is complete
\* up to the current batch, and for the addresses queried in that batch.
CoveredOf(r) ==
    \A t \in Transfers :
        /\ \A c \in Chains : HasScanned(r, c) /\ Wanted(r, t, c) => HasFound(r, t)
        /\ pc[r] = "scan" /\ Wanted(r, t, Chain(r)) =>
               /\ start[r][Chain(r)] < j[r] /\ mined[t] <= j[r] => HasFound(r, t)
               /\ mined[t] \in j[r] .. j[r] + BlockBatchSize /\ recipientOf[t] \notin rest[r]
                      => HasFound(r, t)

Covered == \A r \in Requests : CoveredOf(r)

\* Block b of chain c hides nothing from satellite s, now or later: s skipped it,
\* it was dropped because of MaximumQuerySize, or it is final and its events for
\* the wallets that were always claimed are in kept[s].  In this module, kept is
\* what GetForSatellite has returned.
Settled(kept, s, c, b) ==
    \/ b < floor[s][c]
    \/ b \in truncated[s][c]
    \/ /\ b <= Final(c)
       /\ \A t \in Transfers :
              /\ chainOf[t] = c /\ mined[t] = b /\ b # 0
              /\ recipientOf[t] \in InitiallyClaimed
              /\ ownerOf[recipientOf[t]] = s
              => <<t, b>> \in kept[s]

SettledBefore(kept, s, c, block) == \A b \in Nat : b < block => Settled(kept, s, c, b)

\* The blocks before an entry of lastScannedBlock are settled, and so are those before the
\* first block of a request under way and, once it has its result, those before
\* the block it is about to store.
AccountOf(kept, r) ==
    pc[r] # "idle" /\ sat[r] # NoSatellite =>
        /\ pc[r] # "list" => {a \in InitiallyClaimed : ownerOf[a] = sat[r]} \subseteq wallets[r]
        /\ \A c \in Chains :
               /\ SettledBefore(kept, sat[r], c, start[r][c])
               /\ pc[r] = "store" => SettledBefore(kept, sat[r], c, ResumeAt(latest[r][c]))

Accounted(kept) ==
    /\ InitiallyClaimed \subseteq claimed
    /\ \A s \in Satellites, c \in Chains :
           lastScanned[s][c] # NoBlock => SettledBefore(kept, s, c, lastScanned[s][c])
    /\ \A r \in Requests : AccountOf(kept, r)

Inv == TypeOK /\ Progress /\ InBatches /\ Covered

-----------------------------------------------------------------------------
(* Facts about the constants and the operators of module Events.           *)

LEMMA Constants ==
    /\ Len(Endpoints) \in Nat /\ Len(Endpoints) >= 1
    /\ \A i \in Indices : Endpoints[i] \in Chains
    /\ \A i, k \in Indices : Endpoints[i] = Endpoints[k] => i = k
    /\ MaxHeight \in Nat /\ MaxFaults \in Nat /\ MaximumQuerySize \in Nat
    /\ BlockBatchSize \in Nat /\ BlockBatchSize >= 1
    /\ ChainReorgBuffer \in Nat /\ ReorgDepth \in Nat /\ ReorgDepth <= ChainReorgBuffer
    /\ From \subseteq Int /\ NoSatellite \notin Satellites /\ NoBlock \notin Int
  BY EndpointsAssumption, EventsAssumption, ConfigAssumption
     DEF EndpointsAssumption, EventsAssumption, ConfigAssumption, Indices, Chains

\* The chain that a request scans is one of the configured ones.
LEMMA ChainType ==
    ASSUME TypeOK, NEW r \in Requests
    PROVE  endpoint[r] \in Indices /\ Chain(r) \in Chains
  BY Constants DEF TypeOK, Indices, Chain

\* A scan begins at block 0 or later, whatever the client asked for.
LEMMA TruncateType ==
    ASSUME NEW first \in Nat \cup From, NEW last \in Heights
    PROVE  /\ Truncate(Unsigned(first), last) \in Nat /\ Unsigned(first) \in Nat
           /\ first \in Nat => first <= Truncate(Unsigned(first), last)
  BY Constants DEF Truncate, Unsigned, Heights

\* ResumeAt goes back by at least ReorgDepth blocks, or to block 0.
LEMMA ResumeAtType ==
    ASSUME NEW block \in Heights
    PROVE  /\ ResumeAt(block) \in Heights
           /\ \A b \in Nat : b < ResumeAt(block) => b < block /\ b <= block - ReorgDepth
  BY Constants DEF ResumeAt, Heights

\* A satellite's scan begins at the block it was asked for or at the entry of the
\* map, whichever is later.
LEMMA RaisedType ==
    ASSUME NEW block \in Int, NEW entry \in Heights \cup {NoBlock}
    PROVE  /\ Raised(block, entry) \in {block} \cup Heights
           /\ \A b \in Nat : b < Raised(block, entry) =>
                  b < block \/ (entry # NoBlock /\ b < entry)
<1>1. CASE entry = NoBlock
  BY <1>1 DEF Raised
<1>2. CASE entry # NoBlock
  <2>1. entry \in Heights /\ entry \in Int
    BY <1>2, Constants DEF Heights
  <2> QED
    BY <1>2, <2>1 DEF Raised, Larger
<1> QED
  BY <1>1, <1>2

\* When no client starts from a negative block, no scan begins at one.
LEMMA NaturalStarts ==
    ASSUME From \subseteq Nat, TypeOK, NEW r \in Requests
    PROVE  \A c \in Chains : start[r][c] \in Nat
<1>1. start[r] \in [Chains -> Nat \cup From]
  BY DEF TypeOK
<1> QED
  BY <1>1

\* A batch has at least one block, and reaches the latest block known to the
\* request or is BlockBatchSize long.
LEMMA BatchEndBounds ==
    ASSUME TypeOK, Progress, NEW r \in Requests
    PROVE  /\ BatchEnd(r) \in Nat
           /\ j[r] + BlockBatchSize <= latest[r][Chain(r)] => BatchEnd(r) = j[r] + BlockBatchSize
           /\ \A b \in Nat : b <= latest[r][Chain(r)] /\ b <= j[r] + BlockBatchSize
                             => b <= BatchEnd(r)
<1>1. /\ j[r] \in Nat
      /\ latest[r][Chain(r)] \in Nat
      /\ head[Chain(r)] \in Nat
      /\ latest[r][Chain(r)] <= head[Chain(r)]
  BY ChainType DEF TypeOK, Heights, Progress
<1> QED
  BY <1>1, Constants DEF BatchEnd

-----------------------------------------------------------------------------
(* Steps.                                                                  *)

\* A request ends, with or without a fault: Return and Fail are such steps, and
\* so are the last steps of the conversions in module Payments.
Ends(r) ==
    /\ pc' = [pc EXCEPT ![r] = "idle"]
    /\ faults' \in 0 .. MaxFaults
    /\ UNCHANGED <<head, mined, claimed, lastScanned, sat, scan, history>>

WiderNext ==
    \/ Environment
    \/ Crash
    \/ \E r \in Requests : Poll(r) \/ Ask(r) \/ Step(r) \/ Ends(r)

LEMMA FaultType ==
    ASSUME TypeOK, NEW kind, Fault(kind)
    PROVE  faults' \in 0 .. MaxFaults
  BY Constants DEF TypeOK, Fault

LEMMA NextIsWider ==
    ASSUME TypeOK, [Next]_vars
    PROVE  [WiderNext]_vars
<1>1. ASSUME NEW r \in Requests, Return(r) PROVE Ends(r)
  BY <1>1 DEF Return, Ends, GoTo, environment, TypeOK
<1>2. ASSUME NEW r \in Requests, Fail(r) PROVE Ends(r)
  BY <1>2, FaultType DEF Fail, Ends, GoTo
<1> QED
  BY <1>1, <1>2 DEF Next, WiderNext

-----------------------------------------------------------------------------
(* Types.                                                                  *)

LEMMA TypeOKInit == Init => TypeOK
  BY Constants, EventsAssumption
     DEF Init, TypeOK, EventsAssumption, Heights, Indices

LEMMA TypeOKStep ==
    ASSUME TypeOK, Progress, [WiderNext]_vars
    PROVE  TypeOK'
<1> USE DEF environment, scan, history
<1>1. ASSUME NEW c \in Chains, NEW included \in SUBSET Transfers, NewBlock(c, included)
      PROVE  TypeOK'
  <2>1. head[c] + 1 \in Heights
    BY <1>1, Constants DEF NewBlock, TypeOK, Heights
  <2> QED
    BY <1>1, <2>1 DEF NewBlock, TypeOK
<1>2. ASSUME NEW c \in Chains, NEW t \in Transfers, NEW block \in Heights, Reorg(c, t, block)
      PROVE  TypeOK'
  BY <1>2, FaultType DEF Reorg, TypeOK
<1>3. ASSUME NEW a \in Addresses, ClaimWallet(a)
      PROVE  TypeOK'
  BY <1>3 DEF ClaimWallet, TypeOK
<1>4. CASE Crash
  <2>1. [s \in Satellites |-> [c \in Chains |-> NoBlock]]
            \in [Satellites -> [Chains -> Heights \cup {NoBlock}]]
    BY Constants DEF Heights
  <2> QED
    BY <1>4, <2>1, FaultType DEF Crash, TypeOK
<1>5. ASSUME NEW r \in Requests, NEW s \in Satellites, NEW from \in [Chains -> From],
             BeginSatellite(r, s, from)
      PROVE  TypeOK'
  <2>1. \A c \in Chains : /\ Raised(from[c], lastScanned[s][c]) \in Nat \cup From
                           /\ Larger(floor[s][c], from[c]) \in Nat
    <3> TAKE c \in Chains
    <3>1. from[c] \in From /\ from[c] \in Int
      BY Constants
    <3>2. lastScanned[s][c] \in Heights \cup {NoBlock} /\ floor[s][c] \in Nat
      BY DEF TypeOK
    <3>3. Raised(from[c], lastScanned[s][c]) \in {from[c]} \cup Heights
      BY <3>1, <3>2, RaisedType
    <3>4. Heights \subseteq Nat
      BY Constants DEF Heights
    <3>5. Larger(floor[s][c], from[c]) \in Nat
      BY <3>1, <3>2 DEF Larger
    <3> QED
      BY <3>1, <3>3, <3>4, <3>5
  <2>2. start' \in [Requests -> [Chains -> Nat \cup From]]
    <3>1. [c \in Chains |-> Raised(from[c], lastScanned[s][c])] \in [Chains -> Nat \cup From]
      BY <2>1
    <3> QED
      BY <1>5, <3>1 DEF BeginSatellite, TypeOK
  <2>3. floor' \in [Satellites -> [Chains -> Nat]]
    BY <1>5, <2>1 DEF BeginSatellite, TypeOK
  <2>4. /\ pc' \in [Requests -> {"idle", "list", "header", "scan", "store", "convert"}]
        /\ sat' \in [Requests -> Satellites \cup {NoSatellite}]
        /\ \A q \in Requests : q # r => pc'[q] = pc[q] /\ sat'[q] = sat[q]
        /\ wallets' \in [Requests -> SUBSET Addresses]
        /\ UNCHANGED <<head, mined, claimed, faults, lastScanned, truncated, returned>>
    BY <1>5 DEF BeginSatellite, TypeOK, GoTo
  <2>5. /\ found' \in [Requests -> SUBSET (Transfers \X Heights \X Nat)]
        /\ endpoint' \in [Requests -> 1 .. Len(Endpoints)]
        /\ j' \in [Requests -> Nat]
        /\ rest' \in [Requests -> SUBSET Addresses]
        /\ stored' \in [Requests -> SUBSET Chains]
        /\ latest' \in [Requests -> [Chains -> Heights]]
    BY <1>5, Constants DEF BeginSatellite, Fresh, TypeOK, Heights
  <2> QED
    BY <2>2, <2>3, <2>4, <2>5 DEF TypeOK
<1>6. ASSUME NEW r \in Requests, NEW a \in Queried, NEW from \in [Chains -> From],
             BeginAddress(r, a, from)
      PROVE  TypeOK'
  <2>1. start' \in [Requests -> [Chains -> Nat \cup From]]
    BY <1>6 DEF BeginAddress, TypeOK
  <2>2. a \in Addresses
    BY EventsAssumption DEF EventsAssumption
  <2>3. /\ pc' \in [Requests -> {"idle", "list", "header", "scan", "store", "convert"}]
        /\ sat' \in [Requests -> Satellites \cup {NoSatellite}]
        /\ sat'[r] = NoSatellite
        /\ \A q \in Requests : q # r => /\ pc'[q] = pc[q] /\ sat'[q] = sat[q]
                                         /\ start'[q] = start[q]
        /\ wallets' \in [Requests -> SUBSET Addresses]
        /\ UNCHANGED <<head, mined, claimed, faults, lastScanned, floor, truncated, returned>>
    BY <1>6, <2>2 DEF BeginAddress, TypeOK, GoTo
  <2>4. /\ found' \in [Requests -> SUBSET (Transfers \X Heights \X Nat)]
        /\ endpoint' \in [Requests -> 1 .. Len(Endpoints)]
        /\ j' \in [Requests -> Nat]
        /\ rest' \in [Requests -> SUBSET Addresses]
        /\ stored' \in [Requests -> SUBSET Chains]
        /\ latest' \in [Requests -> [Chains -> Heights]]
    BY <1>6, Constants DEF BeginAddress, Fresh, TypeOK, Heights
  <2> QED
    BY <2>1, <2>3, <2>4 DEF TypeOK
<1>7. ASSUME NEW r \in Requests, ListBySatellite(r)
      PROVE  TypeOK'
  BY <1>7 DEF ListBySatellite, GoTo, TypeOK
<1>8. ASSUME NEW r \in Requests, LatestHeader(r)
      PROVE  TypeOK'
  <2> DEFINE c     == Chain(r)
             begin == Unsigned(start[r][c])
             first == Truncate(begin, head[c])
  <2>1. c \in Chains /\ head[c] \in Heights /\ start[r][c] \in Nat \cup From
    BY ChainType DEF TypeOK
  <2>2. first \in Nat /\ begin \in Nat
    BY <2>1, TruncateType
  <2>3. /\ pc[r] = "header" /\ pc' = [pc EXCEPT ![r] = "scan"]
        /\ latest' = [latest EXCEPT ![r][c] = head[c]]
        /\ start' = [start EXCEPT ![r][c] = first]
        /\ j' = [j EXCEPT ![r] = first]
        /\ rest' = [rest EXCEPT ![r] = wallets[r]]
        /\ sat[r] = NoSatellite => truncated' = truncated
        /\ sat[r] # NoSatellite => truncated' = [truncated EXCEPT ![sat[r]][c] =
                                       @ \cup (begin .. first - 1)]
        /\ UNCHANGED <<head, mined, claimed, faults, lastScanned, sat, wallets, endpoint,
                       found, stored, floor, returned>>
    BY <1>8 DEF LatestHeader, GoTo
  <2>4. truncated' \in [Satellites -> [Chains -> SUBSET Nat]]
    <3>1. CASE sat[r] = NoSatellite
      BY <2>3, <3>1 DEF TypeOK
    <3>2. CASE sat[r] # NoSatellite
      <4>1. begin .. first - 1 \in SUBSET Nat
        <5> HIDE DEF begin, first, c
        <5> QED
          BY <2>2
      <4>2. sat[r] \in Satellites
        BY <3>2 DEF TypeOK
      <4> DEFINE dropped == truncated[sat[r]][c] \cup (begin .. first - 1)
      <4>3. dropped \in SUBSET Nat
        BY <2>1, <4>1, <4>2 DEF TypeOK
      <4>4. truncated' = [truncated EXCEPT ![sat[r]][c] = dropped]
        BY <2>3, <3>2
      <4> HIDE DEF first, begin, c, dropped
      <4> QED
        BY <2>1, <4>2, <4>3, <4>4 DEF TypeOK
    <3> QED
      BY <3>1, <3>2
  <2>5. start' \in [Requests -> [Chains -> Nat \cup From]]
    <3> HIDE DEF first, c
    <3> QED
      BY <2>1, <2>2, <2>3 DEF TypeOK
  <2>6. latest' \in [Requests -> [Chains -> Heights]]
    <3> HIDE DEF first, c
    <3> QED
      BY <2>1, <2>3 DEF TypeOK
  <2>7. j' \in [Requests -> Nat] /\ rest' \in [Requests -> SUBSET Addresses]
    <3> HIDE DEF first, c
    <3> QED
      BY <2>2, <2>3 DEF TypeOK
  <2>8. pc' \in [Requests -> {"idle", "list", "header", "scan", "store", "convert"}]
    BY <2>3 DEF TypeOK
  <2> HIDE DEF first, begin, c
  <2> QED
    BY <2>3, <2>4, <2>5, <2>6, <2>7, <2>8 DEF TypeOK
<1>9. ASSUME NEW r \in Requests, NEW addresses \in SUBSET rest[r], FilterTransfer(r, addresses)
      PROVE  TypeOK'
  <2>1. /\ \/ j' = [j EXCEPT ![r] = j[r] + BlockBatchSize]
           \/ j' = j
        /\ \/ rest' = [rest EXCEPT ![r] = wallets[r]]
           \/ rest' = [rest EXCEPT ![r] = rest[r] \ addresses]
    BY <1>9 DEF FilterTransfer
  <2>2. j[r] + BlockBatchSize \in Nat
    BY Constants DEF TypeOK
  <2>3. j' \in [Requests -> Nat] /\ rest' \in [Requests -> SUBSET Addresses]
    <3>1. j' \in [Requests -> Nat]
      BY <2>1, <2>2 DEF TypeOK
    <3>2. rest[r] \ addresses \in SUBSET Addresses /\ wallets[r] \in SUBSET Addresses
      BY DEF TypeOK
    <3>3. rest' \in [Requests -> SUBSET Addresses]
      BY <2>1, <3>2 DEF TypeOK
    <3> QED
      BY <3>1, <3>3
  <2>4. {<<t, mined[t], j[r]>> : t \in Logs(Chain(r), addresses, j[r], BatchEnd(r))}
            \in SUBSET (Transfers \X Heights \X Nat)
    BY DEF TypeOK, Logs
  <2>5. found' \in [Requests -> SUBSET (Transfers \X Heights \X Nat)]
    BY <1>9, <2>4 DEF FilterTransfer, TypeOK
  <2>6. UNCHANGED <<head, mined, claimed, faults, lastScanned, pc, sat, start, wallets, latest,
                    endpoint, stored, floor, truncated, returned>>
    BY <1>9 DEF FilterTransfer
  <2> QED
    BY <2>3, <2>5, <2>6 DEF TypeOK
<1>10. ASSUME NEW r \in Requests, NextEndpoint(r)
       PROVE  TypeOK'
  <2>1. endpoint[r] + 1 \in 1 .. Len(Endpoints)
    BY <1>10, Constants DEF NextEndpoint, TypeOK
  <2> QED
    BY <1>10, <2>1 DEF NextEndpoint, GoTo, TypeOK
<1>11. ASSUME NEW r \in Requests, ScanEnds(r)
       PROVE  TypeOK'
  <2>1. {<<e[1], e[2]>> : e \in found[r]} \in SUBSET (Transfers \X Heights)
    BY DEF TypeOK
  <2>2. returned' \in [Satellites -> SUBSET (Transfers \X Heights)]
    <3>1. CASE sat[r] = NoSatellite
      BY <1>11, <3>1 DEF ScanEnds, TypeOK
    <3>2. CASE sat[r] # NoSatellite
      <4> DEFINE result == {<<e[1], e[2]>> : e \in found[r]}
      <4>1. sat[r] \in Satellites
        BY <3>2 DEF TypeOK
      <4>2. returned' = [returned EXCEPT ![sat[r]] = returned[sat[r]] \cup result]
        BY <1>11, <3>2 DEF ScanEnds
      <4>3. result \in SUBSET (Transfers \X Heights)
        BY <2>1
      <4> HIDE DEF result
      <4> QED
        BY <4>1, <4>2, <4>3 DEF TypeOK
    <3> QED
      BY <3>1, <3>2
  <2>3. /\ pc' \in [Requests -> {"idle", "list", "header", "scan", "store", "convert"}]
        /\ pc[r] # "idle" /\ \A q \in Requests : q # r => pc'[q] = pc[q]
        /\ UNCHANGED <<head, mined, claimed, faults, lastScanned, sat, start, wallets, latest,
                       endpoint, j, rest, found, stored, floor, truncated>>
    BY <1>11 DEF ScanEnds, GoTo, TypeOK
  <2> QED
    BY <2>2, <2>3 DEF TypeOK
<1>12. ASSUME NEW r \in Requests, NEW c \in Chains, Store(r, c)
       PROVE  TypeOK'
  <2>1. ResumeAt(latest[r][c]) \in Heights
    BY ResumeAtType DEF TypeOK
  <2>2. sat[r] \in Satellites
    BY <1>12 DEF Store, Progress, TypeOK
  <2>3. /\ lastScanned' \in [Satellites -> [Chains -> Heights \cup {NoBlock}]]
        /\ stored' \in [Requests -> SUBSET Chains]
    BY <1>12, <2>1, <2>2 DEF Store, TypeOK
  <2> QED
    BY <1>12, <2>3 DEF Store, TypeOK
<1>13. ASSUME NEW r \in Requests, StoreEnds(r)
       PROVE  TypeOK'
  BY <1>13 DEF StoreEnds, GoTo, TypeOK
<1>14. ASSUME NEW r \in Requests, Ends(r)
       PROVE  TypeOK'
  BY <1>14 DEF Ends, TypeOK
<1>15. CASE UNCHANGED vars
  BY <1>15 DEF vars, TypeOK
<1> QED
  BY <1>1, <1>2, <1>3, <1>4, <1>5, <1>6, <1>7, <1>8, <1>9, <1>10, <1>11, <1>12, <1>13,
     <1>14, <1>15
     DEF WiderNext, Environment, Poll, Ask, Step

-----------------------------------------------------------------------------
(* Progress.                                                               *)

LEMMA ProgressInit == Init => Progress
  BY DEF Init, Progress

LEMMA ProgressStep ==
    ASSUME TypeOK, Progress, TypeOK', [WiderNext]_vars
    PROVE  Progress'
<1> USE DEF environment, scan, history
<1>0. \A r \in Requests : Chain(r) \in Chains
  BY ChainType DEF TypeOK
<1>1. ASSUME NEW c \in Chains, NEW included \in SUBSET Transfers, NewBlock(c, included)
      PROVE  Progress'
  <2>1. \A d \in Chains : head[d] \in Nat /\ head'[d] \in Nat /\ head[d] <= head'[d]
    BY <1>1, Constants DEF NewBlock, TypeOK, Heights
  <2>2. \A r \in Requests, d \in Chains : latest[r][d] \in Nat
    BY Constants DEF TypeOK, Heights
  <2>3. \A r \in Requests, d \in Chains : latest'[r][d] <= head'[d]
    BY <1>1, <2>1, <2>2 DEF NewBlock, Progress
  <2> QED
    BY <1>1, <2>3 DEF NewBlock, Progress, Chain
<1>2. ASSUME NEW c \in Chains, NEW t \in Transfers, NEW block \in Heights, Reorg(c, t, block)
      PROVE  Progress'
  BY <1>2 DEF Reorg, Progress, Chain
<1>3. ASSUME NEW a \in Addresses, ClaimWallet(a)
      PROVE  Progress'
  BY <1>3 DEF ClaimWallet, Progress, Chain
<1>4. CASE Crash
  BY <1>4 DEF Crash, Progress, Chain
<1>5. ASSUME NEW r \in Requests, NEW s \in Satellites, NEW from \in [Chains -> From],
             BeginSatellite(r, s, from)
      PROVE  Progress'
  <2>1. \A q \in Requests, d \in Chains : latest'[q][d] <= head'[d]
    BY <1>5, Constants DEF BeginSatellite, Fresh, Progress, TypeOK, Heights
  <2>2. pc'[r] = "list" /\ endpoint'[r] = 1
    BY <1>5 DEF BeginSatellite, Fresh, GoTo, TypeOK
  <2>3. \A q \in Requests \ {r} :
            /\ pc'[q] = pc[q] /\ sat'[q] = sat[q] /\ start'[q] = start[q] /\ j'[q] = j[q]
            /\ rest'[q] = rest[q] /\ wallets'[q] = wallets[q] /\ latest'[q] = latest[q]
            /\ endpoint'[q] = endpoint[q]
    BY <1>5 DEF BeginSatellite, Fresh, GoTo, TypeOK
  <2> QED
    BY <2>1, <2>2, <2>3 DEF Progress, Chain
<1>6. ASSUME NEW r \in Requests, NEW a \in Queried, NEW from \in [Chains -> From],
             BeginAddress(r, a, from)
      PROVE  Progress'
  <2>1. \A q \in Requests, d \in Chains : latest'[q][d] <= head'[d]
    BY <1>6, Constants DEF BeginAddress, Fresh, Progress, TypeOK, Heights
  <2>2. pc'[r] = "header"
    BY <1>6 DEF BeginAddress, GoTo, TypeOK
  <2>3. \A q \in Requests \ {r} :
            /\ pc'[q] = pc[q] /\ sat'[q] = sat[q] /\ start'[q] = start[q] /\ j'[q] = j[q]
            /\ rest'[q] = rest[q] /\ wallets'[q] = wallets[q] /\ latest'[q] = latest[q]
            /\ endpoint'[q] = endpoint[q]
    BY <1>6 DEF BeginAddress, Fresh, GoTo, TypeOK
  <2> QED
    BY <2>1, <2>2, <2>3 DEF Progress, Chain
<1>7. ASSUME NEW r \in Requests, ListBySatellite(r)
      PROVE  Progress'
  <2>1. pc'[r] = "header" /\ \A q \in Requests \ {r} : pc'[q] = pc[q] /\ wallets'[q] = wallets[q]
    BY <1>7 DEF ListBySatellite, GoTo, TypeOK
  <2> QED
    BY <1>7, <2>1 DEF ListBySatellite, Progress, Chain
<1>8. ASSUME NEW r \in Requests, LatestHeader(r)
      PROVE  Progress'
  <2> DEFINE c     == Chain(r)
             first == Truncate(Unsigned(start[r][c]), head[c])
  <2>1. c \in Chains /\ head[c] \in Nat /\ first \in Nat
    <3>1. c \in Chains /\ head[c] \in Heights /\ start[r][c] \in Nat \cup From
      BY <1>0 DEF TypeOK
    <3>2. head[c] \in Nat
      BY <3>1, Constants DEF Heights
    <3>3. first \in Nat
      <4> HIDE DEF c
      <4> QED
        BY <3>1, TruncateType
    <3> QED
      BY <3>1, <3>2, <3>3
  <2>2. /\ pc' = [pc EXCEPT ![r] = "scan"]
        /\ latest' = [latest EXCEPT ![r][c] = head[c]]
        /\ start' = [start EXCEPT ![r][c] = first]
        /\ j' = [j EXCEPT ![r] = first]
        /\ rest' = [rest EXCEPT ![r] = wallets[r]]
        /\ UNCHANGED <<head, wallets, endpoint, sat>>
    BY <1>8 DEF LatestHeader, GoTo
  <2> HIDE DEF first, c
  <2>3. \A q \in Requests, d \in Chains : latest'[q][d] <= head'[d]
    BY <2>1, <2>2 DEF Progress, TypeOK
  <2>4. /\ pc'[r] = "scan" /\ start'[r][c] = first /\ j'[r] = first /\ rest'[r] = wallets'[r]
    BY <2>1, <2>2 DEF TypeOK
  <2>5. \A q \in Requests \ {r} :
            /\ pc'[q] = pc[q] /\ start'[q] = start[q] /\ j'[q] = j[q]
            /\ rest'[q] = rest[q] /\ latest'[q] = latest[q]
    BY <2>2 DEF TypeOK
  <2>6. Chain(r)' = c
    BY <2>2 DEF Chain, c
  <2>7. /\ start'[r][Chain(r)'] \in Nat /\ start'[r][Chain(r)'] <= j'[r]
        /\ rest'[r] = wallets'[r]
    BY <2>1, <2>4, <2>6
  <2> QED
    BY <2>2, <2>3, <2>4, <2>5, <2>7 DEF Progress, Chain
<1>9. ASSUME NEW r \in Requests, NEW addresses \in SUBSET rest[r], FilterTransfer(r, addresses)
      PROVE  Progress'
  <2>1. /\ pc[r] = "scan" /\ j[r] < latest[r][Chain(r)]
        /\ UNCHANGED <<head, pc, sat, start, wallets, latest, endpoint>>
        /\ \/ /\ j' = [j EXCEPT ![r] = j[r] + BlockBatchSize]
              /\ rest' = [rest EXCEPT ![r] = wallets[r]]
           \/ /\ j' = j /\ addresses # rest[r]
              /\ rest' = [rest EXCEPT ![r] = rest[r] \ addresses]
    BY <1>0, <1>9, Constants DEF FilterTransfer, ScanDone, TypeOK, Heights
  <2>2. /\ start[r][Chain(r)] \in Nat /\ start[r][Chain(r)] <= j[r] /\ j[r] \in Nat
        /\ rest[r] \subseteq wallets[r]
    BY <2>1 DEF Progress, TypeOK
  <2>3. /\ start[r][Chain(r)] <= j'[r]
        /\ rest'[r] \subseteq wallets[r]
        /\ wallets[r] # {} => rest'[r] # {}
    <3>1. CASE j' = [j EXCEPT ![r] = j[r] + BlockBatchSize] /\ rest' = [rest EXCEPT ![r] = wallets[r]]
      <4>1. j'[r] = j[r] + BlockBatchSize /\ rest'[r] = wallets[r]
        BY <3>1 DEF TypeOK
      <4> QED
        BY <2>2, <4>1, Constants
    <3>2. CASE j' = j /\ addresses # rest[r] /\ rest' = [rest EXCEPT ![r] = rest[r] \ addresses]
      <4>1. rest'[r] = rest[r] \ addresses
        BY <3>2 DEF TypeOK
      <4> QED
        BY <2>2, <3>2, <4>1
    <3> QED
      BY <2>1, <3>1, <3>2
  <2>4. \A q \in Requests \ {r} : j'[q] = j[q] /\ rest'[q] = rest[q]
    BY <2>1 DEF TypeOK
  <2> QED
    BY <2>1, <2>2, <2>3, <2>4 DEF Progress, Chain
<1>10. ASSUME NEW r \in Requests, NextEndpoint(r)
       PROVE  Progress'
  <2>1. /\ pc'[r] = "header"
        /\ \A q \in Requests \ {r} : pc'[q] = pc[q] /\ endpoint'[q] = endpoint[q]
    BY <1>10 DEF NextEndpoint, GoTo, TypeOK
  <2> QED
    BY <1>10, <2>1 DEF NextEndpoint, Progress, Chain
<1>11. ASSUME NEW r \in Requests, ScanEnds(r)
       PROVE  Progress'
  <2>1. /\ pc'[r] \in {"store", "convert"}
        /\ pc'[r] = "store" => sat[r] # NoSatellite
        /\ \A q \in Requests \ {r} : pc'[q] = pc[q]
    BY <1>11 DEF ScanEnds, GoTo, TypeOK
  <2>2. UNCHANGED <<head, sat, start, wallets, latest, endpoint, j, rest>>
    BY <1>11 DEF ScanEnds
  <2> QED
    BY <2>1, <2>2 DEF Progress, Chain
<1>12. ASSUME NEW r \in Requests, NEW c \in Chains, Store(r, c)
       PROVE  Progress'
  BY <1>12 DEF Store, Progress, Chain
<1>13. ASSUME NEW r \in Requests, StoreEnds(r)
       PROVE  Progress'
  <2>1. pc'[r] = "convert" /\ \A q \in Requests \ {r} : pc'[q] = pc[q]
    BY <1>13 DEF StoreEnds, GoTo, TypeOK
  <2> QED
    BY <1>13, <2>1 DEF StoreEnds, Progress, Chain
<1>14. ASSUME NEW r \in Requests, Ends(r)
       PROVE  Progress'
  <2>1. pc'[r] = "idle" /\ \A q \in Requests \ {r} : pc'[q] = pc[q]
    BY <1>14 DEF Ends, TypeOK
  <2> QED
    BY <1>14, <2>1 DEF Ends, Progress, Chain
<1>15. CASE UNCHANGED vars
  BY <1>15 DEF vars, Progress, Chain
<1> QED
  BY <1>1, <1>2, <1>3, <1>4, <1>5, <1>6, <1>7, <1>8, <1>9, <1>10, <1>11, <1>12, <1>13,
     <1>14, <1>15
     DEF WiderNext, Environment, Poll, Ask, Step

-----------------------------------------------------------------------------
(* The locals of a request are its own.                                    *)

Untouched(q) ==
    /\ pc'[q] = pc[q] /\ sat'[q] = sat[q] /\ start'[q] = start[q] /\ wallets'[q] = wallets[q]
    /\ latest'[q] = latest[q] /\ endpoint'[q] = endpoint[q] /\ j'[q] = j[q]
    /\ rest'[q] = rest[q] /\ found'[q] = found[q]

\* A step of one request changes no local of another.
LEMMA OthersAreUntouched ==
    ASSUME TypeOK, NEW r \in Requests, Poll(r) \/ Ask(r) \/ Step(r) \/ Ends(r),
           NEW q \in Requests \ {r}
    PROVE  Untouched(q)
<1> USE DEF TypeOK, GoTo, Fresh, environment, scan, history, Untouched
<1>1. CASE Poll(r)
  BY <1>1 DEF Poll, BeginSatellite
<1>2. CASE Ask(r)
  BY <1>2 DEF Ask, BeginAddress
<1>3. CASE ListBySatellite(r)
  BY <1>3 DEF ListBySatellite
<1>4. CASE LatestHeader(r)
  BY <1>4 DEF LatestHeader
<1>5. ASSUME NEW addresses \in SUBSET rest[r], FilterTransfer(r, addresses)
      PROVE  Untouched(q)
  <2>1. (\E n : j' = [j EXCEPT ![r] = n]) \/ j' = j
    BY <1>5 DEF FilterTransfer
  <2>2. \E a : rest' = [rest EXCEPT ![r] = a]
    BY <1>5 DEF FilterTransfer
  <2>3. \E f : found' = [found EXCEPT ![r] = f]
    BY <1>5 DEF FilterTransfer
  <2> QED
    BY <1>5, <2>1, <2>2, <2>3 DEF FilterTransfer
<1>6. CASE NextEndpoint(r)
  BY <1>6 DEF NextEndpoint
<1>7. CASE ScanEnds(r)
  BY <1>7 DEF ScanEnds
<1>8. CASE \E c \in Chains : Store(r, c)
  BY <1>8 DEF Store
<1>9. CASE StoreEnds(r)
  BY <1>9 DEF StoreEnds
<1>10. CASE Ends(r)
  BY <1>10 DEF Ends
<1> QED
  BY <1>1, <1>2, <1>3, <1>4, <1>5, <1>6, <1>7, <1>8, <1>9, <1>10 DEF Step

\* A chain is scanned once in a request: the one being scanned has not been
\* scanned before.
LEMMA ScannedOnce ==
    ASSUME TypeOK, NEW r \in Requests, pc[r] \in {"header", "scan"}
    PROVE  ~HasScanned(r, Chain(r))
  BY ChainType, Constants DEF HasScanned, Chain, Indices, TypeOK

LEMMA FoundType ==
    ASSUME TypeOK, NEW r \in Requests, NEW e \in found[r]
    PROVE  /\ e[1] \in Transfers /\ e[2] \in Nat /\ e[3] \in Nat
           /\ chainOf[e[1]] \in Chains /\ latest[r][chainOf[e[1]]] \in Nat
<1>1. e \in Transfers \X Heights \X Nat
  BY DEF TypeOK
<1>2. e[1] \in Transfers /\ e[2] \in Nat /\ e[3] \in Nat
  BY <1>1, Constants DEF Heights
<1>3. chainOf[e[1]] \in Chains
  BY <1>2, EventsAssumption DEF EventsAssumption
<1> QED
  BY <1>2, <1>3, Constants DEF TypeOK, Heights

-----------------------------------------------------------------------------
(* InBatches.                                                              *)

LEMMA InBatchesInit == Init => InBatches
  BY DEF Init, InBatches, BatchesOf

LEMMA InBatchesStep ==
    ASSUME TypeOK, Progress, InBatches, [WiderNext]_vars
    PROVE  InBatches'
<1> USE DEF environment, scan, history
<1>0. TypeOK
  OBVIOUS
<1>1. ASSUME NEW q \in Requests, Untouched(q)
      PROVE  BatchesOf(q)'
  <2>1. Chain(q)' = Chain(q) /\ \A c : HasScanned(q, c)' <=> HasScanned(q, c)
    BY <1>1 DEF Chain, HasScanned, Untouched
  <2> QED
    BY <1>1, <2>1 DEF InBatches, BatchesOf, Untouched
<1>2. ASSUME NEW r \in Requests, Poll(r) \/ Ask(r)
      PROVE  BatchesOf(r)'
  <2>1. found'[r] = {}
    BY <1>0, <1>2 DEF Poll, Ask, BeginSatellite, BeginAddress, Fresh, TypeOK
  <2> QED
    BY <2>1 DEF BatchesOf
<1>3. ASSUME NEW r \in Requests, ListBySatellite(r)
      PROVE  BatchesOf(r)'
  <2>1. found'[r] = {}
    BY <1>3 DEF ListBySatellite, InBatches, BatchesOf
  <2> QED
    BY <2>1 DEF BatchesOf
<1>4. ASSUME NEW r \in Requests, LatestHeader(r)
      PROVE  BatchesOf(r)'
  <2>1. /\ pc[r] = "header" /\ pc'[r] = "scan"
        /\ UNCHANGED <<endpoint, found>>
        /\ \A c \in Chains \ {Chain(r)} : latest'[r][c] = latest[r][c]
    BY <1>0, <1>4, ChainType DEF LatestHeader, GoTo, TypeOK
  <2>2. \A c : HasScanned(r, c) => HasScanned(r, c)'
    BY <2>1 DEF HasScanned
  <2>3. ASSUME NEW e \in found[r]
        PROVE  /\ HasScanned(r, chainOf[e[1]])
               /\ chainOf[e[1]] \in Chains
               /\ chainOf[e[1]] # Chain(r)
    BY <1>0, <2>1, ScannedOnce, FoundType DEF InBatches, BatchesOf
  <2>4. Chain(r)' = Chain(r)
    BY <2>1 DEF Chain
  <2> QED
    BY <2>1, <2>2, <2>3, <2>4 DEF InBatches, BatchesOf
<1>5. ASSUME NEW r \in Requests, NEW addresses \in SUBSET rest[r], FilterTransfer(r, addresses)
      PROVE  BatchesOf(r)'
  <2> DEFINE c   == Chain(r)
             new == {<<t, mined[t], j[r]>> : t \in Logs(c, addresses, j[r], BatchEnd(r))}
  <2>1. /\ j[r] \in Nat /\ latest[r][c] \in Nat /\ BlockBatchSize \in Nat
        /\ BlockBatchSize >= 1
    <3>1. c \in Chains
      BY <1>0, ChainType
    <3>2. j[r] \in Nat /\ latest[r][c] \in Heights
      <4> HIDE DEF c
      <4> QED
        BY <1>0, <3>1 DEF TypeOK
    <3> QED
      BY <3>2, Constants DEF Heights
  <2>2. /\ pc[r] = "scan" /\ UNCHANGED <<pc, latest, endpoint>>
        /\ found' = [found EXCEPT ![r] = found[r] \cup new]
        /\ j[r] < latest[r][c]
        /\ j'[r] = j[r] \/ j'[r] = j[r] + BlockBatchSize
    <3>1. pc[r] = "scan" /\ UNCHANGED <<pc, latest, endpoint>>
      BY <1>5 DEF FilterTransfer
    <3>2. found' = [found EXCEPT ![r] = found[r] \cup new]
      BY <1>5 DEF FilterTransfer
    <3>3. j' = j \/ j' = [j EXCEPT ![r] = j[r] + BlockBatchSize]
      BY <1>5 DEF FilterTransfer
    <3>4. j[r] < latest[r][c]
      BY <1>5, <2>1 DEF FilterTransfer, ScanDone
    <3> QED
      BY <1>0, <3>1, <3>2, <3>3, <3>4 DEF TypeOK
  <2>3. found'[r] = found[r] \cup new
    BY <1>0, <2>2 DEF TypeOK
  <2>4. ASSUME NEW e \in new
        PROVE  /\ chainOf[e[1]] = c /\ e[3] = j[r] /\ e[2] \in Nat /\ e[3] <= e[2]
               /\ e[3] + BlockBatchSize <= latest[r][c] => e[2] <= e[3] + BlockBatchSize
    <3>1. PICK t \in Logs(c, addresses, j[r], BatchEnd(r)) : e = <<t, mined[t], j[r]>>
      OBVIOUS
    <3>2. /\ chainOf[t] = c /\ mined[t] \in Nat /\ j[r] <= mined[t] /\ mined[t] <= BatchEnd(r)
      BY <1>0, <2>1, BatchEndBounds, Constants DEF Logs, TypeOK, Heights
    <3>3. j[r] + BlockBatchSize <= latest[r][c] => BatchEnd(r) = j[r] + BlockBatchSize
      BY BatchEndBounds
    <3> QED
      BY <3>1, <3>2, <3>3
  <2>5. ASSUME NEW e \in found[r]
        PROVE  /\ e[3] \in Nat
               /\ chainOf[e[1]] = c => e[3] = j[r] \/ e[3] + BlockBatchSize <= j[r]
    BY <1>0, <2>2, FoundType DEF InBatches, BatchesOf
  <2>6. Chain(r)' = c /\ \A d : HasScanned(r, d)' <=> HasScanned(r, d)
    BY <2>2 DEF Chain, HasScanned
  <2> HIDE DEF c, new
  <2>7. ASSUME NEW e \in found[r] \cup new
        PROVE  LET d == chainOf[e[1]]
               IN  /\ e[3] <= e[2] /\ e[3] < latest[r][d]
                   /\ e[3] + BlockBatchSize <= latest[r][d] => e[2] <= e[3] + BlockBatchSize
                   /\ d = c => e[3] = j'[r] \/ e[3] + BlockBatchSize <= j'[r]
                   /\ HasScanned(r, d) \/ d = c
    <3>1. CASE e \in new
      BY <2>2, <2>1, <2>4, <3>1
    <3>2. CASE e \in found[r]
      <4>1. /\ e[3] <= e[2] /\ e[3] < latest[r][chainOf[e[1]]]
            /\ e[3] + BlockBatchSize <= latest[r][chainOf[e[1]]] => e[2] <= e[3] + BlockBatchSize
            /\ HasScanned(r, chainOf[e[1]]) \/ chainOf[e[1]] = c
        BY <2>2, <3>2 DEF InBatches, BatchesOf, c
      <4>2. chainOf[e[1]] = c => e[3] = j'[r] \/ e[3] + BlockBatchSize <= j'[r]
        BY <2>2, <2>1, <2>5, <3>2
      <4> QED
        BY <4>1, <4>2
    <3> QED
      BY <3>1, <3>2
  <2>8. ASSUME NEW e \in found[r] \cup new, NEW f \in found[r] \cup new,
               chainOf[f[1]] = chainOf[e[1]], e[3] < f[3]
        PROVE  e[3] + BlockBatchSize <= f[3]
    <3>1. CASE e \in found[r] /\ f \in found[r]
      BY <2>8, <3>1 DEF InBatches, BatchesOf
    <3>2. CASE e \in new \/ f \in new
      <4>1. chainOf[e[1]] = c /\ chainOf[f[1]] = c
        BY <2>4, <2>8, <3>2
      <4>2. e[3] = j[r] \/ e[3] + BlockBatchSize <= j[r]
        BY <2>4, <2>5, <4>1
      <4>3. f[3] = j[r] \/ f[3] + BlockBatchSize <= j[r]
        BY <2>4, <2>5, <4>1
      <4>4. e[3] \in Nat /\ f[3] \in Nat
        BY <2>1, <2>4, <2>5
      <4>5. e[3] = j[r] \/ f[3] = j[r]
        BY <2>4, <3>2
      <4> QED
        BY <2>1, <2>8, <4>2, <4>3, <4>4, <4>5
    <3> QED
      BY <3>1, <3>2
  <2> QED
    BY <2>2, <2>3, <2>6, <2>7, <2>8 DEF BatchesOf
<1>6. ASSUME NEW r \in Requests, NextEndpoint(r)
      PROVE  BatchesOf(r)'
  <2>1. /\ pc[r] = "scan" /\ pc'[r] = "header" /\ endpoint'[r] = endpoint[r] + 1
        /\ UNCHANGED <<found, latest>>
    BY <1>0, <1>6 DEF NextEndpoint, GoTo, TypeOK
  <2>2. endpoint[r] \in Indices /\ endpoint[r] \in Nat
    BY <1>0, ChainType, Constants DEF Indices
  <2>3. \A c : HasScanned(r, c) \/ c = Chain(r) => HasScanned(r, c)'
    <3>1. ASSUME NEW c, HasScanned(r, c) PROVE HasScanned(r, c)'
      <4>1. PICK i \in Indices : c = Endpoints[i] /\ i < endpoint[r]
        BY <2>1, <3>1 DEF HasScanned
      <4>2. i < endpoint'[r]
        BY <2>1, <2>2, <4>1 DEF Indices
      <4> QED
        BY <2>1, <4>1, <4>2 DEF HasScanned
    <3>2. ASSUME NEW c, c = Chain(r) PROVE HasScanned(r, c)'
      <4>1. endpoint[r] < endpoint'[r]
        BY <2>1, <2>2
      <4> QED
        BY <2>1, <2>2, <3>2, <4>1 DEF HasScanned, Chain
    <3> QED
      BY <3>1, <3>2
  <2> QED
    BY <2>1, <2>3 DEF InBatches, BatchesOf
<1>7. ASSUME NEW r \in Requests, ScanEnds(r) \/ StoreEnds(r) \/ Ends(r)
      PROVE  BatchesOf(r)'
  <2>1. pc'[r] \in {"store", "convert", "idle"} /\ UNCHANGED <<found, latest>>
    BY <1>0, <1>7 DEF ScanEnds, StoreEnds, Ends, GoTo, TypeOK
  <2> QED
    BY <2>1 DEF InBatches, BatchesOf
<1>8. ASSUME NEW r \in Requests, NEW c \in Chains, Store(r, c)
      PROVE  BatchesOf(r)'
  <2>1. Untouched(r)
    BY <1>8 DEF Store, Untouched
  <2> QED
    BY <1>1, <2>1
<1>9. CASE Environment \/ UNCHANGED vars
  <2>1. \A q \in Requests : Untouched(q)
    BY <1>9 DEF Environment, NewBlock, Reorg, ClaimWallet, Untouched, vars
  <2> QED
    BY <1>1, <2>1 DEF InBatches
<1>10. CASE Crash
  <2>1. \A q \in Requests : pc'[q] = "idle" /\ UNCHANGED <<found, latest>>
    BY <1>10 DEF Crash
  <2> QED
    BY <2>1 DEF InBatches, BatchesOf
<1>11. ASSUME NEW r \in Requests, Poll(r) \/ Ask(r) \/ Step(r) \/ Ends(r)
       PROVE  InBatches'
  <2>1. \A q \in Requests \ {r} : BatchesOf(q)'
    BY <1>0, <1>1, <1>11, OthersAreUntouched
  <2>2. BatchesOf(r)'
    BY <1>2, <1>3, <1>4, <1>5, <1>6, <1>7, <1>8, <1>11 DEF Step
  <2> QED
    BY <2>1, <2>2 DEF InBatches
<1> QED
  BY <1>9, <1>10, <1>11 DEF WiderNext

-----------------------------------------------------------------------------
(* Covered.                                                                *)

\* Blocks that are final for a request are not replaced, and no block that it
\* looks at is mined later: the events that it has to find stay where they are.
LEMMA WantedEventsStay ==
    ASSUME TypeOK, Progress, Environment, NEW q \in Requests, NEW t \in Transfers,
           NEW c \in Chains, Wanted(q, t, c)'
    PROVE  mined'[t] = mined[t]
<1>1. latest'[q] = latest[q] /\ latest[q][c] \in Nat /\ latest[q][c] <= head[c] /\ head[c] \in Nat
  BY Constants DEF Environment, NewBlock, Reorg, ClaimWallet, scan, Progress, TypeOK, Heights
<1>2. /\ chainOf[t] = c /\ mined'[t] # 0
      /\ mined'[t] \in start'[q][c] .. latest'[q][c] - ReorgDepth
  BY DEF Wanted
<1>3. start'[q][c] \in Int
  <2>1. start' = start
    BY DEF Environment, NewBlock, Reorg, ClaimWallet, scan
  <2>2. start[q][c] \in Nat \cup From
    BY DEF TypeOK
  <2>3. start[q][c] \in Int
    <3>1. CASE start[q][c] \in Nat
      BY <3>1
    <3>2. CASE start[q][c] \in From
      BY <3>2, Constants
    <3> QED
      BY <2>2, <3>1, <3>2
  <2> QED
    BY <2>1, <2>3
<1>4. mined'[t] \in Int /\ mined'[t] <= head[c] - ReorgDepth
  BY <1>1, <1>2, <1>3, Constants
<1>5. ASSUME NEW d \in Chains, NEW included \in SUBSET Transfers, NewBlock(d, included),
             mined'[t] # mined[t]
      PROVE  FALSE
  <2>1. t \in included /\ mined'[t] = head[d] + 1
    BY <1>5 DEF NewBlock
  <2>2. d = c
    BY <1>2, <1>5, <2>1 DEF NewBlock
  <2> QED
    BY <1>1, <1>4, <2>1, <2>2, Constants
<1>6. ASSUME NEW d \in Chains, NEW u \in Transfers, NEW block \in Heights, Reorg(d, u, block),
             mined'[t] # mined[t]
      PROVE  FALSE
  <2>1. u = t /\ mined'[t] = block
    BY <1>6 DEF Reorg, TypeOK
  <2>2. d = c
    BY <1>2, <1>6, <2>1 DEF Reorg
  <2>3. block \in Final(c) + 1 .. head[c]
    BY <1>2, <1>6, <2>1, <2>2 DEF Reorg
  <2> QED
    BY <1>1, <1>4, <2>1, <2>3, Constants DEF Final
<1>7. ASSUME NEW a \in Addresses, ClaimWallet(a)
      PROVE  mined'[t] = mined[t]
  BY <1>7 DEF ClaimWallet
<1> QED
  BY <1>5, <1>6, <1>7 DEF Environment

\* When the loop over the batches of a chain ends, the chain is complete.
LEMMA CurrentChainIsCovered ==
    ASSUME TypeOK, Progress, Covered, NEW r \in Requests, pc[r] = "scan", ScanDone(r),
           NEW t \in Transfers, Wanted(r, t, Chain(r))
    PROVE  HasFound(r, t)
<1> DEFINE c == Chain(r)
<1>1. c \in Chains
  BY ChainType DEF TypeOK
<1>2. wallets[r] # {} /\ j[r] >= latest[r][c]
  BY DEF ScanDone, Wanted
<1>3. j[r] \in Nat /\ latest[r][c] \in Nat /\ start[r][c] \in Nat /\ mined[t] \in Nat
  BY <1>1, Constants DEF TypeOK, Heights, Progress
<1>4. /\ mined[t] \in start[r][c] .. latest[r][c] - ReorgDepth
      /\ start[r][c] < latest[r][c]
  BY DEF Wanted
<1> HIDE DEF c
<1>5. start[r][c] < j[r] /\ mined[t] <= j[r]
  BY <1>2, <1>3, <1>4, Constants
<1> QED
  BY <1>5 DEF Covered, CoveredOf, c

LEMMA CoveredInit == Init => Covered
  BY DEF Init, Covered, CoveredOf, HasScanned

LEMMA CoveredStep ==
    ASSUME TypeOK, Progress, Covered, [WiderNext]_vars
    PROVE  Covered'
<1> USE DEF environment, scan, history
<1>0. TypeOK
  OBVIOUS
<1>1. ASSUME NEW q \in Requests, Untouched(q),
             \A t \in Transfers, c \in Chains : Wanted(q, t, c)' => mined'[t] = mined[t]
      PROVE  CoveredOf(q)'
  <2>1. Chain(q)' = Chain(q) /\ Chain(q) \in Chains
    BY <1>0, <1>1, ChainType DEF Chain, Untouched
  <2>2. \A c : HasScanned(q, c)' <=> HasScanned(q, c)
    BY <1>1 DEF HasScanned, Untouched
  <2>3. ASSUME NEW t \in Transfers, NEW c \in Chains, Wanted(q, t, c)'
        PROVE  mined'[t] = mined[t] /\ Wanted(q, t, c) /\ (HasFound(q, t) => HasFound(q, t)')
    BY <1>1, <2>3 DEF Wanted, HasFound, Untouched
  <2> QED
    BY <1>1, <2>1, <2>2, <2>3 DEF Covered, CoveredOf, Untouched
<1>2. ASSUME NEW r \in Requests, Poll(r) \/ Ask(r)
      PROVE  CoveredOf(r)'
  <2>1. pc'[r] \in {"list", "header"} /\ endpoint'[r] = 1
    BY <1>0, <1>2 DEF Poll, Ask, BeginSatellite, BeginAddress, Fresh, GoTo, TypeOK
  <2> QED
    BY <2>1 DEF CoveredOf, HasScanned, Indices
<1>3. ASSUME NEW r \in Requests, ListBySatellite(r)
      PROVE  CoveredOf(r)'
  <2>1. pc'[r] = "header" /\ endpoint'[r] = 1
    BY <1>0, <1>3 DEF ListBySatellite, GoTo, TypeOK, Progress
  <2> QED
    BY <2>1 DEF CoveredOf, HasScanned, Indices
<1>4. ASSUME NEW r \in Requests, LatestHeader(r)
      PROVE  CoveredOf(r)'
  <2> DEFINE c     == Chain(r)
             first == Truncate(Unsigned(start[r][c]), head[c])
  <2>1. /\ pc[r] = "header" /\ pc'[r] = "scan"
        /\ UNCHANGED <<mined, endpoint, found, wallets>>
        /\ latest' = [latest EXCEPT ![r][c] = head[c]]
        /\ start' = [start EXCEPT ![r][c] = first]
        /\ j' = [j EXCEPT ![r] = first]
        /\ rest' = [rest EXCEPT ![r] = wallets[r]]
    BY <1>0, <1>4 DEF LatestHeader, GoTo, TypeOK
  <2>2. c \in Chains /\ first \in Nat
    <3>1. c \in Chains /\ head[c] \in Heights /\ start[r][c] \in Nat \cup From
      BY <1>0, ChainType DEF TypeOK
    <3> QED
      BY <3>1, TruncateType
  <2>3. Chain(r)' = c
    BY <2>1 DEF Chain
  <2> HIDE DEF first
  <2>4. /\ start'[r][c] = first /\ j'[r] = first /\ rest'[r] = wallets[r]
        /\ \A d \in Chains \ {c} : start'[r][d] = start[r][d] /\ latest'[r][d] = latest[r][d]
    <3> HIDE DEF c
    <3> QED
      BY <1>0, <2>1, <2>2 DEF TypeOK
  <2>5. ASSUME NEW d \in Chains, HasScanned(r, d)'
        PROVE  HasScanned(r, d) /\ d # c
    BY <1>0, <2>1, <2>5, ScannedOnce DEF HasScanned
  <2>6. ASSUME NEW t \in Transfers, NEW d \in Chains, HasScanned(r, d)', Wanted(r, t, d)'
        PROVE  HasFound(r, t)'
    <3>1. Wanted(r, t, d)
      BY <2>1, <2>4, <2>5, <2>6 DEF Wanted
    <3> QED
      BY <2>1, <2>5, <2>6, <3>1 DEF Covered, CoveredOf, HasFound
  <2>7. ASSUME NEW t \in Transfers, Wanted(r, t, c)'
        PROVE  recipientOf[t] \in rest'[r] /\ ~(start'[r][c] < j'[r])
    BY <2>1, <2>2, <2>4, <2>7 DEF Wanted
  <2> QED
    BY <2>3, <2>6, <2>7 DEF CoveredOf
<1>5. ASSUME NEW r \in Requests, NEW addresses \in SUBSET rest[r], FilterTransfer(r, addresses)
      PROVE  CoveredOf(r)'
  <2> DEFINE c   == Chain(r)
             new == {<<t, mined[t], j[r]>> : t \in Logs(c, addresses, j[r], BatchEnd(r))}
  <2>1. /\ pc[r] = "scan" /\ UNCHANGED <<mined, pc, start, wallets, latest, endpoint>>
        /\ found' = [found EXCEPT ![r] = found[r] \cup new]
        /\ \/ /\ addresses = rest[r]
              /\ j' = [j EXCEPT ![r] = j[r] + BlockBatchSize]
              /\ rest' = [rest EXCEPT ![r] = wallets[r]]
           \/ /\ j' = j
              /\ rest' = [rest EXCEPT ![r] = rest[r] \ addresses]
    BY <1>5 DEF FilterTransfer
  <2>2. found'[r] = found[r] \cup new
    BY <1>0, <2>1 DEF TypeOK
  <2>3. c \in Chains /\ Chain(r)' = c /\ \A d : HasScanned(r, d)' <=> HasScanned(r, d)
    BY <1>0, <2>1, ChainType DEF Chain, HasScanned
  <2>4. /\ j[r] \in Nat /\ start[r][c] \in Nat /\ start[r][c] <= j[r] /\ latest[r][c] \in Nat
        /\ BlockBatchSize \in Nat /\ BlockBatchSize >= 1
    BY <1>0, <2>1, <2>3, Constants DEF TypeOK, Heights, Progress
  <2>5. ASSUME NEW t \in Transfers PROVE HasFound(r, t) => HasFound(r, t)'
    BY <2>1, <2>2 DEF HasFound
  <2>6. ASSUME NEW t \in Transfers, NEW d \in Chains PROVE Wanted(r, t, d)' <=> Wanted(r, t, d)
    BY <2>1 DEF Wanted
  <2>7. ASSUME NEW t \in Transfers, Wanted(r, t, c), recipientOf[t] \in addresses,
               mined[t] \in j[r] .. j[r] + BlockBatchSize
        PROVE  HasFound(r, t)'
    <3>1. /\ chainOf[t] = c /\ mined[t] # 0
          /\ mined[t] \in start[r][c] .. latest[r][c] - ReorgDepth
      BY <2>7 DEF Wanted
    <3>2. mined[t] \in Nat /\ j[r] <= mined[t] /\ mined[t] <= latest[r][c]
      BY <2>4, <2>7, <3>1, Constants
    <3>3. BatchEnd(r) \in Nat /\ mined[t] <= BatchEnd(r)
      BY <2>4, <2>7, <3>2, BatchEndBounds
    <3>4. t \in Logs(c, addresses, j[r], BatchEnd(r))
      BY <2>4, <2>7, <3>1, <3>2, <3>3 DEF Logs
    <3>5. <<t, mined[t], j[r]>> \in found'[r]
      BY <2>2, <3>4
    <3> QED
      BY <2>1, <3>5 DEF HasFound
  <2> HIDE DEF new
  <2>8. ASSUME NEW t \in Transfers, NEW d \in Chains, HasScanned(r, d)', Wanted(r, t, d)'
        PROVE  HasFound(r, t)'
    BY <2>3, <2>5, <2>6, <2>8 DEF Covered, CoveredOf
  <2>9. ASSUME NEW t \in Transfers, Wanted(r, t, c)
        PROVE  /\ start[r][c] < j'[r] /\ mined[t] <= j'[r] => HasFound(r, t)'
               /\ mined[t] \in j'[r] .. j'[r] + BlockBatchSize /\ recipientOf[t] \notin rest'[r]
                      => HasFound(r, t)'
    <3>1. /\ start[r][c] < j[r] /\ mined[t] <= j[r] => HasFound(r, t)'
          /\ mined[t] \in j[r] .. j[r] + BlockBatchSize /\ recipientOf[t] \notin rest[r]
                 => HasFound(r, t)'
      BY <2>1, <2>5, <2>9 DEF Covered, CoveredOf
    <3>2. mined[t] \in Nat /\ start[r][c] <= mined[t] /\ recipientOf[t] \in wallets[r]
      BY <1>0, <2>4, <2>9, Constants DEF Wanted, TypeOK, Heights
    <3>3. CASE /\ addresses = rest[r]
               /\ j' = [j EXCEPT ![r] = j[r] + BlockBatchSize]
               /\ rest' = [rest EXCEPT ![r] = wallets[r]]
      <4>1. j'[r] = j[r] + BlockBatchSize /\ rest'[r] = wallets[r]
        BY <1>0, <3>3 DEF TypeOK
      <4>2. CASE mined[t] < j[r]
        BY <2>4, <3>1, <3>2, <4>1, <4>2
      <4>3. CASE j[r] <= mined[t] /\ mined[t] <= j[r] + BlockBatchSize
        BY <2>4, <2>7, <2>9, <3>1, <3>2, <3>3, <4>3
      <4>4. CASE j[r] + BlockBatchSize < mined[t]
        BY <2>4, <3>2, <4>1, <4>4
      <4> QED
        BY <2>4, <3>2, <4>2, <4>3, <4>4
    <3>4. CASE j' = j /\ rest' = [rest EXCEPT ![r] = rest[r] \ addresses]
      <4>1. j'[r] = j[r] /\ rest'[r] = rest[r] \ addresses
        BY <1>0, <3>4 DEF TypeOK
      <4> QED
        BY <2>7, <2>9, <3>1, <4>1
    <3> QED
      BY <2>1, <3>3, <3>4
  <2> QED
    BY <2>1, <2>3, <2>6, <2>8, <2>9 DEF CoveredOf
<1>6. ASSUME NEW r \in Requests, NextEndpoint(r) \/ ScanEnds(r)
      PROVE  CoveredOf(r)'
  <2>1. /\ pc[r] = "scan" /\ ScanDone(r) /\ pc'[r] # "scan"
        /\ UNCHANGED <<mined, start, wallets, latest, found>>
        /\ \/ pc'[r] = "header" /\ endpoint'[r] = endpoint[r] + 1
           \/ endpoint[r] = Len(Endpoints)
    BY <1>0, <1>6 DEF NextEndpoint, ScanEnds, GoTo, TypeOK
  <2>2. endpoint[r] \in Indices
    BY <1>0, ChainType
  <2>3. ASSUME NEW c, HasScanned(r, c)'
        PROVE  HasScanned(r, c) \/ c = Chain(r)
    <3>1. PICK i \in Indices : c = Endpoints[i] /\ (pc'[r] = "header" => i < endpoint'[r])
      BY <2>3 DEF HasScanned
    <3>2. i < endpoint[r] \/ i = endpoint[r]
      BY <2>1, <2>2, <3>1, Constants DEF Indices
    <3> QED
      BY <2>1, <3>1, <3>2 DEF HasScanned, Chain
  <2>4. ASSUME NEW t \in Transfers, NEW c \in Chains, HasScanned(r, c)', Wanted(r, t, c)'
        PROVE  HasFound(r, t)'
    <3>1. Wanted(r, t, c)
      BY <2>1, <2>4 DEF Wanted
    <3>2. HasFound(r, t)
      BY <2>1, <2>3, <2>4, <3>1, CurrentChainIsCovered DEF Covered, CoveredOf
    <3> QED
      BY <2>1, <3>2 DEF HasFound
  <2> QED
    BY <2>1, <2>4 DEF CoveredOf
<1>7. ASSUME NEW r \in Requests, StoreEnds(r) \/ \E c \in Chains : Store(r, c)
      PROVE  CoveredOf(r)'
  <2>1. /\ pc[r] = "store" /\ pc'[r] \in {"store", "convert"}
        /\ UNCHANGED <<mined, start, wallets, latest, found>>
    BY <1>0, <1>7 DEF StoreEnds, Store, GoTo, TypeOK
  <2>2. \A c : HasScanned(r, c)' => HasScanned(r, c)
    BY <2>1 DEF HasScanned
  <2> QED
    BY <2>1, <2>2 DEF Covered, CoveredOf, Wanted, HasFound
<1>8. ASSUME NEW r \in Requests, pc'[r] = "idle"
      PROVE  CoveredOf(r)'
  BY <1>8 DEF CoveredOf, HasScanned
<1>9. CASE Environment
  <2>1. \A q \in Requests : Untouched(q)
    BY <1>9 DEF Environment, NewBlock, Reorg, ClaimWallet, Untouched
  <2> QED
    BY <1>1, <1>9, <2>1, WantedEventsStay DEF Covered
<1>10. CASE Crash
  BY <1>8, <1>10 DEF Crash, Covered
<1>11. CASE UNCHANGED vars
  <2>1. mined' = mined /\ \A q \in Requests : Untouched(q)
    BY <1>11 DEF vars, Untouched
  <2> QED
    BY <1>1, <2>1 DEF Covered
<1>12. ASSUME NEW r \in Requests, Poll(r) \/ Ask(r) \/ Step(r) \/ Ends(r)
       PROVE  Covered'
  <2>1. mined' = mined
    BY <1>12 DEF Poll, Ask, Step, Ends, BeginSatellite, BeginAddress, ListBySatellite, LatestHeader,
       FilterTransfer, NextEndpoint, ScanEnds, Store, StoreEnds
  <2>2. \A q \in Requests \ {r} : CoveredOf(q)'
    BY <1>0, <1>1, <1>12, <2>1, OthersAreUntouched
  <2>3. Ends(r) => pc'[r] = "idle"
    BY <1>0 DEF Ends, TypeOK
  <2>4. CoveredOf(r)'
    BY <1>2, <1>3, <1>4, <1>5, <1>6, <1>7, <1>8, <1>12, <2>3 DEF Step
  <2> QED
    BY <2>2, <2>4 DEF Covered
<1> QED
  BY <1>9, <1>10, <1>11, <1>12 DEF WiderNext

-----------------------------------------------------------------------------
(* Accounted.                                                              *)

LEMMA AccountedInit ==
    ASSUME Init, NEW kept
    PROVE  Accounted(kept)
<1>1. \A s \in Satellites, c \in Chains : lastScanned[s][c] = NoBlock
  BY DEF Init
<1> QED
  BY <1>1 DEF Init, Accounted, AccountOf

\* What is settled stays settled: the events of a final block do not change, and
\* no step takes back what was returned.
LEMMA SettledStays ==
    ASSUME TypeOK, Progress, [WiderNext]_vars, ~Crash, NEW s \in Satellites, NEW c \in Chains,
           NEW b \in Nat, NEW kept, NEW keptNext, kept[s] \subseteq keptNext[s], Settled(kept, s, c, b)
    PROVE  Settled(keptNext, s, c, b)'
<1> USE DEF environment, scan, history
<1>1. head[c] \in Nat /\ head'[c] \in Nat /\ head[c] <= head'[c]
  <2>1. head' = head \/ \E d \in Chains : head' = [head EXCEPT ![d] = head[d] + 1]
    BY DEF WiderNext, Environment, NewBlock, Reorg, ClaimWallet, Crash, Poll, Ask, Step, Ends,
       BeginSatellite, BeginAddress, ListBySatellite, LatestHeader, FilterTransfer, NextEndpoint,
       ScanEnds, Store, StoreEnds, vars
  <2>2. head[c] \in Nat
    BY Constants DEF TypeOK, Heights
  <2>3. head'[c] = head[c] \/ head'[c] = head[c] + 1
    <3>1. CASE head' = head
      BY <3>1
    <3>2. ASSUME NEW d \in Chains, head' = [head EXCEPT ![d] = head[d] + 1]
          PROVE  head'[c] = head[c] \/ head'[c] = head[c] + 1
      BY <3>2 DEF TypeOK
    <3> QED
      BY <2>1, <3>1, <3>2
  <2> QED
    BY <2>2, <2>3
<1>2. ASSUME b <= Final(c), NEW t \in Transfers, chainOf[t] = c, mined'[t] = b, b # 0
      PROVE  mined[t] = b
  <2>1. b <= head[c] - ReorgDepth
    BY <1>2 DEF Final
  <2>2. ASSUME NEW d \in Chains, NEW included \in SUBSET Transfers, NewBlock(d, included),
               mined'[t] # mined[t]
        PROVE  FALSE
    <3>1. t \in included /\ mined'[t] = head[d] + 1
      BY <2>2 DEF NewBlock
    <3>2. d = c
      BY <1>2, <2>2, <3>1 DEF NewBlock
    <3> QED
      BY <1>1, <1>2, <2>1, <3>1, <3>2, Constants
  <2>3. ASSUME NEW d \in Chains, NEW u \in Transfers, NEW block \in Heights, Reorg(d, u, block),
               mined'[t] # mined[t]
        PROVE  FALSE
    <3>1. u = t /\ mined'[t] = block
      BY <2>3 DEF Reorg, TypeOK
    <3>2. d = c
      BY <1>2, <2>3, <3>1 DEF Reorg
    <3>3. b \in Final(c) + 1 .. head[c]
      BY <1>2, <2>3, <3>1, <3>2 DEF Reorg
    <3> QED
      BY <1>1, <2>1, <3>3, Constants DEF Final
  <2>4. ~Environment => mined' = mined
    BY DEF WiderNext, Crash, Poll, Ask, Step, Ends, BeginSatellite, BeginAddress, ListBySatellite,
       LatestHeader, FilterTransfer, NextEndpoint, ScanEnds, Store, StoreEnds, vars
  <2>5. ASSUME NEW a \in Addresses, ClaimWallet(a) PROVE mined' = mined
    BY <2>5 DEF ClaimWallet
  <2> QED
    BY <1>2, <2>2, <2>3, <2>4, <2>5 DEF Environment
<1>3. floor[s][c] \in Nat /\ floor'[s][c] \in Nat /\ floor[s][c] <= floor'[s][c]
  <2>1. floor[s][c] \in Nat
    BY DEF TypeOK
  <2>2. ASSUME NEW r \in Requests, NEW u \in Satellites, NEW from \in [Chains -> From],
               BeginSatellite(r, u, from)
        PROVE  floor'[s][c] \in {floor[s][c], Larger(floor[s][c], from[c])}
    BY <2>2 DEF BeginSatellite, TypeOK
  <2>3. \A from \in [Chains -> From] :
            /\ Larger(floor[s][c], from[c]) \in Nat
            /\ floor[s][c] <= Larger(floor[s][c], from[c])
    <3> TAKE from \in [Chains -> From]
    <3>1. from[c] \in Int
      BY Constants
    <3> QED
      BY <2>1, <3>1 DEF Larger
  <2>4. \/ floor' = floor
        \/ \E r \in Requests, u \in Satellites, from \in [Chains -> From] : BeginSatellite(r, u, from)
    BY DEF WiderNext, Environment, NewBlock, Reorg, ClaimWallet, Crash, Poll, Ask, Step, Ends,
       BeginAddress, ListBySatellite, LatestHeader, FilterTransfer, NextEndpoint,
       ScanEnds, Store, StoreEnds, vars
  <2> QED
    BY <2>1, <2>2, <2>3, <2>4
<1>4. truncated[s][c] \subseteq truncated'[s][c]
  <2>1. ASSUME NEW r \in Requests, LatestHeader(r)
        PROVE  truncated[s][c] \subseteq truncated'[s][c]
    <3>1. CASE sat[r] = NoSatellite
      BY <2>1, <3>1 DEF LatestHeader
    <3>2. CASE sat[r] # NoSatellite
      <4> DEFINE begin   == Unsigned(start[r][Chain(r)])
                 dropped == begin .. Truncate(begin, head[Chain(r)]) - 1
      <4>1. truncated' = [truncated EXCEPT ![sat[r]][Chain(r)] = truncated[sat[r]][Chain(r)] \cup dropped]
        BY <2>1, <3>2 DEF LatestHeader
      <4> HIDE DEF dropped
      <4>2. sat[r] \in Satellites /\ Chain(r) \in Chains
        BY <3>2, ChainType DEF TypeOK
      <4> QED
        BY <4>1, <4>2 DEF TypeOK
    <3> QED
      BY <3>1, <3>2
  <2>2. truncated' = truncated \/ \E r \in Requests : LatestHeader(r)
    BY DEF WiderNext, Environment, NewBlock, Reorg, ClaimWallet, Crash, Poll, Ask, Step, Ends,
       BeginSatellite, BeginAddress, ListBySatellite, FilterTransfer, NextEndpoint,
       ScanEnds, Store, StoreEnds, vars
  <2> QED
    BY <2>1, <2>2
<1>5. b <= Final(c) => b <= Final(c)'
  BY <1>1, Constants DEF Final
<1>6. CASE b < floor[s][c]
  BY <1>3, <1>6 DEF Settled
<1>7. CASE b \in truncated[s][c]
  BY <1>4, <1>7 DEF Settled
<1>8. CASE b <= Final(c) /\ \A t \in Transfers :
                  /\ chainOf[t] = c /\ mined[t] = b /\ b # 0
                  /\ recipientOf[t] \in InitiallyClaimed
                  /\ ownerOf[recipientOf[t]] = s
                  => <<t, b>> \in kept[s]
  <2>1. b <= Final(c)'
    BY <1>5, <1>8
  <2> QED
    BY <1>2, <1>8, <2>1 DEF Settled
<1> QED
  BY <1>6, <1>7, <1>8 DEF Settled

\* What a complete scan has found: every event, for the wallets that were always
\* claimed, of the blocks from its first one to where the next scan resumes, and
\* these blocks are final.
LEMMA CompleteScanFindsAll ==
    ASSUME TypeOK, Progress, NEW r \in Requests, sat[r] \in Satellites, NEW c \in Chains,
           \A t \in Transfers : Wanted(r, t, c) => HasFound(r, t),
           {a \in InitiallyClaimed : ownerOf[a] = sat[r]} \subseteq wallets[r],
           start[r][c] \in Nat,
           NEW b \in Nat, b < ResumeAt(latest[r][c]), start[r][c] <= b
    PROVE  /\ b <= Final(c)
           /\ \A t \in Transfers :
                  /\ chainOf[t] = c /\ mined[t] = b /\ b # 0
                  /\ recipientOf[t] \in InitiallyClaimed
                  /\ ownerOf[recipientOf[t]] = sat[r]
                  => \E e \in found[r] : e[1] = t /\ e[2] = b
<1>1. /\ latest[r][c] \in Heights /\ latest[r][c] \in Nat /\ head[c] \in Nat
      /\ latest[r][c] <= head[c]
  BY Constants DEF TypeOK, Heights, Progress
<1>2. b < latest[r][c] /\ b <= latest[r][c] - ReorgDepth
  BY <1>1, ResumeAtType
<1>3. b <= Final(c)
  BY <1>1, <1>2, Constants DEF Final
<1>4. start[r][c] < latest[r][c] /\ b \in start[r][c] .. latest[r][c] - ReorgDepth
  BY <1>1, <1>2, Constants
<1>5. ASSUME NEW t \in Transfers, chainOf[t] = c, mined[t] = b, b # 0,
             recipientOf[t] \in InitiallyClaimed, ownerOf[recipientOf[t]] = sat[r]
      PROVE  \E e \in found[r] : e[1] = t /\ e[2] = b
  <2>1. Wanted(r, t, c)
    BY <1>4, <1>5 DEF Wanted
  <2> QED
    BY <1>5, <2>1 DEF HasFound
<1> QED
  BY <1>3, <1>5

\* After a restart no block is skipped, and no request is under way.
LEMMA AccountedRestart ==
    ASSUME NEW kept, Accounted(kept), Crash, NEW keptNext
    PROVE  Accounted(keptNext)'
<1>1. \A s \in Satellites, c \in Chains : lastScanned'[s][c] = NoBlock
  BY DEF Crash
<1>2. \A r \in Requests : AccountOf(keptNext, r)'
  BY DEF Crash, AccountOf
<1> QED
  BY <1>1, <1>2 DEF Accounted, Crash

LEMMA AccountedStep ==
    ASSUME From \subseteq Nat,
           TypeOK, Progress, Covered, TypeOK', [WiderNext]_vars, ~Crash,
           NEW kept, Accounted(kept), NEW keptNext,
           \A s \in Satellites : kept[s] \subseteq keptNext[s],
           \A r \in Requests : ScanEnds(r) /\ sat[r] # NoSatellite =>
               \A e \in found[r] : <<e[1], e[2]>> \in keptNext[sat[r]]
    PROVE  Accounted(keptNext)'
<1> USE DEF environment, scan, history
<1>0. TypeOK /\ TypeOK'
  OBVIOUS
<1>1. ASSUME NEW s \in Satellites, NEW c \in Chains, NEW b \in Nat, Settled(kept, s, c, b)
      PROVE  Settled(keptNext, s, c, b)'
  BY <1>1, SettledStays
<1>2. InitiallyClaimed \subseteq claimed'
  <2>1. claimed' = claimed \/ \E a : claimed' = claimed \cup {a}
    BY DEF WiderNext, Environment, NewBlock, Reorg, ClaimWallet, Crash, Poll, Ask, Step, Ends,
       BeginSatellite, BeginAddress, ListBySatellite, LatestHeader, FilterTransfer, NextEndpoint,
       ScanEnds, Store, StoreEnds, vars
  <2> QED
    BY <2>1 DEF Accounted
<1>3. ASSUME NEW s \in Satellites, NEW c \in Chains, lastScanned'[s][c] # NoBlock
      PROVE  SettledBefore(keptNext, s, c, lastScanned[s][c])'
  <2>1. ASSUME lastScanned'[s][c] = lastScanned[s][c]
        PROVE  SettledBefore(keptNext, s, c, lastScanned[s][c])'
    BY <1>1, <1>3, <2>1 DEF SettledBefore, Accounted
  <2>2. ASSUME NEW r \in Requests, NEW d \in Chains, Store(r, d)
        PROVE  SettledBefore(keptNext, s, c, lastScanned[s][c])'
    <3>1. /\ pc[r] = "store" /\ sat[r] # NoSatellite
          /\ lastScanned' = [lastScanned EXCEPT ![sat[r]][d] = ResumeAt(latest[r][d])]
      BY <2>2 DEF Store, Progress
    <3>2. CASE s = sat[r] /\ c = d
      <4>1. lastScanned'[s][c] = ResumeAt(latest[r][c])
        BY <1>0, <3>1, <3>2 DEF TypeOK
      <4>2. SettledBefore(kept, s, c, ResumeAt(latest[r][c]))
        BY <3>1, <3>2 DEF Accounted, AccountOf
      <4> QED
        BY <1>1, <4>1, <4>2 DEF SettledBefore
    <3>3. CASE ~(s = sat[r] /\ c = d)
      <4>1. lastScanned'[s][c] = lastScanned[s][c]
        BY <1>0, <3>1, <3>3 DEF TypeOK
      <4> QED
        BY <2>1, <4>1
    <3> QED
      BY <3>2, <3>3
  <2>3. \/ lastScanned' = lastScanned
        \/ \E r \in Requests, d \in Chains : Store(r, d)
    BY DEF WiderNext, Environment, NewBlock, Reorg, ClaimWallet, Poll, Ask, Step, Ends,
       BeginSatellite, BeginAddress, ListBySatellite, LatestHeader, FilterTransfer, NextEndpoint,
       ScanEnds, StoreEnds, vars
  <2> QED
    BY <2>1, <2>2, <2>3
<1>4. ASSUME NEW r \in Requests,
             sat'[r] = sat[r], start'[r] = start[r], wallets'[r] = wallets[r], latest'[r] = latest[r],
             pc[r] \notin {"idle", "list"}, pc'[r] = "store" => pc[r] = "store"
      PROVE  AccountOf(keptNext, r)'
  <2> SUFFICES ASSUME pc'[r] # "idle", sat'[r] # NoSatellite
               PROVE  /\ pc'[r] # "list" =>
                             {a \in InitiallyClaimed : ownerOf[a] = sat'[r]} \subseteq wallets'[r]
                      /\ \A c \in Chains :
                             /\ SettledBefore(keptNext, sat[r], c, start[r][c])'
                             /\ pc'[r] = "store" => SettledBefore(keptNext, sat[r], c, ResumeAt(latest[r][c]))'
    BY DEF AccountOf
  <2>1. sat[r] \in Satellites
    BY <1>0, <1>4 DEF TypeOK
  <2>2. ASSUME NEW c \in Chains
        PROVE  /\ SettledBefore(keptNext, sat[r], c, start[r][c])'
               /\ pc'[r] = "store" => SettledBefore(keptNext, sat[r], c, ResumeAt(latest[r][c]))'
    BY <1>1, <1>4, <2>1 DEF SettledBefore, Accounted, AccountOf, ResumeAt
  <2> QED
    BY <1>4, <2>2 DEF Accounted, AccountOf
<1>5. ASSUME NEW q \in Requests, Untouched(q)
      PROVE  AccountOf(keptNext, q)'
  <2>1. CASE pc[q] \notin {"idle", "list"}
    BY <1>4, <1>5, <2>1 DEF Untouched
  <2>2. CASE pc[q] = "idle"
    BY <1>5, <2>2 DEF Untouched, AccountOf
  <2>3. CASE pc[q] = "list"
    <3>1. CASE sat[q] = NoSatellite
      BY <1>5, <3>1 DEF Untouched, AccountOf
    <3>2. CASE sat[q] # NoSatellite
      <4>1. sat[q] \in Satellites
        BY <1>0, <3>2 DEF TypeOK
      <4>2. \A c \in Chains : SettledBefore(keptNext, sat[q], c, start[q][c])'
        BY <1>1, <1>5, <2>3, <3>2, <4>1 DEF SettledBefore, Accounted, AccountOf, Untouched
      <4> QED
        BY <1>5, <2>3, <4>2 DEF Untouched, AccountOf
    <3> QED
      BY <3>1, <3>2
  <2> QED
    BY <2>1, <2>2, <2>3
<1>6. ASSUME NEW r \in Requests, NEW s \in Satellites, NEW from \in [Chains -> From],
             BeginSatellite(r, s, from)
      PROVE  AccountOf(keptNext, r)'
  <2>1. /\ pc'[r] = "list" /\ sat'[r] = s
        /\ \A c \in Chains : /\ start'[r][c] = Raised(from[c], lastScanned[s][c])
                             /\ floor'[s][c] = Larger(floor[s][c], from[c])
    BY <1>0, <1>6 DEF BeginSatellite, GoTo, TypeOK
  <2>2. ASSUME NEW c \in Chains, NEW b \in Nat, b < start'[r][c]
        PROVE  Settled(keptNext, s, c, b)'
    <3>1. from[c] \in Int
      BY Constants
    <3>2. lastScanned[s][c] \in Heights \cup {NoBlock} /\ floor[s][c] \in Nat
      BY <1>0 DEF TypeOK
    <3>3. b < from[c] \/ (lastScanned[s][c] # NoBlock /\ b < lastScanned[s][c])
      BY <2>1, <2>2, <3>1, <3>2, RaisedType
    <3>4. CASE lastScanned[s][c] # NoBlock /\ b < lastScanned[s][c]
      BY <1>1, <3>4 DEF Accounted, SettledBefore
    <3>5. CASE b < from[c]
      <4>1. b < floor'[s][c]
        BY <2>1, <3>1, <3>2, <3>5 DEF Larger
      <4> QED
        BY <4>1 DEF Settled
    <3> QED
      BY <3>3, <3>4, <3>5
  <2> QED
    BY <2>1, <2>2 DEF AccountOf, SettledBefore
<1>7. ASSUME NEW r \in Requests, Ask(r)
      PROVE  AccountOf(keptNext, r)'
  <2>1. sat'[r] = NoSatellite
    BY <1>0, <1>7 DEF Ask, BeginAddress, TypeOK
  <2> QED
    BY <2>1 DEF AccountOf
<1>8. ASSUME NEW r \in Requests, ListBySatellite(r)
      PROVE  AccountOf(keptNext, r)'
  <2>1. /\ pc[r] = "list" /\ pc'[r] = "header" /\ sat' = sat /\ start' = start
        /\ wallets'[r] = {a \in claimed : ownerOf[a] = sat[r]}
    BY <1>0, <1>8 DEF ListBySatellite, GoTo, TypeOK
  <2>2. {a \in InitiallyClaimed : ownerOf[a] = sat[r]} \subseteq wallets'[r]
    BY <2>1 DEF Accounted
  <2>3. ASSUME sat[r] # NoSatellite, NEW c \in Chains
        PROVE  SettledBefore(keptNext, sat[r], c, start[r][c])'
    <3>1. sat[r] \in Satellites
      BY <1>0, <2>3 DEF TypeOK
    <3> QED
      BY <1>1, <2>1, <2>3, <3>1 DEF SettledBefore, Accounted, AccountOf
  <2> QED
    BY <2>1, <2>2, <2>3 DEF AccountOf
<1>9. ASSUME NEW r \in Requests, LatestHeader(r)
      PROVE  AccountOf(keptNext, r)'
  <2> DEFINE c     == Chain(r)
             begin == Unsigned(start[r][c])
             first == Truncate(begin, head[c])
  <2>1. /\ pc[r] = "header" /\ pc'[r] = "scan" /\ UNCHANGED <<sat, wallets>>
        /\ start' = [start EXCEPT ![r][c] = first]
        /\ sat[r] # NoSatellite =>
               truncated' = [truncated EXCEPT ![sat[r]][c] = truncated[sat[r]][c]
                                                               \cup (begin .. first - 1)]
    BY <1>0, <1>9 DEF LatestHeader, GoTo, TypeOK
  <2>2. c \in Chains /\ first \in Nat
    <3>1. c \in Chains /\ head[c] \in Heights /\ start[r][c] \in Nat \cup From
      BY <1>0, ChainType DEF TypeOK
    <3> QED
      BY <3>1, TruncateType
  <2>3. CASE sat[r] = NoSatellite
    BY <2>1, <2>3 DEF AccountOf
  <2>4. CASE sat[r] # NoSatellite
    <3>1. sat[r] \in Satellites /\ \A d \in Chains : start[r][d] \in Nat
      <4>1. sat[r] \in Satellites
        BY <1>0, <2>4 DEF TypeOK
      <4> HIDE DEF c, begin, first
      <4> QED
        BY <1>0, <4>1, NaturalStarts
    <3>2. begin = start[r][c]
      <4> HIDE DEF c, first
      <4> QED
        BY <2>2, <3>1 DEF Unsigned
    <3> DEFINE dropped == begin .. first - 1
    <3>3. truncated' = [truncated EXCEPT ![sat[r]][c] = truncated[sat[r]][c] \cup dropped]
      BY <2>1, <2>4
    <3>4. ASSUME NEW b \in Nat, b < first, ~(b < start[r][c])
          PROVE  b \in dropped
      <4> HIDE DEF c, begin, first
      <4> QED
        BY <2>2, <3>1, <3>2, <3>4
    <3> HIDE DEF c, begin, first, dropped
    <3>5. dropped \subseteq truncated'[sat[r]][c]
      BY <1>0, <2>2, <3>1, <3>3 DEF TypeOK
    <3>6. start'[r][c] = first /\ \A d \in Chains \ {c} : start'[r][d] = start[r][d]
      BY <1>0, <2>1, <2>2 DEF TypeOK
    <3>7. ASSUME NEW d \in Chains, NEW b \in Nat, b < start'[r][d]
          PROVE  Settled(keptNext, sat[r], d, b)'
      <4>1. CASE b < start[r][d]
        BY <1>1, <2>1, <2>4, <3>1, <4>1 DEF Accounted, AccountOf, SettledBefore
      <4>2. CASE ~(b < start[r][d])
        <5>1. d = c /\ b < first
          BY <3>6, <3>7, <4>2
        <5>2. b \in truncated'[sat[r]][c]
          BY <3>4, <3>5, <4>2, <5>1
        <5> QED
          BY <2>1, <5>1, <5>2 DEF Settled
      <4> QED
        BY <4>1, <4>2
    <3> QED
      BY <2>1, <2>4, <3>7 DEF Accounted, AccountOf, SettledBefore
  <2> QED
    BY <2>3, <2>4
<1>10. ASSUME NEW r \in Requests, ScanEnds(r)
       PROVE  AccountOf(keptNext, r)'
  <2>1. /\ pc[r] = "scan" /\ ScanDone(r) /\ endpoint[r] = Len(Endpoints)
        /\ UNCHANGED <<head, mined, sat, start, wallets, latest, found>>
    BY <1>10 DEF ScanEnds
  <2>2. CASE sat[r] = NoSatellite
    BY <2>1, <2>2 DEF AccountOf
  <2>3. CASE sat[r] # NoSatellite
    <3>1. sat[r] \in Satellites /\ \A c \in Chains : start[r][c] \in Nat
      <4>1. sat[r] \in Satellites
        BY <1>0, <2>3 DEF TypeOK
      <4> QED
        BY <1>0, <4>1, NaturalStarts
    <3>2. ASSUME NEW e \in found[r] PROVE <<e[1], e[2]>> \in keptNext[sat[r]]
      BY <1>10, <2>3
    <3>3. ASSUME NEW c \in Chains
          PROVE  HasScanned(r, c) \/ c = Chain(r)
      <4>1. PICK i \in Indices : c = Endpoints[i]
        BY DEF Chains, Indices
      <4> QED
        BY <2>1, <4>1, Constants DEF HasScanned, Chain, Indices
    <3>4. ASSUME NEW c \in Chains, NEW t \in Transfers, Wanted(r, t, c)
          PROVE  HasFound(r, t)
      BY <2>1, <3>3, <3>4, CurrentChainIsCovered DEF Covered, CoveredOf
    <3>5. {a \in InitiallyClaimed : ownerOf[a] = sat[r]} \subseteq wallets[r]
      BY <2>1, <2>3 DEF Accounted, AccountOf
    <3>6. ASSUME NEW c \in Chains, NEW b \in Nat, b < start[r][c]
          PROVE  Settled(keptNext, sat[r], c, b)'
      BY <1>1, <2>1, <2>3, <3>1, <3>6 DEF Accounted, AccountOf, SettledBefore
    <3>7. ASSUME NEW c \in Chains, NEW b \in Nat, b < ResumeAt(latest[r][c])
          PROVE  Settled(keptNext, sat[r], c, b)'
      <4>1. CASE b < start[r][c]
        BY <3>6, <4>1
      <4>2. CASE start[r][c] <= b
        <5>1. /\ b <= Final(c)
              /\ \A t \in Transfers :
                     /\ chainOf[t] = c /\ mined[t] = b /\ b # 0
                     /\ recipientOf[t] \in InitiallyClaimed
                     /\ ownerOf[recipientOf[t]] = sat[r]
                     => \E e \in found[r] : e[1] = t /\ e[2] = b
          BY <3>1, <3>4, <3>5, <3>7, <4>2, CompleteScanFindsAll
        <5>2. b <= Final(c)'
          BY <2>1, <5>1 DEF Final
        <5>3. ASSUME NEW t \in Transfers, chainOf[t] = c, mined'[t] = b, b # 0,
                     recipientOf[t] \in InitiallyClaimed, ownerOf[recipientOf[t]] = sat[r]
              PROVE  <<t, b>> \in keptNext[sat[r]]
          BY <2>1, <3>2, <5>1, <5>3
        <5> QED
          BY <2>1, <5>2, <5>3 DEF Settled
      <4> QED
        BY <3>1, <4>1, <4>2
    <3> QED
      BY <2>1, <3>5, <3>6, <3>7 DEF AccountOf, SettledBefore, ResumeAt
  <2> QED
    BY <2>2, <2>3
<1>11. ASSUME NEW r \in Requests, pc'[r] = "idle"
       PROVE  AccountOf(keptNext, r)'
  BY <1>11 DEF AccountOf
<1>12. ASSUME NEW r \in Requests,
              \/ \E addresses \in SUBSET rest[r] : FilterTransfer(r, addresses)
              \/ NextEndpoint(r)
              \/ \E c \in Chains : Store(r, c)
              \/ StoreEnds(r)
       PROVE  AccountOf(keptNext, r)'
  <2>1. /\ pc[r] \in {"scan", "store"}
        /\ pc'[r] = "store" => pc[r] = "store"
        /\ UNCHANGED <<sat, start, wallets, latest>>
    BY <1>0, <1>12 DEF FilterTransfer, NextEndpoint, Store, StoreEnds, GoTo, TypeOK
  <2>2. /\ sat'[r] = sat[r] /\ start'[r] = start[r] /\ wallets'[r] = wallets[r]
        /\ latest'[r] = latest[r] /\ pc[r] \notin {"idle", "list"}
    BY <2>1
  <2> QED
    BY <1>4, <2>1, <2>2
<1>13. CASE Environment \/ UNCHANGED vars
  <2>1. \A q \in Requests : Untouched(q)
    BY <1>13 DEF Environment, NewBlock, Reorg, ClaimWallet, Untouched, vars
  <2> QED
    BY <1>2, <1>3, <1>5, <2>1 DEF Accounted
<1>14. ASSUME NEW r \in Requests, Poll(r) \/ Ask(r) \/ Step(r) \/ Ends(r)
       PROVE  Accounted(keptNext)'
  <2>1. \A q \in Requests \ {r} : AccountOf(keptNext, q)'
    BY <1>0, <1>5, <1>14, OthersAreUntouched
  <2>2. Ends(r) => pc'[r] = "idle"
    BY <1>0 DEF Ends, TypeOK
  <2>3. Poll(r) => AccountOf(keptNext, r)'
    BY <1>6 DEF Poll
  <2>4. AccountOf(keptNext, r)'
    BY <1>7, <1>8, <1>9, <1>10, <1>11, <1>12, <1>14, <2>2, <2>3 DEF Step
  <2> QED
    BY <1>2, <1>3, <2>1, <2>4 DEF Accounted
<1> QED
  BY <1>13, <1>14 DEF WiderNext

-----------------------------------------------------------------------------
(* Theorems.                                                               *)

LEMMA InvInit == Init => Inv
  BY TypeOKInit, ProgressInit, InBatchesInit, CoveredInit DEF Inv

\* No step takes back what GetForSatellite has returned, and the end of a scan
\* returns what the scan has found.
LEMMA ReturnedGrows ==
    ASSUME TypeOK, [WiderNext]_vars
    PROVE  /\ \A s \in Satellites : returned[s] \subseteq returned'[s]
           /\ \A r \in Requests : ScanEnds(r) /\ sat[r] # NoSatellite =>
                  \A e \in found[r] : <<e[1], e[2]>> \in returned'[sat[r]]
<1>1. ASSUME NEW r \in Requests, ScanEnds(r), sat[r] # NoSatellite
      PROVE  /\ \A s \in Satellites : returned[s] \subseteq returned'[s]
             /\ \A e \in found[r] : <<e[1], e[2]>> \in returned'[sat[r]]
  <2> DEFINE result == {<<e[1], e[2]>> : e \in found[r]}
  <2>1. returned' = [returned EXCEPT ![sat[r]] = returned[sat[r]] \cup result]
    BY <1>1 DEF ScanEnds
  <2>2. \A e \in found[r] : <<e[1], e[2]>> \in result
    OBVIOUS
  <2>3. sat[r] \in Satellites
    BY <1>1 DEF TypeOK
  <2> HIDE DEF result
  <2> QED
    BY <2>1, <2>2, <2>3 DEF TypeOK
<1>2. ASSUME NEW r \in Requests, ScanEnds(r), sat[r] = NoSatellite
      PROVE  returned' = returned
  BY <1>2 DEF ScanEnds
<1>3. returned' = returned \/ \E r \in Requests : ScanEnds(r)
  BY DEF WiderNext, Environment, NewBlock, Reorg, ClaimWallet, Crash, Poll, Ask, Step, Ends,
     BeginSatellite, BeginAddress, ListBySatellite, LatestHeader, FilterTransfer, NextEndpoint,
     Store, StoreEnds, vars, history
<1> QED
  BY <1>1, <1>2, <1>3

LEMMA InvStep == Inv /\ [WiderNext]_vars => Inv'
<1> SUFFICES ASSUME Inv, [WiderNext]_vars PROVE Inv'
  OBVIOUS
<1>1. TypeOK' /\ Progress'
  BY TypeOKStep, ProgressStep DEF Inv
<1>2. InBatches' /\ Covered'
  BY InBatchesStep, CoveredStep DEF Inv
<1> QED
  BY <1>1, <1>2 DEF Inv

LEMMA Invariance == Spec => []Inv
<1>1. Inv /\ [Next]_vars => Inv'
  BY InvStep, NextIsWider DEF Inv
<1> QED
  BY InvInit, <1>1, PTL DEF Spec

\* The map lastScannedBlock, which may lack a chain, and the locals of a request
\* keep their types.  In particular the batches of a scan begin at blocks numbered
\* from 0, although a request may be asked for a negative one (getEvents).
THEOREM TypeCorrect == Spec => []TypeOK
<1>1. Inv => TypeOK
  BY DEF Inv
<1> QED
  BY <1>1, Invariance, PTL

\* The two promises of a scan follow from the invariant alone, so that they hold
\* of every specification that keeps it.
LEMMA CoveredScansAreComplete == Inv => ScanIsComplete
<1> SUFFICES ASSUME Inv, NEW r \in Requests, NEW t \in Transfers,
                    pc[r] \in {"store", "convert"}, Wanted(r, t, chainOf[t])
             PROVE  HasFound(r, t)
  BY DEF ScanIsComplete, Wanted, HasFound
<1>1. chainOf[t] \in Chains
  BY EventsAssumption DEF EventsAssumption
<1>2. HasScanned(r, chainOf[t])
  BY <1>1 DEF HasScanned, Chains, Indices
<1> QED
  BY <1>1, <1>2 DEF Inv, Covered, CoveredOf

LEMMA BatchesMeetAtBoundaries == Inv => RepeatsOnlyAtBoundaries
<1> SUFFICES ASSUME Inv, NEW r \in Requests, NEW e \in found[r], NEW f \in found[r],
                    e[1] = f[1], e[2] = f[2], e[3] < f[3]
             PROVE  e[2] = f[3] /\ f[3] = e[3] + BlockBatchSize
  BY DEF RepeatsOnlyAtBoundaries
<1>1. TypeOK
  BY DEF Inv
<1>2. /\ e[2] \in Nat /\ e[3] \in Nat /\ f[3] \in Nat /\ latest[r][chainOf[e[1]]] \in Nat
  BY <1>1, FoundType
<1>3. /\ e[3] + BlockBatchSize <= f[3] /\ f[3] <= f[2]
      /\ f[3] < latest[r][chainOf[e[1]]]
      /\ e[3] + BlockBatchSize <= latest[r][chainOf[e[1]]] => e[2] <= e[3] + BlockBatchSize
  BY DEF Inv, InBatches, BatchesOf
<1> QED
  BY <1>2, <1>3, Constants

\* A finished scan is complete, for every length of a batch of blocks or of
\* addresses, and every interleaving with new blocks, reorganisations no deeper
\* than ReorgDepth, and other requests (getEventsForEndpoint).
THEOREM ScansAreComplete == Spec => []ScanIsComplete
  BY CoveredScansAreComplete, Invariance, PTL

\* An event comes twice only when it is in the block that two batches share.
THEOREM RepeatsAtBoundaries == Spec => []RepeatsOnlyAtBoundaries
  BY BatchesMeetAtBoundaries, Invariance, PTL

\* A final event of a block that later requests do not look at is in kept.
LEMMA AccountedEvents ==
    ASSUME TypeOK, NEW kept, Accounted(kept),
           NEW s \in Satellites, NEW t \in Transfers,
           recipientOf[t] \in InitiallyClaimed, ownerOf[recipientOf[t]] = s, mined[t] # 0,
           lastScanned[s][chainOf[t]] # NoBlock,
           mined[t] \in floor[s][chainOf[t]] .. lastScanned[s][chainOf[t]] - 1,
           mined[t] \notin truncated[s][chainOf[t]]
    PROVE  <<t, mined[t]>> \in kept[s]
<1> DEFINE c == chainOf[t]
<1>1. c \in Chains
  BY EventsAssumption DEF EventsAssumption
<1>2. /\ mined[t] \in Nat /\ floor[s][c] \in Nat /\ lastScanned[s][c] \in Nat
  BY <1>1, Constants DEF TypeOK, Heights
<1>3. mined[t] < lastScanned[s][c] /\ ~(mined[t] < floor[s][c])
  BY <1>2
<1>4. Settled(kept, s, c, mined[t])
  BY <1>1, <1>2, <1>3 DEF Accounted, SettledBefore
<1> QED
  BY <1>3, <1>4 DEF Settled

\* A satellite misses nothing, when its wallets are claimed before anything is
\* paid to them and no client starts from a negative block: every block that it no
\* longer looks at, and that it neither skipped nor gave up because of
\* MaximumQuerySize, has had its events returned (GetForSatellite).  Without either
\* hypothesis this is false: a wallet can be claimed, and paid, between the list of
\* wallets and the read of the head; and a first request from a negative block
\* scans nothing and writes lastScannedBlock.
THEOREM SatellitesMissNothing ==
    ASSUME From \subseteq Nat,
           \A t \in Transfers : recipientOf[t] \in InitiallyClaimed
    PROVE  Spec => []NothingIsSkipped
<1> DEFINE All == Inv /\ Accounted(returned)
<1>1. Init => All
  BY InvInit, AccountedInit
<1>2. All /\ [Next]_vars => All'
  <2> SUFFICES ASSUME All, [Next]_vars PROVE All'
    OBVIOUS
  <2>1. TypeOK /\ Progress /\ Covered
    BY DEF Inv
  <2>2. [WiderNext]_vars
    BY <2>1, NextIsWider
  <2>3. Inv' /\ TypeOK'
    BY <2>2, InvStep DEF Inv
  <2>4. Accounted(returned)'
    <3>1. CASE Crash
      BY <3>1, AccountedRestart
    <3>2. CASE ~Crash
      BY <2>1, <2>2, <2>3, <3>2, ReturnedGrows, AccountedStep
    <3> QED
      BY <3>1, <3>2
  <2> QED
    BY <2>3, <2>4
<1>3. All => NothingIsSkipped
  BY AccountedEvents DEF Inv, NothingIsSkipped
<1> QED
  BY <1>1, <1>2, <1>3, PTL DEF Spec

=============================================================================
