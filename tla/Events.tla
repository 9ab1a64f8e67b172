------------------------------- MODULE Events -------------------------------
(***************************************************************************)
(* The search for transfer events, blockchain/events/events.go: requests   *)
(* of satellites (GetForSatellite) and for single addresses                *)
(* (GetForAddress) run concurrently against blockchains that grow and are  *)
(* reorganised, and share lastScannedBlock, a map in memory that no lock   *)
(* protects and a restart loses.                                           *)
(*                                                                         *)
(* A step is one call to the database, to a node, or one write of the map. *)
(* The chains, the wallet claims and the arrival of requests are the       *)
(* environment.  The fatal error by which the Go runtime may end a process *)
(* that writes a map concurrently has the effect of Crash.                 *)
(*                                                                         *)
(* A definition whose comment begins with "Mistake" is the definition      *)
(* after it as a plausible error in the code would make it; no             *)
(* specification uses it.                                                  *)
(***************************************************************************)
EXTENDS Integers, Sequences, FiniteSets

CONSTANTS
    Satellites,        \* the satellites that share one storjscan
    Addresses,         \* deposit addresses
    Transfers,         \* ERC20 transfers that may be mined
    Requests,          \* concurrent HTTP requests, each used over and over
    Endpoints,         \* the configured chains, in the order they are scanned
    ownerOf,           \* the satellite of each address
    chainOf,           \* the chain of each transfer
    recipientOf,       \* the address that each transfer pays
    InitiallyClaimed,  \* the wallets that are claimed from the start
    Queried,           \* the addresses that GetForAddress is asked for
    From,              \* the block numbers that clients start from, negative ones included
    MaxHeight,         \* bound: the height that a chain reaches
    Faults,            \* the kinds of faults that occur in this instance
    MaxFaults,         \* bound: how many of them occur
    ReorgDepth,        \* the last blocks of a chain that may still be replaced
    BlockBatchSize, AddressBatchSize, ChainReorgBuffer, MaximumQuerySize,
    NoSatellite,       \* the satellite of a GetForAddress request
    NoBlock            \* lastScannedBlock has no entry for the chain

Chains  == {Endpoints[i] : i \in 1 .. Len(Endpoints)}
Heights == 0 .. MaxHeight

ASSUME EventsAssumption ==
    /\ NoSatellite \notin Satellites
    /\ NoBlock \notin Int
    /\ ownerOf \in [Addresses -> Satellites]
    /\ chainOf \in [Transfers -> Chains]
    /\ recipientOf \in [Transfers -> Addresses]
    /\ InitiallyClaimed \subseteq Addresses
    /\ Queried \subseteq Addresses
    /\ From \subseteq Int
    /\ Faults \subseteq {"reorg", "error", "crash", "conversion", "response"}
\* The operator configures at least one endpoint, and one for each chain: what
\* GetForSatellite keeps is a map by chain.  Nothing in the code checks it.
ASSUME EndpointsAssumption ==
    /\ Endpoints \in Seq(Chains)
    /\ Endpoints # <<>>
    /\ \A i, k \in 1 .. Len(Endpoints) : Endpoints[i] = Endpoints[k] => i = k
ASSUME ConfigAssumption ==
    /\ MaxHeight \in Nat /\ MaxFaults \in Nat
    /\ BlockBatchSize \in Nat \ {0} /\ AddressBatchSize \in Nat \ {0}
    /\ ChainReorgBuffer \in Nat /\ MaximumQuerySize \in Nat
    /\ ReorgDepth \in 0 .. ChainReorgBuffer

VARIABLES
    head,         \* the number of the latest block of each chain
    mined,        \* the block of each transfer, 0 while it is in none
    claimed,      \* the wallets that satellites have claimed
    faults,       \* how many faults have occurred so far
    lastScanned,  \* lastScannedBlock: for each satellite and chain, if it has an entry
    pc,           \* the next step of each request
    sat,          \* the satellite of the request
    start,        \* where the scan of each chain begins
    wallets,      \* the addresses to look for
    latest,       \* the latest block of each chain, as the request read it
    endpoint,     \* index in Endpoints of the chain being scanned
    j,            \* the first block of the current batch
    rest,         \* the addresses not yet queried for the current batch
    found,        \* the events so far: transfer, block, batch that found it
    stored,       \* the chains whose lastScannedBlock has been written
    floor,        \* history: the highest block each satellite began from
    truncated,    \* history: blocks dropped because of MaximumQuerySize
    returned      \* history: the events GetForSatellite has returned

environment == <<head, mined, claimed, faults>>
scan        == <<start, wallets, latest, endpoint, j, rest, found, stored>>
history     == <<floor, truncated, returned>>
vars == <<head, mined, claimed, faults, lastScanned, pc, sat, start, wallets, latest, endpoint,
          j, rest, found, stored, floor, truncated, returned>>

\* One type invariant: what the map and the locals of a request may hold.
TypeOK ==
    /\ head \in [Chains -> Heights]
    /\ mined \in [Transfers -> Heights]
    /\ claimed \in SUBSET Addresses
    /\ faults \in 0 .. MaxFaults
    /\ lastScanned \in [Satellites -> [Chains -> Heights \cup {NoBlock}]]
    /\ pc \in [Requests -> {"idle", "list", "header", "scan", "store", "convert"}]
    /\ sat \in [Requests -> Satellites \cup {NoSatellite}]
    /\ start \in [Requests -> [Chains -> Nat \cup From]]
    /\ wallets \in [Requests -> SUBSET Addresses]
    /\ latest \in [Requests -> [Chains -> Heights]]
    /\ endpoint \in [Requests -> 1 .. Len(Endpoints)]
    /\ j \in [Requests -> Nat]
    /\ rest \in [Requests -> SUBSET Addresses]
    /\ found \in [Requests -> SUBSET (Transfers \X Heights \X Nat)]
    /\ stored \in [Requests -> SUBSET Chains]
    /\ floor \in [Satellites -> [Chains -> Nat]]
    /\ truncated \in [Satellites -> [Chains -> SUBSET Nat]]
    /\ returned \in [Satellites -> SUBSET (Transfers \X Heights)]

-----------------------------------------------------------------------------
Larger(m, n)  == IF m > n THEN m ELSE n
Smaller(m, n) == IF m < n THEN m ELSE n

Chain(r) == Endpoints[endpoint[r]]

\* A starting block is an int64 until a scan begins, and a uint64 from then on:
\* a negative one comes after every block of the chain.
Unsigned(block) == IF block < 0 THEN MaxHeight + 1 ELSE block

\* Where a satellite's scan begins: a block is raised to the last scanned one, for
\* the chains that have an entry only.  Without one a negative block stays so.
Raised(block, entry) == IF entry = NoBlock THEN block ELSE Larger(block, entry)

\* The part of the range that one request may query: MaximumQuerySize blocks
\* before the latest.
Truncate(first, last) ==
    IF last - first > MaximumQuerySize THEN last - MaximumQuerySize ELSE first

\* Mistake: a batch is one block longer than the step of the loop.
BatchEndLate(r) ==
    IF j[r] + BlockBatchSize > latest[r][Chain(r)] THEN head[Chain(r)]
    ELSE j[r] + BlockBatchSize + 1

\* The last block of the batch that begins at j.  A batch that would end after
\* the latest block known to the request has no end: it runs to the head.
BatchEnd(r) ==
    IF j[r] + BlockBatchSize > latest[r][Chain(r)] THEN head[Chain(r)]
    ELSE j[r] + BlockBatchSize

\* Mistake: the next scan begins after the latest block, with no buffer.
ResumeAtNext(block) == block + 1

\* Mistake: no test that the chain is longer than the buffer.
ResumeAtUnguarded(block) == block - ChainReorgBuffer

\* The block up to which a satellite's scan counts as done.
ResumeAt(block) == IF block > ChainReorgBuffer THEN block - ChainReorgBuffer ELSE 0

\* The oldest block of chain c that may still be replaced comes after this one.
Final(c) == head[c] - ReorgDepth

\* The events of the transfers that paid these addresses in these blocks.
Logs(c, addresses, first, last) ==
    {t \in Transfers : /\ chainOf[t] = c
                       /\ recipientOf[t] \in addresses
                       /\ mined[t] # 0
                       /\ mined[t] \in first .. last}

\* A fault of this kind occurs, within the bound.
Fault(kind) ==
    /\ kind \in Faults
    /\ faults < MaxFaults
    /\ faults' = faults + 1

Init ==
    /\ head = [c \in Chains |-> 0]
    /\ mined = [t \in Transfers |-> 0]
    /\ claimed = InitiallyClaimed
    /\ faults = 0
    /\ lastScanned = [s \in Satellites |-> [c \in Chains |-> NoBlock]]
    /\ pc = [r \in Requests |-> "idle"]
    /\ sat = [r \in Requests |-> NoSatellite]
    /\ start = [r \in Requests |-> [c \in Chains |-> 0]]
    /\ wallets = [r \in Requests |-> {}]
    /\ latest = [r \in Requests |-> [c \in Chains |-> 0]]
    /\ endpoint = [r \in Requests |-> 1]
    /\ j = [r \in Requests |-> 0]
    /\ rest = [r \in Requests |-> {}]
    /\ found = [r \in Requests |-> {}]
    /\ stored = [r \in Requests |-> {}]
    /\ floor = [s \in Satellites |-> [c \in Chains |-> 0]]
    /\ truncated = [s \in Satellites |-> [c \in Chains |-> {}]]
    /\ returned = [s \in Satellites |-> {}]

-----------------------------------------------------------------------------
(* The environment: chains and wallets.                                    *)

\* A block is mined, with some of the transfers to wallets in use.
NewBlock(c, included) ==
    /\ head[c] < MaxHeight
    /\ \A t \in included : chainOf[t] = c /\ mined[t] = 0 /\ recipientOf[t] \in claimed
    /\ head' = [head EXCEPT ![c] = @ + 1]
    /\ mined' = [t \in Transfers |-> IF t \in included THEN head[c] + 1 ELSE mined[t]]
    /\ UNCHANGED <<claimed, faults, lastScanned, pc, sat, scan, history>>

\* The last blocks are replaced: a transfer in them moves to another of them,
\* or drops out until it is mined again.
Reorg(c, t, block) ==
    /\ Fault("reorg")
    /\ chainOf[t] = c
    /\ mined[t] > Final(c)
    /\ block = 0 \/ block \in Final(c) + 1 .. head[c]
    /\ block # mined[t]
    /\ mined' = [mined EXCEPT ![t] = block]
    /\ UNCHANGED <<head, claimed, lastScanned, pc, sat, scan, history>>

ClaimWallet(a) ==
    /\ a \notin claimed
    /\ claimed' = claimed \cup {a}
    /\ UNCHANGED <<head, mined, faults, lastScanned, pc, sat, scan, history>>

-----------------------------------------------------------------------------
(* One request.                                                            *)

GoTo(r, step) == pc' = [pc EXCEPT ![r] = step]

\* The values that the locals of a request have when it begins.
Fresh(r) ==
    /\ found' = [found EXCEPT ![r] = {}]
    /\ endpoint' = [endpoint EXCEPT ![r] = 1]
    /\ j' = [j EXCEPT ![r] = 0]
    /\ rest' = [rest EXCEPT ![r] = {}]
    /\ stored' = [stored EXCEPT ![r] = {}]
    /\ latest' = [latest EXCEPT ![r] = [c \in Chains |-> 0]]

\* GetForSatellite first raises the blocks that the client asked for to the
\* last scanned ones, where lastScannedBlock has them.
BeginSatellite(r, s, from) ==
    /\ pc[r] = "idle"
    /\ sat' = [sat EXCEPT ![r] = s]
    /\ start' = [start EXCEPT ![r] = [c \in Chains |-> Raised(from[c], lastScanned[s][c])]]
    /\ floor' = [floor EXCEPT ![s] = [c \in Chains |-> Larger(@[c], from[c])]]
    /\ wallets' = [wallets EXCEPT ![r] = {}]
    /\ Fresh(r)
    /\ GoTo(r, "list")
    /\ UNCHANGED <<environment, lastScanned, truncated, returned>>

\* GetForAddress neither reads nor writes the last scanned blocks.
BeginAddress(r, a, from) ==
    /\ pc[r] = "idle"
    /\ sat' = [sat EXCEPT ![r] = NoSatellite]
    /\ start' = [start EXCEPT ![r] = from]
    /\ wallets' = [wallets EXCEPT ![r] = {a}]
    /\ Fresh(r)
    /\ GoTo(r, "header")
    /\ UNCHANGED <<environment, lastScanned, history>>

ListBySatellite(r) ==
    /\ pc[r] = "list"
    /\ wallets' = [wallets EXCEPT ![r] = {a \in claimed : ownerOf[a] = sat[r]}]
    /\ GoTo(r, "header")
    /\ UNCHANGED <<environment, lastScanned, sat, start, latest, endpoint, j, rest, found,
                   stored, history>>

\* Mistake: lastScannedBlock is written when the scan of a chain begins.
LatestHeaderStores(r) ==
    LET c     == Chain(r)
        begin == Unsigned(start[r][c])
        first == Truncate(begin, head[c])
    IN  /\ pc[r] = "header"
        /\ latest' = [latest EXCEPT ![r][c] = head[c]]
        /\ start' = [start EXCEPT ![r][c] = first]
        /\ j' = [j EXCEPT ![r] = first]
        /\ rest' = [rest EXCEPT ![r] = wallets[r]]
        /\ IF sat[r] = NoSatellite
           THEN UNCHANGED <<truncated, lastScanned>>
           ELSE /\ truncated' = [truncated EXCEPT ![sat[r]][c] = @ \cup (begin .. first - 1)]
                /\ lastScanned' = [lastScanned EXCEPT ![sat[r]][c] = ResumeAt(head[c])]
        /\ GoTo(r, "scan")
        /\ UNCHANGED <<environment, sat, wallets, endpoint, found, stored, floor, returned>>

\* getEvents reads the head of the next chain, and getEventsForEndpoint starts
\* at most MaximumQuerySize blocks before it.
LatestHeader(r) ==
    LET c     == Chain(r)
        begin == Unsigned(start[r][c])
        first == Truncate(begin, head[c])
    IN  /\ pc[r] = "header"
        /\ latest' = [latest EXCEPT ![r][c] = head[c]]
        /\ start' = [start EXCEPT ![r][c] = first]
        /\ j' = [j EXCEPT ![r] = first]
        /\ rest' = [rest EXCEPT ![r] = wallets[r]]
        /\ IF sat[r] = NoSatellite
           THEN UNCHANGED truncated
           ELSE truncated' = [truncated EXCEPT ![sat[r]][c] = @ \cup (begin .. first - 1)]
        /\ GoTo(r, "scan")
        /\ UNCHANGED <<environment, lastScanned, sat, wallets, endpoint, found, stored,
                       floor, returned>>

\* Mistake: the loop ends before the last batch when it is not a full one.
ScanDoneEarly(r) == j[r] + BlockBatchSize > latest[r][Chain(r)] \/ wallets[r] = {}

\* The loop over batches of blocks has ended; it makes no query when there is
\* no address, or when the scan would start at or after the latest block.
ScanDone(r) == j[r] >= latest[r][Chain(r)] \/ wallets[r] = {}

\* One filter request: a batch of blocks and a batch of addresses.  The list of
\* addresses has the order of a Go map, so any of those left may come next; the
\* code keeps one order for all batches of a request, the model need not.
FilterTransfer(r, addresses) ==
    /\ pc[r] = "scan"
    /\ ~ScanDone(r)
    /\ addresses \subseteq rest[r]
    /\ Cardinality(addresses) = Smaller(AddressBatchSize, Cardinality(rest[r]))
    /\ found' = [found EXCEPT ![r] = @ \cup
                   {<<t, mined[t], j[r]>> : t \in Logs(Chain(r), addresses, j[r], BatchEnd(r))}]
    /\ IF addresses = rest[r]
       THEN /\ j' = [j EXCEPT ![r] = @ + BlockBatchSize]
            /\ rest' = [rest EXCEPT ![r] = wallets[r]]
       ELSE /\ rest' = [rest EXCEPT ![r] = @ \ addresses]
            /\ UNCHANGED j
    /\ UNCHANGED <<environment, lastScanned, pc, sat, start, wallets, latest, endpoint, stored,
                   history>>

NextEndpoint(r) ==
    /\ pc[r] = "scan"
    /\ ScanDone(r)
    /\ endpoint[r] < Len(Endpoints)
    /\ endpoint' = [endpoint EXCEPT ![r] = @ + 1]
    /\ GoTo(r, "header")
    /\ UNCHANGED <<environment, lastScanned, sat, start, wallets, latest, j, rest, found, stored,
                   history>>

\* Every chain has been scanned: GetForSatellite has its result.
ScanEnds(r) ==
    /\ pc[r] = "scan"
    /\ ScanDone(r)
    /\ endpoint[r] = Len(Endpoints)
    /\ IF sat[r] = NoSatellite
       THEN GoTo(r, "convert") /\ UNCHANGED returned
       ELSE /\ GoTo(r, "store")
            /\ returned' = [returned EXCEPT ![sat[r]] = @ \cup {<<e[1], e[2]>> : e \in found[r]}]
    /\ UNCHANGED <<environment, lastScanned, sat, scan, floor, truncated>>

\* The writes of lastScannedBlock, one chain after the other in map order.
Store(r, c) ==
    /\ pc[r] = "store"
    /\ c \in Chains \ stored[r]
    /\ lastScanned' = [lastScanned EXCEPT ![sat[r]][c] = ResumeAt(latest[r][c])]
    /\ stored' = [stored EXCEPT ![r] = @ \cup {c}]
    /\ UNCHANGED <<environment, pc, sat, start, wallets, latest, endpoint, j, rest, found, history>>

StoreEnds(r) ==
    /\ pc[r] = "store"
    /\ stored[r] = Chains
    /\ GoTo(r, "convert")
    /\ UNCHANGED <<environment, lastScanned, sat, scan, history>>

\* The events go to the caller, which module Payments models.
Return(r) ==
    /\ pc[r] = "convert"
    /\ GoTo(r, "idle")
    /\ UNCHANGED <<environment, lastScanned, sat, scan, history>>

\* The database, a node or the client's context fails a call: the request ends
\* with an error, and lastScannedBlock is not written.
Fail(r) ==
    /\ Fault("error")
    /\ pc[r] \in {"list", "header", "scan"}
    /\ GoTo(r, "idle")
    /\ UNCHANGED <<head, mined, claimed, lastScanned, sat, scan, history>>

\* Mistake: lastScannedBlock is kept over a restart.
CrashKeepsProgress ==
    /\ Fault("crash")
    /\ pc' = [r \in Requests |-> "idle"]
    /\ UNCHANGED <<head, mined, claimed, lastScanned, sat, scan, history>>

\* The process ends and starts again, with an empty lastScannedBlock.
Crash ==
    /\ Fault("crash")
    /\ pc' = [r \in Requests |-> "idle"]
    /\ lastScanned' = [s \in Satellites |-> [c \in Chains |-> NoBlock]]
    /\ UNCHANGED <<head, mined, claimed, sat, scan, history>>

-----------------------------------------------------------------------------
Environment ==
    \/ \E c \in Chains, included \in SUBSET Transfers : NewBlock(c, included)
    \/ \E c \in Chains, t \in Transfers, block \in Heights : Reorg(c, t, block)
    \/ \E a \in Addresses : ClaimWallet(a)

Poll(r) == \E s \in Satellites, from \in [Chains -> From] : BeginSatellite(r, s, from)

Ask(r) == \E a \in Queried, from \in [Chains -> From] : BeginAddress(r, a, from)

\* The steps of GetForSatellite and GetForAddress, once begun.
Step(r) ==
    \/ ListBySatellite(r) \/ LatestHeader(r)
    \/ \E addresses \in SUBSET rest[r] : FilterTransfer(r, addresses)
    \/ NextEndpoint(r) \/ ScanEnds(r)
    \/ \E c \in Chains : Store(r, c)
    \/ StoreEnds(r)

Next ==
    \/ Environment
    \/ Crash
    \/ \E r \in Requests : Poll(r) \/ Ask(r) \/ Step(r) \/ Return(r) \/ Fail(r)

Spec == Init /\ [][Next]_vars

\* The calls of a request return, and satellites poll again and again: a poll
\* is an HTTP request of its own, which no other request keeps from arriving.
FairSpec ==
    /\ Spec
    /\ \A r \in Requests : WF_vars(Step(r) \/ Return(r)) /\ SF_vars(Poll(r))

-----------------------------------------------------------------------------
(* Properties.                                                             *)

\* A finished scan has every event that can no longer be replaced between its
\* first block and its latest one, of every wallet it looked for, although the
\* chain grows and is reorganised between the queries (getEventsForEndpoint).
ScanIsComplete ==
    \A r \in Requests, t \in Transfers :
        LET c == chainOf[t]
        IN  /\ pc[r] \in {"store", "convert"}
            /\ recipientOf[t] \in wallets[r]
            /\ mined[t] # 0
            /\ mined[t] \in start[r][c] .. latest[r][c] - ReorgDepth
            /\ start[r][c] < latest[r][c]
            => \E e \in found[r] : e[1] = t /\ e[2] = mined[t]

\* A block that a satellite's later requests no longer look at hides nothing
\* from it: each of its final events has been returned by GetForSatellite, but
\* for blocks the satellite chose to skip and those beyond MaximumQuerySize.
\* Requests may overlap, fail, and store their last block in any order.  It does
\* not hold once a satellite starts from a negative block while the map has no
\* entry for it: the scan finds nothing, and counts as done.
NothingIsSkipped ==
    \A s \in Satellites, t \in Transfers :
        LET c == chainOf[t]
        IN  /\ ownerOf[recipientOf[t]] = s
            /\ mined[t] # 0
            /\ lastScanned[s][c] # NoBlock
            /\ mined[t] \in floor[s][c] .. lastScanned[s][c] - 1
            /\ mined[t] \notin truncated[s][c]
            => <<t, mined[t]>> \in returned[s]

\* A response repeats an event only when it is in the block that ends one batch
\* and begins the next, so no event comes more than twice.
RepeatsOnlyAtBoundaries ==
    \A r \in Requests : \A e, f \in found[r] :
        e[1] = f[1] /\ e[2] = f[2] /\ e[3] < f[3] => e[2] = f[3] /\ f[3] = e[3] + BlockBatchSize

\* An event that stays on its chain is returned to its satellite in the end,
\* whatever finite number of errors, crashes and reorganisations comes before.
EventsAreReturned ==
    \A t \in Transfers, block \in Heights \ {0} :
        <>[](mined[t] = block) => <>(<<t, block>> \in returned[ownerOf[recipientOf[t]]])

=============================================================================
