------------------------------ MODULE Payments ------------------------------
(***************************************************************************)
(* The payments endpoints, tokens/service.go and tokens/endpoint.go: the   *)
(* events that module Events finds are converted, one by one, to payments, *)
(* and sent to the satellite.  Converting needs the header of the event's  *)
(* block, from the cache in the database or from the node                  *)
(* (blockchain/headers.go, HeadersCache.Get), and the token price.         *)
(*                                                                         *)
(* GetForSatellite has written lastScannedBlock by then, whether or not    *)
(* the conversion succeeds and the response arrives.                       *)
(*                                                                         *)
(* Blocks are identified by their number, so no block is replaced.         *)
(***************************************************************************)
EXTENDS Events

ASSUME NoReorgAssumption == ReorgDepth = 0

VARIABLES
    headers,    \* block_headers: the chain and number of each cached block
    lookup,     \* how far HeadersCache.Get has come, in each request
    event,      \* the event that it converts
    converted,  \* the events that have become payments
    delivered,  \* history: the payments that satellites have received
    failed      \* history: those of failed responses, since the last restart

conversion == <<headers, lookup, event, converted, delivered, failed>>
allVars    == <<vars, conversion>>

NoEvent == <<>>
Found   == Transfers \X Heights \X Nat

\* One type invariant: what the conversion of a request may hold.
PaymentsTypeOK ==
    /\ TypeOK
    /\ headers \in SUBSET (Chains \X Heights)
    /\ lookup \in [Requests -> {"none", "fetch", "insert"}]
    /\ event \in [Requests -> Found \cup {NoEvent}]
    /\ converted \in [Requests -> SUBSET Found]
    /\ delivered \in [Satellites -> SUBSET (Transfers \X Heights)]
    /\ failed \in [Satellites -> SUBSET (Transfers \X Heights)]

BlockOf(e) == <<chainOf[e[1]], e[2]>>

PaymentsOf(r) == {<<e[1], e[2]>> : e \in found[r]}

PaymentsInit ==
    /\ Init
    /\ headers = {}
    /\ lookup = [r \in Requests |-> "none"]
    /\ event = [r \in Requests |-> NoEvent]
    /\ converted = [r \in Requests |-> {}]
    /\ delivered = [s \in Satellites |-> {}]
    /\ failed = [s \in Satellites |-> {}]

-----------------------------------------------------------------------------
(* Conversion.                                                             *)

Unscanned == UNCHANGED <<environment, lastScanned, sat, scan, history>>

\* The next event to convert: the order does not matter, as any error fails
\* the whole response.
Converting(r, e) ==
    /\ pc[r] = "convert"
    /\ lookup[r] = "none"
    /\ e \in found[r] \ converted[r]

\* The header is in the database.
HeaderHit(r, e) ==
    /\ Converting(r, e)
    /\ BlockOf(e) \in headers
    /\ converted' = [converted EXCEPT ![r] = @ \cup {e}]
    /\ UNCHANGED <<pc, headers, lookup, event, delivered, failed>> /\ Unscanned

\* ErrNoHeader: it has to be fetched.
HeaderMiss(r, e) ==
    /\ Converting(r, e)
    /\ BlockOf(e) \notin headers
    /\ event' = [event EXCEPT ![r] = e]
    /\ lookup' = [lookup EXCEPT ![r] = "fetch"]
    /\ UNCHANGED <<pc, headers, converted, delivered, failed>> /\ Unscanned

HeaderByHash(r) ==
    /\ lookup[r] = "fetch"
    /\ lookup' = [lookup EXCEPT ![r] = "insert"]
    /\ UNCHANGED <<pc, headers, event, converted, delivered, failed>> /\ Unscanned

\* A plain INSERT: the primary key refuses a header that another request has
\* inserted since the lookup, and the whole request fails.
HeaderInsert(r) ==
    /\ lookup[r] = "insert"
    /\ lookup' = [lookup EXCEPT ![r] = "none"]
    /\ event' = [event EXCEPT ![r] = NoEvent]
    /\ \/ /\ BlockOf(event[r]) \notin headers
          /\ headers' = headers \cup {BlockOf(event[r])}
          /\ converted' = [converted EXCEPT ![r] = @ \cup {event[r]}]
          /\ UNCHANGED pc
       \/ /\ BlockOf(event[r]) \in headers
          /\ GoTo(r, "idle")
          /\ UNCHANGED <<headers, converted>>
    /\ UNCHANGED <<delivered, failed>> /\ Unscanned

Respond(r) ==
    /\ pc[r] = "convert"
    /\ converted[r] = found[r]
    /\ GoTo(r, "idle")
    /\ IF sat[r] = NoSatellite
       THEN UNCHANGED delivered
       ELSE delivered' = [delivered EXCEPT ![sat[r]] = @ \cup PaymentsOf(r)]
    /\ UNCHANGED <<headers, lookup, event, converted, failed>> /\ Unscanned

\* The request ends without its payments: the node, the database or the price
\* source fails the conversion of an event, or the response is lost.
EndEmpty(r) ==
    /\ GoTo(r, "idle")
    /\ lookup' = [lookup EXCEPT ![r] = "none"]
    /\ event' = [event EXCEPT ![r] = NoEvent]
    /\ IF sat[r] = NoSatellite
       THEN UNCHANGED failed
       ELSE failed' = [failed EXCEPT ![sat[r]] = @ \cup PaymentsOf(r)]
    /\ UNCHANGED <<headers, converted, delivered>>
    /\ UNCHANGED <<head, mined, claimed, lastScanned, sat, scan, history>>

ConversionFails(r) ==
    /\ Fault("conversion")
    /\ pc[r] = "convert"
    /\ converted[r] # found[r]
    /\ EndEmpty(r)

ResponseLost(r) ==
    /\ Fault("response")
    /\ pc[r] = "convert"
    /\ converted[r] = found[r]
    /\ EndEmpty(r)

-----------------------------------------------------------------------------
\* The cache and what was delivered outlive the process; its requests do not.
ProcessCrash ==
    /\ Crash
    /\ lookup' = [r \in Requests |-> "none"]
    /\ event' = [r \in Requests |-> NoEvent]
    /\ failed' = [s \in Satellites |-> {}]
    /\ UNCHANGED <<headers, converted, delivered>>

Begun(r) ==
    /\ converted' = [converted EXCEPT ![r] = {}]
    /\ UNCHANGED <<headers, lookup, event, delivered, failed>>

AllPayments(r) == Poll(r) /\ Begun(r)

AddressPayments(r) == Ask(r) /\ Begun(r)

ConversionStep(r) ==
    \/ \E e \in found[r] : HeaderHit(r, e) \/ HeaderMiss(r, e)
    \/ HeaderByHash(r) \/ HeaderInsert(r)
    \/ Respond(r)

ScanStep(r) == Step(r) /\ UNCHANGED conversion

PaymentsNext ==
    \/ (Environment /\ UNCHANGED conversion)
    \/ ProcessCrash
    \/ \E r \in Requests :
         \/ AllPayments(r) \/ AddressPayments(r)
         \/ ScanStep(r) \/ ConversionStep(r)
         \/ ConversionFails(r) \/ ResponseLost(r)
         \/ Fail(r) /\ UNCHANGED conversion

PaymentsSpec == PaymentsInit /\ [][PaymentsNext]_allVars

\* The calls of a request return, and satellites poll again and again.
PaymentsFairSpec ==
    /\ PaymentsSpec
    /\ \A r \in Requests :
           WF_allVars(ScanStep(r) \/ ConversionStep(r)) /\ SF_allVars(AllPayments(r))

-----------------------------------------------------------------------------
(* Properties.                                                             *)

\* AllPayments returns all the payments from a block on: one in a block that
\* later requests no longer look at has been delivered or is in a response
\* under way, unless the node, the price source or the network has failed a
\* response with it since the process started (tokens/service.go, AllPayments).
NothingIsLost ==
    \A s \in Satellites, t \in Transfers :
        LET c == chainOf[t]
        IN  /\ ownerOf[recipientOf[t]] = s
            /\ mined[t] # 0
            /\ lastScanned[s][c] # NoBlock
            /\ mined[t] \in floor[s][c] .. lastScanned[s][c] - 1
            /\ mined[t] \notin truncated[s][c]
            => \/ <<t, mined[t]>> \in delivered[s] \cup failed[s]
               \/ \E r \in Requests : /\ sat[r] = s
                                      /\ pc[r] \in {"store", "convert"}
                                      /\ \E e \in found[r] : e[1] = t /\ e[2] = mined[t]

\* A transfer to a wallet is delivered to its satellite in the end, although
\* scans fail and the process restarts before the events are converted, unless
\* a response with it is failed.
PaymentsAreDelivered ==
    \A t \in Transfers :
        LET s == ownerOf[recipientOf[t]]
        IN  (mined[t] # 0) ~> (\E block \in Heights : <<t, block>> \in delivered[s] \cup failed[s])

\* A restart makes up for failed conversions and lost responses: a process that
\* starts with an empty lastScannedBlock, and meets no more faults, delivers
\* every payment mined so far, those lost before included.
RestartRecovers ==
    \A t \in Transfers :
        /\ mined[t] # 0
        /\ faults = MaxFaults
        /\ \A r \in Requests : pc[r] = "idle"
        /\ \A s \in Satellites, c \in Chains : lastScanned[s][c] = NoBlock
        ~> \E block \in Heights : <<t, block>> \in delivered[ownerOf[recipientOf[t]]]

=============================================================================
