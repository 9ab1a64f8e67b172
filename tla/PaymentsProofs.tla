--------------------------- MODULE PaymentsProofs ---------------------------
(***************************************************************************)
(* Proofs about module Payments, for every value of its constants.  A step *)
(* of Payments is, for the variables of Events, a step of WiderNext, so    *)
(* the invariant of EventsProofs holds here too; and Accounted, with what  *)
(* was handed to a satellite in the place of what GetForSatellite has      *)
(* returned, says that no payment is lost, as long as no client starts     *)
(* from a negative block.                                                  *)
(***************************************************************************)
EXTENDS Payments, EventsProofs

\* The types of the conversion.  A request looks for a header only while it
\* converts, for an event it has found and not yet converted.
ConversionTyped ==
    /\ headers \in SUBSET (Chains \X Heights)
    /\ lookup \in [Requests -> {"none", "fetch", "insert"}]
    /\ event \in [Requests -> Found \cup {NoEvent}]
    /\ converted \in [Requests -> SUBSET Found]
    /\ delivered \in [Satellites -> SUBSET (Transfers \X Heights)]
    /\ failed \in [Satellites -> SUBSET (Transfers \X Heights)]
    /\ \A r \in Requests : lookup[r] # "none" =>
           pc[r] = "convert" /\ event[r] \in found[r] \ converted[r]

PaymentsInv == Inv /\ ConversionTyped

\* Request r holds the payments for satellite s: it has them, and has neither
\* sent them nor failed.
Holds(r, s) == sat[r] = s /\ pc[r] \in {"store", "convert"}

\* What has been delivered to each satellite, is in a response under way, or was
\* in a response that failed since the process started.
handed ==
    [s \in Satellites |->
        {p \in Transfers \X Heights :
            \/ p \in delivered[s] \cup failed[s]
            \/ \E r \in Requests : Holds(r, s) /\ p \in PaymentsOf(r)}]

\* The primary key of block_headers refuses the header that request r has fetched.
Refused(r) == HeaderInsert(r) /\ BlockOf(event[r]) \in headers

-----------------------------------------------------------------------------
(* The scan.                                                               *)

\* The end of a conversion, however it goes, is the end of the request.
LEMMA ConversionEnds ==
    ASSUME TypeOK, NEW r \in Requests,
           Respond(r) \/ ConversionFails(r) \/ ResponseLost(r) \/ Refused(r)
    PROVE  Ends(r)
<1>1. ASSUME Respond(r) \/ Refused(r) PROVE Ends(r)
  BY <1>1 DEF Respond, Refused, HeaderInsert, GoTo, Unscanned, environment, Ends, TypeOK
<1>2. ASSUME ConversionFails(r) \/ ResponseLost(r) PROVE Ends(r)
  BY <1>2, FaultType DEF ConversionFails, ResponseLost, EndEmpty, GoTo, Ends
<1> QED
  BY <1>1, <1>2

\* The other steps of a conversion change nothing of the scan.
LEMMA ConversionContinues ==
    ASSUME NEW r \in Requests, ConversionStep(r), ~Respond(r), ~Refused(r)
    PROVE  UNCHANGED vars
<1> USE DEF Unscanned, environment, scan, history, vars
<1>1. ASSUME NEW e \in found[r], HeaderHit(r, e) \/ HeaderMiss(r, e) PROVE UNCHANGED vars
  BY <1>1 DEF HeaderHit, HeaderMiss
<1>2. ASSUME HeaderByHash(r) PROVE UNCHANGED vars
  BY <1>2 DEF HeaderByHash
<1>3. ASSUME HeaderInsert(r) PROVE UNCHANGED vars
  BY <1>3 DEF HeaderInsert, Refused
<1> QED
  BY <1>1, <1>2, <1>3 DEF ConversionStep

LEMMA PaymentsNextIsWider ==
    ASSUME TypeOK, [PaymentsNext]_allVars
    PROVE  [WiderNext]_vars
<1>1. ASSUME NEW r \in Requests, AllPayments(r) \/ AddressPayments(r) \/ ScanStep(r)
      PROVE  WiderNext
  BY <1>1 DEF AllPayments, AddressPayments, ScanStep, WiderNext
<1>2. ASSUME NEW r \in Requests, ConversionStep(r) \/ ConversionFails(r) \/ ResponseLost(r)
      PROVE  [WiderNext]_vars
  BY <1>2, ConversionEnds, ConversionContinues DEF WiderNext
<1>3. ASSUME NEW r \in Requests, Fail(r)
      PROVE  [WiderNext]_vars
  BY <1>3, NextIsWider DEF Next
<1> QED
  BY <1>1, <1>2, <1>3 DEF PaymentsNext, WiderNext, ProcessCrash, allVars

-----------------------------------------------------------------------------
(* Types.                                                                  *)

LEMMA PaymentsInvInit == PaymentsInit => PaymentsInv
<1> SUFFICES ASSUME PaymentsInit PROVE ConversionTyped
  BY InvInit DEF PaymentsInit, PaymentsInv
<1> QED
  BY DEF PaymentsInit, ConversionTyped

LEMMA BlockOfType ==
    ASSUME NEW e \in Found
    PROVE  BlockOf(e) \in Chains \X Heights
  BY EventsAssumption DEF EventsAssumption, Found, BlockOf

LEMMA PaymentsOfType ==
    ASSUME TypeOK, NEW r \in Requests
    PROVE  PaymentsOf(r) \in SUBSET (Transfers \X Heights)
  BY DEF TypeOK, PaymentsOf

LEMMA ConversionTypedStep ==
    ASSUME TypeOK, ConversionTyped, [PaymentsNext]_allVars
    PROVE  ConversionTyped'
<1>1. ASSUME UNCHANGED conversion, NEW r \in Requests, pc[r] # "convert",
             \A q \in Requests \ {r} : Untouched(q)
      PROVE  ConversionTyped'
  BY <1>1 DEF conversion, ConversionTyped, Untouched
<1>2. CASE Environment /\ UNCHANGED conversion
  BY <1>2 DEF Environment, NewBlock, Reorg, ClaimWallet, scan, conversion, ConversionTyped
<1>3. CASE ProcessCrash
  BY <1>3 DEF ProcessCrash, ConversionTyped
<1>4. ASSUME NEW r \in Requests, AllPayments(r) \/ AddressPayments(r)
      PROVE  ConversionTyped'
  <2>1. pc[r] = "idle" /\ \A q \in Requests \ {r} : Untouched(q)
    BY <1>4, OthersAreUntouched
       DEF AllPayments, AddressPayments, Poll, Ask, BeginSatellite, BeginAddress
  <2>2. /\ converted' = [converted EXCEPT ![r] = {}]
        /\ UNCHANGED <<headers, lookup, event, delivered, failed>>
    BY <1>4 DEF AllPayments, AddressPayments, Begun
  <2> QED
    BY <2>1, <2>2 DEF ConversionTyped, Untouched
<1>5. ASSUME NEW r \in Requests, ScanStep(r)
      PROVE  ConversionTyped'
  <2>1. pc[r] # "convert"
    BY <1>5 DEF ScanStep, Step, ListBySatellite, LatestHeader, FilterTransfer, NextEndpoint,
       ScanEnds, Store, StoreEnds
  <2> QED
    BY <1>1, <1>5, <2>1, OthersAreUntouched DEF ScanStep
<1>6. ASSUME NEW r \in Requests, NEW e \in found[r], HeaderHit(r, e) \/ HeaderMiss(r, e)
      PROVE  ConversionTyped'
  <2>1. e \in Found
    BY DEF TypeOK, Found
  <2>2. CASE HeaderHit(r, e)
    BY <2>1, <2>2 DEF HeaderHit, Converting, Unscanned, scan, ConversionTyped
  <2>3. CASE HeaderMiss(r, e)
    BY <2>1, <2>3 DEF HeaderMiss, Converting, Unscanned, scan, ConversionTyped
  <2> QED
    BY <1>6, <2>2, <2>3
<1>7. ASSUME NEW r \in Requests, HeaderByHash(r)
      PROVE  ConversionTyped'
  BY <1>7 DEF HeaderByHash, Unscanned, scan, ConversionTyped
<1>8. ASSUME NEW r \in Requests, HeaderInsert(r)
      PROVE  ConversionTyped'
  <2>1. event[r] \in Found /\ BlockOf(event[r]) \in Chains \X Heights
    BY <1>8, BlockOfType DEF HeaderInsert, ConversionTyped, TypeOK, Found
  <2>2. /\ headers' = headers \/ headers' = headers \cup {BlockOf(event[r])}
        /\ converted' = converted \/ converted' = [converted EXCEPT ![r] = converted[r] \cup {event[r]}]
        /\ lookup' = [lookup EXCEPT ![r] = "none"]
        /\ event' = [event EXCEPT ![r] = NoEvent]
        /\ pc' = pc \/ pc' = [pc EXCEPT ![r] = "idle"]
        /\ UNCHANGED <<found, delivered, failed>>
    BY <1>8 DEF HeaderInsert, GoTo, Unscanned, scan
  <2>3. headers' \in SUBSET (Chains \X Heights) /\ converted' \in [Requests -> SUBSET Found]
    BY <2>1, <2>2 DEF ConversionTyped
  <2>4. \A q \in Requests : lookup'[q] # "none" => 
            pc'[q] = "convert" /\ event'[q] \in found'[q] \ converted'[q]
    BY <2>2 DEF ConversionTyped, TypeOK
  <2> QED
    BY <2>2, <2>3, <2>4 DEF ConversionTyped
<1>9. ASSUME NEW r \in Requests, Respond(r)
      PROVE  ConversionTyped'
  <2>1. delivered' = delivered \/ \E s \in Satellites :
             delivered' = [delivered EXCEPT ![s] = delivered[s] \cup PaymentsOf(r)]
    BY <1>9 DEF Respond, TypeOK
  <2>2. delivered' \in [Satellites -> SUBSET (Transfers \X Heights)]
    BY <2>1, PaymentsOfType DEF ConversionTyped
  <2>3. /\ lookup[r] = "none"
        /\ pc' = [pc EXCEPT ![r] = "idle"]
        /\ UNCHANGED <<headers, lookup, event, converted, failed, found>>
    BY <1>9 DEF Respond, GoTo, Unscanned, scan, ConversionTyped
  <2> QED
    BY <2>2, <2>3 DEF ConversionTyped, TypeOK
<1>10. ASSUME NEW r \in Requests, ConversionFails(r) \/ ResponseLost(r)
       PROVE  ConversionTyped'
  <2>1. EndEmpty(r)
    BY <1>10 DEF ConversionFails, ResponseLost
  <2>2. failed' = failed \/ \E s \in Satellites :
             failed' = [failed EXCEPT ![s] = failed[s] \cup PaymentsOf(r)]
    BY <2>1 DEF EndEmpty, TypeOK
  <2>3. failed' \in [Satellites -> SUBSET (Transfers \X Heights)]
    BY <2>2, PaymentsOfType DEF ConversionTyped
  <2>4. /\ pc' = [pc EXCEPT ![r] = "idle"]
        /\ lookup' = [lookup EXCEPT ![r] = "none"]
        /\ event' = [event EXCEPT ![r] = NoEvent]
        /\ UNCHANGED <<headers, converted, delivered, found>>
    BY <2>1 DEF EndEmpty, GoTo, scan
  <2> QED
    BY <2>3, <2>4 DEF ConversionTyped, TypeOK
<1>11. ASSUME NEW r \in Requests, Fail(r), UNCHANGED conversion
       PROVE  ConversionTyped'
  <2>1. pc[r] # "convert" /\ \A q \in Requests \ {r} : Untouched(q)
    BY <1>11 DEF Fail, GoTo, Untouched, scan, TypeOK
  <2> QED
    BY <1>1, <1>11, <2>1
<1>12. CASE UNCHANGED allVars
  BY <1>12 DEF allVars, vars, conversion, ConversionTyped
<1> QED
  BY <1>2, <1>3, <1>4, <1>5, <1>6, <1>7, <1>8, <1>9, <1>10, <1>11, <1>12
     DEF PaymentsNext, ConversionStep

LEMMA PaymentsInvStep == PaymentsInv /\ [PaymentsNext]_allVars => PaymentsInv'
<1> SUFFICES ASSUME PaymentsInv, [PaymentsNext]_allVars PROVE PaymentsInv'
  OBVIOUS
<1>1. TypeOK
  BY DEF PaymentsInv, Inv
<1> QED
  BY <1>1, PaymentsNextIsWider, InvStep, ConversionTypedStep DEF PaymentsInv

LEMMA PaymentsInvariance == PaymentsSpec => []PaymentsInv
  BY PaymentsInvInit, PaymentsInvStep, PTL DEF PaymentsSpec

\* The conversion keeps the types of its variables and those of the scan.
THEOREM PaymentsTypeCorrect == PaymentsSpec => []PaymentsTypeOK
<1>1. PaymentsInv => PaymentsTypeOK
  BY DEF PaymentsInv, ConversionTyped, Inv, PaymentsTypeOK
<1> QED
  BY <1>1, PaymentsInvariance, PTL

\* The scans of AllPayments and Payments keep the promises of the event search
\* while other requests convert, fail and write headers (AllPayments, Payments).
THEOREM PaymentScansAreComplete ==
    PaymentsSpec => [](ScanIsComplete /\ RepeatsOnlyAtBoundaries)
<1>1. PaymentsInv => ScanIsComplete /\ RepeatsOnlyAtBoundaries
  BY CoveredScansAreComplete, BatchesMeetAtBoundaries DEF PaymentsInv
<1> QED
  BY <1>1, PaymentsInvariance, PTL

-----------------------------------------------------------------------------
(* Payments that are not lost.                                             *)

\* What a request holds goes to delivered or failed when the request ends, unless
\* the insert of a header was refused or the process has ended.
LEMMA NothingIsTakenBack ==
    ASSUME TypeOK, ConversionTyped, [PaymentsNext]_allVars, ~Crash,
           \A r \in Requests : ~Refused(r),
           NEW s \in Satellites
    PROVE  handed[s] \subseteq handed'[s]
<1>1. /\ delivered[s] \cup failed[s] \subseteq Transfers \X Heights
      /\ \A p \in Transfers \X Heights : p \in handed[s] <=>
             \/ p \in delivered[s] \cup failed[s]
             \/ \E r \in Requests : Holds(r, s) /\ p \in PaymentsOf(r)
      /\ \A p \in Transfers \X Heights : p \in handed'[s] <=>
             \/ p \in delivered'[s] \cup failed'[s]
             \/ \E r \in Requests : Holds(r, s)' /\ p \in PaymentsOf(r)'
      /\ handed[s] \subseteq Transfers \X Heights
  BY DEF handed, ConversionTyped
<1>2. ASSUME UNCHANGED <<delivered, failed>>,
             \A r \in Requests : Holds(r, s) => Holds(r, s)' /\ found'[r] = found[r]
      PROVE  handed[s] \subseteq handed'[s]
  BY <1>1, <1>2 DEF PaymentsOf
<1>3. ASSUME UNCHANGED <<delivered, failed>>, NEW r \in Requests, ~Holds(r, s),
             \A q \in Requests \ {r} : Untouched(q)
      PROVE  handed[s] \subseteq handed'[s]
  BY <1>2, <1>3 DEF Holds, Untouched
<1>4. CASE Environment /\ UNCHANGED conversion
  <2>1. UNCHANGED <<pc, sat, found, delivered, failed>>
    BY <1>4 DEF Environment, NewBlock, Reorg, ClaimWallet, scan, conversion
  <2> QED
    BY <1>2, <2>1 DEF Holds
<1>5. ASSUME NEW r \in Requests, AllPayments(r) \/ AddressPayments(r)
      PROVE  handed[s] \subseteq handed'[s]
  <2>1. ~Holds(r, s) /\ \A q \in Requests \ {r} : Untouched(q)
    BY <1>5, OthersAreUntouched
       DEF AllPayments, AddressPayments, Poll, Ask, BeginSatellite, BeginAddress, Holds
  <2> QED
    BY <1>3, <1>5, <2>1 DEF AllPayments, AddressPayments, Begun
<1>6. ASSUME NEW r \in Requests, ScanStep(r)
      PROVE  handed[s] \subseteq handed'[s]
  <2>1. UNCHANGED <<delivered, failed>> /\ \A q \in Requests \ {r} : Untouched(q)
    BY <1>6, OthersAreUntouched DEF ScanStep, conversion
  <2>2. CASE StoreEnds(r) \/ \E c \in Chains : Store(r, c)
    <3>1. Holds(r, s) => Holds(r, s)' /\ found'[r] = found[r]
      BY <2>2 DEF StoreEnds, Store, GoTo, Holds, scan, TypeOK
    <3> QED
      BY <1>2, <2>1, <3>1 DEF Holds, Untouched
  <2>3. CASE ~(StoreEnds(r) \/ \E c \in Chains : Store(r, c))
    <3>1. ~Holds(r, s)
      BY <1>6, <2>3 DEF ScanStep, Step, ListBySatellite, LatestHeader, FilterTransfer, NextEndpoint,
         ScanEnds, Holds
    <3> QED
      BY <1>3, <2>1, <3>1
  <2> QED
    BY <2>2, <2>3
<1>7. ASSUME NEW r \in Requests, Respond(r) \/ ConversionFails(r) \/ ResponseLost(r)
      PROVE  handed[s] \subseteq handed'[s]
  <2>1. /\ sat' = sat /\ found' = found
        /\ \A q \in Requests \ {r} : pc'[q] = pc[q]
    BY <1>7 DEF Respond, ConversionFails, ResponseLost, EndEmpty, Unscanned, scan, GoTo, TypeOK
  <2>2. delivered[s] \cup failed[s] \subseteq delivered'[s] \cup failed'[s]
    BY <1>7 DEF Respond, ConversionFails, ResponseLost, EndEmpty, ConversionTyped
  <2>3. Holds(r, s) => PaymentsOf(r) \subseteq delivered'[s] \cup failed'[s]
    <3> SUFFICES ASSUME Holds(r, s)
                 PROVE  PaymentsOf(r) \subseteq delivered'[s] \cup failed'[s]
      OBVIOUS
    <3>1. sat[r] = s /\ sat[r] # NoSatellite
      BY Constants DEF Holds
    <3>2. \/ delivered' = [delivered EXCEPT ![s] = delivered[s] \cup PaymentsOf(r)]
          \/ failed' = [failed EXCEPT ![s] = failed[s] \cup PaymentsOf(r)]
      BY <1>7, <3>1 DEF Respond, ConversionFails, ResponseLost, EndEmpty
    <3> QED
      BY <3>2 DEF ConversionTyped
  <2>4. \A q \in Requests \ {r} : Holds(q, s) => Holds(q, s)' /\ PaymentsOf(q)' = PaymentsOf(q)
    BY <2>1 DEF Holds, PaymentsOf
  <2> QED
    BY <1>1, <2>2, <2>3, <2>4
<1>8. ASSUME NEW r \in Requests, ConversionStep(r), ~Respond(r)
      PROVE  handed[s] \subseteq handed'[s]
  <2>1. UNCHANGED vars
    BY <1>8, ConversionContinues
  <2>2. UNCHANGED <<delivered, failed>>
    BY <1>8 DEF ConversionStep, HeaderHit, HeaderMiss, HeaderByHash, HeaderInsert
  <2> QED
    BY <1>2, <2>1, <2>2 DEF vars, Holds
<1>9. ASSUME NEW r \in Requests, Fail(r), UNCHANGED conversion
      PROVE  handed[s] \subseteq handed'[s]
  <2>1. ~Holds(r, s) /\ \A q \in Requests \ {r} : Untouched(q)
    BY <1>9 DEF Fail, GoTo, Untouched, scan, Holds, TypeOK
  <2> QED
    BY <1>3, <1>9, <2>1 DEF conversion
<1>10. CASE UNCHANGED allVars
  BY <1>2, <1>10 DEF allVars, vars, conversion, Holds
<1> QED
  BY <1>4, <1>5, <1>6, <1>7, <1>8, <1>9, <1>10 DEF PaymentsNext, ProcessCrash

\* The end of a scan for a satellite hands it what the scan has found.
LEMMA ScanHandsOver ==
    ASSUME TypeOK, NEW r \in Requests, ScanEnds(r), sat[r] # NoSatellite, NEW e \in found[r]
    PROVE  <<e[1], e[2]>> \in handed'[sat[r]]
<1>1. sat[r] \in Satellites /\ <<e[1], e[2]>> \in Transfers \X Heights
  BY DEF TypeOK
<1>2. pc'[r] = "store" /\ sat' = sat /\ found' = found
  BY DEF ScanEnds, GoTo, scan, TypeOK
<1>3. Holds(r, sat[r])' /\ <<e[1], e[2]>> \in PaymentsOf(r)'
  BY <1>2 DEF Holds, PaymentsOf
<1> QED
  BY <1>1, <1>2, <1>3 DEF handed

\* The blocks that later requests do not look at are accounted for by what was
\* handed over, as long as no insert is refused.
LEMMA HandedAccounts ==
    ASSUME From \subseteq Nat,
           PaymentsInv, Accounted(handed), [PaymentsNext]_allVars,
           \A r \in Requests : ~Refused(r)
    PROVE  Accounted(handed)'
<1>1. /\ TypeOK /\ Progress /\ Covered /\ ConversionTyped /\ [WiderNext]_vars /\ TypeOK'
  BY PaymentsNextIsWider, PaymentsInvStep DEF PaymentsInv, Inv
<1>2. CASE Crash
  BY <1>2, AccountedRestart
<1>3. CASE ~Crash
  <2>1. \A s \in Satellites : handed[s] \subseteq handed'[s]
    BY <1>1, <1>3, NothingIsTakenBack
  <2>2. \A r \in Requests : ScanEnds(r) /\ sat[r] # NoSatellite =>
            \A e \in found[r] : <<e[1], e[2]>> \in handed'[sat[r]]
    BY <1>1, ScanHandsOver
  <2> QED
    BY <1>1, <1>3, <2>1, <2>2, AccountedStep
<1> QED
  BY <1>2, <1>3

LEMMA HandedMeansNotLost ==
    ASSUME \A t \in Transfers : recipientOf[t] \in InitiallyClaimed,
           PaymentsInv, Accounted(handed)
    PROVE  NothingIsLost
<1> SUFFICES ASSUME NEW s \in Satellites, NEW t \in Transfers,
                    ownerOf[recipientOf[t]] = s, mined[t] # 0,
                    lastScanned[s][chainOf[t]] # NoBlock,
                    mined[t] \in floor[s][chainOf[t]] .. lastScanned[s][chainOf[t]] - 1,
                    mined[t] \notin truncated[s][chainOf[t]]
             PROVE  \/ <<t, mined[t]>> \in delivered[s] \cup failed[s]
                    \/ \E r \in Requests : /\ sat[r] = s
                                           /\ pc[r] \in {"store", "convert"}
                                           /\ \E e \in found[r] : e[1] = t /\ e[2] = mined[t]
  BY DEF NothingIsLost
<1>1. <<t, mined[t]>> \in handed[s]
  BY AccountedEvents DEF PaymentsInv, Inv
<1>2. \/ <<t, mined[t]>> \in delivered[s] \cup failed[s]
      \/ \E r \in Requests : Holds(r, s) /\ <<t, mined[t]>> \in PaymentsOf(r)
  BY <1>1 DEF handed
<1>3. ASSUME NEW r \in Requests, <<t, mined[t]>> \in PaymentsOf(r)
      PROVE  \E e \in found[r] : e[1] = t /\ e[2] = mined[t]
  BY <1>3 DEF PaymentsOf
<1> QED
  BY <1>2, <1>3 DEF Holds

-----------------------------------------------------------------------------
(* Theorems.                                                               *)

\* A refused insert is the only way to lose a payment: as long as no request finds
\* its header inserted by another between the lookup and the insert, no payment is
\* lost, however the requests overlap, fail and restart (HeadersCache.Get,
\* AllPayments).  As in SatellitesMissNothing, no client starts from a negative
\* block, and wallets are claimed before use.
THEOREM OnlyRefusalsLosePayments ==
    ASSUME From \subseteq Nat,
           \A t \in Transfers : recipientOf[t] \in InitiallyClaimed
    PROVE  PaymentsInit /\ [][PaymentsNext /\ \A r \in Requests : ~Refused(r)]_allVars
               => []NothingIsLost
<1> DEFINE Good == PaymentsNext /\ \A r \in Requests : ~Refused(r)
           All  == PaymentsInv /\ Accounted(handed)
<1>1. PaymentsInit => All
  BY PaymentsInvInit, AccountedInit DEF PaymentsInit
<1>2. All /\ [Good]_allVars => All'
  <2> SUFFICES ASSUME All, [Good]_allVars PROVE All'
    OBVIOUS
  <2>1. PaymentsInv'
    BY PaymentsInvStep
  <2>2. CASE Good
    BY <2>1, <2>2, HandedAccounts
  <2>3. CASE UNCHANGED allVars
    <3>1. ASSUME NEW r \in Requests PROVE ~Refused(r)
      BY <2>3 DEF Refused, HeaderInsert, allVars, conversion, PaymentsInv, ConversionTyped
    <3> QED
      BY <2>1, <2>3, <3>1, HandedAccounts
  <2> QED
    BY <2>2, <2>3
<1>3. All => NothingIsLost
  BY HandedMeansNotLost
<1> QED
  BY <1>1, <1>2, <1>3, PTL

\* A header that is being fetched is not in the database.
StillMissing == \A r \in Requests : lookup[r] # "none" => BlockOf(event[r]) \notin headers

\* When requests do not overlap, nobody inserts the header between the lookup and
\* the insert of a request.
LEMMA StillMissingStep ==
    ASSUME \A q, r \in Requests : q = r,
           PaymentsInv, StillMissing, [PaymentsNext]_allVars
    PROVE  StillMissing'
<1> USE DEF StillMissing, Unscanned
<1>1. TypeOK /\ ConversionTyped
  BY DEF PaymentsInv, Inv
<1>2. ASSUME UNCHANGED <<headers, lookup, event>> PROVE StillMissing'
  BY <1>2
<1>3. ASSUME \A r \in Requests : lookup'[r] = "none" PROVE StillMissing'
  BY <1>3
<1>4. ASSUME NEW r \in Requests, NEW e \in found[r], HeaderHit(r, e) \/ HeaderMiss(r, e)
      PROVE  StillMissing'
  <2>1. CASE HeaderHit(r, e)
    BY <1>2, <2>1 DEF HeaderHit
  <2>2. CASE HeaderMiss(r, e)
    <3>1. event'[r] = e /\ BlockOf(e) \notin headers /\ headers' = headers
      BY <1>1, <2>2 DEF HeaderMiss, ConversionTyped
    <3> QED
      BY <3>1
  <2> QED
    BY <1>4, <2>1, <2>2
<1>5. ASSUME NEW r \in Requests, HeaderByHash(r)
      PROVE  StillMissing'
  BY <1>1, <1>5 DEF HeaderByHash, ConversionTyped
<1>6. ASSUME NEW r \in Requests, HeaderInsert(r) \/ ConversionFails(r) \/ ResponseLost(r)
      PROVE  StillMissing'
  <2>1. lookup'[r] = "none"
    BY <1>1, <1>6 DEF HeaderInsert, ConversionFails, ResponseLost, EndEmpty, ConversionTyped
  <2> QED
    BY <1>3, <2>1
<1>7. CASE ProcessCrash
  BY <1>3, <1>7 DEF ProcessCrash
<1>8. ASSUME NEW r \in Requests, Respond(r) \/ AllPayments(r) \/ AddressPayments(r)
      PROVE  StillMissing'
  BY <1>2, <1>8 DEF Respond, AllPayments, AddressPayments, Begun
<1>9. CASE UNCHANGED conversion
  BY <1>2, <1>9 DEF conversion
<1> QED
  BY <1>4, <1>5, <1>6, <1>7, <1>8, <1>9 DEF PaymentsNext, ConversionStep, ScanStep, allVars

\* Requests that do not overlap lose no payment: whatever fails, a block that later
\* requests do not look at has been delivered or is in a response that failed.  The
\* other two hypotheses are those of OnlyRefusalsLosePayments (AllPayments).
THEOREM SingleRequestsLoseNothing ==
    ASSUME From \subseteq Nat,
           \A q, r \in Requests : q = r,
           \A t \in Transfers : recipientOf[t] \in InitiallyClaimed
    PROVE  PaymentsSpec => []NothingIsLost
<1> DEFINE All == PaymentsInv /\ Accounted(handed) /\ StillMissing
<1>1. PaymentsInit => All
  BY PaymentsInvInit, AccountedInit DEF PaymentsInit, StillMissing
<1>2. All /\ [PaymentsNext]_allVars => All'
  <2> SUFFICES ASSUME All, [PaymentsNext]_allVars PROVE All'
    OBVIOUS
  <2>1. PaymentsInv' /\ StillMissing'
    BY PaymentsInvStep, StillMissingStep
  <2>2. ASSUME NEW r \in Requests PROVE ~Refused(r)
    BY DEF Refused, HeaderInsert, StillMissing
  <2> QED
    BY <2>1, <2>2, HandedAccounts
<1>3. All => NothingIsLost
  BY HandedMeansNotLost
<1> QED
  BY <1>1, <1>2, <1>3, PTL DEF PaymentsSpec

=============================================================================
