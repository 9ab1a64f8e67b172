---------------------------- MODULE WalletsProofs ----------------------------
(***************************************************************************)
(* Proofs about module Wallets, for every set of satellites, addresses,    *)
(* requests and batches, and every number of attempts.                     *)
(***************************************************************************)
EXTENDS Wallets, FiniteSetTheorems, TLAPS

-----------------------------------------------------------------------------
(* The steps that the proofs are about.  A module that composes Wallets    *)
(* may send batches of its own; no lemma depends on which they are.        *)

Registers(r) == \E s \in Satellites, addresses \in Seq(Addresses) : BeginRegister(r, s, addresses)

Arrives(r) == Arrive(r) \/ Registers(r)

WiderNext == (\E r \in Requests : Arrives(r) \/ Step(r) \/ Fault(r)) \/ Terminated

\* What can come from satellite s.
Comes(r, s) ==
    \/ BeginClaim(r, s)
    \/ \E addresses \in Seq(Addresses) : BeginRegister(r, s, addresses)
    \/ BeginStats(r, s)
    \/ BeginList(r, s)
    \/ \E a \in Addresses : BeginGet(r, s, a)

LEMMA ArrivesComes ==
    ASSUME NEW r \in Requests, Arrives(r)
    PROVE  \E s \in Satellites : Comes(r, s)
  BY BatchesAssumption DEF BatchesAssumption, Arrives, Arrive, Registers, Comes

LEMMA NextIsWider == [Next]_vars => [WiderNext]_vars
  BY DEF Next, WiderNext, Arrives

-----------------------------------------------------------------------------
(* Type correctness.                                                       *)

\* Giving up or running again keeps the types: Retry changes the locks, the
\* statement, the rest of the batch and the number of attempts only.
LEMMA RetryType ==
    ASSUME TypeOK, NEW r \in Requests, InTransaction(r), Retry(r)
    PROVE  TypeOK'
<1>1. FirstStatement(r) \in Statements
  BY DEF FirstStatement, Statements
<1>2. lock' \in [Addresses -> Requests \cup {NoRequest}]
  BY DEF Retry, Unlocked, TypeOK
<1>3. pc' \in [Requests -> Statements \cup Outcomes \cup {"idle", "get", "list", "committed"}]
  BY <1>1 DEF Retry, GoTo, TypeOK, Outcomes
<1>4. attempts' \in [Requests -> 0 .. MaxAttempts]
  <2>1. attempts[r] < MaxAttempts => attempts[r] + 1 \in 0 .. MaxAttempts
    BY MaxAttemptsAssumption DEF MaxAttemptsAssumption, TypeOK
  <2>2. CASE attempts[r] < MaxAttempts
    <3>1. attempts' = [attempts EXCEPT ![r] = attempts[r] + 1]
      BY <2>2 DEF Retry
    <3> QED
      BY <2>1, <2>2, <3>1 DEF TypeOK
  <2>3. CASE ~(attempts[r] < MaxAttempts)
    <3>1. attempts' = attempts
      BY <2>3 DEF Retry
    <3> QED
      BY <3>1 DEF TypeOK
  <2> QED
    BY <2>2, <2>3
<1>5. todo' \in [Requests -> Seq(Addresses)]
  <2>1. todo' = todo \/ todo' = [todo EXCEPT ![r] = batch[r]]
    BY DEF Retry
  <2> QED
    BY <2>1 DEF TypeOK
<1>6. UNCHANGED <<owner, claimers, op, sat, batch, row, view>>
  BY DEF Retry, table, request
<1> QED
  BY <1>2, <1>3, <1>4, <1>5, <1>6 DEF TypeOK

\* Ending a request with a rollback keeps the types.
LEMMA FailType ==
    ASSUME TypeOK, NEW r \in Requests, lock' = Unlocked(r), GoTo(r, "failed"),
           UNCHANGED <<table, request, progress>>
    PROVE  TypeOK'
<1>1. lock' \in [Addresses -> Requests \cup {NoRequest}]
  BY DEF Unlocked, TypeOK
<1>2. pc' \in [Requests -> Statements \cup Outcomes \cup {"idle", "get", "list", "committed"}]
  BY DEF GoTo, TypeOK, Outcomes
<1>3. UNCHANGED <<owner, claimers, op, sat, row, batch, todo, attempts, view>>
  BY DEF table, request, progress
<1> QED
  BY <1>1, <1>2, <1>3 DEF TypeOK

\* The arrival of a request keeps the types: what it carries is an address, a
\* batch or a satellite of the constants.
LEMMA ArriveType ==
    ASSUME TypeOK, NEW r \in Requests, Arrives(r)
    PROVE  TypeOK'
<1>0. PICK s \in Satellites : Comes(r, s)
  BY ArrivesComes
<1> USE MaxAttemptsAssumption DEF MaxAttemptsAssumption, TypeOK, Begin, GoTo, table, Statements, Outcomes
<1>1. CASE BeginClaim(r, s)
  BY <1>1 DEF BeginClaim
<1>2. CASE \E addresses \in Seq(Addresses) : BeginRegister(r, s, addresses)
  BY <1>2 DEF BeginRegister
<1>3. CASE BeginStats(r, s)
  BY <1>3 DEF BeginStats
<1>4. CASE BeginList(r, s)
  <2>1. HandedOut(s) \subseteq Addresses
    BY DEF HandedOut
  <2> DEFINE seen == [view[r] EXCEPT !.known = HandedOut(s)]
  <2>2. seen \in Views
    BY <2>1 DEF Views
  <2>3. view' = [view EXCEPT ![r] = seen]
    BY <1>4 DEF BeginList
  <2>4. view' \in [Requests -> Views]
    <3> HIDE DEF seen
    <3> QED BY <2>2, <2>3
  <2> QED
    BY <1>4, <2>4 DEF BeginList
<1>5. CASE \E a \in Addresses : BeginGet(r, s, a)
  BY <1>5 DEF BeginGet
<1> QED
  BY <1>0, <1>1, <1>2, <1>3, <1>4, <1>5 DEF Comes

\* Each statement, answer and failure of a request keeps the types.
LEMMA StepType ==
    ASSUME TypeOK, NEW r \in Requests, Step(r) \/ Fault(r)
    PROVE  TypeOK'
<1> USE DEF TypeOK, GoTo, table, request, progress, Statements, Outcomes
<1>1. CASE ClaimSelect(r)
  <2>1. UnclaimedOf(sat[r]) \subseteq Addresses
    BY DEF UnclaimedOf, RowsOf, Rows
  <2>2. row' \in [Requests -> Addresses \cup {NoAddress}]
    <3>1. row' = row \/ \E a \in Addresses : row' = [row EXCEPT ![r] = a]
      BY <1>1, <2>1 DEF ClaimSelect
    <3> QED
      BY <3>1
  <2>3. pc' \in [Requests -> Statements \cup Outcomes \cup {"idle", "get", "list", "committed"}]
    BY <1>1 DEF ClaimSelect
  <2>4. UNCHANGED <<owner, claimers, lock, op, sat, batch, todo, attempts, view>>
    BY <1>1 DEF ClaimSelect
  <2> QED
    BY <2>2, <2>3, <2>4
<1>2. CASE ClaimUpdate(r)
  BY <1>2 DEF ClaimUpdate
<1>3. CASE ClaimCommit(r)
  BY <1>3 DEF ClaimCommit, Unlocked
<1>4. CASE ClaimConflict(r)
  <2>1. InTransaction(r) /\ Retry(r)
    BY <1>4 DEF ClaimConflict, InTransaction
  <2> QED
    BY <2>1, RetryType
<1>5. CASE InsertRow(r)
  <2>1. lock' \in [Addresses -> Requests \cup {NoRequest}]
    BY <1>5 DEF InsertRow
  <2>2. todo[r] # <<>> /\ todo' = [todo EXCEPT ![r] = Tail(todo[r])]
    BY <1>5 DEF InsertRow
  <2>3. todo' \in [Requests -> Seq(Addresses)]
    BY <2>2
  <2>4. UNCHANGED <<owner, claimers, pc, op, sat, batch, row, attempts, view>>
    BY <1>5 DEF InsertRow
  <2> QED
    BY <2>1, <2>3, <2>4
<1>6. CASE InsertCommit(r)
  BY <1>6 DEF InsertCommit, Unlocked
<1>7. CASE DeadlockAbort(r)
  <2>1. InTransaction(r)
    BY <1>7 DEF DeadlockAbort, WaitCycle, Waiting, InTransaction
  <2>2. CASE Retry(r)
    BY <2>1, <2>2, RetryType
  <2>3. CASE ~Retry(r)
    BY <1>7, <2>3, FailType DEF DeadlockAbort
  <2> QED
    BY <2>2, <2>3
<1>8. CASE CountTotal(r)
  <2>1. Rows \in SUBSET Addresses /\ Claimed \in SUBSET Addresses
    BY DEF Rows, Claimed
  <2> DEFINE counted == [view[r] EXCEPT !.total = Rows, !.claimed = Claimed]
  <2>2. counted \in Views
    BY <2>1 DEF Views
  <2>3. view' = [view EXCEPT ![r] = counted]
    BY <1>8 DEF CountTotal
  <2>4. view' \in [Requests -> Views]
    <3> HIDE DEF counted
    <3> QED BY <2>2, <2>3
  <2> QED
    BY <1>8, <2>4 DEF CountTotal
<1>9. CASE CountClaimed(r)
  <2>1. Claimed \in SUBSET Addresses
    BY DEF Claimed
  <2> DEFINE counted == [view[r] EXCEPT !.claimed = Claimed]
  <2>2. counted \in Views
    BY <2>1 DEF Views
  <2>3. view' = view \/ view' = [view EXCEPT ![r] = counted]
    BY <1>9 DEF CountClaimed
  <2>4. view' \in [Requests -> Views]
    <3> HIDE DEF counted
    <3> QED BY <2>2, <2>3
  <2> QED
    BY <1>9, <2>4 DEF CountClaimed
<1>10. CASE ListBySatellite(r)
  <2>1. RowsOf(sat[r]) \cap Claimed \in SUBSET Addresses
    BY DEF Claimed
  <2> DEFINE listed == [view[r] EXCEPT !.claimed = RowsOf(sat[r]) \cap Claimed]
  <2>2. listed \in Views
    BY <2>1 DEF Views
  <2>3. view' = [view EXCEPT ![r] = listed]
    BY <1>10 DEF ListBySatellite
  <2>4. view' \in [Requests -> Views]
    <3> HIDE DEF listed
    <3> QED BY <2>2, <2>3
  <2> QED
    BY <1>10, <2>4 DEF ListBySatellite
<1>11. CASE Get(r)
  BY <1>11 DEF Get
<1>12. CASE Reply(r)
  BY <1>12 DEF Reply
<1>13. CASE Conflict(r)
  BY <1>13, RetryType DEF Conflict
<1>14. CASE Abort(r)
  BY <1>14, FailType DEF Abort
<1>15. CASE ReplyLost(r)
  BY <1>15 DEF ReplyLost
<1>16. CASE QueryFails(r)
  BY <1>16 DEF QueryFails
<1> QED
  BY <1>1, <1>2, <1>3, <1>4, <1>5, <1>6, <1>7, <1>8, <1>9, <1>10, <1>11, <1>12,
     <1>13, <1>14, <1>15, <1>16 DEF Step, Fault

LEMMA InitType == Init => TypeOK
  BY MaxAttemptsAssumption
  DEF MaxAttemptsAssumption, Init, TypeOK, NoView, Views, Statements, Outcomes

LEMMA NextType == TypeOK /\ [WiderNext]_vars => TypeOK'
<1> SUFFICES ASSUME TypeOK, [WiderNext]_vars PROVE TypeOK'
  OBVIOUS
<1>1. CASE \E r \in Requests : Arrives(r) \/ Step(r) \/ Fault(r)
  BY <1>1, ArriveType, StepType
<1>2. CASE UNCHANGED vars
  BY <1>2 DEF vars, TypeOK
<1> QED
  BY <1>1, <1>2 DEF WiderNext, Terminated

\* Every variable always has its type: no statement sequence of any set of
\* requests stores what the columns and locals of wallets.go cannot hold.
THEOREM TypeCorrect == Spec => []TypeOK
  BY InitType, NextType, NextIsWider, PTL DEF Spec

-----------------------------------------------------------------------------
(* The inductive invariant.                                                *)

\* A rollback, followed by another run or by the failure of the request,
\* keeps the invariant: it frees the locks of the request and claims nothing.
LEMMA RollbackInv ==
    ASSUME TypeOK, WalletInv, NEW r \in Requests, InTransaction(r),
           lock' = Unlocked(r),
           GoTo(r, FirstStatement(r)) \/ GoTo(r, "failed"),
           UNCHANGED <<owner, claimers, op, sat, row>>
    PROVE  WalletInv'
<1> USE SentinelAssumption
    DEF SentinelAssumption, TypeOK, WalletInv, GoTo, Unlocked, InTransaction, Statements,
        FirstStatement
<1>1. StatementsMatch'
  BY DEF StatementsMatch
<1>2. LocksMatch'
  BY DEF LocksMatch
<1>3. SelectedRow'
  BY DEF SelectedRow, StatementsMatch
<1>4. ClaimersMatch'
  <2>1. \A a \in Addresses : r \notin claimers[a]
    BY DEF ClaimersMatch
  <2>2. \A q \in Requests : q # r => pc'[q] = pc[q]
    OBVIOUS
  <2>3. pc'[r] \notin {"committed", "ok"}
    OBVIOUS
  <2>4. \A a \in Addresses : \A q \in claimers[a] :
           op[q] = "claim" /\ pc'[q] \in {"committed", "ok", "failed"} /\ row[q] = a
    BY <2>1, <2>2 DEF ClaimersMatch
  <2>5. \A q \in Requests :
           op[q] = "claim" /\ pc'[q] \in {"committed", "ok"} => q \in claimers[row[q]]
    BY <2>2, <2>3 DEF ClaimersMatch
  <2> QED
    BY <2>4, <2>5 DEF ClaimersMatch
<1>5. CommitExclusive'
  BY DEF CommitExclusive, StatementsMatch, SelectedRow
<1>6. Isolation = "Serializable" => UniqueClaim'
  BY DEF UniqueClaim
<1> QED
  BY <1>1, <1>2, <1>3, <1>4, <1>5, <1>6

\* The rollback of a transaction that is run again, or given up, keeps the
\* invariant: it is one of those above.
LEMMA RetryInv ==
    ASSUME TypeOK, WalletInv, NEW r \in Requests, InTransaction(r), Retry(r)
    PROVE  WalletInv'
<1>1. GoTo(r, FirstStatement(r)) \/ GoTo(r, "failed")
  BY DEF Retry
<1>2. UNCHANGED <<owner, claimers, op, sat, row>>
  BY DEF Retry, table, request
<1> QED
  BY <1>1, <1>2, RollbackInv DEF Retry

\* A request that arrives holds no lock and has claimed nothing.
LEMMA ArriveInv ==
    ASSUME TypeOK, WalletInv, NEW r \in Requests, Arrives(r)
    PROVE  WalletInv'
<1>0. PICK s \in Satellites, operation \in {"claim", "register", "stats", "list", "get"},
           step \in {"select", "insert", "count", "list", "get"} :
        /\ Begin(r, s, operation, step)
        /\ step = "select" => operation = "claim"
        /\ step = "insert" => operation = "register"
        /\ step = "count" => operation = "stats"
        /\ step \in {"list", "get"} => operation = step
        /\ \A q \in Requests \ {r} : row'[q] = row[q]
  BY ArrivesComes DEF Comes, BeginClaim, BeginRegister, BeginStats, BeginList, BeginGet, TypeOK
<1> USE <1>0, SentinelAssumption DEF SentinelAssumption, TypeOK, WalletInv, Begin, GoTo, table
<1>1. StatementsMatch'
  BY DEF StatementsMatch
<1>2. LocksMatch'
  BY DEF LocksMatch
<1>3. SelectedRow'
  BY DEF SelectedRow
<1>4. ClaimersMatch'
  BY DEF ClaimersMatch
<1>5. CommitExclusive'
  BY DEF CommitExclusive
<1>6. Isolation = "Serializable" => UniqueClaim'
  BY DEF UniqueClaim
<1> QED
  BY <1>1, <1>2, <1>3, <1>4, <1>5, <1>6

\* The SELECT gives a Claim an unclaimed row of its satellite.
LEMMA SelectInv ==
    ASSUME TypeOK, WalletInv, NEW r \in Requests, ClaimSelect(r)
    PROVE  WalletInv'
<1> USE SentinelAssumption
    DEF SentinelAssumption, TypeOK, WalletInv, ClaimSelect, GoTo, table, request
<1>1. StatementsMatch'
  BY DEF StatementsMatch
<1>2. LocksMatch'
  BY DEF LocksMatch
<1>3. SelectedRow'
  <2>1. \A q \in Requests \ {r} : pc'[q] = pc[q] /\ row'[q] = row[q]
    OBVIOUS
  <2>2. \/ row'[r] \in UnclaimedOf(sat[r])
        \/ pc'[r] = "noWallets"
    OBVIOUS
  <2>3. \A a \in UnclaimedOf(sat[r]) : a \in Addresses /\ owner[a] = sat[r]
    BY DEF UnclaimedOf, RowsOf, Rows
  <2>4. UNCHANGED <<owner, op, sat>> /\ SelectedRow
    OBVIOUS
  <2> QED
    BY <2>1, <2>2, <2>3, <2>4 DEF SelectedRow
<1>4. ClaimersMatch'
  <2>1. \A a \in Addresses : r \notin claimers[a]
    BY DEF ClaimersMatch
  <2>2. \A q \in Requests \ {r} : pc'[q] = pc[q] /\ row'[q] = row[q]
    OBVIOUS
  <2>3. pc'[r] \notin {"committed", "ok"}
    OBVIOUS
  <2>4. \A a \in Addresses : \A q \in claimers[a] :
           op[q] = "claim" /\ pc'[q] \in {"committed", "ok", "failed"} /\ row'[q] = a
    BY <2>1, <2>2 DEF ClaimersMatch
  <2>5. \A q \in Requests :
           op[q] = "claim" /\ pc'[q] \in {"committed", "ok"} => q \in claimers[row'[q]]
    BY <2>2, <2>3 DEF ClaimersMatch
  <2> QED
    BY <2>4, <2>5 DEF ClaimersMatch
<1>5. CommitExclusive'
  BY DEF CommitExclusive
<1>6. Isolation = "Serializable" => UniqueClaim'
  BY DEF UniqueClaim
<1> QED
  BY <1>1, <1>2, <1>3, <1>4, <1>5, <1>6

\* The UPDATE takes a free lock; in a serializable transaction the row has not
\* been claimed since the SELECT.
LEMMA UpdateInv ==
    ASSUME TypeOK, WalletInv, NEW r \in Requests, ClaimUpdate(r)
    PROVE  WalletInv'
<1> USE SentinelAssumption
    DEF SentinelAssumption, TypeOK, WalletInv, ClaimUpdate, GoTo, table, request, progress
<1>0. row[r] \in Addresses
  BY DEF SelectedRow, StatementsMatch
<1>1. StatementsMatch'
  BY DEF StatementsMatch
<1>2. LocksMatch'
  BY <1>0 DEF LocksMatch
<1>3. SelectedRow'
  BY DEF SelectedRow
<1>4. ClaimersMatch'
  <2>1. \A a \in Addresses : \A q \in claimers[a] :
           op[q] = "claim" /\ pc'[q] \in {"committed", "ok", "failed"} /\ row[q] = a
    BY DEF ClaimersMatch
  <2>2. \A q \in Requests :
           op[q] = "claim" /\ pc'[q] \in {"committed", "ok"} => q \in claimers[row[q]]
    BY DEF ClaimersMatch
  <2> QED
    BY <2>1, <2>2 DEF ClaimersMatch
<1>5. CommitExclusive'
  BY <1>0 DEF CommitExclusive, StaleRead, Claimed
<1>6. Isolation = "Serializable" => UniqueClaim'
  BY DEF UniqueClaim
<1> QED
  BY <1>1, <1>2, <1>3, <1>4, <1>5, <1>6

\* The COMMIT of a Claim records it on the row that it alone holds.
LEMMA ClaimCommitInv ==
    ASSUME TypeOK, WalletInv, NEW r \in Requests, ClaimCommit(r)
    PROVE  WalletInv'
<1> USE SentinelAssumption
    DEF SentinelAssumption, TypeOK, WalletInv, ClaimCommit, GoTo, Unlocked, request, progress
<1>0. row[r] \in Addresses /\ op[r] = "claim"
  BY DEF SelectedRow, StatementsMatch
<1>1. StatementsMatch'
  BY <1>0 DEF StatementsMatch
<1>2. LocksMatch'
  BY DEF LocksMatch
<1>3. SelectedRow'
  BY DEF SelectedRow
<1>4. ClaimersMatch'
  BY <1>0 DEF ClaimersMatch
<1>5. CommitExclusive'
  <2> SUFFICES ASSUME NEW q \in Requests, pc'[q] = "commit"
               PROVE  /\ lock'[row'[q]] = q
                      /\ Isolation = "Serializable" => claimers'[row'[q]] = {}
    BY DEF CommitExclusive
  <2>1. q # r /\ pc[q] = "commit" /\ lock[row[q]] = q
    BY DEF CommitExclusive
  <2>2. row[q] \in Addresses /\ row[q] # row[r]
    BY <2>1 DEF CommitExclusive, SelectedRow, StatementsMatch
  <2> QED
    BY <1>0, <2>1, <2>2 DEF CommitExclusive
<1>6. Isolation = "Serializable" => UniqueClaim'
  BY <1>0 DEF UniqueClaim, CommitExclusive
<1> QED
  BY <1>1, <1>2, <1>3, <1>4, <1>5, <1>6

\* An INSERT locks an address that has no row.
LEMMA InsertInv ==
    ASSUME TypeOK, WalletInv, NEW r \in Requests, InsertRow(r)
    PROVE  WalletInv'
<1> USE SentinelAssumption
    DEF SentinelAssumption, TypeOK, WalletInv, InsertRow, Rows, table, request
<1>0. Head(todo[r]) \in Addresses
  OBVIOUS
<1>1. StatementsMatch'
  BY DEF StatementsMatch
<1>2. LocksMatch'
  <2>1. \A a \in Addresses : lock'[a] = lock[a] \/ (lock'[a] = r /\ owner[a] = NoSatellite)
    BY <1>0
  <2> QED
    BY <2>1 DEF LocksMatch
<1>3. SelectedRow'
  BY DEF SelectedRow
<1>4. ClaimersMatch'
  BY DEF ClaimersMatch
<1>5. CommitExclusive'
  BY <1>0 DEF CommitExclusive, StatementsMatch, SelectedRow
<1>6. Isolation = "Serializable" => UniqueClaim'
  BY DEF UniqueClaim
<1> QED
  BY <1>1, <1>2, <1>3, <1>4, <1>5, <1>6

\* The COMMIT of a Register adds rows for addresses that had none, which no
\* Claim can have selected.
LEMMA InsertCommitInv ==
    ASSUME TypeOK, WalletInv, NEW r \in Requests, InsertCommit(r)
    PROVE  WalletInv'
<1> USE SentinelAssumption
    DEF SentinelAssumption, TypeOK, WalletInv, InsertCommit, GoTo, Unlocked, request, progress
<1>0. \A a \in Addresses : owner[a] # NoSatellite => owner'[a] = owner[a]
  BY DEF LocksMatch
<1>1. StatementsMatch'
  BY DEF StatementsMatch
<1>2. LocksMatch'
  BY <1>0 DEF LocksMatch
<1>3. SelectedRow'
  BY <1>0 DEF SelectedRow, StatementsMatch
<1>4. ClaimersMatch'
  BY DEF ClaimersMatch, StatementsMatch
<1>5. CommitExclusive'
  BY DEF CommitExclusive, StatementsMatch, SelectedRow
<1>6. Isolation = "Serializable" => UniqueClaim'
  BY DEF UniqueClaim
<1> QED
  BY <1>1, <1>2, <1>3, <1>4, <1>5, <1>6

\* Reads and answers change the outcome of their request only.
LEMMA AnswerInv ==
    ASSUME TypeOK, WalletInv, NEW r \in Requests,
           NEW step \in {"countClaimed", "ok", "failed", "panic"},
           GoTo(r, step),
           step = "countClaimed" => op[r] = "stats",
           step = "panic" => op[r] # "claim",
           step = "ok" => op[r] # "claim" \/ pc[r] = "committed",
           pc[r] \in {"count", "countClaimed", "list", "get", "committed"},
           op[r] # "none",
           UNCHANGED <<owner, claimers, lock, op, sat, row>>
    PROVE  WalletInv'
<1> USE DEF TypeOK, WalletInv, GoTo
<1>1. StatementsMatch'
  BY DEF StatementsMatch
<1>2. LocksMatch'
  BY DEF LocksMatch
<1>3. SelectedRow'
  BY DEF SelectedRow
<1>4. ClaimersMatch'
  <2>1. \A a \in Addresses : \A q \in claimers[a] :
           op[q] = "claim" /\ pc'[q] \in {"committed", "ok", "failed"} /\ row[q] = a
    BY DEF ClaimersMatch
  <2>2. \A q \in Requests :
           op[q] = "claim" /\ pc'[q] \in {"committed", "ok"} => q \in claimers[row[q]]
    BY DEF ClaimersMatch
  <2> QED
    BY <2>1, <2>2 DEF ClaimersMatch
<1>5. CommitExclusive'
  BY DEF CommitExclusive
<1>6. Isolation = "Serializable" => UniqueClaim'
  BY DEF UniqueClaim
<1> QED
  BY <1>1, <1>2, <1>3, <1>4, <1>5, <1>6

\* Every statement, answer and failure of a request keeps the invariant.
LEMMA StepInv ==
    ASSUME TypeOK, WalletInv, NEW r \in Requests, Step(r) \/ Fault(r)
    PROVE  WalletInv'
<1> USE DEF table, request, progress
<1>1. CASE ClaimConflict(r)
  <2>1. InTransaction(r) /\ Retry(r)
    BY <1>1 DEF ClaimConflict, InTransaction, Statements
  <2> QED
    BY <2>1, RetryInv
<1>2. CASE DeadlockAbort(r)
  <2>1. InTransaction(r)
    BY <1>2 DEF DeadlockAbort, WaitCycle, Waiting, InTransaction, Statements
  <2>2. CASE Retry(r)
    BY <2>1, <2>2, RetryInv
  <2>3. CASE ~Retry(r)
    BY <1>2, <2>1, <2>3, RollbackInv DEF DeadlockAbort
  <2> QED
    BY <2>2, <2>3
<1>3. CASE Conflict(r)
  BY <1>3, RetryInv DEF Conflict
<1>4. CASE Abort(r)
  BY <1>4, RollbackInv DEF Abort
<1>5. CASE CountTotal(r)
  BY <1>5, AnswerInv DEF CountTotal, WalletInv, StatementsMatch
<1>6. CASE CountClaimed(r)
  BY <1>6, AnswerInv DEF CountClaimed, WalletInv, StatementsMatch
<1>7. CASE ListBySatellite(r)
  BY <1>7, AnswerInv DEF ListBySatellite, WalletInv, StatementsMatch
<1>8. CASE Get(r)
  BY <1>8, AnswerInv DEF Get, WalletInv, StatementsMatch
<1>9. CASE Reply(r)
  BY <1>9, AnswerInv DEF Reply, WalletInv, StatementsMatch
<1>10. CASE ReplyLost(r)
  BY <1>10, AnswerInv DEF ReplyLost, WalletInv, StatementsMatch
<1>11. CASE QueryFails(r)
  BY <1>11, AnswerInv DEF QueryFails, WalletInv, StatementsMatch
<1> QED
  BY <1>1, <1>2, <1>3, <1>4, <1>5, <1>6, <1>7, <1>8, <1>9, <1>10, <1>11,
     SelectInv, UpdateInv, ClaimCommitInv, InsertInv, InsertCommitInv DEF Step, Fault

LEMMA InitInv == Init => WalletInv
  BY SentinelAssumption
  DEF SentinelAssumption, Init, WalletInv, StatementsMatch, LocksMatch, SelectedRow,
      ClaimersMatch, CommitExclusive, UniqueClaim

LEMMA NextInv == TypeOK /\ WalletInv /\ [WiderNext]_vars => WalletInv'
<1> SUFFICES ASSUME TypeOK, WalletInv, [WiderNext]_vars PROVE WalletInv'
  OBVIOUS
<1>1. CASE \E r \in Requests : Arrives(r) \/ Step(r) \/ Fault(r)
  BY <1>1, ArriveInv, StepInv
<1>2. CASE UNCHANGED vars
  BY <1>2 DEF vars, WalletInv, StatementsMatch, LocksMatch, SelectedRow,
              ClaimersMatch, CommitExclusive, UniqueClaim
<1> QED
  BY <1>1, <1>2 DEF WiderNext, Terminated

\* The invariant holds of every interleaving of statements, conflicts and
\* failures, at either isolation level.
THEOREM Invariant == Spec => [](TypeOK /\ WalletInv)
  BY InitInv, NextInv, NextIsWider, TypeCorrect, PTL DEF Spec

-----------------------------------------------------------------------------
(* What a reader should know of.                                           *)

\* With serializable transactions no two Claims ever take the same wallet,
\* whatever is retried, aborted or registered in between (wallets.go, Claim).
THEOREM ClaimsAreUnique ==
    ASSUME Isolation = "Serializable"
    PROVE  Spec => []UniqueClaim
<1>1. WalletInv => UniqueClaim
  BY DEF WalletInv
<1> QED
  BY <1>1, Invariant, PTL

\* At either isolation level a request takes at most one wallet, however often
\* its transaction is run and whether or not its answer arrives.
THEOREM RequestsTakeOneWallet == Spec => []OneWalletPerRequest
<1>1. TypeOK /\ WalletInv => OneWalletPerRequest
  BY DEF TypeOK, WalletInv, ClaimersMatch, OneWalletPerRequest
<1> QED
  BY <1>1, Invariant, PTL

\* At either isolation level an answered Claim has durably recorded a wallet
\* of the satellite that asked.
THEOREM AnswersAreDurable == Spec => []AnsweredClaimIsDurable
<1>1. TypeOK /\ WalletInv => AnsweredClaimIsDurable
  BY DEF TypeOK, WalletInv, ClaimersMatch, SelectedRow, AnsweredClaimIsDurable
<1> QED
  BY <1>1, Invariant, PTL

-----------------------------------------------------------------------------
(* Stability and the refinement of the atomic pool.                        *)

\* The table changes only in the commits of Claims and Registers.
LEMMA TableChanges ==
    ASSUME [WiderNext]_vars
    PROVE  \/ UNCHANGED table
           \/ \E r \in Requests : ClaimCommit(r) \/ InsertCommit(r)
<1>1. CASE UNCHANGED vars
  BY <1>1 DEF vars, table
<1>2. ASSUME NEW r \in Requests, Arrives(r) PROVE UNCHANGED table
  BY <1>2, ArrivesComes
  DEF Comes, BeginClaim, BeginRegister, BeginStats, BeginList, BeginGet, Begin, table
<1>3. ASSUME NEW r \in Requests, Step(r) \/ Fault(r), ~ClaimCommit(r), ~InsertCommit(r)
      PROVE  UNCHANGED table
  BY <1>3 DEF Step, Fault, ClaimSelect, ClaimUpdate, ClaimConflict, InsertRow, DeadlockAbort,
              CountTotal, CountClaimed, ListBySatellite, Get, Reply, Conflict, Abort, ReplyLost,
              QueryFails, Retry, table
<1> QED
  BY <1>1, <1>2, <1>3 DEF WiderNext, Terminated

\* What WalletsAreStable says of a step.
Stable ==
    \A a \in Addresses :
        /\ owner[a] # NoSatellite => owner'[a] = owner[a]
        /\ claimers[a] \subseteq claimers'[a]

LEMMA StepsAreStable ==
    ASSUME TypeOK, WalletInv, [WiderNext]_vars
    PROVE  Stable
<1>1. CASE UNCHANGED table
  BY <1>1 DEF Stable, table
<1>2. ASSUME NEW r \in Requests, ClaimCommit(r) PROVE Stable
  BY <1>2 DEF Stable, ClaimCommit, TypeOK
<1>3. ASSUME NEW r \in Requests, InsertCommit(r) PROVE Stable
  BY <1>3 DEF Stable, InsertCommit, TypeOK, WalletInv, LocksMatch
<1> QED
  BY <1>1, <1>2, <1>3, TableChanges

\* A wallet keeps its satellite and stays claimed: a later batch that lists
\* the address, from any satellite, does not touch its row.
THEOREM WalletsStayStable == Spec => WalletsAreStable
<1>1. TypeOK /\ WalletInv /\ [Next]_vars => [Stable]_vars
  BY StepsAreStable, NextIsWider
<1> QED
  BY <1>1, Invariant, PTL DEF Spec, WalletsAreStable, Stable

\* With serializable transactions the statements of Claim and RegisterBatch
\* implement the atomic pool: a commit is the one step that the pool sees.
THEOREM Refinement ==
    ASSUME Isolation = "Serializable"
    PROVE  Spec => ImplementsPool
<1>1. Init => Pool!Init
  BY DEF Init, Pool!Init
<1>2. TypeOK /\ WalletInv /\ [Next]_vars => [Pool!Next]_(Pool!poolVars)
  <2> SUFFICES ASSUME TypeOK, WalletInv, [Next]_vars, ~UNCHANGED table PROVE Pool!Next
    BY DEF Pool!poolVars, table
  <2>1. ASSUME NEW r \in Requests, ClaimCommit(r) PROVE Pool!Next
    <3>1. row[r] \in Addresses /\ owner[row[r]] # NoSatellite
      BY <2>1, SentinelAssumption
      DEF SentinelAssumption, ClaimCommit, WalletInv, SelectedRow, StatementsMatch
    <3>2. claimers[row[r]] = {}
      BY <2>1 DEF ClaimCommit, WalletInv, CommitExclusive
    <3>3. \A b \in Addresses : r \notin claimers[b]
      BY <2>1 DEF ClaimCommit, WalletInv, ClaimersMatch
    <3>4. Pool!Claim(r, row[r])
      BY <2>1, <3>1, <3>2, <3>3 DEF ClaimCommit, Pool!Claim
    <3> QED
      BY <3>1, <3>4 DEF Pool!Next
  <2>2. ASSUME NEW r \in Requests, InsertCommit(r) PROVE Pool!Next
    <3> DEFINE new == {a \in Addresses : lock[a] = r}
    <3>1. \A a \in new : owner[a] = NoSatellite
      BY <2>2 DEF InsertCommit, WalletInv, LocksMatch
    <3>2. sat[r] \in Satellites
      BY <2>2 DEF InsertCommit, WalletInv, StatementsMatch
    <3>3. Pool!Register(sat[r], new)
      BY <2>2, <3>1 DEF InsertCommit, Pool!Register
    <3> QED
      BY <3>2, <3>3 DEF Pool!Next
  <2> QED
    BY <2>1, <2>2, TableChanges, NextIsWider
<1> QED
  BY <1>1, <1>2, Invariant, PTL DEF Spec, Pool!Spec, ImplementsPool

-----------------------------------------------------------------------------
(* What a request owes and has read: the second inductive invariant.       *)

\* Until its commit a Register has, for each address of its batch, a row that
\* is committed or inserted by it, or the INSERT still to do.
EachDueOrInserted ==
    \A r \in Requests : pc[r] = "insert" =>
        \A a \in Elements(batch[r]) :
            a \in Elements(todo[r]) \/ lock[a] = r \/ owner[a] # NoSatellite

\* It inserts rows for addresses of its batch only.
InsertsOfBatch ==
    \A r \in Requests : pc[r] = "insert" =>
        /\ Elements(todo[r]) \subseteq Elements(batch[r])
        /\ \A a \in Addresses : lock[a] = r => a \in Elements(batch[r])

\* A claimed column is only ever set in a row, whatever became of its request.
ClaimedHaveRows == Claimed \subseteq Rows

\* What was handed out before a list began is claimed when it reads, and has
\* been read when it is answered.
ListsSeeHandedOut ==
    \A r \in Requests : op[r] = "list" =>
        /\ pc[r] = "list" => view[r].known \subseteq RowsOf(sat[r]) \cap Claimed
        /\ pc[r] = "ok" => view[r].known \subseteq view[r].claimed

\* The two counts of a serializable GetStats are of one snapshot.
CountsMatch ==
    Isolation = "Serializable" =>
        \A r \in Requests : op[r] = "stats" /\ pc[r] \in {"countClaimed", "ok"} =>
            view[r].claimed \subseteq view[r].total

RequestInv ==
    /\ EachDueOrInserted
    /\ InsertsOfBatch
    /\ ClaimedHaveRows
    /\ ListsSeeHandedOut
    /\ CountsMatch

LEMMA ElementsOfRest ==
    ASSUME NEW s \in Seq(Addresses), s # <<>>
    PROVE  Elements(s) = {Head(s)} \cup Elements(Tail(s))
<1>1. /\ Len(s) \in Nat /\ Len(s) >= 1
      /\ Len(Tail(s)) = Len(s) - 1
      /\ Head(s) = s[1]
      /\ \A i \in 1 .. Len(s) - 1 : Tail(s)[i] = s[i + 1]
  OBVIOUS
<1>2. ASSUME NEW i \in 1 .. Len(s) PROVE s[i] \in {Head(s)} \cup Elements(Tail(s))
  <2>1. CASE i = 1
    BY <1>1, <2>1
  <2>2. CASE i # 1
    <3>1. i - 1 \in 1 .. Len(Tail(s)) /\ Tail(s)[i - 1] = s[i]
      BY <1>1, <2>2
    <3> QED
      BY <3>1 DEF Elements
  <2> QED
    BY <2>1, <2>2
<1>3. ASSUME NEW i \in 1 .. Len(Tail(s)) PROVE Tail(s)[i] \in Elements(s)
  <2>1. i + 1 \in 1 .. Len(s) /\ Tail(s)[i] = s[i + 1]
    BY <1>1
  <2> QED
    BY <2>1 DEF Elements
<1>4. Head(s) \in Elements(s)
  BY <1>1 DEF Elements
<1>5. Elements(s) \subseteq {Head(s)} \cup Elements(Tail(s))
  BY <1>2 DEF Elements
<1>6. Elements(Tail(s)) \subseteq Elements(s)
  BY <1>3 DEF Elements
<1> QED
  BY <1>4, <1>5, <1>6

LEMMA ElementsAreAddresses ==
    ASSUME NEW s \in Seq(Addresses)
    PROVE  Elements(s) \subseteq Addresses
  BY DEF Elements

\* What every arrival does, whatever arrives.
LEMMA ArrivesBegin ==
    ASSUME TypeOK, NEW r \in Requests, Arrives(r)
    PROVE  \E s \in Satellites, operation \in {"claim", "register", "stats", "list", "get"},
              step \in {"select", "insert", "count", "list", "get"} :
        /\ Begin(r, s, operation, step)
        /\ step = "insert" => todo'[r] = batch'[r]
        /\ step = "list" \/ operation = "list" => BeginList(r, s)
        /\ \A q \in Requests \ {r} :
               batch'[q] = batch[q] /\ todo'[q] = todo[q] /\ view'[q] = view[q]
<1>0. PICK s \in Satellites : Comes(r, s)
  BY ArrivesComes
<1> USE DEF TypeOK, Begin
<1>1. CASE BeginClaim(r, s)
  BY <1>1 DEF BeginClaim
<1>2. CASE \E addresses \in Seq(Addresses) : BeginRegister(r, s, addresses)
  <2>1. PICK addresses \in Seq(Addresses) : BeginRegister(r, s, addresses)
    BY <1>2
  <2>2. /\ batch' = [batch EXCEPT ![r] = addresses] /\ todo' = [todo EXCEPT ![r] = addresses]
        /\ view' = view /\ Begin(r, s, "register", "insert")
    BY <2>1 DEF BeginRegister
  <2>3. todo'[r] = batch'[r]
    BY <2>2
  <2>4. \A q \in Requests \ {r} :
           batch'[q] = batch[q] /\ todo'[q] = todo[q] /\ view'[q] = view[q]
    BY <2>2
  <2> HIDE DEF Begin
  <2> QED
    BY <2>2, <2>3, <2>4
<1>3. CASE BeginStats(r, s)
  BY <1>3 DEF BeginStats
<1>4. CASE BeginList(r, s)
  BY <1>4 DEF BeginList
<1>5. CASE \E a \in Addresses : BeginGet(r, s, a)
  BY <1>5 DEF BeginGet
<1> QED
  BY <1>0, <1>1, <1>2, <1>3, <1>4, <1>5 DEF Comes

StepsOf(r) == Arrives(r) \/ Step(r) \/ Fault(r)

\* A step of one request leaves the progress and the locks of another alone.
LEMMA OthersStay ==
    ASSUME TypeOK, NEW r \in Requests, StepsOf(r), NEW q \in Requests \ {r}
    PROVE  /\ pc'[q] = pc[q] /\ op'[q] = op[q] /\ sat'[q] = sat[q]
           /\ batch'[q] = batch[q] /\ todo'[q] = todo[q] /\ view'[q] = view[q]
           /\ \A a \in Addresses : lock'[a] = q <=> lock[a] = q
<1> USE SentinelAssumption
    DEF SentinelAssumption, TypeOK, GoTo, Unlocked, table, request, progress
<1>1. CASE Arrives(r)
  <2>1. PICK s \in Satellites, operation \in {"claim", "register", "stats", "list", "get"},
             step \in {"select", "insert", "count", "list", "get"} :
          /\ Begin(r, s, operation, step)
          /\ batch'[q] = batch[q] /\ todo'[q] = todo[q] /\ view'[q] = view[q]
    <3> HIDE DEF TypeOK, GoTo, table, request, progress
    <3> QED BY <1>1, ArrivesBegin
  <2> QED
    BY <2>1 DEF Begin
<1>2. CASE ClaimSelect(r) \/ Get(r) \/ Reply(r) \/ ReplyLost(r) \/ QueryFails(r)
  BY <1>2 DEF ClaimSelect, Get, Reply, ReplyLost, QueryFails
<1>3. CASE ClaimUpdate(r) \/ ClaimCommit(r)
  BY <1>3 DEF ClaimUpdate, ClaimCommit
<1>4. CASE InsertRow(r)
  <2>1. \A a \in Addresses : lock'[a] = lock[a] \/ (lock[a] = NoRequest /\ lock'[a] = r)
    BY <1>4 DEF InsertRow
  <2>2. todo'[q] = todo[q] /\ UNCHANGED <<pc, op, sat, batch, view>>
    BY <1>4 DEF InsertRow
  <2> QED
    BY <2>1, <2>2
<1>5. CASE InsertCommit(r) \/ Abort(r)
  BY <1>5 DEF InsertCommit, Abort
<1>6. CASE CountTotal(r) \/ CountClaimed(r) \/ ListBySatellite(r)
  BY <1>6 DEF CountTotal, CountClaimed, ListBySatellite
<1>7. CASE Retry(r)
  BY <1>7 DEF Retry
<1>8. CASE DeadlockAbort(r) /\ ~Retry(r)
  BY <1>8 DEF DeadlockAbort
<1> QED
  BY <1>1, <1>2, <1>3, <1>4, <1>5, <1>6, <1>7, <1>8
  DEF StepsOf, Step, Fault, ClaimConflict, Conflict

\* A request has its operation from its arrival on, and ends once.
LEMMA RequestsFixed ==
    ASSUME TypeOK, NEW r \in Requests, StepsOf(r)
    PROVE  /\ pc[r] \notin Outcomes
           /\ pc'[r] # "idle"
           /\ Step(r) \/ Fault(r) => UNCHANGED <<op, sat, batch>>
<1> USE DEF TypeOK, GoTo, table, request, progress, Outcomes, Statements, InTransaction,
            FirstStatement
<1>1. CASE Arrives(r) /\ ~(Step(r) \/ Fault(r))
  <2>1. PICK s \in Satellites, operation \in {"claim", "register", "stats", "list", "get"},
             step \in {"select", "insert", "count", "list", "get"} : Begin(r, s, operation, step)
    <3> HIDE DEF TypeOK, GoTo, table, request, progress, Outcomes, Statements, InTransaction,
                 FirstStatement
    <3> QED BY <1>1, ArrivesBegin
  <2> QED
    BY <1>1, <2>1 DEF Begin
<1>2. CASE ClaimSelect(r) \/ Get(r) \/ Reply(r) \/ ReplyLost(r) \/ QueryFails(r)
  BY <1>2 DEF ClaimSelect, Get, Reply, ReplyLost, QueryFails
<1>3. CASE ClaimUpdate(r) \/ ClaimCommit(r) \/ InsertRow(r) \/ InsertCommit(r) \/ Abort(r)
  BY <1>3 DEF ClaimUpdate, ClaimCommit, InsertRow, InsertCommit, Abort
<1>4. CASE CountTotal(r) \/ CountClaimed(r) \/ ListBySatellite(r)
  BY <1>4 DEF CountTotal, CountClaimed, ListBySatellite
<1>5. CASE Retry(r) /\ InTransaction(r)
  BY <1>5 DEF Retry
<1>6. CASE DeadlockAbort(r) /\ ~Retry(r)
  <2>1. pc[r] = "insert"
    BY <1>6 DEF DeadlockAbort, WaitCycle, Waiting
  <2>2. pc' = [pc EXCEPT ![r] = "failed"] /\ UNCHANGED <<op, sat, batch>>
    BY <1>6 DEF DeadlockAbort
  <2> QED
    BY <2>1, <2>2
<1>7. CASE ClaimConflict(r) \/ Conflict(r) \/ (DeadlockAbort(r) /\ Retry(r))
  <2>1. Retry(r) /\ InTransaction(r)
    BY <1>7 DEF ClaimConflict, Conflict, DeadlockAbort, WaitCycle, Waiting
  <2> QED
    BY <1>5, <2>1
<1> QED
  BY <1>1, <1>2, <1>3, <1>4, <1>6, <1>7 DEF StepsOf, Step, Fault

\* A Register that is about to insert has its whole batch before it and holds
\* no lock, or has just inserted a row of it.
LEMMA InsertsBegin ==
    ASSUME TypeOK, WalletInv, NEW r \in Requests, StepsOf(r), pc'[r] = "insert"
    PROVE  \/ InsertRow(r)
           \/ todo'[r] = batch'[r] /\ \A a \in Addresses : lock'[a] # r
<1> USE SentinelAssumption
    DEF SentinelAssumption, TypeOK, GoTo, Unlocked, table, request, progress
<1>1. CASE Arrives(r)
  <2>1. PICK s \in Satellites, operation \in {"claim", "register", "stats", "list", "get"},
             step \in {"select", "insert", "count", "list", "get"} :
          Begin(r, s, operation, step) /\ (step = "insert" => todo'[r] = batch'[r])
    <3> HIDE DEF TypeOK, GoTo, Unlocked, table, request, progress
    <3> QED BY <1>1, ArrivesBegin
  <2>2. pc[r] = "idle" /\ lock' = lock /\ step = "insert"
    BY <2>1 DEF Begin
  <2> QED
    BY <2>1, <2>2 DEF WalletInv, LocksMatch
<1>2. CASE ClaimSelect(r) \/ Get(r) \/ Reply(r) \/ ReplyLost(r) \/ QueryFails(r)
  BY <1>2 DEF ClaimSelect, Get, Reply, ReplyLost, QueryFails
<1>3. CASE ClaimUpdate(r) \/ ClaimCommit(r) \/ InsertCommit(r) \/ Abort(r)
  BY <1>3 DEF ClaimUpdate, ClaimCommit, InsertCommit, Abort
<1>4. CASE CountTotal(r) \/ CountClaimed(r) \/ ListBySatellite(r)
  BY <1>4 DEF CountTotal, CountClaimed, ListBySatellite
<1>5. CASE Retry(r)
  BY <1>5 DEF Retry
<1>6. CASE DeadlockAbort(r) /\ ~Retry(r)
  BY <1>6 DEF DeadlockAbort
<1> QED
  BY <1>1, <1>2, <1>3, <1>4, <1>5, <1>6 DEF StepsOf, Step, Fault, ClaimConflict, Conflict

LEMMA StepKeepsDue ==
    ASSUME TypeOK, TypeOK', WalletInv, Stable, EachDueOrInserted,
           NEW r \in Requests, StepsOf(r)
    PROVE  EachDueOrInserted'
<1> SUFFICES ASSUME NEW q \in Requests, pc'[q] = "insert", NEW a \in Elements(batch'[q])
             PROVE  a \in Elements(todo'[q]) \/ lock'[a] = q \/ owner'[a] # NoSatellite
  BY DEF EachDueOrInserted, Elements
<1>1. a \in Addresses
  BY ElementsAreAddresses DEF TypeOK
<1>2. owner[a] # NoSatellite => owner'[a] # NoSatellite
  BY <1>1 DEF Stable
<1>3. CASE q # r
  <2>1. /\ pc[q] = "insert" /\ batch'[q] = batch[q] /\ todo'[q] = todo[q]
        /\ lock[a] = q => lock'[a] = q
    BY <1>1, <1>3, OthersStay
  <2> QED
    BY <1>2, <2>1 DEF EachDueOrInserted
<1>4. CASE q = r /\ InsertRow(r)
  <2>1. /\ pc[r] = "insert" /\ batch' = batch
        /\ todo[r] \in Seq(Addresses) /\ todo[r] # <<>> /\ todo'[r] = Tail(todo[r])
        /\ owner' = owner
    BY <1>4 DEF InsertRow, TypeOK, table, request
  <2>2. a \in Elements(todo[r]) \/ lock[a] = r \/ owner[a] # NoSatellite
    BY <1>4, <2>1 DEF EachDueOrInserted
  <2>3. Elements(todo[r]) = {Head(todo[r])} \cup Elements(todo'[r])
    BY <2>1, ElementsOfRest
  <2>4. lock[a] = r => lock'[a] = r
    BY <1>1, <1>4 DEF InsertRow, TypeOK
  <2>5. CASE a = Head(todo[r])
    BY <1>1, <1>4, <2>1, <2>5 DEF InsertRow, Rows, TypeOK
  <2> QED
    BY <1>2, <1>4, <2>2, <2>3, <2>4, <2>5
<1>5. CASE q = r /\ todo'[r] = batch'[r]
  BY <1>5
<1> QED
  BY <1>3, <1>4, <1>5, InsertsBegin

LEMMA StepKeepsBatches ==
    ASSUME TypeOK, WalletInv, InsertsOfBatch, NEW r \in Requests, StepsOf(r)
    PROVE  InsertsOfBatch'
<1> SUFFICES ASSUME NEW q \in Requests, pc'[q] = "insert"
             PROVE  /\ Elements(todo'[q]) \subseteq Elements(batch'[q])
                    /\ \A a \in Addresses : lock'[a] = q => a \in Elements(batch'[q])
  BY DEF InsertsOfBatch, Elements
<1>1. CASE q # r
  <2>1. /\ pc[q] = "insert" /\ batch'[q] = batch[q] /\ todo'[q] = todo[q]
        /\ \A a \in Addresses : lock'[a] = q <=> lock[a] = q
    BY <1>1, OthersStay
  <2> QED
    BY <2>1 DEF InsertsOfBatch
<1>2. CASE q = r /\ InsertRow(r)
  <2>1. /\ pc[r] = "insert" /\ batch' = batch
        /\ todo[r] \in Seq(Addresses) /\ todo[r] # <<>> /\ todo'[r] = Tail(todo[r])
    BY <1>2 DEF InsertRow, TypeOK, request
  <2>2. Elements(todo[r]) = {Head(todo[r])} \cup Elements(todo'[r])
    BY <2>1, ElementsOfRest
  <2>3. \A a \in Addresses : lock'[a] = r => lock[a] = r \/ a = Head(todo[r])
    BY <1>2 DEF InsertRow, TypeOK
  <2> QED
    BY <1>2, <2>1, <2>2, <2>3 DEF InsertsOfBatch
<1>3. CASE q = r /\ todo'[r] = batch'[r] /\ \A a \in Addresses : lock'[a] # r
  BY <1>3
<1> QED
  BY <1>1, <1>2, <1>3, InsertsBegin

LEMMA StepKeepsRows ==
    ASSUME TypeOK, WalletInv, Stable, ClaimedHaveRows, [WiderNext]_vars
    PROVE  ClaimedHaveRows'
<1> USE DEF ClaimedHaveRows, Claimed, Rows
<1>1. CASE claimers' = claimers
  BY <1>1 DEF Stable
<1>2. ASSUME NEW r \in Requests, ClaimCommit(r) PROVE ClaimedHaveRows'
  <2>1. row[r] \in Addresses /\ owner[row[r]] # NoSatellite
    BY <1>2, SentinelAssumption
    DEF SentinelAssumption, ClaimCommit, WalletInv, SelectedRow, StatementsMatch
  <2> QED
    BY <1>2, <2>1 DEF ClaimCommit, TypeOK
<1> QED
  BY <1>1, <1>2, TableChanges DEF table, InsertCommit

\* What has been handed out is claimed, by the satellite that it was handed to.
LEMMA HandedOutIsClaimed ==
    ASSUME TypeOK, WalletInv, NEW s \in Satellites
    PROVE  HandedOut(s) \subseteq RowsOf(s) \cap Claimed
<1> SUFFICES ASSUME NEW a \in HandedOut(s) PROVE a \in RowsOf(s) \cap Claimed
  OBVIOUS
<1>1. PICK r \in Requests : op[r] = "claim" /\ pc[r] = "ok" /\ sat[r] = s /\ row[r] = a
  BY DEF HandedOut
<1>2. r \in claimers[a] /\ owner[a] = s /\ a \in Addresses
  BY <1>1 DEF WalletInv, ClaimersMatch, SelectedRow
<1> QED
  BY <1>2, SentinelAssumption DEF SentinelAssumption, RowsOf, Rows, Claimed

LEMMA StepKeepsLists ==
    ASSUME TypeOK, TypeOK', WalletInv, Stable, ListsSeeHandedOut,
           NEW r \in Requests, StepsOf(r)
    PROVE  ListsSeeHandedOut'
<1> SUFFICES ASSUME NEW q \in Requests, op'[q] = "list"
             PROVE  /\ pc'[q] = "list" => view'[q].known \subseteq (RowsOf(sat[q]) \cap Claimed)'
                    /\ pc'[q] = "ok" => view'[q].known \subseteq view'[q].claimed
  BY DEF ListsSeeHandedOut
<1>1. ASSUME NEW s \in Satellites \cup {NoSatellite}
      PROVE  RowsOf(s) \cap Claimed \subseteq (RowsOf(s) \cap Claimed)'
  BY DEF Stable, RowsOf, Rows, Claimed
<1> USE DEF TypeOK, GoTo, table, request, progress
<1>2. CASE q # r
  <2>1. /\ pc'[q] = pc[q] /\ op'[q] = op[q] /\ sat'[q] = sat[q] /\ view'[q] = view[q]
    BY <1>2, OthersStay
  <2> QED
    BY <1>1, <2>1 DEF ListsSeeHandedOut
<1>3. CASE q = r /\ \E s \in Satellites : BeginList(r, s)
  <2>1. PICK s \in Satellites : BeginList(r, s)
    BY <1>3
  <2>2. sat'[r] = s /\ pc'[r] = "list" /\ view'[r].known = HandedOut(s)
    BY <2>1 DEF BeginList, Begin, Views
  <2> QED
    BY <1>1, <1>3, <2>2, HandedOutIsClaimed
<1>4. CASE q = r /\ ListBySatellite(r)
  <2>1. /\ pc[r] = "list" /\ pc'[r] = "ok" /\ op[r] = "list"
        /\ view'[r].claimed = RowsOf(sat[r]) \cap Claimed /\ view'[r].known = view[r].known
    BY <1>4 DEF ListBySatellite, Views
  <2> QED
    BY <1>4, <2>1 DEF ListsSeeHandedOut
<1>5. CASE /\ q = r /\ ~ListBySatellite(r) /\ ~\E s \in Satellites : BeginList(r, s)
  <2> SUFFICES pc'[r] \notin {"list", "ok"}
    BY <1>5
  <2>1. CASE Arrives(r)
    <3>1. PICK s \in Satellites, operation \in {"claim", "register", "stats", "list", "get"},
               step \in {"select", "insert", "count", "list", "get"} :
              /\ pc' = [pc EXCEPT ![r] = step]
              /\ step = "list" => BeginList(r, s)
      BY <2>1, ArrivesBegin DEF Begin
    <3>2. step # "list"
      BY <1>5, <3>1
    <3> QED
      BY <3>1, <3>2
  <2>2. CASE ClaimSelect(r) \/ ClaimUpdate(r) \/ ClaimCommit(r) \/ InsertCommit(r)
             \/ CountTotal(r) \/ Abort(r) \/ ReplyLost(r)
    BY <2>2 DEF ClaimSelect, ClaimUpdate, ClaimCommit, InsertCommit, CountTotal, Abort, ReplyLost
  <2>3. CASE CountClaimed(r) \/ Get(r) \/ Reply(r) \/ InsertRow(r) \/ QueryFails(r)
    BY <1>5, <2>3 DEF CountClaimed, Get, Reply, InsertRow, QueryFails, WalletInv, StatementsMatch
  <2>4. CASE Retry(r)
    BY <2>4 DEF Retry, FirstStatement
  <2>5. CASE DeadlockAbort(r) /\ ~Retry(r)
    BY <2>5 DEF DeadlockAbort
  <2> QED
    BY <1>5, <2>1, <2>2, <2>3, <2>4, <2>5 DEF StepsOf, Step, Fault, ClaimConflict, Conflict
<1> QED
  BY <1>2, <1>3, <1>4, <1>5

LEMMA StepKeepsCounts ==
    ASSUME TypeOK, WalletInv, ClaimedHaveRows, CountsMatch, NEW r \in Requests, StepsOf(r)
    PROVE  CountsMatch'
<1> SUFFICES ASSUME Isolation = "Serializable",
                    NEW q \in Requests, op'[q] = "stats", pc'[q] \in {"countClaimed", "ok"}
             PROVE  view'[q].claimed \subseteq view'[q].total
  BY DEF CountsMatch
<1> USE DEF TypeOK, GoTo, table, request, progress
<1>1. CASE q # r
  BY <1>1, OthersStay DEF CountsMatch
<1>2. CASE q = r /\ CountTotal(r)
  <2>1. view'[r].claimed = Claimed /\ view'[r].total = Rows
    BY <1>2 DEF CountTotal, Views
  <2> QED
    BY <1>2, <2>1 DEF ClaimedHaveRows
<1>3. CASE q = r /\ CountClaimed(r)
  BY <1>3 DEF CountClaimed, CountsMatch
<1>4. CASE q = r /\ ~CountTotal(r) /\ ~CountClaimed(r)
  <2> SUFFICES FALSE
    OBVIOUS
  <2>1. CASE Arrives(r)
    BY <1>4, <2>1, ArrivesBegin DEF Begin
  <2>2. CASE ClaimSelect(r) \/ ClaimUpdate(r) \/ ClaimCommit(r) \/ InsertCommit(r)
             \/ Abort(r) \/ ReplyLost(r)
    BY <1>4, <2>2 DEF ClaimSelect, ClaimUpdate, ClaimCommit, InsertCommit, Abort, ReplyLost
  <2>3. CASE ListBySatellite(r) \/ Get(r) \/ Reply(r) \/ InsertRow(r) \/ QueryFails(r)
    BY <1>4, <2>3 DEF ListBySatellite, Get, Reply, InsertRow, QueryFails, WalletInv, StatementsMatch
  <2>4. CASE Retry(r)
    BY <1>4, <2>4 DEF Retry, FirstStatement
  <2>5. CASE DeadlockAbort(r) /\ ~Retry(r)
    BY <1>4, <2>5 DEF DeadlockAbort
  <2> QED
    BY <1>4, <2>1, <2>2, <2>3, <2>4, <2>5 DEF StepsOf, Step, Fault, ClaimConflict, Conflict
<1> QED
  BY <1>1, <1>2, <1>3, <1>4

LEMMA NextKeepsRequests ==
    ASSUME TypeOK, WalletInv, RequestInv, [WiderNext]_vars
    PROVE  RequestInv'
<1>1. TypeOK' /\ Stable /\ ClaimedHaveRows'
  BY NextType, StepsAreStable, StepKeepsRows DEF RequestInv
<1>2. ASSUME NEW r \in Requests, StepsOf(r) PROVE RequestInv'
  BY <1>1, <1>2, StepKeepsDue, StepKeepsLists, StepKeepsCounts, StepKeepsBatches DEF RequestInv
<1>3. CASE UNCHANGED vars
  BY <1>3 DEF vars, RequestInv, EachDueOrInserted, ClaimedHaveRows, ListsSeeHandedOut, CountsMatch,
              InsertsOfBatch, Rows, RowsOf, Claimed
<1> QED
  BY <1>2, <1>3 DEF WiderNext, StepsOf, Terminated

LEMMA InitRequests == Init => RequestInv
  BY DEF Init, RequestInv, EachDueOrInserted, ClaimedHaveRows, ListsSeeHandedOut, CountsMatch,
         InsertsOfBatch, Claimed

LEMMA RequestInvariant == Spec => [](TypeOK /\ WalletInv /\ RequestInv)
  BY InitRequests, NextKeepsRequests, NextIsWider, Invariant, PTL DEF Spec

\* A list of a satellite's wallets holds every address that was handed out to
\* it before the call, at either isolation level (ListBySatellite).
THEOREM ListsAreComplete == Spec => []ListHasHandedOut
<1>1. RequestInv => ListHasHandedOut
  BY DEF RequestInv, ListsSeeHandedOut, ListHasHandedOut
<1> QED
  BY <1>1, RequestInvariant, PTL

\* With serializable transactions GetStats never answers a negative number of
\* unclaimed wallets: its two counts are of one snapshot.
THEOREM StatsAreNotNegative ==
    ASSUME Isolation = "Serializable", IsFiniteSet(Addresses)
    PROVE  Spec => []StatsNotNegative
<1>1. TypeOK /\ RequestInv => StatsNotNegative
  <2> SUFFICES ASSUME TypeOK, RequestInv, NEW r \in Requests, op[r] = "stats", pc[r] = "ok"
               PROVE  Cardinality(view[r].claimed) <= Cardinality(view[r].total)
    BY DEF StatsNotNegative
  <2>1. view[r].claimed \subseteq view[r].total /\ view[r].total \subseteq Addresses
    BY DEF TypeOK, Views, RequestInv, CountsMatch
  <2>2. IsFiniteSet(view[r].total)
    BY <2>1, FS_Subset
  <2> QED
    BY <2>1, <2>2, FS_Subset
<1> QED
  BY <1>1, RequestInvariant, PTL

\* A step in which all of a batch has a row.
RegistersBatch(r) ==
    /\ pc[r] = "insert"
    /\ \A a \in Elements(batch[r]) : owner'[a] # NoSatellite
    /\ \A a \in Addresses :
           owner'[a] # owner[a] => a \in Elements(batch[r]) /\ owner'[a] = sat[r]

LEMMA BatchesCommitWhole ==
    ASSUME TypeOK, WalletInv, RequestInv, [WiderNext]_vars, owner' # owner
    PROVE  \E r \in Requests : RegistersBatch(r)
<1>1. PICK r \in Requests : InsertCommit(r)
  BY TableChanges DEF table, ClaimCommit
<1>2. /\ pc[r] = "insert" /\ todo[r] = <<>> /\ sat[r] # NoSatellite
      /\ \A a \in Addresses : owner'[a] = IF lock[a] = r THEN sat[r] ELSE owner[a]
  BY <1>1, SentinelAssumption DEF SentinelAssumption, InsertCommit, WalletInv, StatementsMatch
<1>3. ASSUME NEW a \in Elements(batch[r]) PROVE owner'[a] # NoSatellite
  <2>1. a \in Addresses
    BY ElementsAreAddresses DEF TypeOK
  <2>2. Elements(todo[r]) = {}
    BY <1>2 DEF Elements
  <2>3. lock[a] = r \/ owner[a] # NoSatellite
    BY <1>2, <2>2 DEF RequestInv, EachDueOrInserted
  <2> QED
    BY <1>2, <2>1, <2>3
<1>4. ASSUME NEW a \in Addresses, owner'[a] # owner[a]
      PROVE  a \in Elements(batch[r]) /\ owner'[a] = sat[r]
  BY <1>2, <1>4 DEF RequestInv, InsertsOfBatch
<1> QED
  BY <1>2, <1>3, <1>4 DEF RegistersBatch

\* Rows appear a batch at a time: no failure, conflict or concurrent batch
\* leaves one half registered (InsertBatch in one transaction).
THEOREM BatchesAreAtomic == Spec => BatchIsAtomic
<1>1. TypeOK /\ WalletInv /\ RequestInv /\ [Next]_vars
          => [owner' # owner => \E r \in Requests : RegistersBatch(r)]_vars
  BY BatchesCommitWhole, NextIsWider
<1> QED
  BY <1>1, RequestInvariant, PTL DEF Spec, BatchIsAtomic, RegistersBatch

=============================================================================
