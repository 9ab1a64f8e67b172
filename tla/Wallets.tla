------------------------------- MODULE Wallets -------------------------------
(***************************************************************************)
(* The wallets table and the transactions that the API requests run on it: *)
(* storjscandb/wallets.go, called by wallets/service.go and                *)
(* wallets/endpoint.go.  A request is one HTTP call; it is one transaction *)
(* (private dbx WithTx, which begins, runs the closure, and commits or     *)
(* rolls back) followed by its answer.  Every SQL statement is one step,   *)
(* and the steps of concurrent requests interleave.                        *)
(*                                                                         *)
(* A row is never deleted, so ErrUpdateWallet (the UPDATE found no row) is *)
(* unreachable and has no action.  Insert is InsertBatch of one address.   *)
(*                                                                         *)
(* A definition whose comment begins with "Mistake" is no part of the      *)
(* specification: it is the definition after it as a plausible error in    *)
(* the code would make it, kept to see which property notices.             *)
(***************************************************************************)
EXTENDS Naturals, Sequences, FiniteSets

CONSTANTS
    Satellites,   \* the satellites that share one storjscan
    Addresses,    \* deposit addresses
    Requests,     \* API requests, each identified for its whole life
    Batches,      \* the address lists that Register requests carry
    Ops,          \* the operations that clients call in this instance
    Isolation,    \* the isolation level of the database's transactions
    MaxAttempts,  \* runs of one transaction before its error is returned
    NoSatellite,  \* owner of an address that has no row
    NoRequest,    \* holder of a free lock
    NoAddress     \* row of a request that has selected none

ASSUME SentinelAssumption ==
    /\ NoSatellite \notin Satellites
    /\ NoRequest \notin Requests
    /\ NoAddress \notin Addresses
ASSUME BatchesAssumption == Batches \subseteq Seq(Addresses)
ASSUME IsolationAssumption == Isolation \in {"ReadCommitted", "Serializable"}
ASSUME MaxAttemptsAssumption == MaxAttempts \in Nat \ {0}

VARIABLES
    owner,     \* committed rows: the satellite of each address
    claimers,  \* committed claimed columns: the requests that have set them
    lock,      \* uncommitted INSERT or UPDATE of the row, by request
    pc,        \* the statement that each request executes next, or its outcome
    op,        \* the operation of each request
    sat,       \* the satellite that made the request
    row,       \* the row selected by a Claim, or asked for by a Get
    batch,     \* the addresses of a Register
    todo,      \* the rest of the batch in this run of the transaction
    attempts,  \* runs of the transaction so far
    view       \* what a GetStats or a ListBySatellite has read

table    == <<owner, claimers>>
request  == <<op, sat, batch>>
progress == <<row, todo, attempts, view>>
vars     == <<owner, claimers, lock, pc, op, sat, row, batch, todo, attempts, view>>

Statements == {"select", "update", "commit", "insert", "count", "countClaimed"}
Outcomes   == {"ok", "failed", "noWallets", "panic"}
Views      == [total   : SUBSET Addresses,   \* counted by the first statement
               claimed : SUBSET Addresses,   \* counted or listed as claimed
               known   : SUBSET Addresses]   \* handed out before the call began

NoView == [total |-> {}, claimed |-> {}, known |-> {}]

\* One type invariant: what each column and each local variable may hold.
TypeOK ==
    /\ owner    \in [Addresses -> Satellites \cup {NoSatellite}]
    /\ claimers \in [Addresses -> SUBSET Requests]
    /\ lock     \in [Addresses -> Requests \cup {NoRequest}]
    /\ pc       \in [Requests -> Statements \cup Outcomes \cup {"idle", "get", "list", "committed"}]
    /\ op       \in [Requests -> {"none", "claim", "register", "stats", "list", "get"}]
    /\ sat      \in [Requests -> Satellites \cup {NoSatellite}]
    /\ row      \in [Requests -> Addresses \cup {NoAddress}]
    /\ batch    \in [Requests -> Seq(Addresses)]
    /\ todo     \in [Requests -> Seq(Addresses)]
    /\ attempts \in [Requests -> 0 .. MaxAttempts]
    /\ view     \in [Requests -> Views]

-----------------------------------------------------------------------------
Rows    == {a \in Addresses : owner[a] # NoSatellite}
Claimed == {a \in Addresses : claimers[a] # {}}

RowsOf(s)      == {a \in Rows : owner[a] = s}
\* Mistake: the SELECT of a Claim forgets the satellite.
UnclaimedOfAnyone(s) == Rows \ Claimed

UnclaimedOf(s) == RowsOf(s) \ Claimed

\* The addresses that answered Claims have handed to satellite s.
HandedOut(s) ==
    {a \in Addresses : \E r \in Requests :
        op[r] = "claim" /\ pc[r] = "ok" /\ sat[r] = s /\ row[r] = a}

InTransaction(r) == pc[r] \in Statements

Unlocked(r) == [a \in Addresses |-> IF lock[a] = r THEN NoRequest ELSE lock[a]]

GoTo(r, step) == pc' = [pc EXCEPT ![r] = step]

\* The statement at which the closure given to WithTx begins.
FirstStatement(r) ==
    CASE op[r] = "claim"    -> "select"
      [] op[r] = "register" -> "insert"
      [] OTHER              -> "count"

Init ==
    /\ owner    = [a \in Addresses |-> NoSatellite]
    /\ claimers = [a \in Addresses |-> {}]
    /\ lock     = [a \in Addresses |-> NoRequest]
    /\ pc       = [r \in Requests |-> "idle"]
    /\ op       = [r \in Requests |-> "none"]
    /\ sat      = [r \in Requests |-> NoSatellite]
    /\ row      = [r \in Requests |-> NoAddress]
    /\ batch    = [r \in Requests |-> <<>>]
    /\ todo     = [r \in Requests |-> <<>>]
    /\ attempts = [r \in Requests |-> 0]
    /\ view     = [r \in Requests |-> NoView]

-----------------------------------------------------------------------------
(* Requests arrive.                                                        *)

Begin(r, s, operation, step) ==
    /\ pc[r] = "idle"
    /\ operation \in Ops
    /\ op' = [op EXCEPT ![r] = operation]
    /\ sat' = [sat EXCEPT ![r] = s]
    /\ GoTo(r, step)
    /\ UNCHANGED <<table, lock>>

BeginClaim(r, s) ==
    /\ Begin(r, s, "claim", "select")
    /\ attempts' = [attempts EXCEPT ![r] = 1]
    /\ UNCHANGED <<row, batch, todo, view>>

BeginRegister(r, s, addresses) ==
    /\ Begin(r, s, "register", "insert")
    /\ batch' = [batch EXCEPT ![r] = addresses]
    /\ todo' = [todo EXCEPT ![r] = addresses]
    /\ attempts' = [attempts EXCEPT ![r] = 1]
    /\ UNCHANGED <<row, view>>

BeginStats(r, s) ==
    /\ Begin(r, s, "stats", "count")
    /\ attempts' = [attempts EXCEPT ![r] = 1]
    /\ UNCHANGED <<row, batch, todo, view>>

BeginList(r, s) ==
    /\ Begin(r, s, "list", "list")
    /\ view' = [view EXCEPT ![r].known = HandedOut(s)]
    /\ UNCHANGED <<row, batch, todo, attempts>>

BeginGet(r, s, a) ==
    /\ Begin(r, s, "get", "get")
    /\ row' = [row EXCEPT ![r] = a]
    /\ UNCHANGED <<batch, todo, attempts, view>>

-----------------------------------------------------------------------------
(* Claim: SELECT the first unclaimed row, UPDATE it by id, COMMIT.         *)

\* The SELECT has no ORDER BY and takes no lock: any committed unclaimed row.
ClaimSelect(r) ==
    /\ pc[r] = "select"
    /\ \/ \E a \in UnclaimedOf(sat[r]) :
            /\ row' = [row EXCEPT ![r] = a]
            /\ GoTo(r, "update")
       \/ /\ UnclaimedOf(sat[r]) = {}
          /\ GoTo(r, "noWallets")
          /\ UNCHANGED row
    /\ UNCHANGED <<table, lock, request, todo, attempts, view>>

\* Mistake: an UPDATE that never fails for what changed since the SELECT.
NeverStale(r) == FALSE

\* A serializable transaction may not update a row that has been changed since
\* it was read; under READ COMMITTED the UPDATE tests the id alone.
StaleRead(r) == Isolation = "Serializable" /\ row[r] \in Claimed

\* Mistake: the UPDATE does not wait for another transaction's.
ClaimUpdateUnlocked(r) ==
    /\ pc[r] = "update"
    /\ ~StaleRead(r)
    /\ lock' = [lock EXCEPT ![row[r]] = r]
    /\ GoTo(r, "commit")
    /\ UNCHANGED <<table, request, progress>>

\* Mistake: the Claim is answered before its transaction has committed.
ClaimUpdateAnswered(r) ==
    /\ pc[r] = "update"
    /\ lock[row[r]] = NoRequest
    /\ ~StaleRead(r)
    /\ GoTo(r, "committed")
    /\ UNCHANGED <<table, lock, request, progress>>

\* The UPDATE waits for the lock of a row that another transaction has updated.
ClaimUpdate(r) ==
    /\ pc[r] = "update"
    /\ lock[row[r]] = NoRequest
    /\ ~StaleRead(r)
    /\ lock' = [lock EXCEPT ![row[r]] = r]
    /\ GoTo(r, "commit")
    /\ UNCHANGED <<table, request, progress>>

ClaimCommit(r) ==
    /\ pc[r] = "commit"
    /\ claimers' = [claimers EXCEPT ![row[r]] = @ \cup {r}]
    /\ lock' = Unlocked(r)
    /\ GoTo(r, "committed")
    /\ UNCHANGED <<owner, request, progress>>

-----------------------------------------------------------------------------
(* Register: one INSERT ... ON CONFLICT DO NOTHING for each address.       *)

\* Mistake: ON CONFLICT DO UPDATE, which takes over the row of another owner.
InsertRowUpsert(r) ==
    /\ pc[r] = "insert"
    /\ todo[r] # <<>>
    /\ lock[Head(todo[r])] \in {NoRequest, r}
    /\ lock' = [lock EXCEPT ![Head(todo[r])] = r]
    /\ todo' = [todo EXCEPT ![r] = Tail(@)]
    /\ UNCHANGED <<table, pc, request, row, attempts, view>>

\* Mistake: each INSERT commits by itself.
InsertRowAutocommit(r) ==
    /\ pc[r] = "insert"
    /\ todo[r] # <<>>
    /\ owner' = [owner EXCEPT ![Head(todo[r])] = IF @ = NoSatellite THEN sat[r] ELSE @]
    /\ todo' = [todo EXCEPT ![r] = Tail(@)]
    /\ UNCHANGED <<claimers, lock, pc, request, row, attempts, view>>

\* The unique index on the address ignores an address that has a row already,
\* in the table or in this transaction, and waits for another's uncommitted one.
InsertRow(r) ==
    /\ pc[r] = "insert"
    /\ todo[r] # <<>>
    /\ LET a == Head(todo[r])
       IN  \/ (a \in Rows \/ lock[a] = r) /\ UNCHANGED lock
           \/ /\ a \notin Rows
              /\ lock[a] = NoRequest
              /\ lock' = [lock EXCEPT ![a] = r]
    /\ todo' = [todo EXCEPT ![r] = Tail(@)]
    /\ UNCHANGED <<table, pc, request, row, attempts, view>>

\* Mistake: the loop over the batch ends before its last address.
InsertCommitEarly(r) ==
    /\ pc[r] = "insert"
    /\ Len(todo[r]) <= 1
    /\ owner' = [a \in Addresses |-> IF lock[a] = r THEN sat[r] ELSE owner[a]]
    /\ lock' = Unlocked(r)
    /\ GoTo(r, "committed")
    /\ UNCHANGED <<claimers, request, progress>>

\* Mistake: the address and the satellite of the new row are swapped.
InsertCommitSwapped(r) ==
    /\ pc[r] = "insert"
    /\ todo[r] = <<>>
    /\ owner' = [a \in Addresses |-> IF lock[a] = r THEN a ELSE owner[a]]
    /\ lock' = Unlocked(r)
    /\ GoTo(r, "committed")
    /\ UNCHANGED <<claimers, request, progress>>

\* Mistake: the call returns without ending its transaction.
InsertCommitUnended(r) ==
    /\ pc[r] = "insert"
    /\ todo[r] = <<>>
    /\ GoTo(r, "committed")
    /\ UNCHANGED <<table, lock, request, progress>>

InsertCommit(r) ==
    /\ pc[r] = "insert"
    /\ todo[r] = <<>>
    /\ owner' = [a \in Addresses |-> IF lock[a] = r THEN sat[r] ELSE owner[a]]
    /\ lock' = Unlocked(r)
    /\ GoTo(r, "committed")
    /\ UNCHANGED <<claimers, request, progress>>

-----------------------------------------------------------------------------
(* The reads.                                                              *)

CountTotal(r) ==
    /\ pc[r] = "count"
    /\ view' = [view EXCEPT ![r].total = Rows, ![r].claimed = Claimed]
    /\ GoTo(r, "countClaimed")
    /\ UNCHANGED <<table, lock, request, row, todo, attempts>>

\* Mistake: the two counts are not in one transaction.
CountClaimedLater(r) ==
    /\ pc[r] = "countClaimed"
    /\ view' = [view EXCEPT ![r].claimed = Claimed]
    /\ GoTo(r, "ok")
    /\ UNCHANGED <<table, lock, request, row, todo, attempts>>

\* Under READ COMMITTED each statement has a snapshot of its own.
CountClaimed(r) ==
    /\ pc[r] = "countClaimed"
    /\ \/ Isolation = "Serializable" /\ UNCHANGED view
       \/ Isolation = "ReadCommitted" /\ view' = [view EXCEPT ![r].claimed = Claimed]
    /\ GoTo(r, "ok")
    /\ UNCHANGED <<table, lock, request, row, todo, attempts>>

\* Mistake: the list selects the rows whose claimed column is NULL.
ListUnclaimed(r) ==
    /\ pc[r] = "list"
    /\ view' = [view EXCEPT ![r].claimed = UnclaimedOf(sat[r])]
    /\ GoTo(r, "ok")
    /\ UNCHANGED <<table, lock, request, row, todo, attempts>>

ListBySatellite(r) ==
    /\ pc[r] = "list"
    /\ view' = [view EXCEPT ![r].claimed = RowsOf(sat[r]) \cap Claimed]
    /\ GoTo(r, "ok")
    /\ UNCHANGED <<table, lock, request, row, todo, attempts>>

\* Get dereferences the claimed column, which is NULL for an unclaimed wallet.  No
\* HTTP handler calls it, nor GetStats: they are called by the tests.
Get(r) ==
    /\ pc[r] = "get"
    /\ \/ row[r] \in RowsOf(sat[r]) \cap Claimed /\ GoTo(r, "ok")
       \/ row[r] \in UnclaimedOf(sat[r]) /\ GoTo(r, "panic")
       \/ row[r] \notin RowsOf(sat[r]) /\ GoTo(r, "failed")
    /\ UNCHANGED <<table, lock, request, progress>>

-----------------------------------------------------------------------------
(* Answers, conflicts and failures.                                        *)

\* The handler writes its response after the commit; the client may have gone.
Reply(r) ==
    /\ pc[r] = "committed"
    /\ GoTo(r, "ok")
    /\ UNCHANGED <<table, lock, request, progress>>

\* Mistake: a commit whose acknowledgement is lost is run again.
ReplyLostRetried(r) ==
    /\ pc[r] = "committed"
    /\ attempts[r] < MaxAttempts
    /\ attempts' = [attempts EXCEPT ![r] = @ + 1]
    /\ todo' = [todo EXCEPT ![r] = batch[r]]
    /\ GoTo(r, FirstStatement(r))
    /\ UNCHANGED <<table, lock, request, row, view>>

\* Mistake: a wallet whose answer is lost goes back to the pool.
ReplyLostUnclaims(r) ==
    /\ pc[r] = "committed"
    /\ GoTo(r, "failed")
    /\ claimers' = [a \in Addresses |-> claimers[a] \ {r}]
    /\ UNCHANGED <<owner, lock, request, progress>>

ReplyLost(r) ==
    /\ pc[r] = "committed"
    /\ GoTo(r, "failed")
    /\ UNCHANGED <<table, lock, request, progress>>

\* A transaction that ended in a serialization failure is rolled back and run
\* again from its first statement, at most MaxAttempts times.
Retry(r) ==
    /\ lock' = Unlocked(r)
    /\ IF attempts[r] < MaxAttempts
       THEN /\ attempts' = [attempts EXCEPT ![r] = @ + 1]
            /\ todo' = [todo EXCEPT ![r] = batch[r]]
            /\ GoTo(r, FirstStatement(r))
       ELSE GoTo(r, "failed") /\ UNCHANGED <<attempts, todo>>
    /\ UNCHANGED <<table, request, row, view>>

\* The update of a row that was claimed after it had been read.
ClaimConflict(r) ==
    /\ pc[r] = "update"
    /\ lock[row[r]] = NoRequest
    /\ StaleRead(r)
    /\ Retry(r)

\* A serializable database may end any transaction with that error.
Conflict(r) ==
    /\ Isolation = "Serializable"
    /\ InTransaction(r)
    /\ Retry(r)

Waiting(r) ==
    /\ pc[r] = "insert"
    /\ todo[r] # <<>>
    /\ Head(todo[r]) \notin Rows
    /\ lock[Head(todo[r])] \notin {NoRequest, r}

Blocker(r) == lock[Head(todo[r])]

WaitCycle(cycle) ==
    /\ \A r \in cycle : Waiting(r)
    /\ cycle = {Blocker(r) : r \in cycle}

\* The database breaks a cycle of waits: one transaction of it is rolled back,
\* with an error that a serializable database classifies as retryable.
DeadlockAbort(r) ==
    /\ \E cycle \in SUBSET Requests : r \in cycle /\ WaitCycle(cycle)
    /\ IF Isolation = "Serializable"
       THEN Retry(r)
       ELSE /\ lock' = Unlocked(r)
            /\ GoTo(r, "failed")
            /\ UNCHANGED <<table, request, progress>>

\* The connection, the process or the client's context ends: rolled back.
Abort(r) ==
    /\ InTransaction(r)
    /\ lock' = Unlocked(r)
    /\ GoTo(r, "failed")
    /\ UNCHANGED <<table, request, progress>>

\* The database fails the one query of a ListBySatellite or of a Get.
QueryFails(r) ==
    /\ pc[r] \in {"list", "get"}
    /\ GoTo(r, "failed")
    /\ UNCHANGED <<table, lock, request, progress>>

-----------------------------------------------------------------------------
Arrive(r) ==
    \E s \in Satellites :
        \/ BeginClaim(r, s)
        \/ \E addresses \in Batches : BeginRegister(r, s, addresses)
        \/ BeginStats(r, s)
        \/ BeginList(r, s)
        \/ \E a \in Addresses : BeginGet(r, s, a)

\* The steps that the server and the database owe to a request.
Step(r) ==
    \/ ClaimSelect(r) \/ ClaimUpdate(r) \/ ClaimCommit(r) \/ ClaimConflict(r)
    \/ InsertRow(r) \/ InsertCommit(r) \/ DeadlockAbort(r)
    \/ CountTotal(r) \/ CountClaimed(r)
    \/ ListBySatellite(r) \/ Get(r)
    \/ Reply(r)

Fault(r) == Conflict(r) \/ Abort(r) \/ ReplyLost(r) \/ QueryFails(r)

\* Every request has been answered: the instance ends here.
Terminated ==
    /\ \A r \in Requests : pc[r] \in Outcomes
    /\ UNCHANGED vars

Next == (\E r \in Requests : Arrive(r) \/ Step(r) \/ Fault(r)) \/ Terminated

Spec == Init /\ [][Next]_vars

FairSpec == Spec /\ \A r \in Requests : WF_vars(Step(r))

-----------------------------------------------------------------------------
(* Properties.                                                             *)

\* Claim hands a deposit address to one request only: no two transactions
\* ever set the claimed column of the same row (wallets.go, Claim).
UniqueClaim ==
    \A a \in Addresses : \A q, r \in claimers[a] : q = r

\* A Claim that is retried, or whose answer is lost, still takes one wallet at
\* most (WithTx runs the closure of Claim again only after a rollback).
OneWalletPerRequest ==
    \A r \in Requests : \A a, b \in Addresses :
        r \in claimers[a] /\ r \in claimers[b] => a = b

\* An address is handed out only after its claim is durable, and only to the
\* satellite that registered it (Claim selects by satellite and answers after
\* the commit).
AnsweredClaimIsDurable ==
    \A r \in Requests :
        op[r] = "claim" /\ pc[r] = "ok" => r \in claimers[row[r]] /\ owner[row[r]] = sat[r]

\* A list of a satellite's wallets holds every address that was handed out to
\* it before the call: no claimed wallet is left out of a payments scan.
ListHasHandedOut ==
    \A r \in Requests : op[r] = "list" /\ pc[r] = "ok" => view[r].known \subseteq view[r].claimed

\* GetStats never counts more claimed wallets than wallets: UnclaimedCount,
\* their difference, is not negative.
StatsNotNegative ==
    \A r \in Requests :
        op[r] = "stats" /\ pc[r] = "ok" => Cardinality(view[r].claimed) <= Cardinality(view[r].total)

\* A wallet never changes its satellite and never becomes unclaimed, whatever
\* later batches say about its address (ON CONFLICT DO NOTHING).
WalletsAreStable ==
    [][\A a \in Addresses :
         /\ owner[a] # NoSatellite => owner'[a] = owner[a]
         /\ claimers[a] \subseteq claimers'[a]]_vars

\* All the addresses of a batch.
Elements(s) == {s[i] : i \in 1 .. Len(s)}

\* A batch is registered as a whole: the rows that appear in a step are of the
\* batch of one request, for its satellite, and after that step every address of
\* the batch has a row (InsertBatch in one transaction).
BatchIsAtomic ==
    [][owner' # owner =>
         \E r \in Requests :
             /\ pc[r] = "insert"
             /\ \A a \in Elements(batch[r]) : owner'[a] # NoSatellite
             /\ \A a \in Addresses :
                    owner'[a] # owner[a] => a \in Elements(batch[r]) /\ owner'[a] = sat[r]]_vars

\* Every request is answered in the end, although batches in different orders
\* wait for each other and transactions are run again.
EveryRequestEnds ==
    \A r \in Requests : (pc[r] # "idle") ~> (pc[r] \in Outcomes)

-----------------------------------------------------------------------------
(* The inductive invariant behind the safety properties.                   *)

\* Each statement belongs to the transaction of its operation.
StatementsMatch ==
    \A r \in Requests :
        /\ pc[r] \in {"select", "update", "commit"} => op[r] = "claim"
        /\ pc[r] = "insert" => op[r] = "register"
        /\ pc[r] \in {"count", "countClaimed"} => op[r] = "stats"
        /\ pc[r] = "list" => op[r] = "list"
        /\ pc[r] = "get" => op[r] = "get"
        /\ pc[r] = "committed" => op[r] \in {"claim", "register"}
        /\ pc[r] \in {"ok", "failed"} => op[r] # "none"
        /\ pc[r] # "idle" => sat[r] \in Satellites

\* A lock is held by a Claim about to commit its row, or by a Register for an
\* address that has no committed row.
LocksMatch ==
    \A a \in Addresses, r \in Requests : lock[a] = r =>
        \/ pc[r] = "commit" /\ row[r] = a
        \/ pc[r] = "insert" /\ owner[a] = NoSatellite

\* From its SELECT on, a Claim has a row of its satellite.
SelectedRow ==
    \A r \in Requests :
        op[r] = "claim" /\ pc[r] \in {"update", "commit", "committed", "ok"} =>
            row[r] \in Addresses /\ owner[row[r]] = sat[r]

\* Claimed columns are written by the commits of Claims, each for its own row.
ClaimersMatch ==
    /\ \A a \in Addresses : \A r \in claimers[a] :
           op[r] = "claim" /\ pc[r] \in {"committed", "ok", "failed"} /\ row[r] = a
    /\ \A r \in Requests :
           op[r] = "claim" /\ pc[r] \in {"committed", "ok"} => r \in claimers[row[r]]

\* A Claim about to commit holds its row, which nobody has claimed before.
CommitExclusive ==
    \A r \in Requests : pc[r] = "commit" =>
        /\ lock[row[r]] = r
        /\ Isolation = "Serializable" => claimers[row[r]] = {}

WalletInv ==
    /\ StatementsMatch
    /\ LocksMatch
    /\ SelectedRow
    /\ ClaimersMatch
    /\ CommitExclusive
    /\ Isolation = "Serializable" => UniqueClaim

-----------------------------------------------------------------------------
\* The transactions implement the atomic pool.
Pool == INSTANCE WalletPool

ImplementsPool == Pool!Spec

=============================================================================
