---------------------------- MODULE HeadersCache ----------------------------
(***************************************************************************)
(* The cache of block headers: blockchain/headers.go (Get), its table      *)
(* block_headers (storjscandb/headers.go), and the chore that removes old  *)
(* headers (blockchain/cleanup/chore.go).  Requests that need the header   *)
(* of the same block run concurrently; each SQL statement and each call to *)
(* a node is a step.                                                       *)
(*                                                                         *)
(* A node answers for a hash with the same header every time, so a header  *)
(* is named by its chain and hash, and a row is such a name.               *)
(*                                                                         *)
(* The generated queries run a SELECT or an INSERT again when the database *)
(* has failed it with a code that says to do so, if the database is        *)
(* CockroachDB (storjscandb/dbx).                                          *)
(*                                                                         *)
(* A definition whose comment begins with "Mistake" is the definition      *)
(* after it as a plausible error in the code would make it; no             *)
(* specification uses it.                                                  *)
(***************************************************************************)
EXTENDS Naturals

CONSTANTS
    Requests,      \* concurrent calls of Get, each made again when it fails
    Chains,        \* chain identifiers
    Hashes,        \* block hashes, which two chains may share
    timestampOf,   \* the timestamp of each block
    MaxTime,       \* bound: the last time before which headers are removed
    MaxFaults      \* bound: errors of nodes and of the database

Blocks == Chains \X Hashes

Dialects == {"pgx", "pgxcockroach"}

ASSUME HeadersAssumption ==
    /\ MaxTime \in Nat
    /\ MaxFaults \in Nat
    /\ timestampOf \in [Blocks -> 0 .. MaxTime]

VARIABLES
    dialect,  \* the driver of the database
    rows,     \* block_headers: the cached blocks
    before,   \* the time before which headers have been removed
    deleted,  \* history: the blocks that have been deleted by their hash
    faults,   \* errors so far
    pc,       \* the next step of each Get
    block,    \* the block whose header it wants
    faulted   \* history: a node or the database has failed the Get

table == <<rows, before, deleted>>
vars  == <<dialect, table, faults, pc, block, faulted>>

\* One type invariant: the table holds blocks, and every Get is at a step of it.
TypeOK ==
    /\ dialect \in Dialects
    /\ rows \subseteq Blocks
    /\ deleted \subseteq Blocks
    /\ before \in 0 .. MaxTime
    /\ faults \in 0 .. MaxFaults
    /\ pc \in [Requests -> {"idle", "lookup", "fetch", "insert", "ok", "failed"}]
    /\ block \in [Requests -> Blocks]
    /\ faulted \in [Requests -> BOOLEAN]

Init ==
    /\ dialect \in Dialects
    /\ rows = {}
    /\ before = 0
    /\ deleted = {}
    /\ faults = 0
    /\ pc = [r \in Requests |-> "idle"]
    /\ block \in [Requests -> Blocks]
    /\ faulted = [r \in Requests |-> FALSE]

GoTo(r, step) == pc' = [pc EXCEPT ![r] = step]

-----------------------------------------------------------------------------
\* A call of Get, or another one after it has failed.
Begin(r) ==
    /\ pc[r] \in {"idle", "failed"}
    /\ GoTo(r, "lookup")
    /\ faulted' = [faulted EXCEPT ![r] = FALSE]
    /\ UNCHANGED <<dialect, table, faults, block>>

\* The SELECT by chain and hash.
Lookup(r) ==
    /\ pc[r] = "lookup"
    /\ \/ block[r] \in rows /\ GoTo(r, "ok")
       \/ block[r] \notin rows /\ GoTo(r, "fetch")
    /\ UNCHANGED <<dialect, table, faults, block, faulted>>

HeaderByHash(r) ==
    /\ pc[r] = "fetch"
    /\ GoTo(r, "insert")
    /\ UNCHANGED <<dialect, table, faults, block, faulted>>

\* Mistake: the primary key is the hash alone.
InsertByHash(r) ==
    /\ pc[r] = "insert"
    /\ \/ /\ \A b \in rows : b[2] # block[r][2]
          /\ rows' = rows \cup {block[r]}
          /\ GoTo(r, "ok")
       \/ /\ \E b \in rows : b[2] = block[r][2]
          /\ GoTo(r, "failed")
          /\ UNCHANGED rows
    /\ UNCHANGED <<dialect, before, deleted, faults, block, faulted>>

\* Mistake: the row does not say its chain.
InsertWithoutChain(r) ==
    /\ pc[r] = "insert"
    /\ rows' = rows \cup {block[r][2]}
    /\ GoTo(r, "ok")
    /\ UNCHANGED <<dialect, before, deleted, faults, block, faulted>>

\* A plain INSERT: the primary key refuses a second row of the same block, and
\* Get returns that error, not the header it has in hand.
Insert(r) ==
    /\ pc[r] = "insert"
    /\ \/ block[r] \notin rows /\ rows' = rows \cup {block[r]} /\ GoTo(r, "ok")
       \/ block[r] \in rows /\ GoTo(r, "failed") /\ UNCHANGED rows
    /\ UNCHANGED <<dialect, before, deleted, faults, block, faulted>>

\* A fault of a node or the database, within the bound.
Fault ==
    /\ faults < MaxFaults
    /\ faults' = faults + 1

\* A call fails for good, or its answer is lost: an INSERT may have been applied.
Fail(r) ==
    /\ Fault
    /\ pc[r] \in {"lookup", "fetch", "insert"}
    /\ \/ UNCHANGED rows
       \/ pc[r] = "insert" /\ rows' = rows \cup {block[r]}
    /\ faulted' = [faulted EXCEPT ![r] = TRUE]
    /\ GoTo(r, "failed")
    /\ UNCHANGED <<dialect, before, deleted, block>>

\* Mistake: statements are run again on PostgreSQL and not on CockroachDB.
ShouldRetryOnPostgres == dialect = "pgx"

\* Only CockroachDB's errors are met with another try.
ShouldRetry == dialect = "pgxcockroach"

\* The database rolls a SELECT or an INSERT back, because of a conflict with
\* another one or because it shuts down.  The row that the query returns runs
\* it again, or the Get fails.
Scan(r) ==
    /\ Fault
    /\ pc[r] \in {"lookup", "insert"}
    /\ \/ ShouldRetry /\ UNCHANGED <<pc, faulted>>
       \/ /\ ~ShouldRetry
          /\ faulted' = [faulted EXCEPT ![r] = dialect = "pgx"]
          /\ GoTo(r, "failed")
    /\ UNCHANGED <<dialect, table, block>>

\* The header of one block is deleted by its hash.
Delete(b) ==
    /\ b \in rows
    /\ rows' = rows \ {b}
    /\ deleted' = deleted \cup {b}
    /\ UNCHANGED <<dialect, before, faults, pc, block, faulted>>

\* Mistake: the chore also removes the header of the very second it is given.
DeleteUpTo(time) ==
    /\ time > before
    /\ before' = time
    /\ rows' = {b \in rows : timestampOf[b] > time}
    /\ UNCHANGED <<dialect, deleted, faults, pc, block, faulted>>

\* RunOnce of the cleanup chore, as time passes.
DeleteBefore(time) ==
    /\ time > before
    /\ before' = time
    /\ rows' = {b \in rows : timestampOf[b] >= time}
    /\ UNCHANGED <<dialect, deleted, faults, pc, block, faulted>>

\* Every Get has its header.
Terminated ==
    /\ \A r \in Requests : pc[r] = "ok"
    /\ UNCHANGED vars

-----------------------------------------------------------------------------
Step(r) == Lookup(r) \/ HeaderByHash(r) \/ Insert(r)

Next ==
    \/ \E r \in Requests : Begin(r) \/ Step(r) \/ Fail(r) \/ Scan(r)
    \/ \E b \in Blocks : Delete(b)
    \/ \E time \in 0 .. MaxTime : DeleteBefore(time)
    \/ Terminated

Spec == Init /\ [][Next]_vars

\* Callers ask again, and the calls of a Get return.
FairSpec == Spec /\ \A r \in Requests : WF_vars(Begin(r) \/ Step(r))

-----------------------------------------------------------------------------
(* Properties.                                                             *)

\* A caller that asks again when Get fails has the header in the end, whatever
\* other callers insert and the cleanup chore removes in between.
RetriesSucceed ==
    \A r \in Requests : (pc[r] # "idle") ~> (pc[r] = "ok")

\* A Get that fails though neither the node nor the database has failed it, and
\* though CockroachDB may have rolled its statements back, has lost a race to
\* another one, whose row of the same block stays until it is removed.
RefusedWasCached ==
    \A r \in Requests :
        pc[r] = "failed" /\ ~faulted[r] =>
            block[r] \in rows \cup deleted \/ timestampOf[block[r]] < before

=============================================================================
