------------------------------ MODULE Migration ------------------------------
(***************************************************************************)
(* Processes that open the database and migrate it: openDatabaseWithRetry  *)
(* and migrate of cmd/storjscan/main.go, MigrateToLatest and the ten steps *)
(* of PostgresMigration of storjscandb/database.go.  Both the command      *)
(* "migrate" and, with WithMigration, the command "run" do this, so that   *)
(* processes that are started together migrate one database together.      *)
(*                                                                         *)
(* Each step is one transaction, which runs the SQL of the step and adds   *)
(* the version to the table versions.  What versions to run is decided     *)
(* before that transaction (external, storj.io/storj/private/migrate).     *)
(* MigrateToLatest first creates the schema or database of its connection, *)
(* if there is none; that is left out, but for its failure.                *)
(*                                                                         *)
(* The schema is the set of the objects that a step creates or drops; a    *)
(* key or a column is named with its columns or its type.  The indexes     *)
(* that only make queries faster are left out, and so are the rows.        *)
(*                                                                         *)
(* A definition whose comment begins with "Mistake" is the definition      *)
(* after it as a plausible error in the code would make it; no             *)
(* specification uses it.                                                  *)
(***************************************************************************)
EXTENDS Integers, Sequences

CONSTANTS
    Processes,         \* processes that migrate
    InitialVersions,   \* versions of the database before they start
    MaxOpens,          \* attempts to open the database, 120 in the code
    MaxStarts          \* bound: starts of all processes together

ASSUME MigrationAssumption ==
    /\ InitialVersions \subseteq -1 .. 9
    /\ MaxOpens \in Nat \ {0}
    /\ MaxStarts \in Nat

-----------------------------------------------------------------------------
(* The steps.  The SQL of a step fails, and its transaction with it, if an *)
(* object that it alters is missing or one that it creates exists.         *)

InitialSetup ==
    [ needs   |-> {},
      drops   |-> {},
      creates |-> {"block_headers", "block_headers_pkey(hash)",
                   "token_prices", "token_prices.price double",
                   "wallets", "wallets_pkey(address)"} ]

AddWalletId ==
    [ needs   |-> {"wallets"},
      drops   |-> {},
      creates |-> {"wallets.id"} ]

\* The constraint is dropped by its name, whatever its columns are, and added
\* in the same transaction: this step succeeds a second time.
MakeWalletIdTheKey ==
    [ needs   |-> {"wallets", "wallets.id"},
      drops   |-> {"wallets_pkey(address)", "wallets_pkey(id)"},
      creates |-> {"wallets_pkey(id)"} ]

IndexAddress ==
    [ needs   |-> {"wallets"},
      drops   |-> {},
      creates |-> {"wallets unique(address)"} ]

\* Mistake: the old column is left in place.
KeepPrice ==
    [ needs   |-> {"token_prices"},
      drops   |-> {},
      creates |-> {} ]

PriceColumns == {"token_prices.price double", "token_prices.price bigint"}

\* Fails if neither column is there (see CanRun).
DropPrice ==
    [ needs   |-> {"token_prices"},
      drops   |-> PriceColumns,
      creates |-> {} ]

AddPrice ==
    [ needs   |-> {"token_prices"},
      drops   |-> {},
      creates |-> {"token_prices.price bigint"} ]

AddChainId ==
    [ needs   |-> {"block_headers"},
      drops   |-> {},
      creates |-> {"block_headers.chain_id"} ]

\* As MakeWalletIdTheKey, this step succeeds a second time.
MakeChainIdPartOfTheKey ==
    [ needs   |-> {"block_headers", "block_headers.chain_id"},
      drops   |-> {"block_headers_pkey(hash)", "block_headers_pkey(chain_id,hash)"},
      creates |-> {"block_headers_pkey(chain_id,hash)"} ]

AddTransferEvents ==
    [ needs   |-> {},
      drops   |-> {},
      creates |-> {"transfer_events"} ]

DropTransferEvents ==
    [ needs   |-> {"transfer_events"},
      drops   |-> {"transfer_events"},
      creates |-> {} ]

\* PostgresMigration: the step of version v is PostgresMigration[v + 1].
PostgresMigration ==
    << InitialSetup, AddWalletId, MakeWalletIdTheKey, IndexAddress, DropPrice, AddPrice,
       AddChainId, MakeChainIdPartOfTheKey, AddTransferEvents, DropTransferEvents >>

Latest == 9

Versions == 0 .. Latest

StepOf(v) == PostgresMigration[v + 1]

\* The schema after a step.
After(step, objects) == (objects \ step.drops) \cup step.creates

\* The SQL of a step succeeds: a column or a table is not created twice, a
\* key or a column is dropped only where there is one.
CanRun(step, objects) ==
    /\ step.needs \subseteq objects
    /\ step.creates \cap (objects \ step.drops) = {}
    /\ step.drops # {} => step.drops \cap objects # {}

\* The schema that the steps up to version v make of an empty database.
schemaOf[v \in -1 .. Latest] ==
    IF v = -1 THEN {} ELSE After(StepOf(v), schemaOf[v - 1])

\* The tables of the generated queries, which are generated from another
\* description of the schema than the migration (storjscandb.dbx).
DBXSchema ==
    {"block_headers", "block_headers.chain_id", "block_headers_pkey(chain_id,hash)",
     "token_prices", "token_prices.price bigint",
     "wallets", "wallets.id", "wallets_pkey(id)", "wallets unique(address)"}

-----------------------------------------------------------------------------
VARIABLES
    schema,     \* the objects of the database
    versions,   \* the table versions
    pc,         \* what each process does next
    opens,      \* its attempts to open the database
    next,       \* the version of the step that it considers next
    starts,     \* how often processes have been started
    late        \* history: steps run when the database was beyond them

database  == <<schema, versions, late>>
migrating == <<pc, opens, next>>
vars      == <<schema, versions, pc, opens, next, starts, late>>

\* SELECT max(version); -1 when the table is empty.
Version == CHOOSE v \in versions \cup {-1} : \A w \in versions : w <= v

\* One type invariant: the table holds versions of steps, and every process is
\* at a step of its migration.
TypeOK ==
    /\ schema \subseteq UNION {StepOf(v).creates : v \in Versions}
    /\ versions \subseteq Versions
    /\ pc \in [Processes -> {"idle", "open", "read", "run", "migrated", "failed"}]
    /\ opens \in [Processes -> 0 .. MaxOpens]
    /\ next \in [Processes -> 0 .. Latest + 1]
    /\ starts \in 0 .. MaxStarts
    /\ late \subseteq Versions

Init ==
    /\ \E v \in InitialVersions : schema = schemaOf[v] /\ versions = 0 .. v
    /\ pc = [p \in Processes |-> "idle"]
    /\ opens = [p \in Processes |-> 0]
    /\ next = [p \in Processes |-> 0]
    /\ starts = 0
    /\ late = {}

GoTo(p, step) == pc' = [pc EXCEPT ![p] = step]

-----------------------------------------------------------------------------
(* The command, and openDatabaseWithRetry.                                 *)

\* The call of migrate.
Begin(p) ==
    /\ pc[p] \in {"idle", "migrated", "failed"}
    /\ opens' = [opens EXCEPT ![p] = 0]
    /\ GoTo(p, "open")
    /\ UNCHANGED <<database, next>>

\* The command "migrate" is started, or started again after it has ended.
Start(p) ==
    /\ starts < MaxStarts
    /\ starts' = starts + 1
    /\ Begin(p)

OpenDatabase(p) ==
    /\ pc[p] = "open"
    /\ next' = [next EXCEPT ![p] = 0]
    /\ GoTo(p, "read")
    /\ UNCHANGED <<database, opens, starts>>

\* The database is not available: it is tried again after a while, MaxOpens
\* times in all.
OpenFails(p) ==
    /\ pc[p] = "open"
    /\ opens' = [opens EXCEPT ![p] = @ + 1]
    /\ IF opens'[p] = MaxOpens THEN GoTo(p, "failed") ELSE UNCHANGED pc
    /\ UNCHANGED <<database, next, starts>>

-----------------------------------------------------------------------------
(* MigrateToLatest.                                                        *)

\* Mistake: the loop ends before the last step.
LastStep(p) == next[p] = Latest

\* Every step has been considered.
Done(p) == next[p] > Latest

\* The latest version is read anew for each step; a step that the database is
\* beyond is skipped.
ReadVersion(p) ==
    /\ pc[p] = "read"
    /\ ~Done(p)
    /\ \/ /\ next[p] <= Version
          /\ next' = [next EXCEPT ![p] = @ + 1]
          /\ UNCHANGED pc
       \/ /\ next[p] > Version
          /\ GoTo(p, "run")
          /\ UNCHANGED next
    /\ UNCHANGED <<database, opens, starts>>

\* Mistake: all steps add the latest version.
RunStepToLatest(p) ==
    /\ pc[p] = "run"
    /\ CanRun(StepOf(next[p]), schema)
    /\ schema' = After(StepOf(next[p]), schema)
    /\ versions' = versions \cup {Latest}
    /\ late' = late \cup IF next[p] <= Version THEN {next[p]} ELSE {}
    /\ next' = [next EXCEPT ![p] = @ + 1]
    /\ GoTo(p, "read")
    /\ UNCHANGED <<opens, starts>>

\* The transaction of a step.  Nothing keeps another process from having run
\* the same step, and more, since the version was read.
RunStep(p) ==
    /\ pc[p] = "run"
    /\ CanRun(StepOf(next[p]), schema)
    /\ schema' = After(StepOf(next[p]), schema)
    /\ versions' = versions \cup {next[p]}
    /\ late' = late \cup IF next[p] <= Version THEN {next[p]} ELSE {}
    /\ next' = [next EXCEPT ![p] = @ + 1]
    /\ GoTo(p, "read")
    /\ UNCHANGED <<opens, starts>>

\* The SQL fails, because another process has run the step, or the database
\* fails the query or the transaction: it is rolled back, and the process ends
\* with the error.
StepFails(p) ==
    /\ pc[p] \in {"read", "run"}
    /\ GoTo(p, "failed")
    /\ UNCHANGED <<database, opens, next, starts>>

Succeed(p) ==
    /\ pc[p] = "read"
    /\ Done(p)
    /\ GoTo(p, "migrated")
    /\ UNCHANGED <<database, opens, next, starts>>

\* The process is killed; an open transaction is rolled back.
Crash(p) ==
    /\ pc[p] \in {"open", "read", "run"}
    /\ GoTo(p, "idle")
    /\ UNCHANGED <<database, opens, next, starts>>

\* No process is started again.
Terminated ==
    /\ starts = MaxStarts
    /\ \A p \in Processes : pc[p] \in {"idle", "migrated", "failed"}
    /\ UNCHANGED vars

-----------------------------------------------------------------------------
\* What a process that has been started does, whether or not it succeeds.
Step(p) ==
    \/ OpenDatabase(p) \/ OpenFails(p)
    \/ ReadVersion(p) \/ RunStep(p) \/ StepFails(p) \/ Succeed(p)

Next == (\E p \in Processes : Start(p) \/ Step(p) \/ Crash(p)) \/ Terminated

Spec == Init /\ [][Next]_vars

-----------------------------------------------------------------------------
(* Properties.                                                             *)

\* MigrateToLatest migrates the database to the latest version: a process
\* whose migration has succeeded finds the schema that the queries expect
\* (storjscandb/database.go, MigrateToLatest).
MigratedIsLatest ==
    \A p \in Processes : pc[p] = "migrated" => schema = DBXSchema

\* The objects that one step creates and another step drops for good: a
\* process that runs one of the two steps late can undo the other.
Undoable ==
    {o \in UNION {StepOf(v).creates : v \in Versions} :
        \E v \in Versions : o \in StepOf(v).drops \ StepOf(v).creates}

\* The two descriptions of the schema agree: ten steps, run by processes that
\* crash, fail and start again at any point, end with the tables that the
\* generated queries expect.  Processes that migrate at once and run a step
\* late can only disturb what later steps drop or have dropped.
SchemaAgrees ==
    Version = Latest =>
        /\ late = {} => schema = DBXSchema
        /\ schema \ Undoable = DBXSchema \ Undoable

\* The version rises one step at a time, under any number of processes, and
\* nobody succeeds before it is the latest.
History == INSTANCE SchemaHistory WITH
    version  <- Version,
    migrated <- {p \in Processes : pc[p] = "migrated"}

ImplementsHistory == History!Spec

=============================================================================
