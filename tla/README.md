# Verification of storjscan

storjscan hands ERC20 deposit addresses to satellites, searches Ethereum chains
for transfers to them, and answers with the payments and their value in dollars.
This directory holds TLA+ models of its core, the TLC configurations that check
them on small instances, and proofs checked by TLAPS. Paths are relative to the
root of the repository.

## 1. Inventory

| Component | State | Operations | Hard behaviour | What makes it correct |
|---|---|---|---|---|
| Wallets (`wallets/`, `storjscandb/wallets.go`) | table `wallets`: address (unique), satellite, claimed | Claim, Register (InsertBatch), Get, GetStats, ListBySatellite, ListAll | concurrent transactions of several statements, isolation levels, retries, deadlocks, lost answers | an address has one owner for ever and is handed to one request; a batch is registered whole; every call ends |
| Event search (`blockchain/events/`) | `lastScannedBlock[satellite][chain]`, in memory, without a lock | GetForSatellite, GetForAddress | the chain grows and is reorganised during a scan; requests overlap; errors half way; restarts | a scan misses no final event; later scans skip no event that was not returned; lasting events are returned in the end |
| Payments (`tokens/`) | none of its own; its progress is `lastScannedBlock` | AllPayments, Payments, PingAll, GetChainIds | the conversion or the response fails after the scan was recorded | every payment reaches its satellite |
| Header cache (`blockchain/headers.go`, `storjscandb/headers.go`) | table `block_headers`, key (chain, hash) | Get, Delete, cleanup; GetByNumber and List only read | concurrent misses of one header; statements that CockroachDB rolls back and the driver runs again | a caller gets the header, at the latest when it asks again |
| Token price (`tokenprice/`, `storjscandb/tokenprice.go`) | table `token_prices`, one row a minute | PriceAt, the price chore, cleanup | the chore, requests and the cleanup replace and remove rows under each other; rows do not say the second of their price | a price within PriceWindow of the block |
| Price source (`tokenprice/coinmarketcap/`) | none | GetLatestPrice, GetPriceAt, Ping | old answers, failures | (external) |
| Application (`storjscan.go`) | the goroutines of `Run` | NewApp, Run, Close | signals at any time, a failing listener, the order in which goroutines, server and database end; chores that are never created | what runs has its database; everything started ends |
| API server (`api/server.go`) | keys; open requests | authorize, Run, Close | Serve and Shutdown end each other; shutdown waits for requests without a deadline | no request is cut; a request acts for its own satellite |
| Health (`health/`) | none | Ready, Live, chain ids | three services that come and go during one answer; a nil context | the status is the database's |
| Database (`storjscandb/database.go`) | the schema, table `versions` | Open, MigrateToLatest | two processes migrate at once; crashes between steps | a process that has migrated finds the schema that the queries expect |
| Command line (`cmd/storjscan`) | files | run, migrate, generate, import, mnemonic | 120 attempts to open the database; a file that is cut short | what import reports is registered |
| Generation and client (`wallets/generate.go`, `wallets/client.go`) | none | Generate, AddWallets | ranges with both ends included; an import repeated after a lost answer | a wallet belongs to a satellite that generated it |

Interaction: the HTTP handlers of `tokens/endpoint.go` call `tokens.Service`,
which calls `events.Service` (which reads the wallets table and the nodes, then
writes `lastScannedBlock`) and then converts each event with the header cache and
the price service (which both read and write the database and call a node or the
price source). The handlers of `wallets/endpoint.go` call `wallets.Service` and
the wallets table. The price chore is the only background task that runs:
the two cleanup chores have fields in `App` (`storjscan.go:74,84`) and are never
created. All handlers run concurrently and share the database, the header cache,
`lastScannedBlock` and nothing else. `run` of `cmd/storjscan/main.go` opens the
database, migrates it if it is told to, creates the application, runs it until a
signal or a failure, and closes the server and then the database. The command
`import` is a client of the wallets endpoint.

The hazards this leads to are listed in `PROJECT.json`, each with its line and
the properties that cover it, or the reason why none does.

## 2. Modules

| Module | Models | Extends / uses |
|---|---|---|
| `WalletPool` | what the wallet store promises: atomic Register and Claim | |
| `Wallets` | the transactions of `storjscandb/wallets.go`, a statement at a time | refines `WalletPool` |
| `Import` | generate, import and the client, with the wallet transactions | extends `Wallets` |
| `Events` | `GetForSatellite` and `GetForAddress`, a call at a time, with the chains | |
| `Payments` | the endpoints from the scan to the response, with the header cache | extends `Events` |
| `HeadersCache` | `HeadersCache.Get`, `Delete` and the header cleanup, on either driver | |
| `TokenPrice` | `PriceAt`, the price chore, the price cleanup | |
| `SchemaHistory` | what a migration promises: one step at a time, success at the latest version | |
| `Migration` | processes that open and migrate one database | refines `SchemaHistory` |
| `Application` | `run`: migration, goroutines, shutdown, readiness requests | extends `Migration` |
| `WalletsProofs`, `TokenPriceProofs`, `HeadersCacheProofs`, `MigrationProofs`, `EventsProofs` | theorems | the module of that name |
| `ImportProofs` | theorems | `Import`, `WalletsProofs` |
| `PaymentsProofs` | theorems | `Payments`, `EventsProofs` |
| `ApplicationProofs` | theorems | `Application`, `MigrationProofs` |
| `MC*` | the instances for TLC | the module of that name |

In each component module, definitions whose comment begins with "Mistake" are
variants of the definition after them with a plausible error. No specification
uses them; they show which property would notice the error.

### Wallets

A request is one HTTP call. `owner` and `claimers` are the committed rows:
`owner[a]` is the satellite column, and `claimers[a]` the requests that have set
the claimed column (the code keeps only the last time; the set makes a second
claim visible). `lock[a]` is an uncommitted INSERT or UPDATE. `pc[r]` is the next
SQL statement: `ClaimSelect`, `ClaimUpdate` and `ClaimCommit` are the three
statements of `Claim`, `InsertRow` one turn of the loop of `InsertBatch`,
`InsertCommit` its commit, `CountTotal` and `CountClaimed` those of `GetStats`.
`Retry` is what `txutil.WithTx` (external) does with a retryable error,
`DeadlockAbort` the database's deadlock detection, `Abort` a rollback, `QueryFails`
an error of the one query of a list or a Get, `ReplyLost` an answer that does not
arrive after its commit. `Get` and `GetStats` are operations of the service that no
HTTP handler calls; only tests reach them. `Isolation` is `"Serializable"` (CockroachDB,
one of the two databases that `storjscandb/database.go` opens) or
`"ReadCommitted"` (PostgreSQL with default transaction options, which is what
`WithTx` asks for).

### Events and Payments

A chain is its height `head[c]` and the block of each transfer, `mined[t]`; `Reorg`
moves a transfer among the last `ReorgDepth` blocks. A request goes through
`BeginSatellite` (reads `lastScannedBlock`), `ListBySatellite`, and for each chain
`LatestHeader` and one `FilterTransfer` for each batch of blocks and addresses;
then `ScanEnds`, one `Store` for each chain, `StoreEnds`. `start`, `latest`, `j`
are the locals of the Go functions of the same names. The interval that a query
covers is the code's: both ends belong to it, and a batch that would pass the
latest block has no end. `floor`, `truncated`, `returned` and `delivered` are
history variables that no action's guard reads. `Payments` adds the conversion:
`HeaderHit`, or `HeaderMiss`, `HeaderByHash` and `HeaderInsert`, for each event, and
`Respond`. `lastScannedBlock` starts as an empty map: a satellite and chain without
an entry have `NoBlock`. `Crash` empties it and ends all requests.

A client calls `AllPayments` with starting blocks from the set `From`. A block of
the query string is an int64 and becomes a uint64 when the scan begins
(`Unsigned`): a negative one lies beyond every block, so that the scan finds nothing
and ends without an error. A satellite's request raises the block to the last
scanned one, but only for the chains that have an entry (`Raised`): with a negative
block its first request after a start or a crash scans nothing, too. `failed[s]` (history) holds the payments of the responses that failed
since the process started.

### Import

`derived` maps the indexes of a mnemonic to addresses, `Generate` takes the indexes
from min to max, both included. `FilesOf(s)` are the files that `generate` can leave:
the rows in any order, because they are written from a Go map, and shorter files
where writing has failed after a row. `StartImport` sends a file as one Register
request of `Wallets`; `ImportReturns` is what the command reports. Requests of
satellites that claim or count run at the same time.

### HeadersCache

A header is named by its chain and hash. `Lookup`, `HeaderByHash` and `Insert` are
the three calls of `Get`; `Begin` is a caller that asks, or asks again after an
error; `Delete` removes one header, `DeleteBefore` is the cleanup. `dialect` is the
driver that `Open` of the generated code chooses: on `pgxcockroach` a SELECT or an
INSERT that the database rolls back is run again (`Scan`, `ShouldRetry`), on `pgx` the
Get fails. `Fail` is an error for good, or a lost answer to an INSERT that was
applied.

### TokenPrice

A price is named by the time at which it was quoted, so that "the price of a
block" can be compared with the block's time. `quotes[m]` is the row of minute
`m`. `PriceAt`, `Before`, `GetPriceAt` and `Update` are the steps of the method
`PriceAt`; `LatestPrice` and `SavePrice` are the chore's. The source answers a
historical query with any quote up to the time asked for, and a query for the
latest price with any quote up to now.

### Migration and Application

The schema is the set of the objects that the ten steps of `PostgresMigration`
create and drop, a key named with its columns. `ReadVersion` is the decision of
`migrate.Migration.Run` (external) whether to run a step, from `max(version)`;
`RunStep` is the step's transaction, which runs its SQL and inserts its version,
and `StepFails` its failure. `late` (history) names the steps that were run when
the database was already beyond them. `DBXSchema` are the tables that the
generated queries expect, transcribed from their own description.

`Application` adds `run`: `app[p]` is how far it has come, `serve[p]` the goroutine of
`Serve` and the return of the server's `Run`, `shutdown[p]` the goroutine that calls
`Shutdown`, `chore[p]` the price chore, `handler[p]` one request in the server (one
of the other modules' or `Ready`), `stop[p]` whether the context is cancelled.
`Cancelled` is the context of the server, which also ends when `Serve` returns.
`Outage` and `Recovery` take the database, the price source or a node away. `Ready`
declares a context and never sets it; what a library does with a nil context is
not in this repository, so each ping may also panic (`PingPanics`), which ends the
connection without an answer.

## 3. Runs

All runs are in `PROJECT.json` with their properties. Bounds and what they allow:

| Run | Instance | What it shows |
|---|---|---|
| `wallets_serializable` | 3 requests, 2 satellites, 2 addresses, batches in both orders, 2 attempts; all operations | all safety properties and the refinement of `WalletPool`. Two claimers and a registrar overlap; two registrars deadlock and are run again |
| `imports` | 3 requests of one satellite that claim, count or import the last two of three indexes; READ COMMITTED; files whole, reordered or cut short; 2 attempts; no symmetry. One satellite only: two with ranges that meet have more than two million states and take too long | what is reported is registered, every row was generated, batches are whole and rows stable though files are imported again; every request is answered, deadlocked batches included |
| `wallets_double_claim` | 3 requests under READ COMMITTED | two Claims are given one address |
| `events_scan` | 1 request of a satellite with 2 wallets, 2 chains of height 3 with a transfer each, batches of 2 blocks and 1 address, one error, restart or reorganisation | complete scans of every chain and address batch, repeats only where batches meet, lasting events returned in the end. Height 3 gives a full batch and one without an end |
| `events_resume` | 2 overlapping requests of a satellite, one wallet claimed from the start and one on the way, height 3, `MaximumQuerySize` 2 (ranges are truncated), starting blocks 0 or 1, two faults | nothing is skipped, though requests store in any order and the stored block goes backwards |
| `events_late_claim` | a wallet that is claimed, and paid, during a scan | its payment is skipped |
| `payments_faults` | 2 requests of one satellite or for an address, one transfer, height 2, two faults of four kinds: failed scans, failed conversions, lost responses, restarts | nothing is lost and every payment is delivered, unless a response with it was failed since the last restart; a restart makes up for those |
| `payments_conflict` | 2 satellites paid in one block, no faults | a payment is lost to the race for a header |
| `tokenprice_window` | 2 requests, minutes of 3 ticks, window of one minute, two minutes | the inductive invariant, and prices within the window |
| `headers_retries` | 3 callers, 2 chains that share a hash, both drivers, 2 cleanups, deletions, two errors or rollbacks | who is refused has lost a race, and finds the header when it asks again |
| `application` | a process that runs WithMigration and one that migrates, 2 starts, 2 attempts to open, an empty database or one of version 7, one outage, signals and kills at any time | the schema agrees with the queries up to late steps, the history is refined, the database outlives its users, no request is cut, readiness is true, what stops ends |
| `migration_race` | two processes that migrate, from version -1, 3, 7 or 9 | both succeed and the schema is not the latest |

The bounds (`MaxAttempts`, `MaxHeight`, `MaxFaults`, `MaxTime`, `MaxOpens`, `MaxStarts`,
`MaxOutages`, the sets) are named constants. They are small because each hazard
needs few actors: two transactions for a double claim or a deadlock, three for one
that retries behind them; two requests for a race on `lastScannedBlock`; one block
more than a batch for the boundary, and one more than `MaximumQuerySize` for a
truncated range; two processes for a late step, and two starts for one that is
killed and goes on. The sizes of batches, the buffer and the maximum query are
scaled down together, so that short and full batches, truncated ranges and chains
shorter than the buffer all occur. `payments_faults` has height 2 and no buffer: a
payment in block 1 is behind `lastScannedBlock` when block 2 is mined, which is all
that losing it takes, while two faults and two requests fit in five minutes.

Symmetry is used in safety runs only, over requests and, in `wallets_serializable`, satellites, which no
property or constant of those runs tells apart.

### Runs that end in a violation

Four runs show where the code does not do what its comments say; `findings` in
`PROJECT.json` quotes each comment:

* `wallets_double_claim`: under READ COMMITTED two concurrent `Claim` calls can
  return the same address. `WithTx` asks for default transaction options, and the
  UPDATE tests the id alone.
* `events_late_claim`: a wallet claimed between the list of wallets and the read of
  the latest block can miss a payment for good.
* `payments_conflict`: of two satellites paid in one block, one loses its payment:
  the second INSERT of the block's header is refused, the response fails, and
  `lastScannedBlock` has been written already.

* `migration_race`: two processes that migrate at once leave a schema that is not the
  latest, and both report success. The version is read before the step's
  transaction, and nothing locks it: a process that has read version 3 runs step 4
  (TRUNCATE, DROP COLUMN price) after the other has run step 5, or step 8 after
  step 9. `max(version)` is 9 by then, so that no later migration repairs it.

More follows from the models and has no run of its own.

A negative block loses events (`events.go:57-62`, `104`, `133-135`, `76-85`;
`tokens/endpoint.go:94` parses it). If it comes with a satellite's first request
since the process started, the map has no entry that would raise it, the scan ends
at once without an error, and the latest block less the buffer is recorded as
scanned: the satellite's later requests start there, and skip what is before it
until the process restarts. `events_resume` with `From = {-1}` finds it in nine
states. The code says nothing of negative blocks, and the runs and theorems about
`NothingIsSkipped` and `NothingIsLost` leave them out; the scan's own properties are
proved with them.

`Get` panics for a wallet that is registered and not claimed
(`storjscandb/wallets.go:107`), which one guard decides; no handler calls it. Any other failure of the conversion loses payments in the same way as
`payments_conflict`, until the process restarts (`failed` and `RestartRecovers` in
`payments_faults`). A batch queries `BlockBatchSize + 1` blocks, because both ends
of a filter range are inclusive; `RepeatsOnlyAtBoundaries` states the consequence. A
`PriceWindow` of less than a minute is not honoured for prices newer than the
block, which is why `WindowIsHonoured` assumes one of at least a minute.

The passing runs leave these out. `payments_faults` has one satellite, and its
address requests ask for a wallet that is not paid, because a request that races
for the header of a paid block is `payments_conflict`. The wallets that are paid in
`events_scan`, `events_resume` and `payments_faults` are claimed before the scan,
because of `events_late_claim`. Starting blocks are not negative, for the reason
above. `SchemaAgrees` and `ServesLatest` speak of what no
late step can undo, because of `migration_race`. What they show is the part of the
design that works: "scan, then record, in memory" survives errors and restarts,
and a migration that is killed goes on where it stopped.

## 4. Fairness

* `ImportFairSpec` (`imports`), as `Wallets!FairSpec`: weak fairness of each request's own
  steps. Statements that
  can run do run; a lock wait ends when its holder ends; a deadlock is detected.
  Conflicts, aborts and lost answers are not fair: they may happen or not.
* `Events!FairSpec`, `PaymentsFairSpec`: weak fairness of the steps of a request
  (its calls return, with a result or an error), and strong fairness of its
  beginning: satellites poll for ever, and a poll is a new HTTP request that no
  other request keeps from arriving, although in a model with one request slot
  the slot is busy between polls. Faults are bounded, blocks and reorganisations
  are not fair.
* `HeadersCache!FairSpec`: callers ask again and their calls return. The cleanup,
  deletions and rollbacks are not fair.
* `ApplicationFairSpec`: weak fairness of `run` and of each goroutine that it waits
  for, and of the calls of a request. The last is an assumption about the nodes and
  the database: Shutdown has no deadline, and a process whose request hangs does not
  end. That a signal, a kill, an outage, a recovery or a request happens is not
  assumed, nor that the chore finds time to save again.

## 5. Proofs

Every invariant, action property and refinement of the passing runs is proved
here, a few under hypotheses that their theorems state (`NothingIsLost` is the one
for which the run allows more); an inductive invariant was checked by TLC on the run of its module before it
was proved. A module that extends another reuses its lemmas: each proof speaks of a
next-state relation that is wider than the module's own (`WiderNext`), and the
composing module shows that its steps are among those.

`WalletsProofs` (for every set of satellites, addresses, requests and batches, and
every number of attempts; `WiderNext` lets a Register carry any sequence of
addresses, because the files of `Import` are not among `Batches`):

* `TypeCorrect`: `Spec => []TypeOK`.
* `Invariant`: `Spec => [](TypeOK /\ WalletInv)`. The invariant is needed because
  the properties are not inductive: that a row is claimed once depends on what a
  transaction knows between its UPDATE and its COMMIT. `WalletInv` says that each
  statement belongs to its operation (`StatementsMatch`); that a lock is held by a
  Claim about to commit or by a Register for an address without a row
  (`LocksMatch`); that a selected row belongs to the satellite (`SelectedRow`);
  that claimed columns are the commits of Claims (`ClaimersMatch`); and that a Claim
  about to commit holds its row, which, when transactions are serializable, is
  unclaimed (`CommitExclusive`). There is one lemma for each kind of step.
* `ClaimsAreUnique` (assuming `Isolation = "Serializable"`),
  `RequestsTakeOneWallet`, `AnswersAreDurable`, `WalletsStayStable` follow from it.
* `Refinement` (assuming `Isolation = "Serializable"`): `Spec => ImplementsPool`.
  The mapping is the identity on `owner` and `claimers`; `ClaimCommit` maps to the
  pool's Claim, `InsertCommit` to Register, every other step to a stutter.
* A second invariant, `RequestInv`, is about what a request has done so far. Each
  address of a batch is due, locked or has a row (`EachDueOrInserted`), and what is
  due or locked is of the batch (`InsertsOfBatch`), which gives `BatchesAreAtomic`: a
  commit adds the rows of its own batch, and leaves none of them out; a claimed address has a row (`ClaimedHaveRows`), and what had
  been handed out when a list was asked for is claimed until it is read
  (`ListsSeeHandedOut`), which gives `ListsAreComplete`; the claimed rows that a
  serializable GetStats counts are among all that it counts (`CountsMatch`), which
  gives `StatsAreNotNegative`. The last one assumes that there are finitely many
  addresses, without which counting rows means nothing.

`ImportProofs` (for every mnemonic and every set of ranges): `ImportInv` adds
to `WalletInv` that a command waits for a Register only, and that a Register which
has committed has a row for each address of its batch (`RegisteredWhole`).
`SuccessMeansRegistered` follows; `ImportsKeepWallets` and `ImportsAreAtomic` come
from the lemmas of `WalletsProofs`. `FilesTyped` shows that every file, whole or cut
short, is a finite sequence of generated addresses. `WalletsAreGenerated` rests on
`OfGenerated` (what is locked, due or owned was generated by the satellite it is
for) and on a hypothesis, `OnlyGenerated`: satellites also register directly, through
the endpoint, and nothing in the code ties that to a mnemonic; the theorem speaks of
those who register what they have generated. The run has no direct registrations.

`EventsProofs` (for every set of chains and wallets, every batch size, buffer and
maximum query, and any number of requests): `Invariance` shows `Spec => []Inv` for
starting blocks of either sign, with `TypeOK` and

* `Progress`: the loop is between its first block and a head the chain has reached;
* `InBatches`: an event was found by the batch it belongs to, and batches are
  `BlockBatchSize` apart. `RepeatsAtBoundaries` follows;
* `Covered`: every final event in a block before `j`, or at `j` or later in the
  current batch and for an address already queried, is in `found`. This is the loop
  invariant; final means below what a reorganisation may still replace.
  `ScansAreComplete` follows.

A further invariant needs starting blocks that are natural numbers
(`From \subseteq Nat`):

* `Accounted(kept)`: blocks before `lastScannedBlock`, before the start of a request
  under way and before what it is about to store are settled: not asked for, dropped
  by `MaximumQuerySize`, or final with their events in `kept`. That is what survives
  overlapping requests that store in any order, also backwards. With what was
  returned as `kept` it gives `SatellitesMissNothing`.

`SatellitesMissNothing` assumes that every recipient is claimed from the start
(`events_late_claim` shows that it is false otherwise) and that no starting block is
negative (section 3). The proofs need
`EndpointsAssumption`, that no chain is configured twice: two nodes of one chain
would be scanned one after the other and their events returned twice.

`PaymentsProofs` (same constants): `PaymentsTypeCorrect` and `PaymentScansAreComplete`
carry the invariant of `Events` into the composition. `NothingIsLost` is
`Accounted(handed)`, where `handed` is what was delivered, is being converted, or was
in a failed response since the restart. It is false in general (`payments_conflict`), and the
proof finds the one step that breaks it: `OnlyRefusalsLosePayments` proves it
of all behaviours in which no header insert is refused by the primary key, and
`SingleRequestsLoseNothing` of those in which requests do not overlap, where a
header that was looked up in vain is still missing when it is inserted
(`StillMissing`). Both assume starting blocks that are natural numbers, as
`SatellitesMissNothing` does.

`TokenPriceProofs` (for every length of a minute, window and retention, and every
bound on the time):

* `TypeCorrect`, and `Invariant`: `Spec => [](TypeOK /\ PriceInv)`. A price is
  never older than the window, because the minute of its row is not, and the row
  holds a price of its own minute; it is newer than the block by less than a
  minute, because the row's minute began before the block. That holds for any
  window.
* `WindowIsHonoured`: with a window of a minute or more (the default) the price is
  within the window in both directions. The assumption is needed: with a window of
  15 seconds, a block 10 seconds into a minute may be given the price that the
  minute's row held last, quoted 50 seconds into it.

`HeadersCacheProofs` (for every set of callers, chains and hashes, either driver):
`TypeCorrect`, and `RefusedHadLostARace`: `Spec => []RefusedWasCached`. The property
is inductive: an INSERT is refused by a row, only a deletion or the cleanup removes
a row, and both are recorded; a rollback ends a Get on PostgreSQL only, where it
counts as a fault.

`MigrationProofs` (for every set of processes, every initial version):

* `Invariant`: `Spec => []HistoryInv`. The versions have no gap (`NoGap`); no process has
  passed a step that has not run (`NotAhead`: `next[p] <= Version + 1`), which is what
  a stale version read cannot break; the schema is what the steps make in order if
  no step was late, and otherwise differs only in what one step creates and another
  drops for good (`SchemaMatches`).
* `SchemaOfDefined` shows that the recursive definition of the schema after a step
  is one, by giving its eleven values, and `StepsMakeDBXSchema` computes the last:
  the migration and the generated queries describe one schema.
* `SchemasAgree`: `Spec => []SchemaAgrees`; `Refinement`: `Spec => ImplementsHistory`,
  where the version is mapped to `max(version)` and `RunStep` to an upgrade or, when
  it is late, to a stutter (`MoveIsHistory`, and `NoMoveIsHistory` for the steps that
  leave the versions alone); `TypeCorrect`, which needs that a process that opens the
  database has an attempt left (`AttemptsLeft`).

`ApplicationProofs` (for every set of processes that run or migrate):

* `LifeInvariant`: what runs is nested (`Nested`). A request is in the server while its
  shutdown is waiting or closing; the shutdown, the server and the chore are within
  `Run`; and `Run` is within the connection to the database. `DatabaseOutlives` and
  `RequestsAreAnswered` follow from it.
* `ServesTheLatest`: `ApplicationSpec => []ServesLatest`, from the invariant of the
  migration, which every step of the application keeps, and `ReadyToServe`: a process
  goes on from its migration only when it has succeeded, and the version never falls.
* `ReadyTellsTheTruth`: `Witnessed` says that a request which has pinged the database has
  recorded an answer that the database gave since the request began; the pings that
  follow do not touch it.
* `ApplicationTypeCorrect` needs `Counted`: both loops that open the database have an
  attempt left while they run, and a process migrates only within `run`.
* `ApplicationSchemasAgree` and `ApplicationRefinement` repeat the theorems of the
  migration for `ApplicationSpec`: its steps are steps of the migration or leave the
  schema alone.

The proofs rest on the named assumptions about the constants, which TLC evaluates in
the runs: sentinels that are no element of their sets, batches that are sequences
of addresses, positive lengths and sizes, `ReorgDepth` at most `ChainReorgBuffer`,
endpoints without a repetition, indexes of a mnemonic that are natural numbers,
versions between -1 and 9. Hypotheses that are not assumptions of a module
(`Isolation = "Serializable"`, finitely many addresses, `From \subseteq Nat`,
recipients claimed from the start, `OnlyGenerated`, requests that do not overlap) stand in the theorems that
need them.

## 6. What is only model-checked, and what is not modelled

Only model-checked: liveness under fairness (`EveryRequestEnds`, `EventsAreReturned`,
`PaymentsAreDelivered`, `RestartRecovers`, `RetriesSucceed`, `ProcessEnds`), because the
proof system handles neither fairness arguments over sets of actions nor ENABLED;
and the violations, which are counterexamples of one instance. `NothingIsLost` is
proved under the hypotheses above, and `payments_faults` is not an instance of them:
two requests of its satellite may race for a header, and the payment that the loser
drops is also the winner's, because there is only one. With a second transfer, in a
block that only the loser has seen, that argument fails, which is why the theorems
exclude refused inserts. Induction over data and RECURSIVE operators are out of the
proof system's reach, too, and no module here needs them; the one recursive
function, `schemaOf`, has eleven values, and its facts are proved by counting.

Not modelled, with the reason, in `PROJECT.json` under `components`: the arithmetic of
values (decimal multiplication), the mnemonic command and the derivation of keys
(cryptography and files), authorization beyond "a request acts for its satellite"
(a lookup without state), request building and decoding of the price client, the
generated queries and contract methods that nothing calls, and the test and build
support. Within modelled components: logs that cannot be decoded, the fatal error
of the Go runtime for a concurrent map write (its effect is a restart),
reorganisations deeper than `ChainReorgBuffer`, indexes of tables that only make
queries faster, and what a library does with the nil context of `Ready` beyond a
panic of that request. In `Payments` blocks are identified by their number, so there
are no reorganisations.

## 7. Plan

Done: the modules above, in this order: wallets (the pool, the transactions, the
proofs), events, payments, token price (and proofs), header cache (and proofs),
migration (the history, the steps, the proofs), application (and proofs), import;
then the proofs of the lists, counts and batches of wallets, of import, of events
and payments, and of the rest of the application.

Next, in this order:

1. An abstract specification of a payment service that delivers each payment at
   least once, refined by `Payments` where no insert is refused, and its proof from
   `Accounted(handed)`.
2. `Payments` with `TokenPrice`: the price of each payment through the composed steps.
3. Reorganisations in `Payments`, with headers named by hash.
