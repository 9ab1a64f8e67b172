------------------------- MODULE ApplicationProofs -------------------------
(***************************************************************************)
(* Theorems about Application, for every set of processes, whether they    *)
(* migrate first or not, and every bound: what runs has its database, no   *)
(* request is cut, and what serves finds the latest version.               *)
(***************************************************************************)
EXTENDS Application, MigrationProofs

-----------------------------------------------------------------------------
(* The goroutines of a process.                                            *)

LifeTyped ==
    /\ app \in [Runners -> {"none", "connect", "migrate", "new", "start", "run",
                            "close", "disconnect", "exited"}]
    /\ connected \in [Runners -> BOOLEAN]
    /\ serve \in [Runners -> {"none", "starting", "serving", "closed", "broken", "returned"}]
    /\ shutdown \in [Runners -> {"none", "waiting", "closing", "done"}]
    /\ chore \in [Runners -> {"none", "saving", "waiting", "ended"}]
    /\ handler \in [Runners -> {"none", "work", "pingDatabase", "pingPrice", "pingNodes",
                                "respond", "cut"}]

\* The goroutines of p live within its Run, a request within the goroutine that
\* shuts the server down, and that one within the server's Run.
Nested(p) ==
    /\ app[p] \in {"migrate", "new", "start", "run", "close", "disconnect"} => connected[p]
    /\ serve[p] \in {"starting", "serving", "closed", "broken"} => app[p] = "run"
    /\ shutdown[p] \in {"waiting", "closing"} => app[p] = "run"
    /\ chore[p] \in {"saving", "waiting"} => app[p] = "run"
    /\ handler[p] # "none" => shutdown[p] \in {"waiting", "closing"} /\ handler[p] # "cut"
    /\ serve[p] = "returned" => shutdown[p] = "done"

LifeInv == LifeTyped /\ \A p \in Runners : Nested(p)

\* A step that leaves the process alone keeps LifeInv.
LEMMA LifeKept ==
    ASSUME LifeInv, UNCHANGED <<app, connected, serve, shutdown, chore, handler>>
    PROVE  LifeInv'
  BY DEF LifeInv, LifeTyped, Nested

\* The steps of the function run, from its start to its end, and the signals.
LEMMA MainKeepsLife ==
    ASSUME LifeInv, NEW r \in Runners,
           \/ Launch(r) \/ Signal(r) \/ Kill(r)
           \/ Connect(r) \/ ConnectFails(r) \/ MigrateReturns(r)
           \/ NewApp(r) \/ NewAppFails(r) \/ Run(r)
           \/ RunReturns(r) \/ Close(r) \/ Disconnect(r)
    PROVE  LifeInv'
<1> USE DEF LifeInv, LifeTyped, Nested, AppGoesTo, goroutines, request
<1>1. CASE Launch(r)
  BY <1>1 DEF Launch
<1>2. CASE Signal(r)
  BY <1>2 DEF Signal
<1>3. CASE Kill(r)
  BY <1>3 DEF Kill
<1>4. CASE Connect(r)
  <2>1. /\ app[r] = "connect"
        /\ app' = [app EXCEPT ![r] = "migrate"] \/ app' = [app EXCEPT ![r] = "new"]
        /\ connected' = [connected EXCEPT ![r] = TRUE]
        /\ UNCHANGED <<serve, shutdown, chore, handler>>
    BY <1>4 DEF Connect
  <2> QED
    BY <2>1
<1>5. CASE ConnectFails(r)
  <2>1. /\ app[r] = "connect"
        /\ app' = [app EXCEPT ![r] = "exited"] \/ app' = app
        /\ UNCHANGED <<connected, serve, shutdown, chore, handler>>
    BY <1>5 DEF ConnectFails
  <2> QED
    BY <2>1
<1>6. CASE MigrateReturns(r)
  <2>1. /\ app[r] = "migrate"
        /\ app' = [app EXCEPT ![r] = "new"] \/ app' = [app EXCEPT ![r] = "disconnect"]
        /\ UNCHANGED <<connected, serve, shutdown, chore, handler>>
    BY <1>6 DEF MigrateReturns
  <2> QED
    BY <2>1
<1>7. CASE NewApp(r) \/ NewAppFails(r)
  BY <1>7 DEF NewApp, NewAppFails
<1>8. CASE Run(r)
  BY <1>8 DEF Run
<1>9. CASE RunReturns(r)
  BY <1>9 DEF RunReturns
<1>10. CASE Close(r)
  <2>1. handler[r] = "none"
    BY <1>10 DEF Close
  <2>2. handler' = handler
    BY <1>10, <2>1 DEF Close
  <2> QED
    BY <1>10, <2>2 DEF Close
<1>11. CASE Disconnect(r)
  BY <1>11 DEF Disconnect
<1> QED
  BY <1>1, <1>2, <1>3, <1>4, <1>5, <1>6, <1>7, <1>8, <1>9, <1>10, <1>11

\* The steps of the server, of its shutdown and of the price chore.
LEMMA GoroutinesKeepLife ==
    ASSUME LifeInv, NEW r \in Runners,
           \/ ServeStep(r) \/ ServeFails(r) \/ ShutdownStep(r)
           \/ BeginSaving(r) \/ ChoreStep(r)
    PROVE  LifeInv'
<1> USE DEF LifeInv, LifeTyped, Nested, MainWaits, request
<1>1. CASE Serve(r)
  <2>1. /\ serve[r] = "starting"
        /\ serve' = [serve EXCEPT ![r] = "serving"] \/ serve' = [serve EXCEPT ![r] = "closed"]
        /\ UNCHANGED <<app, connected, shutdown, chore, handler>>
    BY <1>1 DEF Serve
  <2> QED
    BY <2>1
<1>2. CASE ServeReturns(r) \/ ServeFails(r)
  BY <1>2 DEF ServeReturns, ServeFails
<1>3. CASE ServerReturns(r)
  BY <1>3 DEF ServerReturns
<1>4. CASE BeginShutdown(r)
  BY <1>4 DEF BeginShutdown
<1>5. CASE EndShutdown(r)
  BY <1>5 DEF EndShutdown
<1>6. CASE BeginSaving(r)
  BY <1>6 DEF BeginSaving
<1>7. CASE EndSaving(r) \/ ChoreEnds(r)
  BY <1>7 DEF EndSaving, ChoreEnds
<1> QED
  BY <1>1, <1>2, <1>3, <1>4, <1>5, <1>6, <1>7 DEF ServeStep, ShutdownStep, ChoreStep

\* The steps of a request.
LEMMA RequestsKeepLife ==
    ASSUME LifeInv, NEW r \in Runners, Accept(r) \/ HandlerStep(r)
    PROVE  LifeInv'
<1> USE DEF LifeInv, LifeTyped, Nested, Handled, HandlerGoesTo, goroutines
<1>1. CASE Accept(r)
  <2>1. /\ shutdown[r] = "waiting"
        /\ handler' = [handler EXCEPT ![r] = "work"]
           \/ handler' = [handler EXCEPT ![r] = "pingDatabase"]
        /\ UNCHANGED <<app, connected, serve, shutdown, chore>>
    BY <1>1 DEF Accept
  <2> QED
    BY <2>1
<1>2. CASE Answer(r) \/ PingPanics(r)
  BY <1>2 DEF Answer, PingPanics
<1>3. CASE PingDatabase(r)
  BY <1>3 DEF PingDatabase
<1>4. CASE PingPrice(r) \/ PingAll(r)
  BY <1>4 DEF PingPrice, PingAll
<1> QED
  BY <1>1, <1>2, <1>3, <1>4 DEF HandlerStep

LEMMA NextKeepsLife == LifeInv /\ [ApplicationNext]_allVars => LifeInv'
<1> SUFFICES ASSUME LifeInv, [ApplicationNext]_allVars PROVE LifeInv'
  OBVIOUS
<1>1. ASSUME NEW p \in Processes, Migrate(p) \/ MigrationStep(p) PROVE LifeInv'
  BY <1>1, LifeKept DEF Migrate, MigrationStep, process, goroutines, request
<1>2. ASSUME NEW service \in Services, Outage(service) \/ Recovery(service) PROVE LifeInv'
  BY <1>2, LifeKept DEF Outage, Recovery, goroutines
<1>3. CASE UNCHANGED allVars
  BY <1>3, LifeKept DEF allVars, process, goroutines, request
<1> QED
  BY <1>1, <1>2, <1>3, MainKeepsLife, GoroutinesKeepLife, RequestsKeepLife
  DEF ApplicationNext, AllEnded

LEMMA LifeInvariant == ApplicationSpec => []LifeInv
<1>1. ApplicationInit => LifeInv
  BY DEF ApplicationInit, LifeInv, LifeTyped, Nested
<1> QED
  BY <1>1, NextKeepsLife, PTL DEF ApplicationSpec

\* Whatever a process is told and whatever fails, the connection to the database
\* is open while a request is handled or a price is saved (run, App.Run).
THEOREM DatabaseOutlives == ApplicationSpec => []DatabaseOutlivesItsUsers
<1>1. LifeInv => DatabaseOutlivesItsUsers
  BY DEF LifeInv, LifeTyped, Nested, DatabaseOutlivesItsUsers
<1> QED
  BY <1>1, LifeInvariant, PTL

\* Close finds no request to cut: Run returns after Shutdown, and Shutdown after
\* the last request (Server.Run, App.Close).
THEOREM RequestsAreAnswered == ApplicationSpec => []NoRequestIsCut
<1>1. LifeInv => NoRequestIsCut
  BY DEF LifeInv, LifeTyped, Nested, NoRequestIsCut
<1> QED
  BY <1>1, LifeInvariant, PTL

-----------------------------------------------------------------------------
(* The migration before it.                                                *)

\* A step of the application is one of the migration, or none.
LEMMA StepsOfMigration ==
    ASSUME [ApplicationNext]_allVars
    PROVE  \/ \E p \in Processes : MoveOf(p)
           \/ UNCHANGED <<schema, versions, late, pc, next>>
<1> USE DEF database, migrating, vars
<1>1. ASSUME NEW p \in Processes, Migrate(p) \/ MigrationStep(p) PROVE MoveOf(p)
  BY <1>1 DEF Migrate, MigrationStep, Start, MoveOf
<1>2. ASSUME NEW p \in Runners, Connect(p) \/ Kill(p)
      PROVE  MoveOf(p) \/ UNCHANGED <<schema, versions, late, pc, next>>
  BY <1>2 DEF Connect, Kill, MoveOf
<1>3. ASSUME NEW p \in Runners,
             \/ Launch(p) \/ Signal(p) \/ ConnectFails(p) \/ MigrateReturns(p)
             \/ NewApp(p) \/ NewAppFails(p) \/ Run(p)
             \/ RunReturns(p) \/ Close(p) \/ Disconnect(p)
      PROVE  UNCHANGED <<schema, versions, late, pc, next>>
  BY <1>3 DEF Launch, Signal, ConnectFails, MigrateReturns, NewApp, NewAppFails, Run,
              RunReturns, Close, Disconnect
<1>4. ASSUME NEW p \in Runners,
             \/ ServeStep(p) \/ ServeFails(p) \/ ShutdownStep(p)
             \/ BeginSaving(p) \/ ChoreStep(p)
      PROVE  UNCHANGED <<schema, versions, late, pc, next>>
  BY <1>4 DEF ServeStep, Serve, ServeReturns, ServerReturns, ServeFails, ShutdownStep,
              BeginShutdown, EndShutdown, BeginSaving, ChoreStep, EndSaving, ChoreEnds, MainWaits
<1>5. ASSUME NEW p \in Runners, Accept(p) \/ HandlerStep(p)
      PROVE  UNCHANGED <<schema, versions, late, pc, next>>
  BY <1>5 DEF Accept, HandlerStep, Answer, PingDatabase, PingPrice, PingAll, PingPanics, Handled
<1>6. ASSUME NEW service \in Services, Outage(service) \/ Recovery(service)
      PROVE  UNCHANGED <<schema, versions, late, pc, next>>
  BY <1>6 DEF Outage, Recovery
<1>7. CASE UNCHANGED allVars
  BY <1>7 DEF allVars
<1>8. Runners \subseteq Processes
  BY ApplicationAssumption
<1> QED
  BY <1>1, <1>2, <1>3, <1>4, <1>5, <1>6, <1>7, <1>8 DEF ApplicationNext, AllEnded

\* The version never falls.
LEMMA VersionRises ==
    ASSUME HistoryInv, [ApplicationNext]_allVars
    PROVE  Version <= Version' /\ HistoryInv'
<1>1. ASSUME NEW p \in Processes, MoveOf(p) PROVE Version <= Version' /\ HistoryInv'
  <2>1. CASE RunStep(p)
    BY <1>1, <2>1, RunStepVersion, MoveKeepsHistory DEF HistoryInv, NoGap, Latest
  <2>2. CASE ~RunStep(p)
    <3>1. versions' = versions
      BY <1>1, <2>2 DEF MoveOf, Begin, OpenDatabase, OpenFails, ReadVersion, StepFails, Succeed,
                        Crash, database
    <3>2. Version' = Version
      BY <3>1 DEF Version
    <3> QED
      BY <1>1, <3>2, MoveKeepsHistory DEF HistoryInv, NoGap, Latest
  <2> QED
    BY <2>1, <2>2
<1>2. CASE UNCHANGED <<schema, versions, late, pc, next>>
  <2>1. Version' = Version
    BY <1>2 DEF Version
  <2>2. HistoryInv'
    BY <1>2, DatabaseKept DEF HistoryInv, NotAhead, ProcessesTyped
  <2> QED
    BY <2>1, <2>2 DEF HistoryInv, NoGap, Latest
<1> QED
  BY <1>1, <1>2, StepsOfMigration

\* A process that migrates first goes on only when its migration has succeeded.
ReadyToServe ==
    WithMigration =>
        \A p \in Runners : app[p] \in {"new", "start", "run"} => Version = Latest

LEMMA NextKeepsReady ==
    ASSUME HistoryInv, LifeInv, ReadyToServe, [ApplicationNext]_allVars
    PROVE  ReadyToServe'
<1> SUFFICES ASSUME WithMigration, NEW p \in Runners, app'[p] \in {"new", "start", "run"}
             PROVE  Version' = Latest
  BY DEF ReadyToServe, Latest
<1>1. Version = Latest
  <2>1. CASE app[p] \in {"new", "start", "run"}
    BY <2>1 DEF ReadyToServe
  <2>2. CASE app[p] \notin {"new", "start", "run"}
    <3>1. MigrateReturns(p) /\ pc[p] = "migrated"
      <4> USE DEF LifeInv, LifeTyped, AppGoesTo
      <4>1. ASSUME NEW r \in Runners,
                   \/ Launch(r) \/ Signal(r) \/ Kill(r)
                   \/ Connect(r) \/ ConnectFails(r)
                   \/ NewApp(r) \/ NewAppFails(r) \/ Run(r)
                   \/ RunReturns(r) \/ Close(r) \/ Disconnect(r)
            PROVE  FALSE
        BY <2>2, <4>1 DEF Launch, Signal, Kill, Connect, ConnectFails, NewApp, NewAppFails, Run,
                          RunReturns, Close, Disconnect
      <4>2. ASSUME app' = app PROVE FALSE
        BY <2>2, <4>2
      <4>3. ASSUME NEW r \in Processes, Migrate(r) \/ MigrationStep(r) PROVE app' = app
        BY <4>3 DEF Migrate, MigrationStep, process
      <4>4. ASSUME NEW r \in Runners,
                   \/ ServeStep(r) \/ ServeFails(r) \/ ShutdownStep(r)
                   \/ BeginSaving(r) \/ ChoreStep(r)
            PROVE  app' = app
        BY <4>4 DEF ServeStep, Serve, ServeReturns, ServerReturns, ServeFails, ShutdownStep,
                    BeginShutdown, EndShutdown, BeginSaving, ChoreStep, EndSaving, ChoreEnds,
                    MainWaits
      <4>5. ASSUME NEW r \in Runners, Accept(r) \/ HandlerStep(r) PROVE app' = app
        BY <4>5 DEF Accept, HandlerStep, Answer, PingDatabase, PingPrice, PingAll, PingPanics,
                    Handled
      <4>6. ASSUME NEW service \in Services, Outage(service) \/ Recovery(service)
            PROVE  app' = app
        BY <4>6 DEF Outage, Recovery
      <4>7. CASE UNCHANGED allVars
        BY <4>2, <4>7 DEF allVars, process
      <4>8. ASSUME NEW r \in Runners, MigrateReturns(r)
            PROVE  MigrateReturns(p) /\ pc[p] = "migrated"
        BY <2>2, <4>8 DEF MigrateReturns
      <4> QED
        BY <4>1, <4>2, <4>3, <4>4, <4>5, <4>6, <4>7, <4>8 DEF ApplicationNext, AllEnded
    <3> QED
      BY <3>1, ApplicationAssumption DEF HistoryInv, NotAhead
  <2> QED
    BY <2>1, <2>2
<1> QED
  BY <1>1, VersionRises DEF HistoryInv, NoGap, Latest

\* A process that migrates before it serves finds the latest version, and all
\* that no late step can undo, however many others migrate at the same time, are
\* killed or start again (run WithMigration, MigrateToLatest).
THEOREM ServesTheLatest == ApplicationSpec => []ServesLatest
<1>1. ApplicationInit => HistoryInv /\ LifeInv /\ ReadyToServe
  BY InitHistory DEF ApplicationInit, LifeInv, LifeTyped, Nested, ReadyToServe
<1>2. HistoryInv /\ LifeInv /\ ReadyToServe /\ [ApplicationNext]_allVars
      => HistoryInv' /\ LifeInv' /\ ReadyToServe'
  BY VersionRises, NextKeepsLife, NextKeepsReady
<1>3. HistoryInv /\ ReadyToServe => ServesLatest
  BY CreatedIsDBXSchema DEF HistoryInv, SchemaMatches, ReadyToServe, ServesLatest
<1> QED
  BY <1>1, <1>2, <1>3, PTL DEF ApplicationSpec

-----------------------------------------------------------------------------
(* What a readiness request has seen and answers.                          *)

\* What the steps say of a request in terms of whether the database is up.
ReadyTyped ==
    /\ stop \in [Runners -> BOOLEAN]
    /\ status \in [Runners -> {200, 503}]
    /\ down \subseteq Services
    /\ outages \in 0 .. MaxOutages
    /\ seen \in [Runners -> SUBSET BOOLEAN]

\* A request has seen what the database is now, and, once it has pinged the
\* database, what its status says.
Witnessed ==
    \A p \in Runners :
        /\ handler[p] # "none" => Up("database") \in seen[p]
        /\ handler[p] \in {"pingPrice", "pingNodes", "respond"} => (status[p] = 200) \in seen[p]

ReadyInv == ReadyTyped /\ Witnessed

\* A step that leaves the request of every process alone, but may tell it to
\* stop, keeps ReadyInv.
LEMMA ReadyKept ==
    ASSUME ReadyInv, UNCHANGED <<handler, status, seen, down, outages>>,
           stop' \in [Runners -> BOOLEAN]
    PROVE  ReadyInv'
  BY DEF ReadyInv, ReadyTyped, Witnessed, Up

\* A process that ends, or a handler that does, has no request any more.
LEMMA ReadyEnds ==
    ASSUME LifeInv, ReadyInv, NEW r \in Runners,
           handler' = [handler EXCEPT ![r] = "none"],
           status' = [status EXCEPT ![r] = 200],
           seen' = [seen EXCEPT ![r] = {}],
           UNCHANGED <<stop, down, outages>>
    PROVE  ReadyInv'
  BY DEF LifeInv, LifeTyped, ReadyInv, ReadyTyped, Witnessed, Up

LEMMA MainKeepsReady ==
    ASSUME LifeInv, ReadyInv, NEW r \in Runners,
           \/ Launch(r) \/ Signal(r) \/ Kill(r)
           \/ Connect(r) \/ ConnectFails(r) \/ MigrateReturns(r)
           \/ NewApp(r) \/ NewAppFails(r) \/ Run(r)
           \/ RunReturns(r) \/ Close(r) \/ Disconnect(r)
    PROVE  ReadyInv'
<1> USE DEF goroutines, request, environment
<1>1. stop \in [Runners -> BOOLEAN]
  BY DEF ReadyInv, ReadyTyped
<1>2. CASE Launch(r) \/ Signal(r)
  BY <1>1, <1>2, ReadyKept DEF Launch, Signal
<1>3. CASE Kill(r)
  BY <1>3, ReadyEnds DEF Kill
<1>4. CASE Connect(r) \/ ConnectFails(r) \/ MigrateReturns(r)
  BY <1>1, <1>4, ReadyKept DEF Connect, ConnectFails, MigrateReturns
<1>5. CASE NewApp(r) \/ NewAppFails(r) \/ Run(r) \/ RunReturns(r) \/ Disconnect(r)
  BY <1>1, <1>5, ReadyKept DEF NewApp, NewAppFails, Run, RunReturns, Disconnect
<1>6. CASE Close(r)
  <2>1. handler[r] = "none"
    BY <1>6 DEF Close, LifeInv, LifeTyped, Nested
  <2>2. handler' = handler
    BY <1>6, <2>1 DEF Close, LifeInv, LifeTyped
  <2> QED
    BY <1>1, <1>6, <2>2, ReadyKept DEF Close
<1> QED
  BY <1>2, <1>3, <1>4, <1>5, <1>6

LEMMA GoroutinesKeepReady ==
    ASSUME ReadyInv, NEW r \in Runners,
           \/ ServeStep(r) \/ ServeFails(r) \/ ShutdownStep(r)
           \/ BeginSaving(r) \/ ChoreStep(r)
    PROVE  ReadyInv'
<1>1. stop \in [Runners -> BOOLEAN]
  BY DEF ReadyInv, ReadyTyped
<1>2. stop' = stop \/ stop' = [stop EXCEPT ![r] = stop[r] \/ serve[r] = "broken"]
  BY DEF ServeStep, Serve, ServeReturns, ServerReturns, ServeFails, ShutdownStep, BeginShutdown,
         EndShutdown, BeginSaving, ChoreStep, EndSaving, ChoreEnds
<1>3. (stop[r] \/ serve[r] = "broken") \in BOOLEAN
  OBVIOUS
<1>4. stop' \in [Runners -> BOOLEAN]
  BY <1>1, <1>2, <1>3
<1>5. UNCHANGED <<handler, status, seen, down, outages>>
  BY DEF ServeStep, Serve, ServeReturns, ServerReturns, ServeFails, ShutdownStep, BeginShutdown,
         EndShutdown, BeginSaving, ChoreStep, EndSaving, ChoreEnds, MainWaits, request, environment
<1> QED
  BY <1>4, <1>5, ReadyKept

\* The steps of a request: it begins with what the database is, and its status
\* is set from the database when that is pinged.
LEMMA RequestsKeepReady ==
    ASSUME LifeInv, ReadyInv, NEW r \in Runners, Accept(r) \/ HandlerStep(r)
    PROVE  ReadyInv'
<1> USE DEF ReadyInv, ReadyTyped, Handled, HandlerGoesTo, environment
<1>0. handler \in [Runners -> {"none", "work", "pingDatabase", "pingPrice", "pingNodes",
                               "respond", "cut"}]
  BY DEF LifeInv, LifeTyped
<1>1. CASE Accept(r)
  <2>1. /\ seen' = [seen EXCEPT ![r] = {Up("database")}]
        /\ UNCHANGED <<stop, status, down, outages>>
        /\ handler' = [handler EXCEPT ![r] = "work"]
           \/ handler' = [handler EXCEPT ![r] = "pingDatabase"]
    BY <1>1 DEF Accept
  <2>2. {Up("database")} \in SUBSET BOOLEAN
    BY DEF Up
  <2>3. ReadyTyped'
    BY <2>1, <2>2
  <2>4. Witnessed'
    BY <1>0, <2>1 DEF Witnessed, Up
  <2> QED
    BY <2>3, <2>4
<1>2. CASE Answer(r) \/ PingPanics(r)
  BY <1>2, ReadyEnds DEF Answer, PingPanics
<1>3. CASE PingDatabase(r)
  <2>1. /\ handler[r] = "pingDatabase"
        /\ handler' = [handler EXCEPT ![r] = "pingPrice"]
        /\ status' = [status EXCEPT ![r] = 200] \/ status' = [status EXCEPT ![r] = 503]
        /\ UNCHANGED <<stop, seen, down, outages>>
    BY <1>3 DEF PingDatabase
  <2>2. Up("database") \in seen[r]
    BY <2>1 DEF Witnessed
  <2>3. (status'[r] = 200) = Up("database")
    BY <1>3 DEF PingDatabase, Up
  <2>4. (status'[r] = 200) \in seen'[r]
    BY <2>1, <2>2, <2>3
  <2>5. ReadyTyped'
    BY <2>1
  <2>6. Witnessed'
    BY <1>0, <2>1, <2>2, <2>4 DEF Witnessed, Up
  <2> QED
    BY <2>5, <2>6
<1>4. CASE PingPrice(r) \/ PingAll(r)
  <2>1. /\ handler[r] \in {"pingPrice", "pingNodes"}
        /\ handler' = [handler EXCEPT ![r] = "pingNodes"]
           \/ handler' = [handler EXCEPT ![r] = "respond"]
        /\ UNCHANGED <<stop, status, seen, down, outages>>
    BY <1>4 DEF PingPrice, PingAll
  <2> QED
    BY <1>0, <2>1 DEF Witnessed, Up
<1> QED
  BY <1>1, <1>2, <1>3, <1>4 DEF HandlerStep

\* What becomes of the services is seen by every request that is handled.
LEMMA ServicesKeepReady ==
    ASSUME LifeInv, ReadyInv, NEW service \in Services, Outage(service) \/ Recovery(service)
    PROVE  ReadyInv'
<1> USE DEF ReadyInv, ReadyTyped
<1>1. /\ Observed
      /\ UNCHANGED <<stop, handler, status>>
      /\ down' \subseteq Services
  BY DEF Outage, Recovery, goroutines
<1>2. outages' \in 0 .. MaxOutages
  <2>1. outages' = outages \/ (outages < MaxOutages /\ outages' = outages + 1)
    BY DEF Outage, Recovery
  <2> QED
    BY <2>1, ApplicationAssumption
<1>3. ("database" \notin down') \in BOOLEAN
  OBVIOUS
<1>4. \A p \in Runners :
        seen'[p] = IF handler[p] = "none" THEN seen[p] ELSE seen[p] \cup {"database" \notin down'}
  BY <1>1 DEF Observed
<1>5. seen' \in [Runners -> SUBSET BOOLEAN]
  <2>1. ASSUME NEW p \in Runners
        PROVE  (IF handler[p] = "none" THEN seen[p] ELSE seen[p] \cup {"database" \notin down'})
               \in SUBSET BOOLEAN
    <3>1. seen[p] \in SUBSET BOOLEAN
      OBVIOUS
    <3>2. seen[p] \cup {"database" \notin down'} \in SUBSET BOOLEAN
      <4> HIDE DEF ReadyInv
      <4> QED BY <1>3, <3>1
    <3> QED
      BY <3>1, <3>2
  <2> QED
    BY <1>1, <2>1 DEF Observed
<1>6. Witnessed'
  <2> SUFFICES ASSUME NEW p \in Runners, handler[p] # "none"
               PROVE  /\ ("database" \notin down') \in seen'[p]
                      /\ handler[p] \in {"pingPrice", "pingNodes", "respond"} =>
                             (status[p] = 200) \in seen'[p]
    BY <1>1 DEF Witnessed, Up
  <2>1. seen'[p] = seen[p] \cup {"database" \notin down'}
    BY <1>4
  <2>2. handler[p] \in {"pingPrice", "pingNodes", "respond"} => (status[p] = 200) \in seen[p]
    BY DEF Witnessed
  <2> QED
    BY <2>1, <2>2, Zenon
<1> QED
  BY <1>1, <1>2, <1>5, <1>6

LEMMA NextKeepsReadyInv == LifeInv /\ ReadyInv /\ [ApplicationNext]_allVars => ReadyInv'
<1> SUFFICES ASSUME LifeInv, ReadyInv, [ApplicationNext]_allVars PROVE ReadyInv'
  OBVIOUS
<1>0. stop \in [Runners -> BOOLEAN]
  BY DEF ReadyInv, ReadyTyped
<1>1. ASSUME NEW p \in Processes, Migrate(p) \/ MigrationStep(p) PROVE ReadyInv'
  BY <1>0, <1>1, ReadyKept DEF Migrate, MigrationStep, process, request, environment
<1>2. CASE UNCHANGED allVars
  BY <1>0, <1>2, ReadyKept DEF allVars, process, request, environment
<1> QED
  BY <1>1, <1>2, MainKeepsReady, GoroutinesKeepReady, RequestsKeepReady, ServicesKeepReady
  DEF ApplicationNext, AllEnded

LEMMA ReadyInvariant == ApplicationSpec => []ReadyInv
<1>1. ApplicationInit => ReadyInv
  BY ApplicationAssumption DEF ApplicationInit, ReadyInv, ReadyTyped, Witnessed
<1> QED
  BY <1>1, NextKeepsReadyInv, LifeInvariant, PTL DEF ApplicationSpec

\* Ready answers what the database has been at some time since the request
\* began; the price source and the nodes do not decide it (health/endpoint.go).
THEOREM ReadyTellsTheTruth == ApplicationSpec => []ReadyIsTrue
<1>1. ReadyInv => ReadyIsTrue
  BY DEF ReadyInv, Witnessed, ReadyIsTrue
<1> QED
  BY <1>1, ReadyInvariant, PTL

-----------------------------------------------------------------------------
(* Type correctness.                                                       *)

\* A process connects with an attempt left, and migrates only within the part
\* of run that calls migrate: the two loops share the count of their attempts.
Counted ==
    /\ ProgressTyped
    /\ starts \in 0 .. MaxStarts
    /\ \A p \in Runners :
        /\ app[p] = "connect" => opens[p] < MaxOpens
        /\ pc[p] \in {"open", "read", "run"} => app[p] = "migrate"

\* A step that neither counts an attempt nor enters a loop keeps Counted.
LEMMA CountedKept ==
    ASSUME Counted, UNCHANGED <<pc, opens, late, starts>>,
           \A p \in Runners :
               /\ app'[p] = "connect" => app[p] = "connect"
               /\ pc[p] \in {"open", "read", "run"} => app'[p] = app[p]
    PROVE  Counted'
  BY DEF Counted, ProgressTyped, AttemptsLeft

LEMMA MainKeepsCounted ==
    ASSUME HistoryInv, LifeInv, Counted, NEW r \in Runners,
           \/ Launch(r) \/ Signal(r) \/ Kill(r)
           \/ Connect(r) \/ ConnectFails(r) \/ MigrateReturns(r)
           \/ NewApp(r) \/ NewAppFails(r) \/ Run(r)
           \/ RunReturns(r) \/ Close(r) \/ Disconnect(r)
    PROVE  Counted'
<1> USE DEF AppGoesTo, database, migrating
<1>0. /\ r \in Processes
      /\ pc \in [Processes -> {"idle", "open", "read", "run", "migrated", "failed"}]
      /\ app \in [Runners -> {"none", "connect", "migrate", "new", "start", "run",
                              "close", "disconnect", "exited"}]
      /\ opens \in [Processes -> 0 .. MaxOpens] /\ MaxOpens \in Nat \ {0} /\ MaxStarts \in Nat
      /\ \A p \in Runners : p \in Processes
  BY ApplicationAssumption, MigrationAssumption
  DEF HistoryInv, ProcessesTyped, LifeInv, LifeTyped, Counted, ProgressTyped
<1>1. CASE Launch(r)
  BY <1>0, <1>1 DEF Launch, Counted, ProgressTyped, AttemptsLeft
<1>2. CASE Kill(r)
  <2>1. /\ starts' = starts
        /\ app' = [app EXCEPT ![r] = "none"]
        /\ Crash(r) \/ (pc[r] \notin {"open", "read", "run"} /\ UNCHANGED <<late, pc, opens, next>>)
    BY <1>2 DEF Kill, Crash
  <2>2. CASE Crash(r)
    <3>1. ProgressTyped'
      BY <1>0, <2>2, MoveKeepsProgress DEF MoveOf, Counted
    <3>2. pc' = [pc EXCEPT ![r] = "idle"] /\ opens' = opens
      BY <2>2 DEF Crash, GoTo
    <3> QED
      BY <1>0, <2>1, <3>1, <3>2 DEF Counted
  <2>3. CASE pc[r] \notin {"open", "read", "run"} /\ UNCHANGED <<late, pc, opens, next>>
    BY <1>0, <2>1, <2>3, CountedKept
  <2> QED
    BY <2>1, <2>2, <2>3
<1>3. CASE Connect(r)
  <2>1. CASE WithMigration
    <3>1. Begin(r) /\ app' = [app EXCEPT ![r] = "migrate"] /\ starts' = starts
      BY <1>3, <2>1 DEF Connect
    <3>2. ProgressTyped'
      BY <1>0, <3>1, MoveKeepsProgress DEF MoveOf, Counted
    <3>3. opens' = [opens EXCEPT ![r] = 0] /\ pc' = [pc EXCEPT ![r] = "open"]
      BY <3>1 DEF Begin, GoTo
    <3> QED
      BY <1>0, <3>1, <3>2, <3>3 DEF Counted
  <2>2. CASE ~WithMigration
    <3>1. /\ app[r] = "connect" /\ app' = [app EXCEPT ![r] = "new"]
          /\ UNCHANGED <<pc, opens, late, starts>>
      BY <1>3, <2>2 DEF Connect
    <3>2. pc[r] \notin {"open", "read", "run"}
      BY <3>1 DEF Counted
    <3> QED
      BY <1>0, <3>1, <3>2, CountedKept
  <2> QED
    BY <2>1, <2>2
<1>4. CASE ConnectFails(r)
  <2>1. /\ app[r] = "connect" /\ UNCHANGED <<pc, late, starts>>
        /\ opens' = [opens EXCEPT ![r] = opens[r] + 1]
    BY <1>4 DEF ConnectFails
  <2>2. opens[r] < MaxOpens /\ opens[r] \in 0 .. MaxOpens
    BY <1>0, <2>1 DEF Counted
  <2>3. opens' \in [Processes -> 0 .. MaxOpens] /\ opens'[r] = opens[r] + 1
    BY <1>0, <2>1, <2>2
  <2>4. pc[r] \notin {"open", "read", "run"}
    BY <2>1 DEF Counted
  <2>5. \A p \in Processes \ {r} : opens'[p] = opens[p]
    BY <1>0, <2>1
  <2>6. AttemptsLeft'
    BY <2>1, <2>4, <2>5 DEF AttemptsLeft, Counted, ProgressTyped
  <2>7. CASE opens'[r] = MaxOpens
    <3>1. app' = [app EXCEPT ![r] = "exited"]
      BY <1>4, <2>7 DEF ConnectFails
    <3> QED
      BY <1>0, <2>1, <2>3, <2>4, <2>5, <2>6, <3>1 DEF Counted, ProgressTyped
  <2>8. CASE opens'[r] # MaxOpens
    <3>1. app' = app /\ opens'[r] < MaxOpens
      BY <1>0, <1>4, <2>2, <2>3, <2>8 DEF ConnectFails
    <3> QED
      BY <1>0, <2>1, <2>3, <2>4, <2>5, <2>6, <3>1 DEF Counted, ProgressTyped
  <2> QED
    BY <2>7, <2>8
<1>5. CASE MigrateReturns(r)
  <2>1. /\ pc[r] \in {"migrated", "failed"}
        /\ app' = [app EXCEPT ![r] = "new"] \/ app' = [app EXCEPT ![r] = "disconnect"]
        /\ UNCHANGED <<pc, opens, late, starts>>
    BY <1>5 DEF MigrateReturns, vars
  <2> QED
    BY <1>0, <2>1, CountedKept
<1>6. CASE NewApp(r) \/ NewAppFails(r) \/ Run(r) \/ RunReturns(r) \/ Close(r) \/ Disconnect(r)
           \/ Signal(r)
  <2>1. /\ UNCHANGED <<pc, opens, late, starts>>
        /\ app' = app
           \/ (app[r] # "migrate"
               /\ \E step \in {"start", "disconnect", "run", "close", "exited"} :
                      app' = [app EXCEPT ![r] = step])
    BY <1>6 DEF NewApp, NewAppFails, Run, RunReturns, Close, Disconnect, Signal, vars
  <2>2. app' = app \/ pc[r] \notin {"open", "read", "run"}
    BY <2>1 DEF Counted
  <2> QED
    BY <1>0, <2>1, <2>2, CountedKept
<1> QED
  BY <1>1, <1>2, <1>3, <1>4, <1>5, <1>6

LEMMA NextKeepsCounted ==
    ASSUME HistoryInv, LifeInv, Counted, [ApplicationNext]_allVars
    PROVE  Counted'
<1>1. ASSUME NEW p \in Processes, Migrate(p) PROVE Counted'
  <2>1. /\ p \notin Runners /\ app' = app
        /\ Begin(p) \/ Crash(p)
        /\ starts' = starts \/ (starts < MaxStarts /\ starts' = starts + 1)
    BY <1>1 DEF Migrate, Start, Crash, process
  <2>2. ProgressTyped'
    BY <2>1, MoveKeepsProgress DEF MoveOf, Counted
  <2>3. \A q \in Processes \ {p} : pc'[q] = pc[q] /\ opens'[q] = opens[q]
    BY <2>1 DEF Begin, Crash, GoTo, HistoryInv, ProcessesTyped, Counted, ProgressTyped
  <2>4. starts' \in 0 .. MaxStarts
    BY <2>1, MigrationAssumption DEF Counted
  <2> QED
    BY <2>1, <2>2, <2>3, <2>4, ApplicationAssumption DEF Counted
<1>2. ASSUME NEW p \in Processes, MigrationStep(p) PROVE Counted'
  <2>1. /\ p \in Runners => app[p] = "migrate"
        /\ app' = app /\ starts' = starts
        /\ OpenDatabase(p) \/ OpenFails(p) \/ ReadVersion(p) \/ RunStep(p) \/ StepFails(p)
           \/ Succeed(p)
    BY <1>2 DEF MigrationStep, process, OpenDatabase, OpenFails, ReadVersion, RunStep, StepFails,
                Succeed
  <2>2. ProgressTyped'
    BY <2>1, MoveKeepsProgress DEF MoveOf, Counted
  <2>3. \A q \in Processes \ {p} : pc'[q] = pc[q] /\ opens'[q] = opens[q]
    BY <2>1 DEF OpenDatabase, OpenFails, ReadVersion, RunStep, StepFails, Succeed, GoTo,
                HistoryInv, ProcessesTyped, Counted, ProgressTyped
  <2> QED
    BY <2>1, <2>2, <2>3, ApplicationAssumption DEF Counted
<1>3. ASSUME NEW p \in Runners,
             \/ ServeStep(p) \/ ServeFails(p) \/ ShutdownStep(p)
             \/ BeginSaving(p) \/ ChoreStep(p)
      PROVE  UNCHANGED <<app, pc, opens, late, starts>>
  BY <1>3 DEF ServeStep, Serve, ServeReturns, ServerReturns, ServeFails, ShutdownStep,
              BeginShutdown, EndShutdown, BeginSaving, ChoreStep, EndSaving, ChoreEnds, MainWaits,
              vars
<1>4. ASSUME NEW p \in Runners, Accept(p) \/ HandlerStep(p)
      PROVE  UNCHANGED <<app, pc, opens, late, starts>>
  BY <1>4 DEF Accept, HandlerStep, Answer, PingDatabase, PingPrice, PingAll, PingPanics, Handled,
              vars
<1>5. ASSUME NEW service \in Services, Outage(service) \/ Recovery(service)
      PROVE  UNCHANGED <<app, pc, opens, late, starts>>
  BY <1>5 DEF Outage, Recovery, vars
<1>6. CASE UNCHANGED <<app, pc, opens, late, starts>>
  BY <1>6, CountedKept
<1>7. CASE UNCHANGED allVars
  BY <1>6, <1>7 DEF allVars, vars, process
<1> QED
  BY <1>1, <1>2, <1>3, <1>4, <1>5, <1>6, <1>7, MainKeepsCounted DEF ApplicationNext, AllEnded

\* The process, its goroutines, its request and its migration keep their types,
\* and no attempt is counted beyond their number (run, openDatabaseWithRetry).
THEOREM ApplicationTypeCorrect == ApplicationSpec => []ApplicationTypeOK
<1>1. ApplicationInit => HistoryInv /\ Counted
  <2> SUFFICES ASSUME ApplicationInit PROVE HistoryInv /\ Counted
    OBVIOUS
  <2>1. Init
    BY DEF ApplicationInit
  <2> QED
    <3>1. starts \in 0 .. MaxStarts /\ \A p \in Processes : pc[p] = "idle"
      BY <2>1, MigrationAssumption DEF Init
    <3>2. \A p \in Runners : app[p] = "none"
      BY DEF ApplicationInit
    <3> QED
      BY <2>1, <3>1, <3>2, InitHistory, InitProgress, ApplicationAssumption DEF Counted
<1>2. HistoryInv /\ LifeInv /\ Counted /\ [ApplicationNext]_allVars => HistoryInv' /\ Counted'
  BY VersionRises, NextKeepsCounted
<1>3. HistoryInv /\ Counted => TypeOK
  BY HistoryTyped DEF Counted, ProgressTyped, TypeOK
<1>4. HistoryInv /\ LifeInv /\ ReadyInv /\ Counted => ApplicationTypeOK
  BY <1>3 DEF LifeInv, LifeTyped, ReadyInv, ReadyTyped, ApplicationTypeOK
<1> QED
  BY <1>1, <1>2, <1>4, LifeInvariant, ReadyInvariant, PTL DEF ApplicationSpec

-----------------------------------------------------------------------------
(* What the migration promises, kept by the processes that run.            *)

LEMMA HistoryInvariant == ApplicationSpec => []HistoryInv
<1>1. ApplicationInit => HistoryInv
  BY InitHistory DEF ApplicationInit
<1> QED
  BY <1>1, VersionRises, PTL DEF ApplicationSpec

\* At the latest version the tables are those of the generated queries, up to
\* what a late step undoes, also with processes that serve, stop and are killed.
THEOREM ApplicationSchemasAgree == ApplicationSpec => []SchemaAgrees
<1>1. HistoryInv => SchemaAgrees
  BY StepsMakeDBXSchema, CreatedIsDBXSchema DEF HistoryInv, SchemaMatches, SchemaAgrees
<1> QED
  BY <1>1, HistoryInvariant, PTL

\* To the history of the schema a process that runs is one that migrates: its
\* signals, outages, requests and prices change nothing of it.
THEOREM ApplicationRefinement == ApplicationSpec => ImplementsHistory
<1>1. ApplicationInit => History!Init
  BY InitIsHistory DEF ApplicationInit
<1>2. HistoryInv /\ [ApplicationNext]_allVars => [History!Next]_(History!historyVars)
  BY StepsOfMigration, MoveIsHistory, NoMoveIsHistory
<1> QED
  BY <1>1, <1>2, HistoryInvariant, PTL DEF ApplicationSpec, History!Spec, ImplementsHistory

=============================================================================
