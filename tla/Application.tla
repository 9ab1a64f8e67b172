----------------------------- MODULE Application -----------------------------
(***************************************************************************)
(* The life of a storjscan process: run of cmd/storjscan/main.go, NewApp,  *)
(* Run and Close of storjscan.go, Run and Close of api/server.go, the loop *)
(* of tokenprice/chore.go and the handlers of health/endpoint.go, composed *)
(* with module Migration: a process that is run WithMigration migrates the *)
(* database before it serves, while others run or only migrate.            *)
(*                                                                         *)
(* Run waits for four goroutines: the two of the API server, which end     *)
(* each other (Serve, and the one that calls Shutdown), the server's Run,  *)
(* which waits for both, and the price chore.  Each has its own steps.     *)
(***************************************************************************)
EXTENDS Migration

CONSTANTS
    Runners,         \* the processes that run the service; the others only migrate
    WithMigration,   \* whether a process that runs migrates first
    MaxOutages       \* bound: how often a service becomes unavailable

ASSUME ApplicationAssumption ==
    /\ Runners \subseteq Processes
    /\ WithMigration \in BOOLEAN
    /\ MaxOutages \in Nat

VARIABLES
    app,         \* how far "run" has come
    connected,   \* whether its connection to the database is open
    stop,        \* whether its context has been cancelled
    serve,       \* the goroutine that serves, and the API server's Run
    shutdown,    \* the goroutine that shuts the server down
    chore,       \* the loop of the price chore
    handler,     \* the request that it handles
    status,      \* the HTTP status of a readiness request
    down,        \* the services that are not available
    outages,     \* how often one has become unavailable
    seen         \* history: whether the database was up, since a request began

goroutines  == <<serve, shutdown, chore>>
request     == <<handler, status, seen>>
environment == <<down, outages>>
process     == <<app, connected, stop, goroutines, request>>
allVars     == <<vars, process, environment>>

Services == {"database", "price", "node"}

Up(service) == service \notin down

\* One type invariant: every process is at a step of its life.
ApplicationTypeOK ==
    /\ TypeOK
    /\ app \in [Runners -> {"none", "connect", "migrate", "new", "start", "run",
                            "close", "disconnect", "exited"}]
    /\ connected \in [Runners -> BOOLEAN]
    /\ stop \in [Runners -> BOOLEAN]
    /\ serve \in [Runners -> {"none", "starting", "serving", "closed", "broken", "returned"}]
    /\ shutdown \in [Runners -> {"none", "waiting", "closing", "done"}]
    /\ chore \in [Runners -> {"none", "saving", "waiting", "ended"}]
    /\ handler \in [Runners -> {"none", "work", "pingDatabase", "pingPrice", "pingNodes",
                                "respond", "cut"}]
    /\ status \in [Runners -> {200, 503}]
    /\ down \subseteq Services
    /\ outages \in 0 .. MaxOutages
    /\ seen \in [Runners -> SUBSET BOOLEAN]

ApplicationInit ==
    /\ Init
    /\ app = [p \in Runners |-> "none"]
    /\ connected = [p \in Runners |-> FALSE]
    /\ stop = [p \in Runners |-> FALSE]
    /\ serve = [p \in Runners |-> "none"]
    /\ shutdown = [p \in Runners |-> "none"]
    /\ chore = [p \in Runners |-> "none"]
    /\ handler = [p \in Runners |-> "none"]
    /\ status = [p \in Runners |-> 200]
    /\ down = {}
    /\ outages = 0
    /\ seen = [p \in Runners |-> {}]

AppGoesTo(p, step) == app' = [app EXCEPT ![p] = step]

-----------------------------------------------------------------------------
(* The function run.                                                       *)

Launch(p) ==
    /\ app[p] \in {"none", "exited"}
    /\ starts < MaxStarts
    /\ starts' = starts + 1
    /\ opens' = [opens EXCEPT ![p] = 0]
    /\ stop' = [stop EXCEPT ![p] = FALSE]
    /\ AppGoesTo(p, "connect")
    /\ UNCHANGED <<database, pc, next, connected, goroutines, request, environment>>

Connect(p) ==
    /\ app[p] = "connect"
    /\ Up("database")
    /\ connected' = [connected EXCEPT ![p] = TRUE]
    /\ IF WithMigration
       THEN AppGoesTo(p, "migrate") /\ Begin(p)
       ELSE AppGoesTo(p, "new") /\ UNCHANGED <<database, migrating>>
    /\ UNCHANGED <<starts, stop, goroutines, request, environment>>

\* Mistake: one attempt too many.
ConnectFailsOnceMore(p) ==
    /\ app[p] = "connect"
    /\ ~Up("database")
    /\ opens' = [opens EXCEPT ![p] = @ + 1]
    /\ IF opens'[p] > MaxOpens THEN AppGoesTo(p, "exited") ELSE UNCHANGED app
    /\ UNCHANGED <<database, pc, next, starts, connected, stop, goroutines, request, environment>>

\* The loop sleeps between the attempts, whether or not it has been told to
\* stop, and run returns the error of the last one.
ConnectFails(p) ==
    /\ app[p] = "connect"
    /\ ~Up("database")
    /\ opens' = [opens EXCEPT ![p] = @ + 1]
    /\ IF opens'[p] = MaxOpens THEN AppGoesTo(p, "exited") ELSE UNCHANGED app
    /\ UNCHANGED <<database, pc, next, starts, connected, stop, goroutines, request, environment>>

\* A step of migrate, in the same process.  Its queries have the context of
\* the process, so that a migration that is told to stop fails.
MigrationStep(p) ==
    /\ p \in Runners => app[p] = "migrate"
    /\ \/ OpenDatabase(p) /\ Up("database")
       \/ OpenFails(p) /\ ~Up("database")
       \/ (ReadVersion(p) \/ RunStep(p)) /\ (p \in Runners => ~stop[p])
       \/ StepFails(p)
       \/ Succeed(p)
    /\ UNCHANGED <<process, environment>>

\* The command that only migrates is started, or killed.
Migrate(p) ==
    /\ p \notin Runners
    /\ Start(p) \/ Crash(p)
    /\ UNCHANGED <<process, environment>>

\* Mistake: the error of migrate is not looked at.
MigrateReturnsAnyway(p) ==
    /\ app[p] = "migrate"
    /\ pc[p] \in {"migrated", "failed"}
    /\ AppGoesTo(p, "new")
    /\ UNCHANGED <<vars, connected, stop, goroutines, request, environment>>

\* The process goes on only if its migration has succeeded.
MigrateReturns(p) ==
    /\ app[p] = "migrate"
    /\ \/ pc[p] = "migrated" /\ AppGoesTo(p, "new")
       \/ pc[p] = "failed" /\ AppGoesTo(p, "disconnect")
    /\ UNCHANGED <<vars, connected, stop, goroutines, request, environment>>

NewApp(p) ==
    /\ app[p] = "new"
    /\ AppGoesTo(p, "start")
    /\ UNCHANGED <<vars, connected, stop, goroutines, request, environment>>

\* The endpoints or the keys are malformed, or the address is in use.
NewAppFails(p) ==
    /\ app[p] = "new"
    /\ AppGoesTo(p, "disconnect")
    /\ UNCHANGED <<vars, connected, stop, goroutines, request, environment>>

\* App.Run starts the goroutines of the server and of the chore.
Run(p) ==
    /\ app[p] = "start"
    /\ AppGoesTo(p, "run")
    /\ serve' = [serve EXCEPT ![p] = "starting"]
    /\ shutdown' = [shutdown EXCEPT ![p] = "waiting"]
    /\ chore' = [chore EXCEPT ![p] = "saving"]
    /\ UNCHANGED <<vars, connected, stop, request, environment>>

\* Mistake: Run returns when the server has, without waiting for the chore.
RunReturnsEarly(p) ==
    /\ app[p] = "run"
    /\ serve[p] = "returned"
    /\ AppGoesTo(p, "close")
    /\ UNCHANGED <<vars, connected, stop, goroutines, request, environment>>

\* The group waits for the server and the chore.
RunReturns(p) ==
    /\ app[p] = "run"
    /\ serve[p] = "returned"
    /\ chore[p] = "ended"
    /\ AppGoesTo(p, "close")
    /\ UNCHANGED <<vars, connected, stop, goroutines, request, environment>>

\* App.Close: the server closes the connections that are still open.
Close(p) ==
    /\ app[p] = "close"
    /\ AppGoesTo(p, "disconnect")
    /\ handler' = [handler EXCEPT ![p] = IF @ = "none" THEN @ ELSE "cut"]
    /\ UNCHANGED <<vars, connected, stop, goroutines, status, seen, environment>>

\* The deferred Close of the database, with which the process ends.
Disconnect(p) ==
    /\ app[p] = "disconnect"
    /\ connected' = [connected EXCEPT ![p] = FALSE]
    /\ AppGoesTo(p, "exited")
    /\ UNCHANGED <<vars, stop, goroutines, request, environment>>

\* SIGINT or SIGTERM.
Signal(p) ==
    /\ app[p] \notin {"none", "exited"}
    /\ ~stop[p]
    /\ stop' = [stop EXCEPT ![p] = TRUE]
    /\ UNCHANGED <<vars, app, connected, goroutines, request, environment>>

\* The process is killed.
Kill(p) ==
    /\ app[p] \notin {"none", "exited"}
    /\ AppGoesTo(p, "none")
    /\ connected' = [connected EXCEPT ![p] = FALSE]
    /\ serve' = [serve EXCEPT ![p] = "none"]
    /\ shutdown' = [shutdown EXCEPT ![p] = "none"]
    /\ chore' = [chore EXCEPT ![p] = "none"]
    /\ handler' = [handler EXCEPT ![p] = "none"]
    /\ \/ Crash(p)
       \/ pc[p] \notin {"open", "read", "run"} /\ UNCHANGED <<database, migrating, starts>>
    /\ status' = [status EXCEPT ![p] = 200]
    /\ seen' = [seen EXCEPT ![p] = {}]
    /\ UNCHANGED <<stop, environment>>

-----------------------------------------------------------------------------
(* The goroutines of the server and of the chore.                          *)

MainWaits(p) == UNCHANGED <<vars, app, connected, request, environment>>

\* A server that has been shut down before it serves does not begin.
Serve(p) ==
    /\ serve[p] = "starting"
    /\ serve' = [serve EXCEPT ![p] = IF shutdown[p] = "waiting" THEN "serving" ELSE "closed"]
    /\ UNCHANGED <<stop, shutdown, chore>> /\ MainWaits(p)

\* Serve returns ErrServerClosed, which is no error of Run.
ServeReturns(p) ==
    /\ serve[p] = "serving"
    /\ shutdown[p] # "waiting"
    /\ serve' = [serve EXCEPT ![p] = "closed"]
    /\ UNCHANGED <<stop, shutdown, chore>> /\ MainWaits(p)

\* The listener fails.
ServeFails(p) ==
    /\ serve[p] = "serving"
    /\ serve' = [serve EXCEPT ![p] = "broken"]
    /\ UNCHANGED <<stop, shutdown, chore>> /\ MainWaits(p)

\* Mistake: Serve returns without cancelling the context of the server.
CancelledByProcess(p) == stop[p]

\* The context of the server: cancelled with the process's, or by Serve when
\* it returns.
Cancelled(p) == stop[p] \/ serve[p] \in {"closed", "broken"}

\* Shutdown closes the listener,
BeginShutdown(p) ==
    /\ shutdown[p] = "waiting"
    /\ Cancelled(p)
    /\ shutdown' = [shutdown EXCEPT ![p] = "closing"]
    /\ UNCHANGED <<stop, serve, chore>> /\ MainWaits(p)

\* and waits, for as long as it takes, until no request is being handled.
EndShutdown(p) ==
    /\ shutdown[p] = "closing"
    /\ handler[p] = "none"
    /\ shutdown' = [shutdown EXCEPT ![p] = "done"]
    /\ UNCHANGED <<stop, serve, chore>> /\ MainWaits(p)

\* Mistake: the server's Run returns when Serve has.
ServerReturnsEarly(p) ==
    /\ serve[p] \in {"closed", "broken"}
    /\ serve' = [serve EXCEPT ![p] = "returned"]
    /\ stop' = [stop EXCEPT ![p] = @ \/ serve[p] = "broken"]
    /\ UNCHANGED <<shutdown, chore>> /\ MainWaits(p)

\* The server's Run returns when both goroutines have; its error cancels the
\* context of the chore.
ServerReturns(p) ==
    /\ serve[p] \in {"closed", "broken"}
    /\ shutdown[p] = "done"
    /\ serve' = [serve EXCEPT ![p] = "returned"]
    /\ stop' = [stop EXCEPT ![p] = @ \/ serve[p] = "broken"]
    /\ UNCHANGED <<shutdown, chore>> /\ MainWaits(p)

\* The chore, which saves a price as soon as it runs, saves the next one.
BeginSaving(p) ==
    /\ chore[p] = "waiting"
    /\ ~stop[p]
    /\ chore' = [chore EXCEPT ![p] = "saving"]
    /\ UNCHANGED <<stop, serve, shutdown>> /\ MainWaits(p)

\* RunOnce returns; the loop goes on when it has failed.
EndSaving(p) ==
    /\ chore[p] = "saving"
    /\ chore' = [chore EXCEPT ![p] = "waiting"]
    /\ UNCHANGED <<stop, serve, shutdown>> /\ MainWaits(p)

ChoreEnds(p) ==
    /\ chore[p] = "waiting"
    /\ stop[p]
    /\ chore' = [chore EXCEPT ![p] = "ended"]
    /\ UNCHANGED <<stop, serve, shutdown>> /\ MainWaits(p)

-----------------------------------------------------------------------------
(* Requests.                                                               *)

Handled(p) == UNCHANGED <<vars, app, connected, stop, goroutines, environment>>

HandlerGoesTo(p, step) == handler' = [handler EXCEPT ![p] = step]

\* The server accepts a request: one of the other modules, or Ready.
Accept(p) ==
    /\ serve[p] = "serving"
    /\ shutdown[p] = "waiting"
    /\ handler[p] = "none"
    /\ HandlerGoesTo(p, "work") \/ HandlerGoesTo(p, "pingDatabase")
    /\ seen' = [seen EXCEPT ![p] = {Up("database")}]
    /\ UNCHANGED status /\ Handled(p)

\* The call returns and is answered.
Answer(p) ==
    /\ handler[p] \in {"work", "respond"}
    /\ HandlerGoesTo(p, "none")
    /\ status' = [status EXCEPT ![p] = 200]
    /\ seen' = [seen EXCEPT ![p] = {}]
    /\ Handled(p)

\* Ready: only the database decides what it answers.
PingDatabase(p) ==
    /\ handler[p] = "pingDatabase"
    /\ status' = [status EXCEPT ![p] = IF Up("database") THEN 200 ELSE 503]
    /\ HandlerGoesTo(p, "pingPrice")
    /\ UNCHANGED seen /\ Handled(p)

\* Mistake: the price source decides, too.
PingPriceDecides(p) ==
    /\ handler[p] = "pingPrice"
    /\ status' = [status EXCEPT ![p] = IF Up("price") THEN @ ELSE 503]
    /\ HandlerGoesTo(p, "pingNodes")
    /\ UNCHANGED seen /\ Handled(p)

\* A price source or a node that is not available is reported in the text of
\* the answer and to the monitoring.
PingPrice(p) ==
    /\ handler[p] = "pingPrice"
    /\ HandlerGoesTo(p, "pingNodes")
    /\ UNCHANGED <<status, seen>> /\ Handled(p)

PingAll(p) ==
    /\ handler[p] = "pingNodes"
    /\ HandlerGoesTo(p, "respond")
    /\ UNCHANGED <<status, seen>> /\ Handled(p)

\* The pings are made with a nil context: a library that uses it panics, and the
\* server ends the connection without an answer.
PingPanics(p) ==
    /\ handler[p] \in {"pingDatabase", "pingPrice", "pingNodes"}
    /\ HandlerGoesTo(p, "none")
    /\ status' = [status EXCEPT ![p] = 200]
    /\ seen' = [seen EXCEPT ![p] = {}]
    /\ Handled(p)

-----------------------------------------------------------------------------
(* What the process depends on.                                            *)

Observed == seen' = [p \in Runners |->
                IF handler[p] = "none" THEN seen[p] ELSE seen[p] \cup {"database" \notin down'}]

Outage(service) ==
    /\ Up(service)
    /\ outages < MaxOutages
    /\ outages' = outages + 1
    /\ down' = down \cup {service}
    /\ Observed
    /\ UNCHANGED <<vars, app, connected, stop, goroutines, handler, status>>

Recovery(service) ==
    /\ ~Up(service)
    /\ down' = down \ {service}
    /\ Observed
    /\ UNCHANGED <<vars, app, connected, stop, goroutines, handler, status, outages>>

\* No process runs, and none is started again.
AllEnded ==
    /\ starts = MaxStarts
    /\ \A p \in Runners : app[p] \in {"none", "exited"}
    /\ \A p \in Processes : pc[p] \in {"idle", "migrated", "failed"}
    /\ UNCHANGED allVars

-----------------------------------------------------------------------------
\* The function run, from one call to the next.
MainStep(p) ==
    \/ Connect(p) \/ ConnectFails(p)
    \/ MigrationStep(p) \/ MigrateReturns(p)
    \/ NewApp(p) \/ NewAppFails(p) \/ Run(p)
    \/ RunReturns(p) \/ Close(p) \/ Disconnect(p)

ServeStep(p)    == Serve(p) \/ ServeReturns(p) \/ ServerReturns(p)
ShutdownStep(p) == BeginShutdown(p) \/ EndShutdown(p)
ChoreStep(p)    == EndSaving(p) \/ ChoreEnds(p)
HandlerStep(p)  == Answer(p) \/ PingDatabase(p) \/ PingPrice(p) \/ PingAll(p) \/ PingPanics(p)

ApplicationNext ==
    \/ \E p \in Processes : Migrate(p) \/ MigrationStep(p)
    \/ \E p \in Runners :
         \/ Launch(p) \/ Signal(p) \/ Kill(p)
         \/ Connect(p) \/ ConnectFails(p) \/ MigrateReturns(p)
         \/ NewApp(p) \/ NewAppFails(p) \/ Run(p)
         \/ RunReturns(p) \/ Close(p) \/ Disconnect(p)
         \/ ServeStep(p) \/ ServeFails(p) \/ ShutdownStep(p)
         \/ BeginSaving(p) \/ ChoreStep(p)
         \/ Accept(p) \/ HandlerStep(p)
    \/ \E service \in Services : Outage(service) \/ Recovery(service)
    \/ AllEnded

ApplicationSpec == ApplicationInit /\ [][ApplicationNext]_allVars

\* Every goroutine runs, and the calls of a request return.
ApplicationFairSpec ==
    /\ ApplicationSpec
    /\ \A p \in Runners :
           /\ WF_allVars(MainStep(p))
           /\ WF_allVars(ServeStep(p))
           /\ WF_allVars(ShutdownStep(p))
           /\ WF_allVars(ChoreStep(p))
           /\ WF_allVars(HandlerStep(p))

-----------------------------------------------------------------------------
(* Properties.                                                             *)

\* The connection to the database outlives everything that uses it: while a
\* request is handled or a price is saved, it is open (the order of App.Run,
\* App.Close and the deferred db.Close in run).
DatabaseOutlivesItsUsers ==
    \A p \in Runners :
        handler[p] # "none" \/ chore[p] = "saving" => connected[p]

\* A process that stops, or whose listener fails, answers the requests that it
\* has accepted: Close finds no connection to cut (Shutdown in Server.Run).
NoRequestIsCut ==
    \A p \in Runners : handler[p] # "cut"

\* A process that has been told to stop, or whose listener has failed, ends,
\* whatever it was doing, if the calls of its requests return.
ProcessEnds ==
    \A p \in Runners :
        (app[p] = "run" /\ (stop[p] \/ serve[p] = "broken")) ~> (app[p] \in {"none", "exited"})

\* The answer of Ready, if there is one, is that of the database at some time
\* since the request began, whatever the price source and the nodes do (health/endpoint.go).
ReadyIsTrue ==
    \A p \in Runners :
        handler[p] = "respond" => (status[p] = 200) \in seen[p]

\* A process that migrates before it serves finds the latest version, and the
\* tables and keys that no late step can undo, for as long as it serves.
ServesLatest ==
    WithMigration =>
        \A p \in Runners :
            app[p] = "run" => Version = Latest /\ DBXSchema \ Undoable \subseteq schema

=============================================================================
