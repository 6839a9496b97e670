-------------------------------- MODULE Stack --------------------------------
(***************************************************************************)
(* A whole application: main loads its settings (src/config), applies the  *)
(* auto-configurers (src/autoconfigure), configures and starts its modules *)
(* (src/core/app.go, src/data/module.go, src/actuator, src/web) and stops  *)
(* them, and may do all of it again after a failure, while requests run    *)
(* transactions (src/data/tx.go) and health checks (src/actuator,          *)
(* src/data) on the database the data module registered.                   *)
(*                                                                         *)
(* Lifecycle, WebServer and Migrations model the App, the server and the   *)
(* migrations in detail; here a call of theirs is one action.  main is one *)
(* goroutine; every request is another.  database/sql and the database     *)
(* server are external: handles are opened and closed, a pool lends its    *)
(* connections, the server goes down and comes back, an answer is lost.    *)
(***************************************************************************)
EXTENDS Settings

CONSTANTS
  Workers,      \* requests under way at once
  Applications, \* the applications that may be started
  Disks,        \* for each, what its configuration files may hold
  Linked,       \* drivers the program imports
  DialectOf,    \* the dialect of each driver that DialectForDriver knows
  Number,       \* the number a text stands for
  MaxDepth,     \* bound: WithTx inside the function of WithTx
  MaxStarts,    \* bound: attempts to start the application
  MaxRequests,  \* bound: requests
  MaxFaults,    \* bound: for each, failures of the outside world
  None

Driver == "database.driver"
Dsn    == "database.dsn"
Conns  == "database.max-open-conns"
Slow   == "database.slow-query-threshold"

Modules == {"web", "data", "health", "info", "user"}
External == 0  \* the handle given to WithDB, or registered by an auto-configurer

\* A ProbedIndicator has a probe; "plain" ones have none and are asked by every
\* probe.  db: does it ping the data module's database.
Indicator == [probe : {"liveness", "readiness", "both", "plain"}, db : BOOLEAN]
\* order: the modules given to core.New; auto: the Registry, each entry a name
\* to register, guarded by OnMissingService or not, or no function at all;
\* late: Apply is called after App.Configure and not before it.
Application == [order : Seq(Modules), withDB : BOOLEAN, migrations : BOOLEAN, env : Environment,
                auto : Seq([name : STRING \cup {None}, guarded : BOOLEAN]), late : BOOLEAN,
                indicators : Seq(Indicator)]

ASSUME StackAssumption ==
  /\ \A a \in Applications : a \in Application
  /\ \A a \in Applications : \A d \in Disks[a] : DOMAIN d \subseteq File
  /\ {Driver, Dsn, Conns, Slow} \subseteq Range(Fields)
  /\ Linked \subseteq Values /\ DOMAIN DialectOf \subseteq Values
  /\ \A f \in {Conns, Slow} : \A v \in Parses[f] : Number[v] \in Int
  /\ MaxDepth \in Nat \ {0} /\ MaxStarts \in Nat \ {0} /\ MaxRequests \in Nat
  /\ MaxFaults \in [Applications -> Nat]
  /\ IsFiniteSet(Workers) /\ None \notin Nat \cup Values

VARIABLES
  app,        \* the application: it does not change
  disk,       \* the configuration files
  cfg,        \* the Config set on the App
  pc, pos,    \* where main is, and the module, auto-configurer or hook it is at
  attempts,   \* number of attempts to start
  configured, \* App.configured
  names,      \* names of App.services
  dbService,  \* the handle registered as data.db
  module,     \* the fields of data.Module
  hooks,      \* App.hooks
  running,    \* the hooks that were started and not stopped
  handle,     \* the *sql.DB values there are
  listening,  \* the web server accepts requests
  dbUp,       \* the database server answers
  migrated,   \* databases that have their schema
  req,        \* the requests
  arrived,    \* number of requests
  faults,     \* number of failures
  \* history
  loaded,     \* the files cfg was loaded from
  bound,      \* the files of the Config that data.Module.Configure bound last
  guessed,    \* the driver the dialect was detected from
  overdue     \* a shutdown ran into its deadline with requests under way

main    == <<app, disk, cfg, loaded, pc, pos, attempts, configured>>
service == <<names, dbService, module, hooks, bound, guessed>>
world   == <<handle, dbUp, migrated>>
web     == <<listening, overdue>>
request == <<req, arrived>>
vars    == <<main, service, running, world, web, request, faults>>

NewRequest == [at |-> "idle", db |-> None, depth |-> 0, tx |-> [d \in 1..MaxDepth |-> "none"], fn |-> "none",
               todo |-> <<>>, overall |-> "UP", seen |-> {}, gone |-> FALSE, told |-> None]

Init ==
  /\ app \in Applications /\ disk \in Disks[app]
  /\ cfg = None /\ pc = "load" /\ pos = 1 /\ attempts = 1 /\ configured = FALSE
  /\ names = {} /\ dbService = None
  /\ module = [settings |-> [f \in Range(Fields) |-> ""], dialect |-> None,
               db |-> IF app.withDB THEN External ELSE None]
  /\ hooks = <<>> /\ running = <<>>
  /\ handle = [h \in {External} |-> [dsn |-> "external", open |-> TRUE, limit |-> 0]]
  /\ listening = FALSE /\ dbUp = TRUE /\ migrated = {}
  /\ req = [w \in Workers |-> NewRequest] /\ arrived = 0 /\ faults = 0
  /\ loaded = None /\ bound = None /\ guessed = None /\ overdue = FALSE

\* Something outside the program fails.
Fault == faults < MaxFaults[app] /\ faults' = faults + 1

\* Connections of a pool that are lent, and whether one more is to be had.
Open(w)   == {d \in 1..MaxDepth : req[w].tx[d] = "open"}
InUse(h)  == {t \in Workers \X (1..MaxDepth) : req[t[1]].db = h /\ t[2] \in Open(t[1])}
HasConn(h) == handle[h].limit = 0 \/ Cardinality(InUse(h)) < handle[h].limit
Answers(h) == handle[h].open /\ dbUp

-----------------------------------------------------------------------------
(* main: load, apply, configure.                                           *)

GoTo(place) == pc' = place /\ pos' = 1

LoadConfig ==
  /\ pc = "load"
  /\ LET values == Load(disk, app.env) IN
       \/ /\ values # Broken
          /\ cfg' = values /\ loaded' = disk
          /\ GoTo(IF app.late THEN "configure" ELSE "apply")
       \/ values = Broken /\ GoTo("failed") /\ UNCHANGED <<cfg, loaded>>
  /\ UNCHANGED <<app, disk, attempts, configured, service, running, world, web, request, faults>>

\* Registry.Apply.
Apply ==
  /\ pc = "apply"
  /\ LET c == app.auto[pos] IN
       CASE pos > Len(app.auto) ->
              GoTo(IF app.late THEN "hooks" ELSE "configure") /\ UNCHANGED <<names, dbService>>
         [] pos <= Len(app.auto) /\ c.name # None /\ c.guarded /\ c.name \in names ->
              pos' = pos + 1 /\ UNCHANGED <<pc, names, dbService>>
         [] pos <= Len(app.auto) /\ c.name # None /\ c.name \notin names ->
              /\ pos' = pos + 1
              /\ names' = names \cup {c.name}
              /\ dbService' = IF c.name = "data.db" THEN External ELSE dbService
              /\ UNCHANGED pc
         [] OTHER -> GoTo("failed") /\ UNCHANGED <<names, dbService>>
  /\ UNCHANGED <<app, disk, cfg, loaded, attempts, configured, module, hooks, bound, guessed,
                 running, world, web, request, faults>>

\* Start and Configure call the modules' Configure in their order.
At(m) == pc = "configure" /\ ~configured /\ pos <= Len(app.order) /\ app.order[pos] = m
ModuleReturns == pos' = pos + 1 /\ UNCHANGED pc
ModuleFails   == GoTo("failed")
OfMain        == UNCHANGED <<app, disk, cfg, loaded, attempts>>

ConfigureDone ==
  /\ pc = "configure" /\ (configured \/ pos > Len(app.order))
  /\ configured' = TRUE
  /\ GoTo(IF app.late THEN "apply" ELSE "hooks")
  /\ OfMain /\ UNCHANGED <<service, running, world, web, request, faults>>

\* web.Server: register itself and its hook.
ConfigureWeb ==
  /\ At("web")
  /\ \/ /\ "web.server" \notin names
        /\ names' = names \cup {"web.server"}
        /\ hooks' = Append(hooks, [of |-> "web"])
        /\ ModuleReturns
     \/ "web.server" \in names /\ ModuleFails /\ UNCHANGED <<names, hooks>>
  /\ OfMain /\ UNCHANGED <<configured, dbService, module, bound, guessed, running, world, web, request, faults>>

\* HealthModule and InfoModule need the web server to be there before them.
ConfigureActuator(m, name) ==
  /\ At(m)
  /\ \/ /\ "web.server" \in names /\ name \notin names
        /\ names' = names \cup {name}
        /\ ModuleReturns
     \/ ("web.server" \notin names \/ name \in names) /\ ModuleFails /\ UNCHANGED names
  /\ OfMain
  /\ UNCHANGED <<configured, dbService, module, hooks, bound, guessed, running, world, web, request, faults>>

\* A module of the application that has a hook.
ConfigureUser ==
  /\ At("user")
  /\ hooks' = Append(hooks, [of |-> "user"])
  /\ ModuleReturns
  /\ OfMain
  /\ UNCHANGED <<configured, names, dbService, module, bound, guessed, running, world, web, request, faults>>

-----------------------------------------------------------------------------
(* data.Module.Configure.                                                  *)

Bound == Bind(cfg, module.settings)
Setting(f) == Bound.target[f]

\* The dialect is detected once, and kept by a later attempt.
Detects == module.dialect = None /\ Setting(Driver) # ""
Dialect == IF Detects /\ Setting(Driver) \in DOMAIN DialectOf
             THEN DialectOf[Setting(Driver)] ELSE module.dialect

\* It returns an error before it has a database.
Refuses ==
  \/ ~Bound.ok
  \/ Detects /\ Setting(Driver) \notin DOMAIN DialectOf
  \/ module.db = None /\ (Setting(Driver) \notin Linked \/ Setting(Dsn) = "")

\* The names it registers, in order.
Wanted == <<"data.db">> \o (IF Number[Setting(Slow)] > 0 THEN <<"data.instrumented-db">> ELSE <<>>)
                        \o (IF Dialect # None THEN <<"data.dialect">> ELSE <<>>)

\* The handle it uses, with the pool's limits.
Created == module.db = None
Handle  == IF Created THEN Cardinality(DOMAIN handle) ELSE module.db

\* Broken variant: a negative setting reaches the pool.
PoolUnchecked(limit) == Number[Setting(Conns)]
\* applyPoolConfig.
Pool(limit) == IF Number[Setting(Conns)] >= 0 THEN Number[Setting(Conns)] ELSE limit
Opened ==
  IF Created THEN [dsn |-> Setting(Dsn), open |-> TRUE, limit |-> Pool(0)]
             ELSE [handle[Handle] EXCEPT !.limit = Pool(@)]
Holding(db) == [h \in DOMAIN handle \cup {Handle} |-> IF h = Handle THEN db ELSE handle[h]]

Remember(db) ==
  /\ module' = [settings |-> Bound.target, dialect |-> IF Bound.ok THEN Dialect ELSE module.dialect, db |-> db]
  /\ bound' = loaded
  /\ guessed' = IF module'.dialect # module.dialect THEN Setting(Driver) ELSE guessed

DataRefuses ==
  /\ At("data") /\ Refuses
  /\ Remember(module.db)
  /\ ModuleFails
  /\ OfMain /\ UNCHANGED <<configured, names, dbService, hooks, running, world, web, request, faults>>

\* Broken variant: the database that was opened is not closed.
DataClashesOpen ==
  /\ At("data") /\ ~Refuses
  /\ \E i \in DOMAIN Wanted :
       /\ Wanted[i] \in names /\ \A j \in 1..(i - 1) : Wanted[j] \notin names
       /\ names' = names \cup {Wanted[j] : j \in 1..(i - 1)}
       /\ dbService' = IF i > 1 THEN Handle ELSE dbService
  /\ handle' = Holding(Opened)
  /\ Remember(module.db)
  /\ ModuleFails
  /\ OfMain /\ UNCHANGED <<configured, hooks, running, dbUp, migrated, web, request, faults>>

\* A name is taken: the names before it stay registered, and a database that
\* was opened for it is closed.
DataClashes ==
  /\ At("data") /\ ~Refuses
  /\ \E i \in DOMAIN Wanted :
       /\ Wanted[i] \in names /\ \A j \in 1..(i - 1) : Wanted[j] \notin names
       /\ names' = names \cup {Wanted[j] : j \in 1..(i - 1)}
       /\ dbService' = IF i > 1 THEN Handle ELSE dbService
  /\ handle' = Holding(IF Created THEN [Opened EXCEPT !.open = FALSE] ELSE Opened)
  /\ Remember(module.db)
  /\ ModuleFails
  /\ OfMain /\ UNCHANGED <<configured, hooks, running, dbUp, migrated, web, request, faults>>

DataConfigured ==
  /\ At("data") /\ ~Refuses /\ Range(Wanted) \cap names = {}
  /\ names' = names \cup Range(Wanted)
  /\ dbService' = Handle
  /\ handle' = Holding(Opened)
  /\ Remember(Handle)
  /\ hooks' = Append(hooks, [of |-> "data", db |-> Handle, created |-> Created])
  /\ ModuleReturns
  /\ OfMain /\ UNCHANGED <<configured, running, dbUp, migrated, web, request, faults>>

-----------------------------------------------------------------------------
(* Start and Stop.                                                         *)

Hook(of) == pc = "hooks" /\ pos <= Len(hooks) /\ hooks[pos].of = of
HookStarted == running' = Append(running, hooks[pos]) /\ pos' = pos + 1 /\ UNCHANGED pc
HookFails   == GoTo("rollback") /\ UNCHANGED running

\* Ping, which needs a connection of the pool, then ApplyMigrations.
StartData ==
  /\ Hook("data")
  /\ LET db == hooks[pos].db IN
       \/ /\ Answers(db) /\ HasConn(db)
          /\ migrated' = IF app.migrations THEN migrated \cup {handle[db].dsn} ELSE migrated
          /\ HookStarted /\ UNCHANGED faults
       \/ ~Answers(db) /\ HookFails /\ UNCHANGED <<migrated, faults>>
       \/ Answers(db) /\ app.migrations /\ Fault /\ HookFails /\ UNCHANGED migrated
  /\ OfMain /\ UNCHANGED <<configured, service, handle, dbUp, web, request>>

StartWeb ==
  /\ Hook("web")
  /\ \/ listening' = TRUE /\ HookStarted /\ UNCHANGED faults
     \/ ~listening /\ Fault /\ HookFails /\ UNCHANGED listening
  /\ OfMain /\ UNCHANGED <<configured, service, world, overdue, request>>

StartUser ==
  /\ Hook("user")
  /\ (HookStarted /\ UNCHANGED faults) \/ (Fault /\ HookFails)
  /\ OfMain /\ UNCHANGED <<configured, service, world, web, request>>

StartDone ==
  /\ pc = "hooks" /\ pos > Len(hooks)
  /\ GoTo("up")
  /\ OfMain /\ UNCHANGED <<configured, service, running, world, web, request, faults>>

\* The signal: App.Stop.
StopEnter ==
  /\ pc = "up"
  /\ GoTo("stopping")
  /\ OfMain /\ UNCHANGED <<configured, service, running, world, web, request, faults>>

Stopping == pc \in {"rollback", "stopping"}
\* Broken variant: the hooks are stopped in the order they were started.
StopsForward == 1
StopsNext == Len(running)
Turn(of) == Stopping /\ running # <<>> /\ running[StopsNext].of = of
HookStopped == running' = RemoveAt(running, StopsNext)
OfStop == OfMain /\ UNCHANGED <<pc, pos, configured, service, dbUp, migrated, request>>

StopData ==
  /\ Turn("data")
  /\ LET h == running[StopsNext] IN
       handle' = IF h.created THEN [handle EXCEPT ![h.db].open = FALSE] ELSE handle
  /\ HookStopped
  /\ OfStop /\ UNCHANGED <<web, faults>>

\* Shutdown closes the listener at once and waits for the requests until the
\* deadline of its context.
StopListening ==
  /\ Turn("web") /\ listening
  /\ listening' = FALSE
  /\ OfStop /\ UNCHANGED <<running, handle, overdue, faults>>

StopWeb ==
  /\ Turn("web") /\ ~listening
  /\ \/ (\A w \in Workers : req[w].at = "idle") /\ UNCHANGED <<overdue, faults>>
     \/ (\E w \in Workers : req[w].at # "idle") /\ Fault /\ overdue' = TRUE
  /\ HookStopped
  /\ OfStop /\ UNCHANGED <<handle, listening>>

StopUser ==
  /\ Turn("user")
  /\ HookStopped
  /\ OfStop /\ UNCHANGED <<handle, web, faults>>

StopDone ==
  /\ Stopping /\ running = <<>>
  /\ GoTo(IF pc = "rollback" THEN "failed" ELSE "down")
  /\ OfMain /\ UNCHANGED <<configured, service, running, world, web, request, faults>>

\* The caller tries again: with settings it has loaded anew from files somebody
\* has edited, or with another Start.
Retry ==
  /\ pc \in {"failed", "down"} /\ attempts < MaxStarts
  /\ attempts' = attempts + 1
  /\ \/ disk' \in Disks[app] /\ GoTo("load")
     \/ cfg # None /\ GoTo("configure") /\ UNCHANGED disk
  /\ UNCHANGED <<app, cfg, loaded, configured, service, running, world, web, request, faults>>

Main ==
  \/ LoadConfig \/ Apply \/ Retry
  \/ ConfigureWeb \/ ConfigureActuator("health", "actuator.health") \/ ConfigureActuator("info", "actuator.info")
  \/ ConfigureUser \/ DataRefuses \/ DataClashes \/ DataConfigured \/ ConfigureDone
  \/ StartData \/ StartWeb \/ StartUser \/ StartDone
  \/ StopEnter \/ StopData \/ StopListening \/ StopWeb \/ StopUser \/ StopDone

-----------------------------------------------------------------------------
(* Requests.                                                               *)

Set(w, r) == req' = [req EXCEPT ![w] = r]
OfRequest == UNCHANGED <<main, service, running, world, web, arrived>>

Asked(probe) ==
  SelectSeq(app.indicators, LAMBDA i : probe = "all" \/ i.probe \in {probe, "both", "plain"})

\* A handler that runs a transaction, or a probe: "all" is /actuator/health.
Arrive(w) ==
  /\ req[w].at = "idle" /\ listening /\ arrived < MaxRequests
  /\ \/ Set(w, [NewRequest EXCEPT !.at = "get"])
     \/ /\ "actuator.health" \in names
        /\ \E probe \in {"all", "liveness", "readiness"} :
             Set(w, [NewRequest EXCEPT !.at = "probe", !.todo = Asked(probe)])
  /\ arrived' = arrived + 1
  /\ UNCHANGED <<main, service, running, world, web, faults>>

\* core.Get of data.db.
GetDB(w) ==
  /\ req[w].at = "get"
  /\ IF dbService = None THEN Set(w, [req[w] EXCEPT !.at = "idle"])
     ELSE Set(w, [req[w] EXCEPT !.at = "begin", !.db = dbService, !.depth = 1])
  /\ OfRequest /\ UNCHANGED faults

\* WithTx returns to its caller, the handler or the function of another WithTx;
\* a panic goes on there.  r is the request with what the transaction became.
Returned(r, fn, result, durable) ==
  [r EXCEPT !.depth = @ - 1,
            !.at = CASE r.depth = 1 -> "idle" [] r.depth > 1 /\ result = "panic" -> "end" [] OTHER -> "fn",
            !.fn = IF r.depth > 1 /\ result = "panic" THEN "panic" ELSE "none",
            !.told = [of |-> "tx", fn |-> fn, result |-> result, durable |-> durable]]

\* BeginTx waits for a connection until the request is cancelled or the handle
\* is closed.
Begin(w) ==
  /\ req[w].at = "begin"
  /\ LET r == req[w] IN
       \/ /\ Answers(r.db) /\ ~r.gone /\ HasConn(r.db)
          /\ Set(w, [r EXCEPT !.at = "fn", !.tx[r.depth] = "open"])
       \/ (~Answers(r.db) \/ r.gone) /\ Set(w, Returned(r, "none", "error", FALSE))
  /\ OfRequest /\ UNCHANGED faults

\* The function returns, panics, or calls WithTx in its turn.
RunFn(w) ==
  /\ req[w].at = "fn"
  /\ \/ \E fn \in {"ok", "error", "panic"} : Set(w, [req[w] EXCEPT !.at = "end", !.fn = fn])
     \/ req[w].depth < MaxDepth /\ Set(w, [req[w] EXCEPT !.at = "begin", !.depth = @ + 1])
  /\ OfRequest /\ UNCHANGED faults

Ended(r) == [r EXCEPT !.tx[r.depth] = "none"]

\* Broken variant: a panic passes through without a roll-back.
RollbackNotOnPanic(w) ==
  /\ req[w].at = "end" /\ req[w].fn \in {"error", "panic"}
  /\ LET r == req[w] IN Set(w, Returned(IF r.fn = "panic" THEN r ELSE Ended(r), r.fn, r.fn, FALSE))
  /\ OfRequest /\ UNCHANGED faults

\* The function failed or panicked.  The roll-back may fail as well: the
\* connection is given back either way, and the server forgets the transaction.
Rollback(w) ==
  /\ req[w].at = "end" /\ req[w].fn \in {"error", "panic"}
  /\ LET r == req[w] IN Set(w, Returned(Ended(r), r.fn, r.fn, FALSE))
  /\ OfRequest /\ UNCHANGED faults

\* The function returned nil.  Commit fails on a transaction that is over; it may
\* fail on one that is open, and its answer may be lost.
Commit(w) ==
  /\ req[w].at = "end" /\ req[w].fn = "ok"
  /\ LET r == req[w] IN
       \/ r.tx[r.depth] = "open" /\ Set(w, Returned(Ended(r), "ok", "nil", TRUE)) /\ UNCHANGED faults
       \/ r.tx[r.depth] = "over" /\ Set(w, Returned(Ended(r), "ok", "error", FALSE)) /\ UNCHANGED faults
       \/ /\ r.tx[r.depth] = "open" /\ Fault
          /\ \E durable \in BOOLEAN : Set(w, Returned(Ended(r), "ok", "error", durable))
  /\ OfRequest

\* aggregate.
Worse(overall, status) ==
  CASE status = "DOWN" -> "DOWN" [] status = "UNKNOWN" /\ overall # "DOWN" -> "UNKNOWN" [] OTHER -> overall

\* The next indicator.  The database's pings, and so waits for a connection.
Ask(w) ==
  /\ req[w].at = "probe" /\ req[w].todo # <<>>
  /\ LET r  == req[w]
         up == module.db # None /\ Answers(module.db) /\ ~r.gone
     IN  \E status \in {"UP", "DOWN", "UNKNOWN"} :
           /\ Head(r.todo).db => \/ status = "DOWN" /\ ~up
                                 \/ status = "UP" /\ up /\ HasConn(module.db)
           /\ Set(w, [r EXCEPT !.todo = Tail(@), !.seen = @ \cup {status}, !.overall = Worse(@, status)])
  /\ OfRequest /\ UNCHANGED faults

\* handle and handleProbe: 503 if the whole is down.
Answer(w) ==
  /\ req[w].at = "probe" /\ req[w].todo = <<>>
  /\ Set(w, [req[w] EXCEPT !.at = "idle",
                           !.told = [of |-> "probe", code |-> IF req[w].overall = "DOWN" THEN 503 ELSE 200]])
  /\ OfRequest /\ UNCHANGED faults

\* The client goes away: database/sql rolls the request's transactions back.
Cancel(w) ==
  /\ req[w].at # "idle" /\ ~req[w].gone
  /\ Fault
  /\ Set(w, [req[w] EXCEPT !.gone = TRUE, !.tx = [d \in 1..MaxDepth |-> IF d \in Open(w) THEN "over" ELSE @[d]]])
  /\ OfRequest

\* The database server goes down, with every transaction, and comes back.
LoseServer ==
  /\ dbUp /\ Fault
  /\ dbUp' = FALSE
  /\ req' = [w \in Workers |-> [req[w] EXCEPT !.tx = [d \in 1..MaxDepth |-> IF d \in Open(w) THEN "over" ELSE @[d]]]]
  /\ UNCHANGED <<main, service, running, handle, migrated, web, arrived>>

ServerReturns ==
  /\ ~dbUp
  /\ dbUp' = TRUE
  /\ UNCHANGED <<main, service, running, handle, migrated, web, request, faults>>

Serve(w) ==
  \/ Arrive(w) \/ GetDB(w) \/ Begin(w) \/ RunFn(w) \/ Rollback(w) \/ Commit(w)
  \/ Ask(w) \/ Answer(w) \/ Cancel(w)

Next == Main \/ (\E w \in Workers : Serve(w)) \/ LoseServer \/ ServerReturns

Spec == Init /\ [][Next]_vars

-----------------------------------------------------------------------------
(* Properties.                                                             *)

\* Every variable keeps its type; pools lend no more connections than their
\* limit, and a negative limit never reaches one.
TypeOK ==
  /\ app \in Applications /\ {disk, loaded, bound} \subseteq Disks[app] \cup {None}
  /\ pc \in {"load", "apply", "configure", "hooks", "rollback", "failed", "up", "stopping", "down"}
  /\ pos \in Nat \ {0} /\ attempts \in 1..MaxStarts /\ arrived \in 0..MaxRequests /\ faults \in 0..MaxFaults[app]
  /\ configured \in BOOLEAN /\ listening \in BOOLEAN /\ dbUp \in BOOLEAN /\ overdue \in BOOLEAN
  /\ dbService \in DOMAIN handle \cup {None} /\ (dbService = None) = ("data.db" \notin names)
  /\ module.db \in DOMAIN handle \cup {None}
  /\ \A h \in DOMAIN handle :
       /\ handle[h].limit \in Nat
       /\ handle[h].limit > 0 => Cardinality(InUse(h)) <= handle[h].limit
  /\ \A i \in DOMAIN running : \E j \in DOMAIN hooks : running[i] = hooks[j]
  /\ \A w \in Workers :
       /\ req[w].at \in {"idle", "get", "begin", "fn", "end", "probe"}
       /\ req[w].depth \in 0..MaxDepth /\ req[w].overall \in {"UP", "DOWN", "UNKNOWN"}

\* The position of a module that is in the order once.
Place(m) == CHOOSE i \in DOMAIN app.order : app.order[i] = m
Before(m, n) == {m, n} \subseteq Range(app.order) /\ Place(m) < Place(n)

\* A started application serves the database its hook checked: the handle under
\* data.db is open, has its schema, and is the one of the settings the
\* documentation promises for the files that were loaded, with the dialect of its
\* driver - unless a failed attempt had detected another driver before.  And if
\* the data module stands before the web server, no request ever sees the
\* database closed or without its schema, neither while a start fails and is
\* rolled back nor while the application stops (a shutdown that ran into its
\* deadline excepted).
DatabaseServed ==
  /\ pc = "up" /\ "data" \in Range(app.order) =>
       /\ dbService = module.db /\ handle[dbService].open
       /\ app.migrations => handle[dbService].dsn \in migrated
       /\ \A f \in Range(Fields) : module.settings[f] = Promised(bound, app.env, f)
       /\ ~app.withDB => handle[dbService].dsn = Promised(bound, app.env, Dsn)
       /\ guessed \in {None, module.settings[Driver]} =>
            (module.dialect # None => module.dialect = DialectOf[module.settings[Driver]])
  /\ Before("data", "web") /\ ~overdue /\ (listening \/ \E w \in Workers : req[w].at # "idle") =>
       /\ handle[dbService].open
       /\ app.migrations => handle[dbService].dsn \in migrated

\* What stays open, whatever was retried.  A database the application was given
\* is never closed.  Of those the module opened at most one is open, the one it
\* holds, with a hook registered that closes it; while the application is up that
\* hook is among the started ones, so that a Stop runs it, and after the Stop none
\* is open.  A start that fails may leave the one open: roll-back stops only hooks
\* that had started (core/app.go:168), and when a module behind data fails in
\* Configure, every retry fails on the name data.db before it comes to the hooks.
ClosedBy(h, list) == \E i \in DOMAIN list : list[i].of = "data" /\ list[i].db = h /\ list[i].created
HandlesAccounted ==
  /\ handle[External].open
  /\ \A h \in DOMAIN handle \ {External} : handle[h].open =>
       /\ h = module.db /\ ClosedBy(h, hooks)
       /\ pc \in {"up", "stopping"} => ClosedBy(h, running)
       /\ pc # "down"

\* Nobody is told something else than what happened.  WithTx returns nil only if
\* its transaction is durable; a function that failed or panicked leaves nothing
\* durable, and the panic goes on; and no transaction outlives its WithTx, so no
\* connection is lost to the pool.  (An error of Commit tells nothing: the answer
\* may have been lost.)  A probe answers 503 exactly if an indicator it asked was down.
AnswersHonest ==
  \A w \in Workers :
    LET r == req[w] IN
      /\ r.told # None /\ r.told.of = "tx" =>
           /\ r.told.result = "nil" => r.told.durable
           /\ r.told.fn \in {"error", "panic"} => ~r.told.durable /\ r.told.result = r.told.fn
      /\ \A d \in Open(w) : d <= r.depth /\ r.at \in {"begin", "fn", "end"}
      /\ r.told # None /\ r.told.of = "probe" => (r.told.code = 503) = ("DOWN" \in r.seen)
=============================================================================
