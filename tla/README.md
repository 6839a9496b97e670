# Formal verification of vengo

TLA+ models of [vengo](../src/README.md), a Go application framework: an `App` of
modules, a dependency-injection container, a web server, a database module with
migrations, sessions, health checks, configuration, and a development runner.
The modules are model-checked with TLC on small instances, and their main
invariants are proved with TLAPS for every value of the constants.

    tlc -config MCLifecycle_safety.cfg MCLifecycle.tla     # model-check
    tlapm Lifecycle_proofs.tla                             # check the proofs

## 1. The system

| Component | State | Operations | Hard behaviour |
|---|---|---|---|
| App (`core/app.go`, `autowire/`) | modules, hooks, started hooks, services, `configured`, `started` | `New`, `Use`, `Register`, `RegisterHook`, `SetConfig`, `Override*`, `Configure`, `Start`, `Stop` | a mutex held for single reads and writes only, foreign code between them; roll-back of a failed start; a failed `Configure` that is retried |
| Container (`core/container.go`) | providers, cached instances, marks of types under construction | `Provide`, `OverrideProvider`, `Resolve`, field injection | recursive resolution with the lock released, marks shared by all goroutines, errors that unwind many frames |
| Web server (`web/server.go`) | mux, routes, current `http.Server`, address, ready hook, error channel | `Handle`, `Start`, `Stop`, `SetAddr`, `OnReady`, `ErrChan` | two critical sections in `Start`, a Serve goroutine per start, shutdown that may come before serving began |
| Request helpers (`web/errors.go`, `logging.go`, ...) | one response | middlewares | a response already begun when an error comes |
| Data module (`data/module.go`) | a `*sql.DB`, who opened it | `Configure`, start and stop hooks | registration that fails half way, restart after close |
| Migrations (`data/migrations.go`) | the migrations table, the schema | `ApplyMigrations` | several instances at once, failure half way, lost answer to a commit, implicit commits |
| Transactions (`data/tx.go`) | one transaction | `WithTx` | error, panic, failed commit or roll-back |
| Sessions (`security/session_store.go`, `middleware.go`) | stored sessions | `Get`, `Save`, `SessionMiddleware` | concurrent requests of a session, saving at the first write |
| Security middlewares (`security/middleware.go`) | configuration | CSRF, JWT, API key, roles | the order of checks |
| Actuator (`actuator/`) | counters, gauges, indicators, log level | `/health`, `/metrics`, ... | aggregation, probes, concurrent updates |
| Configuration (`config/`) | settings with their origin | `Load`, `Bind`, `Validate` | precedence of sources and profiles |
| Autoconfigure (`autoconfigure/`) | registered modules with conditions | `Register`, `Apply` | order and conditions |
| Development runner (`cmd/vengo/run.go`) | child process, event channel, snapshot of files | watch, build, run, Ctrl+C | changes during a build, a dropped event, exit while a child runs |
| Queries and pool (`data/query.go`, ...) | - | query helpers, slow-query log | connections that are lent and given back |
| Command line, templates, test utilities, examples | files | - | sequential |

The parts meet in `App`: `Configure` calls each module's `Configure`, which
registers services, hooks and providers with the App; `Start` and `Stop` run the
hooks, of which the data module's pings, migrates and closes the database and the
web server's binds and shuts down a listener; the web server asks the container
for the `RouteRegistrar`s when it starts; the container asks the App for services
of a type it has no constructor for.

What makes each part correct, in a line:

- App: every hook that was started is stopped exactly once, in reverse order,
  however `Start`, `Stop` and `Configure` overlap or fail; a started App has run
  every hook of its modules once.
- Container: one instance per type, from the provider the type has; an error only
  with a cause in the graph; no trace of a failed resolution; termination.
- Migrations: a file takes effect once and wholly or not at all, in order.
- Web server: one listener, closed in the end; the list of routes is the mux.
- Sessions: a saved value is what a later request reads. Transactions: ended in
  every case. Runner: the last change is built, one child at a time, and it should be
  stopped with the runner (it may not be: section 3). Health: DOWN wins. Configuration: the strongest source wins.

`PROJECT.json` lists every component and every hazard found in the code, at its
line, with the properties that are about it.

## 2. The modules

### Lifecycle

`core.App`. One action per critical section of `App.mu` and one per call of foreign
code (an effect of a module's `Configure`, a hook's `Start` or `Stop`). `pc[g]` is
where goroutine `g` is: `autowire` and `module` inside `Configure`, `start` between
`Configure` and the check of `started`, `hooks` in the loop of `Start`, `rollback`
and `stopping` in `stopHooks`. `snap`, `todo` and `held` are the copies that the
code takes while it holds the lock. A module is the sequence of its calls on the App
(`Script`), as `web.Server.Configure` and `data.Module.Configure` make them; it may
also fail by itself. An empty service name or a nil value, which `Register` rejects
before it looks at the App, is not an input.

History variables: a *run* of a hook is a start of it, named by the `Start` pass and
its place in it; `live` holds the runs that were started and not stopped, `lost`
those whose entry in `startedHooks` was overwritten, `raced` says that two passes of
`Start` were open at once.

`OwnHooks` states what `StartedComplete` rests on: a pass of `Configure` registers a name
before its first hook (an autowired type, or `web.server`, `data.db`, ... of the
module), so that a second pass fails before it registers a hook again; and every
`core.Hook` is a value of its own. A program without constructors whose first module only calls
`RegisterHook` is outside of it: a retry would start that hook twice.

### Container

`core.Container`. A goroutine's recursion is a stack of frames; each frame goes
through the statements of `resolve`: look-up, mark, parameters, constructor, fields,
store, deferred delete of the mark. The look-up is one critical section in the code,
except that services are searched after the lock is released; the model joins
the two, since services do not change in this module. Types, constructors and their
dependencies are model values; a nil value among the services and the shape of
constructors, which `newProvider` checks before it touches the container, are left
out. Constructors that themselves use the container are not modelled. `Fields` of a
constructor end before its first unexported tagged field.

History: `handed` (instances returned per type since its last override),
`overlapped` (types that two frames were building at once, or that were overridden
during a build), `alone` (calls of `Resolve` that nothing overlapped), `changed` (a
constructor was replaced or added). An override that comes while the old constructor
runs leaves the old instance in the cache: the model does so too, and `CacheFresh` says
nothing of such types.

### Migrations

`ApplyMigrations` run by several instances of a program against one database.
Files are numbers in lexicographic order, statements pairs `<<file, k>>`, and
`<<file, 0>>` is the insert of the file's name. `times` counts how often each has
taken effect for good. The database is external: rows of a transaction become
visible when it commits; an exclusive item (a `CREATE`, or the insert under the
primary key that `CreateMigrationsTableSQL` declares) waits while another
transaction has it and fails when it is there; a statement in `Implicit` commits what
the transaction has and leaves the rest of the file outside any transaction. A
failure of the database and the death of a process are one action, for the
database both end the transaction. Reading a file, which may fail as well, is such
a failure too. A missing directory is the set `NoDirectory`.

### WebServer

`web.Server` under `http.Server` and `net.Listen`, which are external: an address has
one listener; `Serve` takes the listener over in a step of its own, and closes it if
`Shutdown` came first; `Shutdown` closes it if `Serve` has it. `Start` is two
critical sections with the registration of declarative routes between them; every
`Handle` appends to the list and then gives the pattern to the mux. A panic of the
mux ends the process. Middleware, groups (whose prefixes are part of a pattern here)
and request handling are not in this module. Patterns are declared once
(`DistinctPatterns`), and a caller of `Handle` gives a pattern once: net/http demands
both. The error channel holds one error. `StartEnter` joins
the check of `httpServer` with the read of `s.app` that follows the unlock: the App calls
`Configure` before the Start hook it has registered.

### Supervisor

What the App promises of hooks, without its calls and locks: the hooks of each Start
are a stack that grows while the Start is open and, once it is closed, only shrinks from
the top. `Lifecycle` implements it (`StacksKept`): a Start is opened when its pass gets a
number, it is open while its goroutine runs hooks, and the stacks are `live`. This holds
for overlapping Starts too: what they lose is that somebody stops the stack, not its shape.

### Requests

The chain of middlewares around a handler (`web.Server.Handler`, `Group`, and what
`security.Module.Configure` installs, in its order), for several requests of one client at
once. A middleware is an action on the way down and, if it does something there, one on
the way up; a handler is a script of steps: change the session, write, fail, panic,
return. The session is loaded when the request passes the session middleware, changed in
the request's own copy and saved at its first write, into memory or into the cookie of
the response. An answer may be lost, and the server may restart, which empties the
in-memory store. Tokens, keys and bodies are records of what the checks ask of them;
cryptography, names of headers and wording are abstracted to accepted or not. Ids never
repeat. A chain has one session middleware at most (`RequestsAssumption`): `security.Module`
installs one, and an application that adds a second has two sessions under one cookie name.
`expected` is the session as it would be if its requests had been made one by one;
`Applied` says what a script makes of a session, by its text and not by its steps.

The code does things here a reader might not expect; the model has them: a value that
`json.Marshal` rejects loses all of a request's changes without a word; the response
recorder keeps the last status although the client got the first; a `RequestLogger` that is
further inside than every `ErrorMiddleware` logs before the error is answered, and so logs 200; `BindJSON` accepts
fields that the target lacks; every `OPTIONS` request is answered by the CORS middleware.

### DevRun

`vengo run`: the editor, the watcher's goroutine, the main loop with `trigger`, the
build command, the child and the goroutine that kills it. The watched files are a version
number. The event channel has a capacity, a full one drops the event; the build reads
one version at some time while it runs. After Ctrl+C the `select` may take either case:
`LeaveByContext` kills the child and waits for it, `LeaveByChannel` returns at once, and
then the child is left to the goroutine of `exec.CommandContext`, which may not run before
the process exits (`NoneLeft`, section 3).

### Settings and Stack

`Settings` is `config`: the files that exist in the search directories, profiles,
environment variables, the order in which sources override each other, and `Bind` with
defaults and values that do not parse (every field has a default, as in `data.Config`; a
field without one would keep its old value). `Promised` is what `docs/` say of precedence,
written without the order of loading; `DatabaseServed` compares the two.

`Stack` composes a whole application: `main` loads settings, applies auto-configurers,
lets `web.Server`, `data.Module`, the actuator modules and a module of the user
configure, starts the hooks, rolls back or stops, and may try again, while requests
run `WithTx` (nested, failing, panicking, cancelled) and health probes on the database
the data module has registered. A call of `Lifecycle`, `WebServer` or `Migrations`
is one action here. Handles, pools and the database server are external: a pool lends at
most `MaxOpenConns` connections, a closed handle or a server that is down answers
nothing, the answer to a commit may be lost.

Behaviour the model shows and its properties leave room for: the dialect is detected once
and kept by a later attempt with another driver (`guessed`); after a roll-back or a Stop that closed it
the module keeps its closed handle, and no later Start succeeds; a start that fails may
leave the opened database open; the project template puts
`web` and `health` before `data`, so that requests may meet a missing or closed database
(`Before`); a nested `WithTx` is a transaction of its own on the same pool and waits for
ever on a pool of one; no environment variable becomes a key with a hyphen, such as
`database.max-open-conns`.

`HandlesAccounted` says what becomes of the databases the data module opens. At most one is
open, the module's, and a hook is registered that closes it. While the application is up
that hook is among those a Stop will run, and after a Stop none is open. After a start that
*failed* the database may stay open, in two ways. If the hook's own Ping or migration fails,
roll-back does not stop that hook, since it stops only what had started (`core/app.go:168`);
a later Start runs the hook again. If a module behind the data module fails in `Configure`,
the hook is never run: every retry of `Configure` fails on the name `data.db`, and the
database stays open for good. Nothing in `docs/` promises otherwise, so this is no finding;
the property bounds it to that one database.

### What the checks replace by broken variants

Each module has a few operators marked "Broken variant": a version of an action
with a plausible bug (a missing check, a missing reset, a wrong order). They are no
part of `Next`. Putting one in the place of its action makes TLC find the
property listed with it in `PROJECT.json` violated: the properties do see such bugs.

## 3. The runs

| Run | Instance | Shows |
|---|---|---|
| `lifecycle_safety` | 2 goroutines, 5 calls, 2 faults, data and web module, a late hook and a nil module, direct registrations and an override; fair; 188,753 states | `TypeOK`, `RunsAccounted`, `PrefixRunning`, `NothingLost`, `NothingLeftRunning`, `StartedComplete`; `StacksKept` (refinement); `TakenRunsEnd`, `CallsReturn` (liveness) |
| `lifecycle_override` | 1 goroutine | violation of `OverrideIsHarmless` |
| `container_safety` | 2 goroutines, 3 calls, a diamond of types or a graph with a cycle through a field, two overrides (one closes the cycle, one opens it), a type only a service implements, a late provider, a failing one; fair; 301,786 states | `TypeOK`, `MarksHaveFrames`, `Singleton`, `CacheFresh`, `ErrorsAreReal`, `CyclesAreRefused`; `ResolvesReturn` (liveness) |
| `container_spurious` | 2 goroutines, 2 calls | violation of `CycleErrorsAreCycles` |
| `container_singleton` | 2 goroutines, 2 calls | violation of `SingletonAlways` |
| `migrations_safety` | 3 instances of two releases, 3 files, 4 calls, 2 faults | `TypeOK`, `AllOrNothing`, `RecordedIsComplete`, `InOrder`, `NilMeansApplied`, `CallsReturn` |
| `web_safety` | 2 goroutines, 5 calls, 1 fault, 2 registrars, 2 addresses | `TypeOK`, `ListenersOwned`, `StopsAreExclusive`, `RoutesListed`, `PanicsNeedTwoStarts`, `StopClosesListener` |
| `web_restart` | 1 goroutine | violation of `RestartIsSafe` |
| `requests_sessions` | 3 requests, 2 at once, 1 restart, both session stores, a shop and an API, tokens with and without a demanded issuer, a logger outside and inside the errors; 766,284 states | `TypeOK`, `GuardsHold`, `SessionKept`, `Observed` |
| `devrun_rebuild` | a channel of 2 events, 5 changes; fair; 103,081 states | `TypeOK`, `OneChild`, `CaughtUp`, `ChangesAreBuilt` |
| `devrun_interrupt` | the same channel and changes | violation of `NoneLeft` |
| `stack_served` | 13 applications with their files, 2 requests at once, transactions 2 deep, 2 attempts, 1 or 2 faults; 678,307 states | `TypeOK`, `DatabaseServed`, `HandlesAccounted`, `AnswersHonest` |

Bounds. `MaxCalls` bounds the number of calls and `MaxFaults` the number of errors of
foreign code; both appear in guards only (`Enter`, `Fault`), as do the bounds of the
other modules (`MaxOpen`, `MaxRestarts`, `MaxChanges`, `MaxDepth`, `MaxStarts`,
`MaxRequests`). Two goroutines and two
overlapping calls are what every race here needs; four or five calls add a third
that comes after the race (a Stop, a retry of a failed call, a second Start), and two
faults a failure in the roll-back of a failure. Three requests are one before, and two
that overlap: what the two load is what the first has left. Five changes overflow a
channel of two while a build runs and leave one change for after it. Two attempts are a
failure and what remains of it; two transactions, nested or of two requests, exhaust a
pool of one. The applications of `stack_served` differ in the order of modules (the
template's, its reverse, missing and repeated modules), in who gives the database, in
auto-configurers and in indicators, and the files in where a key is set. All state spaces are explored
completely. `CHECK_DEADLOCK` is off: nobody has to make another call.

Fairness. Only the steps of a call that has begun are fair, one weak-fairness
condition per goroutine or instance: the scheduler runs what can run, and hooks,
constructors and the database answer. No call, failure, connection or receive is
fair. In `DevRun` the timer of the watcher and the main loop are fair, for a build ends;
no change and no interrupt is. In `Migrations` an instance that waits for another's transaction is not
enabled; it goes on because the other's transaction ends.

Violations, each a `findings` entry:

- `OverrideIsHarmless`: `docs/testing.md` recommends overriding services before the
  App starts, but the module that registers the name then fails and `Start` with it.
- `CycleErrorsAreCycles`, `SingletonAlways`: the container's lock is released between
  the look-up and the mark, and the marks are shared: concurrent resolution reports
  cycles that do not exist, or builds a type twice.
- `RestartIsSafe`: declarative routes are registered by every `Start`; after a `Stop`
  the next `Start` panics.
- `NoneLeft`: `docs/cli.md` says that Ctrl+C stops the running process; the main loop may
  find the watcher's closed channel before `ctx.Done` and return without killing it. (A
  terminal sends the signal to the child too; the runner does not wait for that.)

## 4. The proofs

All theorems but `LoadPromised`, which is about `Load` alone, have the form `Spec => []P`
(`AppSupervises`: `Spec => StacksKept`) and are proved without assumptions beyond the
constants' (`LifecycleAssumption`, `OwnHooks`, `ContainerAssumption`, `MigrationsAssumption`,
`WebServerAssumption`, `DistinctPatterns`, `RequestsAssumption`, `DevRunAssumption`,
`StackAssumption` with `SettingsAssumption`), for any
number of goroutines, modules, hooks, types, instances, files, routes, calls, changes
and requests. The properties were checked by TLC on the instances of section 3 before they
were proved.

`Lifecycle_proofs`

- `TypeCorrect`: `TypeOK`, inductive by itself.
- `RunsInvHolds`: the invariant the others need. It names every run by pass and place:
  the runs of `startedHooks` and of each `held[g]` are those of one pass in the
  order of their places, owners are disjoint, `live` is exactly what is owned or lost,
  passes that goroutines are in are different, and `raced` is true as soon as two are open.
  From it: `RunsAreAccounted` (`RunsAccounted`), `PrefixIsRunning` (`PrefixRunning`: what
  an owner holds is a prefix of its pass, since stops take from the end), `NothingIsLost`
  (`NothingLost`) and `NothingIsLeftRunning` (`NothingLeftRunning`).

- `AppSupervises` (`StacksKept`): the initial state is Supervisor's, and each action is
  one of its steps or changes nothing it sees. Only starts and stops of hooks and the two ends of
  a pass matter; `Owners` and a further invariant (`Apart`: the runs of one pass
  are together, all lost, all in `startedHooks` or all held by one goroutine) show that the run that is stopped is the
  top of its stack.
- `StartsAreComplete` (`StartedComplete`), by `CompleteInv`. A pass of `Configure` is
  `Fresh` until it has registered something. The first thing anybody registers is the same
  name for every pass, so at most one pass gets past it (`OneWinner`): the others fail
  there, and hooks are registered only beyond it (`OwnHooks`). `Registered` says that
  `hooks` therefore has the modules' hooks as far as that pass has come, each once and
  in order, whatever else is registered in between, and has them all once `configured` is set;
  `Starts` carries that through the snapshot of a Start into `startedHooks`. TLC checked
  `CompleteInv` on the instance of `lifecycle_safety`, with and without autowiring.

`Container_proofs`

- `TypeCorrect`: `TypeOK`.
- `MarksAreReleased`: `MarksHaveFrames`. A mark is set by the top frame and its frame
  leaves the stack only through `Unwind`, which deletes it.
- `CacheSafeHolds`: the inductive invariant behind `CacheIsFresh` (`CacheFresh`) and
  `InstancesAreSingle` (`Singleton`). For a type that is not `overlapped` there is at most
  one open frame, it holds the type's provider, and the cache is empty until that
  frame stores; everything handed out from a provider is what the cache has. `MarksInv`
  belongs to it because a second frame is kept out by the mark of the first.
- Two theorems are about paths in the graph of dependencies. `Needs(t)` is the least closed
  set that has the dependencies of `t`, which gives `NeedsFacts` without induction. A frame
  `Awaits` the type of the frame above it (`AllLinked`, by `LinkedHolds`), so a stack whose
  frames use the present constructors is a path, and every type on it needs those above it.
- `CyclesStayRefused` (`CyclesAreRefused`), by `BuiltInv` until a constructor is `changed` (an
  override may close a cycle through what is already built): some set of types is closed under
  dependencies, has no type on a cycle, and has everything that was ever cached,
  handed out or passed to a frame. A type joins it when its own dependencies are all in
  it, and then it is on no cycle (`AcyclicGrows`); nothing else is needed, in particular
  no marks, so the theorem holds however goroutines delete each other's marks.
- `ErrorsHaveReasons` (`ErrorsAreReal`), by `AloneInv` with `CacheSafe` and `AllLinked`: while the call is
  the only one under way, a mark it finds has a frame (`MarksInv`), which is one of its
  own; the path from there to the top closes a cycle. An error that is passed down a
  path stays true of the type at its bottom. TLC checked the three invariants on the instances of
  `container_safety`.

`Migrations_proofs`

- `TypeCorrect`: `TypeOK`.
- `IInvHolds`: the inductive invariant. The four properties need to know how far an
  instance is: `Progress` says that the files it has dealt with, and those before
  the one it applies, are recorded; `Content` that its transaction holds exactly the
  statements it has executed, unless an implicit commit ended it, and then those have taken
  effect and the file is not free of implicit commits; `OneRecorder` that two open
  transactions never hold the record of the same file, which is what makes a commit the
  first of its file. From it: `FilesAreAtomic` (`AllOrNothing`), `RecordsAreTrue`
  (`RecordedIsComplete`), `FilesAreInOrder` (`InOrder`), `NilIsTrue` (`NilMeansApplied`).

`WebServer_proofs`

- `TypeCorrect`: `TypeOK`.
- `StopsHold`: `ListenersOwned` and `StopsAreExclusive` together are inductive once types
  are known: an idle goroutine holds no server, so `Stop` loses none when it takes one,
  and a new server's number is larger than any that a Stop holds. From it:
  `ListenersAreOwned`, `OneStopPerServer`.
- `RoutesInvHolds`: the list has, beyond the mux, exactly the patterns that goroutines
  have appended and not yet given to the mux, counted with multiplicity (as many more
  entries as there are such goroutines). From it: `RoutesAreListed` (`RoutesListed`).
- `PanicsNeedTwoPasses` (`PanicsNeedTwoStarts`), by `PanicInv`: until a second Start
  registers, at most one goroutine does, what it has left to register is on no list and
  comes once (`Fresh`, from `DistinctPatterns`), and what waits for the mux is new to it.

`Requests_sound` and `Requests_proofs`

The properties are about requests one by one, but a request depends on its place in the
chain, on what the chain's earlier middlewares put into its context, on its place in the
script and on what it loaded. `Sound` says all of that of one request, in five parts:

- `Placed`: types, and where in the chain a request of each `pc` is.
- `Guarded`: on the way down every middleware behind the request accepts it, and claims,
  user and session are what these have left (`ClaimsAt`, `UserAt`); a handler has run
  exactly if the whole chain accepts.
- `Worked`: until the session is saved nothing has been written, so the handler has
  only changed the session (`Pending`), its keys are what those steps make of the loaded ones
  (`Made`), and the session middleware is still to come on the way up; what was saved is `Applied`.
- `Spanned`: an open span's middleware is still to come.
- `Told`: an error waits for an `ErrorMiddleware` that is still to come, what was
  recorded was sent, and a logger with an `ErrorMiddleware` inside it has seen the final status.

`Requests_sound` proves that each step of a request keeps `Sound`. An action is first
brought into the form of a relation between the request before and after (`Passes`,
`TurnsBack`, `Starts`, `Edits`, `Puts`, `Leaves`, `Climbs`, `Finishes`, `Passed`), which fits
every middleware of its kind; then each relation is shown to keep each part. `Sound`
depends on the settings besides the request itself, so other requests cannot disturb it
(`Frame`). `Requests_proofs` adds that ids are below `fresh` (`Base`) and concludes:

- `TypesHold` (`TypeOK`), `GuardsAlwaysHold` (`GuardsHold`), `AlwaysObserved` (`Observed`).
- `SessionsAreKept` (`SessionKept`), by `Kept`: what store and cookie hold was written by a
  request that is named (`OneRequestKept`), and, while no two requests have overlapped, the one
  under way has loaded the session that is expected or has saved its effect on it (`InOrder`).

TLC checked `Sound` on the requests of `requests_sessions` before it was proved. That
a logger must be outside an `ErrorMiddleware` to log what the client gets came out of the
proof: `Observed` was said of every chain before, and the instance had no other; it has one now.

`DevRun_proofs`

- `TypeCorrect`: `TypeOK`. It is proved in parts (`FlagsHold`, `VersionsHold`,
  `ProcessesHold`), for each only needs itself.
- `OneChildRuns`: `OneChild` is inductive once types are known: every way into the loop's
  next build goes through `KillOld`. It says nothing of the exit (`NoneLeft`).
- `RebuildsCatchUp` (`CaughtUp`), by `Seen`: what the last build has not read is still
  to come, as an event in the channel or as a difference to the snapshot - unless a build
  is about to start, or `blind`. A dropped event is harmless since the channel that was full
  holds others.

`Stack_proofs`

- `HandlesAreAccounted` (`HandlesAccounted`). The invariant says that handles are numbered
  without gaps, that every open one but the given is the module's and has a hook that
  closes it (`Kept`), and which hooks are running in each part of `main` (`Started`): the
  first `pos - 1` in the loop of Start, all of them when it has returned, and while
  stopping every one that still has something to close. Nothing is claimed of `Started` while
  a failed start is rolled back, where the leak of section 2 is. Retries keep it since
  a module with a handle never opens another.
- `AnswersAreHonest` (`AnswersHonest`). The invariant is per request (`Answered`): the
  open transactions are those of the `WithTx` calls under way, nested, the innermost one
  only after BeginTx (`Nested`); what was told is true (`TxHonest`); and a probe is at its
  worst status so far (`ProbeHonest`). `ReturnedAnswered` carries it from a call to the one
  around it, `OverAnswered` through a cancellation or the loss of the server.
- `TypesHold` (`TypeOK`). What is not a range of a variable is proved in parts: the name
  data.db stands for a handle (`Registered`); the hooks that run are the first ones registered
  (`Prefix`); a pool's limit is a natural number, since `Bind` let only numbers through and
  `applyPoolConfig` no negative ones, and only BeginTx borrows, one connection at a time
  (`Lent`). A limit changes while nobody is served: no hook has started before all modules
  are configured, and none is configured again afterwards (`Early`).
- `DatabaseIsServed` (`DatabaseServed`) joins three arguments.
  - `LoadPromised`, about `Settings` alone: what `Load` finds for a key is what is `Promised`.
    The sources are numbered by the places they come from (`SourcesAre`); merged, each key has
    the value of the last one that has it (`MergeLast`); a later place is `Stronger` than an
    earlier one (`LaterStronger`), and the order has no two strongest files (`OneStronger`).
    `MergeLast` is the one induction; it takes the least number of sources for which the claim
    fails, which exists by the well-foundedness of the naturals (`Least`).
  - `Done`: once Configure has passed the data module, the name data.db is its handle, it has
    exactly one hook (`OneData`) and the settings that were loaded last (`Config`); a hook of
    the web server that it passed later comes after it. Passing it twice is impossible: the
    name is taken.
  - `Ready`: as long as its hook runs its database is open and has its schema. The web
    server's hook runs whenever requests are served (`WebRuns`), and the hooks that run are a
    prefix, so the data module's, which comes before, runs too.

The invariants were checked by TLC with the constants of `stack_served` before they were proved.

## 5. Only model-checked, and not modelled

Liveness (`TakenRunsEnd`, `CallsReturn`, `ResolvesReturn`, `StopClosesListener`,
`ChangesAreBuilt`) is beyond the proof system: it has no rule here for fairness and
ENABLED. So is what a recursive operator computes for every input, since the induction
theorems take an operator as an argument; a fold can be unrolled by a least counterexample
instead, which is how `Stack_proofs` treats the sources of `Load`. Every invariant and every
action property that a passing run checks is proved.

Not modelled:

- `cmd/vengo` except `run`: `new`, `routes`, `graph`, `doctor` and the templates run once,
  in one goroutine, and print or write files.
- `testutil`, the examples and the starter use the App and keep no state of their own.
- Parsing: TOML and JSON, SQL types, splitting a migration into statements, DSNs (with the
  `parseTime` suffix), parameters of paths, validation tags. Each is a function of one text.
- Reflection: scanning of rows, the shape checks of constructors, `Graph` and the other
  listings, which only read.
- `data.WithConfig` and `WithDialect`, limits on idle connections and lifetimes, query
  logging; `runtime.Goexit` in the function of `WithTx`.
- Formatting: metrics, the log and info endpoints, redacted settings, telemetry beyond its
  spans. Counters and gauges are single atomic operations.

## 6. How the modules were ordered, and what is left

The modules were written in the order of section 2: the App and the container first, for
every program runs through them, then what is shared with the outside world (migrations,
listeners), then requests, the runner and the composition. Left, in order of weight:

1. An abstract cache that `Container` implements where resolutions do not overlap.
2. `splitSQL` and the patterns of routes against reference definitions.
