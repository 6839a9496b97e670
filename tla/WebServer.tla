------------------------------ MODULE WebServer ------------------------------
(***************************************************************************)
(* web.Server (src/web/server.go): routes are added by hand or, when the   *)
(* server starts, from the RouteRegistrars of the container; Start binds a  *)
(* listener and leaves a goroutine serving it; Stop shuts that server down. *)
(*                                                                          *)
(* Server.mu is held for short sections only.  Start looks at httpServer,   *)
(* registers routes with the lock released, and looks again; a route is     *)
(* appended to the list under the lock and given to the mux after it; Stop  *)
(* forgets the server under the lock and shuts it down after it.            *)
(*                                                                          *)
(* net/http and the network are external: an address has one listener at a  *)
(* time, Shutdown closes the listener that Serve has taken over, and a      *)
(* Serve that begins after Shutdown closes the listener itself.             *)
(***************************************************************************)
EXTENDS Integers, Sequences, FiniteSets

CONSTANTS
  Goroutines,
  Addrs,          \* addresses
  InitialAddr,
  Registrars,     \* types of the container that implement RouteRegistrar
  RoutesOf,       \* the patterns of each registrar, in order
  FlakyRegistrars,\* registrars whose resolution may fail
  Suspects,       \* patterns that may be declared with a handler of an unsupported type
  DirectPatterns, \* patterns given to Handle and HandleFunc
  Hooks,          \* functions given to OnReady
  NewAddrs,       \* addresses given to SetAddr
  MaxCalls,       \* bound: number of calls on the server
  MaxFaults,      \* bound: number of failures of Serve
  None

Patterns == DirectPatterns \cup UNION {{RoutesOf[r][i] : i \in DOMAIN RoutesOf[r]} : r \in Registrars}

ASSUME WebServerAssumption ==
  /\ InitialAddr \in Addrs
  /\ NewAddrs \subseteq Addrs
  /\ RoutesOf \in [Registrars -> Seq(Patterns)]
  /\ FlakyRegistrars \subseteq Registrars
  /\ Suspects \subseteq Patterns
  /\ MaxCalls \in Nat
  /\ MaxFaults \in Nat
  /\ None \notin Hooks \cup Patterns

\* No pattern is declared twice: net/http's mux panics on one.
ASSUME DistinctPatterns ==
  \A r \in Registrars : \A i \in DOMAIN RoutesOf[r] :
    /\ RoutesOf[r][i] \notin DirectPatterns
    /\ \A q \in Registrars : \A j \in DOMAIN RoutesOf[q] :
         RoutesOf[r][i] = RoutesOf[q][j] => r = q /\ i = j

VARIABLES
  unsupported,\* the patterns that are so declared; it never changes
  app,        \* Server.app is set
  addr,       \* Server.addr
  routes,     \* Server.routes
  mux,        \* the patterns Server.mux has
  httpServer, \* Server.httpServer and its listener: a number of servers, or 0
  readyHook,  \* Server.readyHook
  errCh,      \* Server.errCh: "nil", "empty" or "full"
  servers,    \* every http.Server that Start made, with its listener and Serve goroutine
  pc,         \* where each goroutine is
  todo,       \* Start: the registrars it has still to resolve
  queue,      \* Start: the patterns of the registrar at hand
  pending,    \* the pattern a goroutine has appended but not given to the mux
  stopping,   \* Stop: the server it shuts down
  crashed,    \* a duplicate pattern made the mux panic
  calls, faults,
  \* history
  passes      \* number of Starts that began to register routes

server == <<app, addr, routes, mux, httpServer, readyHook, errCh>>
locals == <<pc, todo, queue, pending, stopping>>
counts == <<calls, faults, passes>>
vars   == <<unsupported, server, servers, locals, crashed, counts>>

Entries(s) == {s[i] : i \in DOMAIN s}

Server == [addr : Addrs, open : BOOLEAN, ready : {"none", "armed", "told"},
           serve : {"spawned", "serving", "failed", "done"}, shutdown : BOOLEAN]

Init ==
  /\ unsupported \in SUBSET Suspects
  /\ app = FALSE
  /\ addr = InitialAddr
  /\ routes = <<>>
  /\ mux = {}
  /\ httpServer = 0
  /\ readyHook = None
  /\ errCh = "nil"
  /\ servers = <<>>
  /\ pc = [g \in Goroutines |-> "idle"]
  /\ todo = [g \in Goroutines |-> {}]
  /\ queue = [g \in Goroutines |-> <<>>]
  /\ pending = [g \in Goroutines |-> None]
  /\ stopping = [g \in Goroutines |-> 0]
  /\ crashed = FALSE
  /\ calls = 0
  /\ faults = 0
  /\ passes = 0

Enter(g) == pc[g] = "idle" /\ calls < MaxCalls /\ calls' = calls + 1
Goto(g, l) == pc' = [pc EXCEPT ![g] = l]
Fault == faults < MaxFaults /\ faults' = faults + 1

-----------------------------------------------------------------------------
(* Configuration.                                                          *)

Configure(g) ==
  /\ Enter(g)
  /\ app' = TRUE
  /\ UNCHANGED <<addr, routes, mux, httpServer, readyHook, errCh, servers, locals, crashed,
                 faults, passes>>

SetAddr(g, a) ==
  /\ Enter(g)
  /\ addr' = a
  /\ UNCHANGED <<app, routes, mux, httpServer, readyHook, errCh, servers, locals, crashed,
                 faults, passes>>

OnReady(g, h) ==
  /\ Enter(g)
  /\ readyHook' = h
  /\ UNCHANGED <<app, addr, routes, mux, httpServer, errCh, servers, locals, crashed,
                 faults, passes>>

ErrChan(g) ==
  /\ Enter(g)
  /\ errCh' = IF errCh = "nil" THEN "empty" ELSE errCh
  /\ UNCHANGED <<app, addr, routes, mux, httpServer, readyHook, servers, locals, crashed,
                 faults, passes>>

\* Broken variant: the mux gets the pattern, the list does not.
AppendRouteUnlisted(g, p) ==
  /\ UNCHANGED routes
  /\ pending' = [pending EXCEPT ![g] = p]

\* Handle and HandleFunc append to the list first; HandleMux does the second half.
AppendRoute(g, p) ==
  /\ routes' = Append(routes, p)
  /\ pending' = [pending EXCEPT ![g] = p]

\* A caller adds a pattern once.
Handle(g, p) ==
  /\ Enter(g)
  /\ p \notin Entries(routes)
  /\ AppendRoute(g, p)
  /\ Goto(g, "handle")
  /\ UNCHANGED <<app, addr, mux, httpServer, readyHook, errCh, servers, todo, queue, stopping,
                 crashed, faults, passes>>

\* mux.Handle panics on a pattern it has.
HandleMux(g) ==
  /\ pending[g] # None
  /\ IF pending[g] \in mux
       THEN crashed' = TRUE /\ UNCHANGED <<mux, pending, pc>>
       ELSE /\ mux' = mux \cup {pending[g]}
            /\ pending' = [pending EXCEPT ![g] = None]
            /\ Goto(g, IF pc[g] = "handle" THEN "idle" ELSE "register")
            /\ UNCHANGED crashed
  /\ UNCHANGED <<app, addr, routes, httpServer, readyHook, errCh, servers, todo, queue, stopping,
                 counts>>

-----------------------------------------------------------------------------
(* Start.                                                                  *)

\* The first critical section and the read of s.app after it, joined: the App
\* calls Configure before the Start hook it registers, so a Configure between the
\* two is no use of the server that the App makes.
StartEnter(g) ==
  /\ Enter(g)
  /\ \/ httpServer # 0 /\ UNCHANGED <<pc, todo, passes>>
     \/ httpServer = 0 /\ app /\ Goto(g, "register")
          /\ todo' = [todo EXCEPT ![g] = Registrars] /\ passes' = passes + 1
     \/ httpServer = 0 /\ ~app /\ Goto(g, "bind") /\ UNCHANGED <<todo, passes>>
  /\ UNCHANGED <<server, servers, queue, pending, stopping, crashed, faults>>

AtRegistrars(g) == pc[g] = "register" /\ pending[g] = None

\* Broken variant: a registrar may come twice in the list.
StartResolveAgain(g, r) ==
  /\ AtRegistrars(g) /\ queue[g] = <<>> /\ r \in todo[g]
  /\ todo' \in {todo, [todo EXCEPT ![g] = @ \ {r}]}
  /\ queue' = [queue EXCEPT ![g] = RoutesOf[r]]
  /\ UNCHANGED <<server, servers, pc, pending, stopping, crashed, counts>>

\* A registrar is resolved, in the order of a Go map, and asked for its routes.
StartResolve(g, r) ==
  /\ AtRegistrars(g) /\ queue[g] = <<>> /\ r \in todo[g]
  /\ todo' = [todo EXCEPT ![g] = @ \ {r}]
  /\ queue' = [queue EXCEPT ![g] = RoutesOf[r]]
  /\ UNCHANGED <<server, servers, pc, pending, stopping, crashed, counts>>

StartRoute(g) ==
  /\ AtRegistrars(g) /\ queue[g] # <<>> /\ Head(queue[g]) \notin unsupported
  /\ AppendRoute(g, Head(queue[g]))
  /\ queue' = [queue EXCEPT ![g] = Tail(@)]
  /\ UNCHANGED <<app, addr, mux, httpServer, readyHook, errCh, servers, pc, todo, stopping,
                 crashed, counts>>

\* The registrar cannot be resolved, or declares a handler of a wrong type: Start
\* returns an error, and what it has registered stays.
StartFails(g) ==
  /\ AtRegistrars(g)
  /\ \/ queue[g] = <<>> /\ todo[g] \cap FlakyRegistrars # {}
     \/ queue[g] # <<>> /\ Head(queue[g]) \in unsupported
  /\ Goto(g, "idle")
  /\ todo' = [todo EXCEPT ![g] = {}]
  /\ queue' = [queue EXCEPT ![g] = <<>>]
  /\ UNCHANGED <<server, servers, pending, stopping, crashed, counts>>

StartRegistered(g) ==
  /\ AtRegistrars(g) /\ queue[g] = <<>> /\ todo[g] = {}
  /\ Goto(g, "bind")
  /\ UNCHANGED <<server, servers, todo, queue, pending, stopping, crashed, counts>>

InUse(a) == \E n \in DOMAIN servers : servers[n].open /\ servers[n].addr = a

\* Broken variant: httpServer is not looked at again.
StartBindUnchecked(g) ==
  /\ pc[g] = "bind"
  /\ IF InUse(addr)
       THEN UNCHANGED <<httpServer, servers>>
       ELSE /\ servers' = Append(servers,
                 [addr |-> addr, open |-> TRUE, ready |-> "none", serve |-> "spawned", shutdown |-> FALSE])
            /\ httpServer' = Len(servers) + 1
  /\ Goto(g, "idle")
  /\ UNCHANGED <<app, addr, routes, mux, readyHook, errCh, todo, queue, pending, stopping, crashed,
                 counts>>

\* The second critical section: another Start was first, or the address is in
\* use, or a listener is bound and its Serve goroutine started.
StartBind(g) ==
  /\ pc[g] = "bind"
  /\ IF httpServer # 0 \/ InUse(addr)
       THEN UNCHANGED <<httpServer, servers>>
       ELSE /\ servers' = Append(servers,
                 [addr |-> addr, open |-> TRUE, ready |-> IF readyHook = None THEN "none" ELSE "armed",
                  serve |-> "spawned", shutdown |-> FALSE])
            /\ httpServer' = Len(servers) + 1
  /\ Goto(g, "idle")
  /\ UNCHANGED <<app, addr, routes, mux, readyHook, errCh, todo, queue, pending, stopping, crashed,
                 counts>>

-----------------------------------------------------------------------------
(* The Serve goroutine of server n.                                        *)

\* http.Server.Serve takes the listener over, or closes it if Shutdown was first.
ServeBegin(n) ==
  /\ servers[n].serve = "spawned"
  /\ servers' = [servers EXCEPT ![n] =
       IF @.shutdown THEN [@ EXCEPT !.serve = "done", !.open = FALSE]
                     ELSE [@ EXCEPT !.serve = "serving"]]
  /\ UNCHANGED <<server, locals, crashed, counts>>

\* The first connection is accepted: the ready hook is told the address.
ServeReady(n) ==
  /\ servers[n].serve = "serving" /\ servers[n].open /\ servers[n].ready = "armed"
  /\ servers' = [servers EXCEPT ![n].ready = "told"]
  /\ UNCHANGED <<server, locals, crashed, counts>>

\* Accept fails for good: Serve closes the listener and returns an error.
ServeFails(n) ==
  /\ servers[n].serve = "serving" /\ servers[n].open
  /\ Fault
  /\ servers' = [servers EXCEPT ![n] = [@ EXCEPT !.serve = "failed", !.open = FALSE]]
  /\ UNCHANGED <<server, locals, crashed, calls, passes>>

\* The error goes into errCh if somebody asked for it and it has room.
ServeReports(n) ==
  /\ servers[n].serve = "failed"
  /\ servers' = [servers EXCEPT ![n].serve = "done"]
  /\ errCh' = IF errCh = "empty" THEN "full" ELSE errCh
  /\ UNCHANGED <<app, addr, routes, mux, httpServer, readyHook, locals, crashed, calls, faults, passes>>

\* Shutdown closed the listener: Serve returns ErrServerClosed.
ServeEnds(n) ==
  /\ servers[n].serve = "serving" /\ ~servers[n].open
  /\ servers' = [servers EXCEPT ![n].serve = "done"]
  /\ UNCHANGED <<server, locals, crashed, counts>>

\* The owner of the channel takes the error.
Receive ==
  /\ errCh = "full"
  /\ errCh' = "empty"
  /\ UNCHANGED <<app, addr, routes, mux, httpServer, readyHook, servers, locals, crashed, counts>>

-----------------------------------------------------------------------------
(* Stop.                                                                   *)

\* Broken variant: the server is not forgotten.
StopEnterKeeps(g) ==
  /\ Enter(g)
  /\ IF httpServer = 0
       THEN UNCHANGED <<pc, stopping>>
       ELSE Goto(g, "shutdown") /\ stopping' = [stopping EXCEPT ![g] = httpServer]
  /\ UNCHANGED <<server, servers, todo, queue, pending, crashed, faults, passes>>

\* Broken variant: no look whether there is a server.
StopEnterBlind(g) ==
  /\ Enter(g)
  /\ httpServer' = 0
  /\ Goto(g, "shutdown") /\ stopping' = [stopping EXCEPT ![g] = httpServer]
  /\ UNCHANGED <<app, addr, routes, mux, readyHook, errCh, servers, todo, queue, pending, crashed,
                 faults, passes>>

StopEnter(g) ==
  /\ Enter(g)
  /\ httpServer' = 0
  /\ IF httpServer = 0
       THEN UNCHANGED <<pc, stopping>>
       ELSE Goto(g, "shutdown") /\ stopping' = [stopping EXCEPT ![g] = httpServer]
  /\ UNCHANGED <<app, addr, routes, mux, readyHook, errCh, servers, todo, queue, pending, crashed,
                 faults, passes>>

\* Broken variant: the server is only forgotten.
StopShutdownForgets(g) ==
  /\ pc[g] = "shutdown"
  /\ stopping' = [stopping EXCEPT ![g] = 0]
  /\ Goto(g, "idle")
  /\ UNCHANGED <<server, servers, todo, queue, pending, crashed, counts>>

\* http.Server.Shutdown closes the listener if Serve has it.
StopShutdown(g) ==
  /\ pc[g] = "shutdown"
  /\ LET s == servers[stopping[g]] IN servers' = [servers EXCEPT ![stopping[g]] =
       [s EXCEPT !.shutdown = TRUE, !.open = s.open /\ s.serve = "spawned"]]
  /\ stopping' = [stopping EXCEPT ![g] = 0]
  /\ Goto(g, "idle")
  /\ UNCHANGED <<server, todo, queue, pending, crashed, counts>>

-----------------------------------------------------------------------------

Call(g) ==
  \/ Configure(g) \/ ErrChan(g) \/ StartEnter(g) \/ StopEnter(g)
  \/ \E a \in NewAddrs : SetAddr(g, a)
  \/ \E h \in Hooks : OnReady(g, h)
  \/ \E p \in DirectPatterns : Handle(g, p)

Step(g) ==
  \/ HandleMux(g) \/ StartRoute(g) \/ StartFails(g) \/ StartRegistered(g) \/ StartBind(g)
  \/ \E r \in Registrars : StartResolve(g, r)
  \/ StopShutdown(g)

Serve(n) == ServeBegin(n) \/ ServeReady(n) \/ ServeReports(n) \/ ServeEnds(n)

\* A panic of the mux ends the process.
Next ==
  /\ ~crashed
  /\ UNCHANGED unsupported
  /\ \/ \E g \in Goroutines : Call(g) \/ Step(g)
     \/ \E n \in DOMAIN servers : Serve(n) \/ ServeFails(n)
     \/ Receive

\* The steps of server n that wait for nothing but the scheduler.
ServeRuns(n) == n \in DOMAIN servers /\ (ServeBegin(n) \/ ServeReports(n) \/ ServeEnds(n))

\* Goroutines run; nobody has to call, to connect, or to receive.
Fairness ==
  /\ \A g \in Goroutines : WF_vars(~crashed /\ Step(g) /\ UNCHANGED unsupported)
  /\ \A n \in 1..MaxCalls : WF_vars(~crashed /\ ServeRuns(n) /\ UNCHANGED unsupported)

Spec == Init /\ [][Next]_vars
FairSpec == Spec /\ Fairness

-----------------------------------------------------------------------------
(* Properties.                                                             *)

\* Every variable keeps its type.
TypeOK ==
  /\ unsupported \subseteq Suspects
  /\ app \in BOOLEAN /\ addr \in Addrs
  /\ routes \in Seq(Patterns) /\ mux \subseteq Patterns
  /\ httpServer \in Nat /\ httpServer <= Len(servers)
  /\ readyHook \in Hooks \cup {None}
  /\ errCh \in {"nil", "empty", "full"}
  /\ servers \in Seq(Server)
  /\ pc \in [Goroutines -> {"idle", "handle", "register", "bind", "shutdown"}]
  /\ todo \in [Goroutines -> SUBSET Registrars]
  /\ queue \in [Goroutines -> Seq(Patterns)]
  /\ pending \in [Goroutines -> Patterns \cup {None}]
  /\ stopping \in [Goroutines -> Nat]
  /\ \A g \in Goroutines :
       /\ stopping[g] <= Len(servers) /\ (pc[g] = "shutdown" <=> stopping[g] # 0)
       /\ pending[g] # None => pc[g] \in {"handle", "register"}
  /\ crashed \in BOOLEAN /\ calls \in Nat /\ faults \in Nat /\ passes \in Nat

\* Every open listener has somebody who will close it: the server is the
\* current one, a Stop holds it, or its shutdown has begun.  Starts that race
\* never leave a second listener behind.
ListenersOwned ==
  \A n \in DOMAIN servers : servers[n].open =>
    \/ n = httpServer
    \/ \E g \in Goroutines : stopping[g] = n
    \/ servers[n].shutdown

\* No server is forgotten twice: at most one Stop shuts a server down, and not
\* while it is the current one.
StopsAreExclusive ==
  \A g, h \in Goroutines : stopping[g] # 0 =>
    stopping[g] # httpServer /\ (stopping[g] = stopping[h] => g = h)

\* A pattern the mux serves is in the list that Routes returns, at every moment;
\* and with no registration under way the list is the mux, each pattern once.
RoutesListed ==
  /\ mux \subseteq Entries(routes)
  /\ (\A g \in Goroutines : pending[g] = None) =>
       Entries(routes) = mux /\ Len(routes) = Cardinality(mux)

\* Declared routes make the process panic only if two Starts registered them: a
\* first Start never does, whatever is called beside it.
PanicsNeedTwoStarts == crashed => passes > 1

\* Once a Stop has taken a server its listener is closed in the end, also if
\* the Serve goroutine had not begun when Shutdown ran.
StopClosesListener ==
  \A n \in 1..MaxCalls :
    (\E g \in Goroutines : stopping[g] = n)
      ~> (crashed \/ (n \in DOMAIN servers /\ ~servers[n].open))

\* docs/web.md:14: "The server hooks into the app lifecycle automatically via
\* App.Start / App.Stop."  Every App.Start registers the declared routes again,
\* and the second time the mux panics.
RestartIsSafe == ~crashed
=============================================================================
