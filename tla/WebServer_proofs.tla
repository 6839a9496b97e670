--------------------------- MODULE WebServer_proofs ---------------------------
(* Theorems about WebServer, for any goroutines, addresses, registrars and     *)
(* bounds.                                                                     *)
EXTENDS WebServer, FiniteSetTheorems, TLAPS

-----------------------------------------------------------------------------
(* Type correctness.                                                         *)

\* A pattern of a registrar is a pattern, and so is a direct one.
LEMMA PatternsTyped ==
  /\ \A r \in Registrars : RoutesOf[r] \in Seq(Patterns)
  /\ DirectPatterns \subseteq Patterns
  /\ None \notin Patterns
<1>1. \A r \in Registrars : RoutesOf[r] \in Seq(Patterns)
  BY WebServerAssumption DEF WebServerAssumption
<1>2. DirectPatterns \subseteq Patterns
  BY DEF Patterns
<1>3. None \notin Patterns
  BY WebServerAssumption DEF WebServerAssumption
<1> QED BY <1>1, <1>2, <1>3

\* What TypeOK says of the variables that most steps leave alone.
LEMMA Typed ==
  ASSUME TypeOK
  PROVE  /\ calls \in Nat /\ passes \in Nat /\ httpServer \in Nat /\ crashed \in BOOLEAN
         /\ servers \in Seq(Server) /\ httpServer <= Len(servers) /\ 0 \in 0..Len(servers)
         /\ routes \in Seq(Patterns) /\ mux \subseteq Patterns
         /\ todo \in [Goroutines -> SUBSET Registrars] /\ queue \in [Goroutines -> Seq(Patterns)]
BY DEF TypeOK

\* Steps that change only the configuration keep the types.
LEMMA ConfigTypeOK ==
  ASSUME TypeOK, UNCHANGED <<unsupported, routes, mux, httpServer, servers, locals, crashed, faults, passes>>,
         calls' \in Nat, app' \in BOOLEAN, addr' \in Addrs, readyHook' \in Hooks \cup {None},
         errCh' \in {"nil", "empty", "full"}
  PROVE  TypeOK'
BY DEF TypeOK, locals

LEMMA InitTypeOK == Init => TypeOK
  <1> SUFFICES ASSUME Init PROVE TypeOK
    OBVIOUS
  <1>1. routes \in Seq(Patterns) /\ servers \in Seq(Server) /\ Len(servers) = 0
    BY DEF Init
  <1>2. queue \in [Goroutines -> Seq(Patterns)]
    BY DEF Init
  <1>3. \A g \in Goroutines :
          /\ stopping[g] <= Len(servers) /\ (pc[g] = "shutdown" <=> stopping[g] # 0)
          /\ pending[g] # None => pc[g] \in {"handle", "register"}
    BY <1>1 DEF Init
  <1>4. /\ addr \in Addrs /\ unsupported \subseteq Suspects
        /\ pending \in [Goroutines -> Patterns \cup {None}]
        /\ stopping \in [Goroutines -> Nat] /\ todo \in [Goroutines -> SUBSET Registrars]
    BY WebServerAssumption DEF WebServerAssumption, Init
  <1>5. pc \in [Goroutines -> {"idle", "handle", "register", "bind", "shutdown"}]
    BY DEF Init
  <1>6. /\ app \in BOOLEAN /\ mux \subseteq Patterns /\ httpServer \in Nat /\ httpServer <= Len(servers)
        /\ readyHook \in Hooks \cup {None} /\ errCh \in {"nil", "empty", "full"}
        /\ crashed \in BOOLEAN /\ calls \in Nat /\ faults \in Nat /\ passes \in Nat
    <2>1. mux = {} /\ httpServer = 0 /\ readyHook = None /\ errCh = "nil"
          /\ calls = 0 /\ faults = 0 /\ passes = 0
      BY DEF Init
    <2>2. app \in BOOLEAN /\ crashed \in BOOLEAN
      BY DEF Init
    <2> QED BY <1>1, <2>1, <2>2
  <1> QED BY <1>1, <1>2, <1>3, <1>4, <1>5, <1>6 DEF TypeOK

\* A step that adds or takes a route keeps the types.
LEMMA RouteTypeOK ==
  ASSUME TypeOK, NEW g \in Goroutines,
         UNCHANGED <<unsupported, app, addr, httpServer, readyHook, errCh, servers, todo, stopping,
                     faults, passes>>,
         calls' \in Nat, crashed' \in BOOLEAN,
         routes' \in Seq(Patterns), mux' \subseteq Patterns,
         queue' \in [Goroutines -> Seq(Patterns)],
         NEW l \in {"idle", "handle", "register"}, pc' = [pc EXCEPT ![g] = l],
         NEW p \in Patterns \cup {None}, pending' = [pending EXCEPT ![g] = p],
         p # None => l # "idle", pc[g] # "shutdown"
  PROVE  TypeOK'
<1>1. /\ pc \in [Goroutines -> {"idle", "handle", "register", "bind", "shutdown"}]
      /\ pending \in [Goroutines -> Patterns \cup {None}]
      /\ \A f \in Goroutines :
       /\ stopping[f] <= Len(servers) /\ (pc[f] = "shutdown" <=> stopping[f] # 0)
       /\ pending[f] # None => pc[f] \in {"handle", "register"}
  BY DEF TypeOK
<1>2. \A f \in Goroutines :
       /\ stopping'[f] <= Len(servers') /\ (pc'[f] = "shutdown" <=> stopping'[f] # 0)
       /\ pending'[f] # None => pc'[f] \in {"handle", "register"}
  <2> SUFFICES ASSUME NEW f \in Goroutines
               PROVE  /\ stopping[f] <= Len(servers) /\ (pc'[f] = "shutdown" <=> stopping[f] # 0)
                      /\ pending'[f] # None => pc'[f] \in {"handle", "register"}
    OBVIOUS
  <2>1. CASE f = g BY <2>1, <1>1
  <2>2. CASE f # g BY <2>2, <1>1
  <2> QED BY <2>1, <2>2
<1>3. /\ pc' \in [Goroutines -> {"idle", "handle", "register", "bind", "shutdown"}]
      /\ pending' \in [Goroutines -> Patterns \cup {None}]
  BY <1>1
<1> QED BY <1>2, <1>3 DEF TypeOK

\* A step that moves a goroutine through Start or Stop keeps the types.
LEMMA MoveTypeOK ==
  ASSUME TypeOK, NEW g \in Goroutines,
         UNCHANGED <<unsupported, app, addr, routes, mux, readyHook, errCh, pending, crashed, faults>>,
         calls' \in Nat, passes' \in Nat, httpServer' \in Nat,
         servers' \in Seq(Server), Len(servers') >= Len(servers), httpServer' <= Len(servers'),
         todo' \in [Goroutines -> SUBSET Registrars],
         queue' \in [Goroutines -> Seq(Patterns)],
         NEW l \in {"idle", "register", "bind", "shutdown"}, pc' = [pc EXCEPT ![g] = l],
         NEW n \in 0..Len(servers), stopping' = [stopping EXCEPT ![g] = n],
         l = "shutdown" <=> n # 0, pending[g] = None
  PROVE  TypeOK'
<1>1. /\ pc \in [Goroutines -> {"idle", "handle", "register", "bind", "shutdown"}]
      /\ stopping \in [Goroutines -> Nat]
      /\ servers \in Seq(Server)
      /\ \A f \in Goroutines :
       /\ stopping[f] <= Len(servers) /\ (pc[f] = "shutdown" <=> stopping[f] # 0)
       /\ pending[f] # None => pc[f] \in {"handle", "register"}
  BY DEF TypeOK
<1>2. \A f \in Goroutines :
       /\ stopping'[f] <= Len(servers') /\ (pc'[f] = "shutdown" <=> stopping'[f] # 0)
       /\ pending'[f] # None => pc'[f] \in {"handle", "register"}
  <2> SUFFICES ASSUME NEW f \in Goroutines
               PROVE  /\ stopping'[f] <= Len(servers') /\ (pc'[f] = "shutdown" <=> stopping'[f] # 0)
                      /\ pending[f] # None => pc'[f] \in {"handle", "register"}
    OBVIOUS
  <2>1. CASE f = g BY <2>1, <1>1
  <2>2. CASE f # g BY <2>2, <1>1
  <2> QED BY <2>1, <2>2
<1>3. /\ pc' \in [Goroutines -> {"idle", "handle", "register", "bind", "shutdown"}]
      /\ stopping' \in [Goroutines -> Nat]
  BY <1>1
<1> QED BY <1>2, <1>3 DEF TypeOK

\* A step inside Start that leaves the servers alone keeps the types.
LEMMA StartMoveTypeOK ==
  ASSUME TypeOK, NEW g \in Goroutines,
         UNCHANGED <<unsupported, server, servers, pending, stopping, crashed, faults>>,
         calls' \in Nat, passes' \in Nat,
         todo' \in [Goroutines -> SUBSET Registrars],
         queue' \in [Goroutines -> Seq(Patterns)],
         NEW l \in {"idle", "register", "bind"}, pc' = [pc EXCEPT ![g] = l],
         pc[g] # "shutdown", pending[g] = None
  PROVE  TypeOK'
<1>1. UNCHANGED <<app, addr, routes, mux, httpServer, readyHook, errCh>>
  BY DEF server
<1>2. stopping' = [stopping EXCEPT ![g] = 0]
  BY DEF TypeOK
<1>3. /\ httpServer' \in Nat /\ servers' \in Seq(Server) /\ Len(servers') >= Len(servers)
      /\ httpServer' <= Len(servers') /\ 0 \in 0..Len(servers)
  BY <1>1, Typed
<1> QED BY <1>1, <1>2, <1>3, MoveTypeOK

LEMMA CallTypeOK ==
  ASSUME TypeOK, NEW g \in Goroutines, Call(g), UNCHANGED unsupported
  PROVE  TypeOK'
<1>0. pc[g] = "idle" /\ calls' \in Nat
  BY DEF TypeOK, Call, Enter, Configure, ErrChan, StartEnter, StopEnter, SetAddr, OnReady, Handle
<1>1. pending[g] = None /\ stopping[g] = 0
  BY <1>0 DEF TypeOK
<1>2. CASE Configure(g)
  BY <1>0, <1>2, ConfigTypeOK DEF TypeOK, Configure
<1>3. CASE ErrChan(g)
  BY <1>0, <1>3, ConfigTypeOK DEF TypeOK, ErrChan
<1>4. ASSUME NEW a \in NewAddrs, SetAddr(g, a) PROVE TypeOK'
  <2>1. a \in Addrs
    BY WebServerAssumption DEF WebServerAssumption
  <2> QED BY <1>0, <1>4, <2>1, ConfigTypeOK DEF TypeOK, SetAddr
<1>5. ASSUME NEW h \in Hooks, OnReady(g, h) PROVE TypeOK'
  BY <1>0, <1>5, ConfigTypeOK DEF TypeOK, OnReady
<1>6. ASSUME NEW p \in DirectPatterns, Handle(g, p) PROVE TypeOK'
  <2>1. p \in Patterns
    BY PatternsTyped
  <2>2. routes' \in Seq(Patterns)
    BY <1>6, <2>1 DEF TypeOK, Handle, AppendRoute
  <2> QED BY <1>0, <1>6, <2>1, <2>2, RouteTypeOK, Typed DEF Handle, AppendRoute, Goto
<1>7. CASE StartEnter(g)
  <2>1. /\ calls' \in Nat /\ passes' \in Nat
        /\ todo' \in [Goroutines -> SUBSET Registrars]
    <3>1. todo' = todo \/ todo' = [todo EXCEPT ![g] = Registrars]
      BY <1>7 DEF StartEnter
    <3>2. passes' = passes \/ passes' = passes + 1
      BY <1>7 DEF StartEnter
    <3>3. todo \in [Goroutines -> SUBSET Registrars] /\ passes \in Nat
      BY DEF TypeOK
    <3> QED BY <1>0, <3>1, <3>2, <3>3
  <2>2. /\ UNCHANGED <<server, servers, pending, stopping, crashed, faults>>
        /\ queue' \in [Goroutines -> Seq(Patterns)]
    BY <1>7, Typed DEF StartEnter
  <2>3. PICK l \in {"idle", "register", "bind"} : pc' = [pc EXCEPT ![g] = l]
    BY <1>0, <1>7 DEF TypeOK, StartEnter, Goto
  <2> QED BY <1>0, <1>1, <2>1, <2>2, <2>3, StartMoveTypeOK
<1>8. CASE StopEnter(g)
  <2>1. CASE httpServer = 0
    BY <1>0, <1>8, <2>1 DEF TypeOK, StopEnter
  <2>2. CASE httpServer # 0
    <3>1. httpServer \in 0..Len(servers)
      BY DEF TypeOK
    <3> QED BY <1>0, <1>1, <1>8, <2>2, <3>1, MoveTypeOK, Typed DEF StopEnter, Goto
  <2> QED BY <2>1, <2>2
<1> QED BY <1>2, <1>3, <1>4, <1>5, <1>6, <1>7, <1>8 DEF Call

LEMMA StepTypeOK ==
  ASSUME TypeOK, NEW g \in Goroutines, Step(g), UNCHANGED unsupported
  PROVE  TypeOK'
<1>0. stopping = [stopping EXCEPT ![g] = stopping[g]] /\ pc = [pc EXCEPT ![g] = pc[g]]
        /\ pending = [pending EXCEPT ![g] = pending[g]]
  BY DEF TypeOK
<1>1. CASE HandleMux(g)
  <2>1. CASE pending[g] \in mux
    BY <1>1, <2>1 DEF TypeOK, HandleMux, counts
  <2>2. CASE pending[g] \notin mux
    <3>1. pc[g] \in {"handle", "register"} /\ pending[g] \in Patterns
      BY <1>1 DEF TypeOK, HandleMux
    <3>2. PICK l \in {"idle", "register"} : pc' = [pc EXCEPT ![g] = l]
      BY <1>1, <2>2 DEF HandleMux, Goto
    <3>3. /\ mux' \subseteq Patterns /\ crashed' \in BOOLEAN
          /\ pending' = [pending EXCEPT ![g] = None]
          /\ UNCHANGED <<app, addr, routes, httpServer, readyHook, errCh, servers, todo, queue,
                         stopping, calls, faults, passes>>
      BY <1>1, <2>2, <3>1 DEF TypeOK, HandleMux, counts
    <3> QED BY <3>1, <3>2, <3>3, RouteTypeOK, Typed
  <2> QED BY <2>1, <2>2
<1>2. CASE StartRoute(g)
  <2>1. queue[g] \in Seq(Patterns) /\ queue[g] # <<>>
    BY <1>2 DEF TypeOK, StartRoute
  <2>2. Head(queue[g]) \in Patterns /\ Tail(queue[g]) \in Seq(Patterns)
    BY <2>1
  <2>3. routes' \in Seq(Patterns) /\ queue' \in [Goroutines -> Seq(Patterns)]
    BY <1>2, <2>2 DEF TypeOK, StartRoute, AppendRoute
  <2>4. pc' = [pc EXCEPT ![g] = "register"] /\ pc[g] = "register"
    BY <1>0, <1>2 DEF StartRoute, AtRegistrars
  <2>5. /\ pending' = [pending EXCEPT ![g] = Head(queue[g])]
        /\ UNCHANGED <<app, addr, mux, httpServer, readyHook, errCh, servers, todo,
                       stopping, crashed, calls, faults, passes>>
    BY <1>2 DEF StartRoute, AppendRoute, counts
  <2> QED BY <2>2, <2>3, <2>4, <2>5, RouteTypeOK, Typed
<1>3. CASE StartFails(g)
  <2>1. /\ pc' = [pc EXCEPT ![g] = "idle"] /\ pc[g] # "shutdown" /\ pending[g] = None
        /\ UNCHANGED <<server, servers, pending, stopping, crashed, calls, faults, passes>>
    BY <1>3 DEF StartFails, AtRegistrars, Goto, counts
  <2>2. /\ todo' \in [Goroutines -> SUBSET Registrars] /\ queue' \in [Goroutines -> Seq(Patterns)]
        /\ calls' \in Nat /\ passes' \in Nat
    BY <1>3, <2>1, Typed DEF StartFails
  <2> QED BY <2>1, <2>2, StartMoveTypeOK
<1>4. CASE StartRegistered(g)
  <2>1. /\ pc' = [pc EXCEPT ![g] = "bind"] /\ pc[g] # "shutdown" /\ pending[g] = None
        /\ UNCHANGED <<server, servers, todo, queue, pending, stopping, crashed, calls, faults, passes>>
    BY <1>4 DEF StartRegistered, AtRegistrars, Goto, counts
  <2>2. /\ todo' \in [Goroutines -> SUBSET Registrars] /\ queue' \in [Goroutines -> Seq(Patterns)]
        /\ calls' \in Nat /\ passes' \in Nat
    BY <2>1, Typed
  <2> QED BY <2>1, <2>2, StartMoveTypeOK
<1>5. CASE StartBind(g)
  <2>1. /\ pc' = [pc EXCEPT ![g] = "idle"] /\ stopping' = [stopping EXCEPT ![g] = 0]
        /\ pending[g] = None
    BY <1>0, <1>5 DEF TypeOK, StartBind, Goto
  <2>2. /\ servers' \in Seq(Server) /\ Len(servers') >= Len(servers)
        /\ httpServer' \in Nat /\ httpServer' <= Len(servers')
    <3>1. CASE httpServer # 0 \/ InUse(addr)
      BY <1>5, <3>1 DEF TypeOK, StartBind
    <3>2. CASE ~(httpServer # 0 \/ InUse(addr))
      <4> DEFINE s == [addr |-> addr, open |-> TRUE, ready |-> IF readyHook = None THEN "none" ELSE "armed",
                       serve |-> "spawned", shutdown |-> FALSE]
      <4>1. s \in Server
        BY DEF TypeOK, Server
      <4>2. servers' = Append(servers, s) /\ httpServer' = Len(servers) + 1 /\ servers \in Seq(Server)
        BY <1>5, <3>2 DEF TypeOK, StartBind
      <4> HIDE DEF s
      <4> QED BY <4>1, <4>2
    <3> QED BY <3>1, <3>2
  <2>3. /\ UNCHANGED <<app, addr, routes, mux, readyHook, errCh, todo, queue, pending, crashed,
                       calls, faults, passes>>
    BY <1>5 DEF StartBind, counts
  <2>4. /\ calls' \in Nat /\ passes' \in Nat /\ 0 \in 0..Len(servers)
        /\ todo' \in [Goroutines -> SUBSET Registrars] /\ queue' \in [Goroutines -> Seq(Patterns)]
    BY <2>3 DEF TypeOK
  <2> QED BY <2>1, <2>2, <2>3, <2>4, MoveTypeOK
<1>6. ASSUME NEW r \in Registrars, StartResolve(g, r) PROVE TypeOK'
  <2>1. /\ pc' = [pc EXCEPT ![g] = "register"] /\ pc[g] # "shutdown" /\ pending[g] = None
        /\ UNCHANGED <<server, servers, pending, stopping, crashed, calls, faults, passes>>
    BY <1>0, <1>6 DEF StartResolve, AtRegistrars, counts
  <2>2. /\ todo' \in [Goroutines -> SUBSET Registrars] /\ queue' \in [Goroutines -> Seq(Patterns)]
        /\ calls' \in Nat /\ passes' \in Nat
    BY <1>6, <2>1, Typed, PatternsTyped DEF StartResolve
  <2> QED BY <2>1, <2>2, StartMoveTypeOK
<1>7. CASE StopShutdown(g)
  <2>1. stopping[g] \in 1..Len(servers) /\ pending[g] = None
    <3>1. /\ stopping[g] \in Nat /\ stopping[g] <= Len(servers) /\ Len(servers) \in Nat
          /\ pc[g] = "shutdown" <=> stopping[g] # 0
      BY DEF TypeOK
    <3>2. pc[g] = "shutdown"
      BY <1>7 DEF StopShutdown
    <3>3. pending[g] = None
      BY <3>2 DEF TypeOK
    <3> QED BY <3>1, <3>2, <3>3
  <2>2. servers' \in Seq(Server) /\ Len(servers') = Len(servers)
    <3> DEFINE s == [servers[stopping[g]] EXCEPT !.shutdown = TRUE,
                        !.open = servers[stopping[g]].open /\ servers[stopping[g]].serve = "spawned"]
    <3>1. servers \in Seq(Server) /\ servers[stopping[g]] \in Server
      BY <2>1 DEF TypeOK
    <3>2. s \in Server
      BY <3>1 DEF Server
    <3>3. servers' = [servers EXCEPT ![stopping[g]] = s]
      BY <1>7 DEF StopShutdown
    <3> HIDE DEF s
    <3> QED BY <2>1, <3>1, <3>2, <3>3
  <2>3. /\ pc' = [pc EXCEPT ![g] = "idle"] /\ stopping' = [stopping EXCEPT ![g] = 0]
        /\ UNCHANGED <<app, addr, routes, mux, httpServer, readyHook, errCh, todo, queue, pending,
                       crashed, calls, faults, passes>>
    BY <1>7 DEF StopShutdown, Goto, server, counts
  <2>4. /\ httpServer' \in Nat /\ Len(servers') >= Len(servers) /\ httpServer' <= Len(servers')
        /\ todo' \in [Goroutines -> SUBSET Registrars] /\ queue' \in [Goroutines -> Seq(Patterns)]
        /\ calls' \in Nat /\ passes' \in Nat /\ 0 \in 0..Len(servers)
    BY <2>2, <2>3, Typed
  <2> QED BY <2>1, <2>2, <2>3, <2>4, MoveTypeOK
<1> QED BY <1>1, <1>2, <1>3, <1>4, <1>5, <1>6, <1>7 DEF Step

\* What a step of a Serve goroutine does to its server: it may close the
\* listener and never opens one.
ServeChanges(n) ==
  \E s \in Server :
    /\ servers' = [servers EXCEPT ![n] = s]
    /\ s.open => servers[n].open
    /\ s.shutdown = servers[n].shutdown

LEMMA ServeForm ==
  ASSUME TypeOK, NEW n \in DOMAIN servers, Serve(n) \/ ServeFails(n)
  PROVE  ServeChanges(n)
<1>1. servers \in Seq(Server) /\ servers[n] \in Server
  BY DEF TypeOK
<1>2. CASE ServeBegin(n)
  <2> DEFINE s == IF servers[n].shutdown THEN [servers[n] EXCEPT !.serve = "done", !.open = FALSE]
                                       ELSE [servers[n] EXCEPT !.serve = "serving"]
  <2>1. servers' = [servers EXCEPT ![n] = s]
    BY <1>1, <1>2 DEF ServeBegin
  <2>2. s \in Server /\ (s.open => servers[n].open) /\ s.shutdown = servers[n].shutdown
    BY <1>1 DEF Server
  <2> QED BY <2>1, <2>2 DEF ServeChanges
<1>3. CASE ServeReady(n)
  <2> DEFINE s == [servers[n] EXCEPT !.ready = "told"]
  <2>1. servers' = [servers EXCEPT ![n] = s]
    BY <1>1, <1>3 DEF ServeReady
  <2>2. s \in Server /\ (s.open => servers[n].open) /\ s.shutdown = servers[n].shutdown
    BY <1>1 DEF Server
  <2> QED BY <2>1, <2>2 DEF ServeChanges
<1>4. CASE ServeFails(n)
  <2> DEFINE s == [servers[n] EXCEPT !.serve = "failed", !.open = FALSE]
  <2>1. servers' = [servers EXCEPT ![n] = s]
    BY <1>1, <1>4 DEF ServeFails
  <2>2. s \in Server /\ (s.open => servers[n].open) /\ s.shutdown = servers[n].shutdown
    BY <1>1 DEF Server
  <2> QED BY <2>1, <2>2 DEF ServeChanges
<1>5. CASE ServeReports(n) \/ ServeEnds(n)
  <2> DEFINE s == [servers[n] EXCEPT !.serve = "done"]
  <2>1. servers' = [servers EXCEPT ![n] = s]
    BY <1>1, <1>5 DEF ServeReports, ServeEnds
  <2>2. s \in Server /\ (s.open => servers[n].open) /\ s.shutdown = servers[n].shutdown
    BY <1>1 DEF Server
  <2> QED BY <2>1, <2>2 DEF ServeChanges
<1> QED BY <1>2, <1>3, <1>4, <1>5 DEF Serve

LEMMA ServeTypeOK ==
  ASSUME TypeOK, NEW n \in DOMAIN servers, Serve(n) \/ ServeFails(n), UNCHANGED unsupported
  PROVE  TypeOK'
<1>1. servers' \in Seq(Server) /\ Len(servers') = Len(servers)
  <2>1. PICK s \in Server : servers' = [servers EXCEPT ![n] = s]
    BY ServeForm DEF ServeChanges
  <2>2. servers \in Seq(Server)
    BY DEF TypeOK
  <2> QED BY <2>1, <2>2
<1>2. /\ UNCHANGED <<app, addr, routes, mux, httpServer, readyHook, locals, crashed, calls, passes>>
      /\ errCh' \in {"nil", "empty", "full"} /\ faults' \in Nat
  BY DEF TypeOK, Serve, ServeBegin, ServeReady, ServeFails, Fault, ServeReports, ServeEnds, server, counts
<1> QED BY <1>1, <1>2 DEF TypeOK, locals

\* Whatever is called and however the calls interleave, the variables keep
\* their types.
THEOREM TypeCorrect == Spec => []TypeOK
<1>1. TypeOK /\ [Next]_vars => TypeOK'
  <2> SUFFICES ASSUME TypeOK, [Next]_vars PROVE TypeOK'
    OBVIOUS
  <2>1. CASE UNCHANGED vars
    BY <2>1 DEF vars, server, locals, counts, TypeOK
  <2>2. ASSUME Receive, UNCHANGED unsupported PROVE TypeOK'
    BY <2>2 DEF TypeOK, Receive, locals, counts
  <2> QED BY <2>1, <2>2, CallTypeOK, StepTypeOK, ServeTypeOK DEF Next
<1> QED BY <1>1, InitTypeOK, PTL DEF Spec

-----------------------------------------------------------------------------
(* Listeners and Stops.                                                      *)

\* A step that leaves servers and those who stop them alone.
LEMMA StopsKeptIfUntouched ==
  ASSUME ListenersOwned, StopsAreExclusive, UNCHANGED <<httpServer, servers, stopping>>
  PROVE  (ListenersOwned /\ StopsAreExclusive)'
BY DEF ListenersOwned, StopsAreExclusive

\* A Stop moves the current server into its own hands.
LEMMA StopEnterHandsOver ==
  ASSUME TypeOK, ListenersOwned, StopsAreExclusive, NEW g \in Goroutines, StopEnter(g)
  PROVE  (ListenersOwned /\ StopsAreExclusive)'
<1>1. CASE httpServer = 0
  BY <1>1, StopsKeptIfUntouched DEF StopEnter
<1>2. CASE httpServer # 0
  <2>1. stopping[g] = 0
    BY DEF TypeOK, StopEnter, Enter
  <2>2. /\ stopping \in [Goroutines -> Nat]
        /\ stopping' = [stopping EXCEPT ![g] = httpServer] /\ httpServer' = 0 /\ servers' = servers
    BY <1>2 DEF TypeOK, StopEnter
  <2>3. ListenersOwned'
    <3> SUFFICES ASSUME NEW n \in DOMAIN servers, servers[n].open
                 PROVE  \/ \E h \in Goroutines : stopping'[h] = n
                        \/ servers[n].shutdown
      BY <2>2 DEF ListenersOwned
    <3>1. CASE n = httpServer
      BY <2>2, <3>1
    <3>2. CASE \E h \in Goroutines : stopping[h] = n
      <4>1. PICK h \in Goroutines : stopping[h] = n
        BY <3>2
      <4>2. n # 0
        BY DEF TypeOK
      <4> QED BY <2>1, <2>2, <4>1, <4>2
    <3> QED BY <3>1, <3>2 DEF ListenersOwned
  <2>4. StopsAreExclusive'
    BY <1>2, <2>2 DEF StopsAreExclusive
  <2> QED BY <2>3, <2>4
<1> QED BY <1>1, <1>2

\* Shutdown marks the server it is done with.
LEMMA StopShutdownKeeps ==
  ASSUME TypeOK, ListenersOwned, StopsAreExclusive, NEW g \in Goroutines, StopShutdown(g)
  PROVE  (ListenersOwned /\ StopsAreExclusive)'
<1> DEFINE s == [servers[stopping[g]] EXCEPT !.shutdown = TRUE,
                   !.open = servers[stopping[g]].open /\ servers[stopping[g]].serve = "spawned"]
<1>1. /\ stopping' = [stopping EXCEPT ![g] = 0] /\ httpServer' = httpServer
      /\ servers' = [servers EXCEPT ![stopping[g]] = s]
  BY DEF StopShutdown, server
<1>2. /\ stopping \in [Goroutines -> Nat] /\ servers \in Seq(Server)
      /\ stopping[g] \in DOMAIN servers
  <2>1. stopping[g] # 0 /\ stopping[g] <= Len(servers)
    BY DEF TypeOK, StopShutdown
  <2> QED BY <2>1 DEF TypeOK
<1>3. s.shutdown
  BY <1>2 DEF Server
<1> HIDE DEF s
<1>4. ListenersOwned'
  <2> SUFFICES ASSUME NEW n \in DOMAIN servers', servers'[n].open
               PROVE  \/ n = httpServer'
                      \/ \E h \in Goroutines : stopping'[h] = n
                      \/ servers'[n].shutdown
    BY DEF ListenersOwned
  <2>1. CASE n = stopping[g]
    BY <1>1, <1>2, <1>3, <2>1
  <2>2. CASE n # stopping[g]
    <3>1. n \in DOMAIN servers /\ servers'[n] = servers[n]
      BY <1>1, <1>2, <2>2
    <3>2. CASE \E h \in Goroutines : stopping[h] = n
      <4>1. PICK h \in Goroutines : stopping[h] = n
        BY <3>2
      <4>2. stopping'[h] = n
        BY <1>1, <1>2, <2>2, <4>1
      <4> QED BY <4>2
    <3> QED BY <1>1, <3>1, <3>2 DEF ListenersOwned
  <2> QED BY <2>1, <2>2
<1>5. StopsAreExclusive'
  BY <1>1, <1>2 DEF StopsAreExclusive
<1> QED BY <1>4, <1>5

\* A listener that Start binds is the current server's; no Stop holds its number.
LEMMA StartBindKeeps ==
  ASSUME TypeOK, ListenersOwned, StopsAreExclusive, NEW g \in Goroutines, StartBind(g)
  PROVE  (ListenersOwned /\ StopsAreExclusive)'
<1>1. CASE httpServer # 0 \/ InUse(addr)
  BY <1>1, StopsKeptIfUntouched DEF StartBind
<1>2. CASE ~(httpServer # 0 \/ InUse(addr))
  <2>1. PICK s : servers' = Append(servers, s)
    BY <1>2 DEF StartBind
  <2>2. httpServer = 0 /\ httpServer' = Len(servers) + 1 /\ stopping' = stopping
    BY <1>2 DEF StartBind
  <2>3. /\ servers \in Seq(Server) /\ stopping \in [Goroutines -> Nat]
        /\ \A h \in Goroutines : stopping[h] <= Len(servers)
    BY DEF TypeOK
  <2>4. \A n \in DOMAIN servers' : n = httpServer' \/ (n \in DOMAIN servers /\ servers'[n] = servers[n])
    BY <2>1, <2>2, <2>3
  <2>5. ListenersOwned'
    <3> SUFFICES ASSUME NEW n \in DOMAIN servers', servers'[n].open, n # httpServer'
                 PROVE  (\E h \in Goroutines : stopping[h] = n) \/ servers'[n].shutdown
      BY <2>2 DEF ListenersOwned
    <3>1. n \in DOMAIN servers /\ servers'[n] = servers[n]
      BY <2>4
    <3>2. n # 0
      BY <2>3, <3>1
    <3> QED BY <2>2, <3>1, <3>2 DEF ListenersOwned
  <2>6. StopsAreExclusive'
    BY <2>2, <2>3 DEF StopsAreExclusive
  <2> QED BY <2>5, <2>6
<1> QED BY <1>1, <1>2

LEMMA ServeKeeps ==
  ASSUME TypeOK, ListenersOwned, StopsAreExclusive, NEW m \in DOMAIN servers, Serve(m) \/ ServeFails(m)
  PROVE  (ListenersOwned /\ StopsAreExclusive)'
<1>1. PICK s \in Server : /\ servers' = [servers EXCEPT ![m] = s]
                          /\ s.open => servers[m].open
                          /\ s.shutdown = servers[m].shutdown
  BY ServeForm DEF ServeChanges
<1>2. UNCHANGED <<httpServer, stopping>>
  BY DEF Serve, ServeBegin, ServeReady, ServeFails, ServeReports, ServeEnds, server, locals
<1>3. servers \in Seq(Server)
  BY DEF TypeOK
<1>4. ListenersOwned'
  <2> SUFFICES ASSUME NEW n \in DOMAIN servers', servers'[n].open
               PROVE  \/ n = httpServer
                      \/ \E h \in Goroutines : stopping[h] = n
                      \/ servers'[n].shutdown
    BY <1>2 DEF ListenersOwned
  <2>1. n \in DOMAIN servers
    BY <1>1, <1>3
  <2>2. CASE n = m
    BY <1>1, <1>3, <2>1, <2>2 DEF ListenersOwned
  <2>3. CASE n # m
    BY <1>1, <1>3, <2>1, <2>3 DEF ListenersOwned
  <2> QED BY <2>2, <2>3
<1>5. StopsAreExclusive'
  BY <1>2 DEF StopsAreExclusive
<1> QED BY <1>4, <1>5

LEMMA NextKeepsStops ==
  ASSUME TypeOK, ListenersOwned, StopsAreExclusive, [Next]_vars
  PROVE  (ListenersOwned /\ StopsAreExclusive)'
<1>1. ASSUME NEW g \in Goroutines, Call(g) PROVE (ListenersOwned /\ StopsAreExclusive)'
  <2>1. CASE StopEnter(g)
    BY <2>1, StopEnterHandsOver
  <2>2. CASE UNCHANGED <<httpServer, servers, stopping>>
    BY <2>2, StopsKeptIfUntouched
  <2> QED BY <1>1, <2>1, <2>2
          DEF Call, Configure, ErrChan, StartEnter, SetAddr, OnReady, Handle, AppendRoute, locals, server
<1>2. ASSUME NEW g \in Goroutines, Step(g) PROVE (ListenersOwned /\ StopsAreExclusive)'
  <2>1. CASE StartBind(g)
    BY <2>1, StartBindKeeps
  <2>2. CASE StopShutdown(g)
    BY <2>2, StopShutdownKeeps
  <2>3. CASE UNCHANGED <<httpServer, servers, stopping>>
    BY <2>3, StopsKeptIfUntouched
  <2> QED BY <1>2, <2>1, <2>2, <2>3
          DEF Step, HandleMux, StartRoute, StartFails, StartRegistered, StartResolve, locals, server
<1>3. CASE Receive \/ UNCHANGED vars
  BY <1>3, StopsKeptIfUntouched DEF Receive, locals, vars, server
<1> QED BY <1>1, <1>2, <1>3, ServeKeeps DEF Next

\* Starts that race never leave a listener that nobody will close, and no server
\* is shut down twice.
THEOREM StopsHold == Spec => [](ListenersOwned /\ StopsAreExclusive)
<1>1. Init => ListenersOwned /\ StopsAreExclusive
  BY DEF Init, ListenersOwned, StopsAreExclusive
<1>2. TypeOK /\ ListenersOwned /\ StopsAreExclusive /\ [Next]_vars
        => (ListenersOwned /\ StopsAreExclusive)'
  BY NextKeepsStops
<1> QED BY <1>1, <1>2, TypeCorrect, PTL DEF Spec

\* Starts that race never leave a listener that nobody will close.
THEOREM ListenersAreOwned == Spec => []ListenersOwned
BY StopsHold, PTL

\* At most one Stop has a server, and then it is not the current one.
THEOREM OneStopPerServer == Spec => []StopsAreExclusive
BY StopsHold, PTL

-----------------------------------------------------------------------------
(* Routes.                                                                   *)

\* The goroutines between the two halves of Handle.
Pending == {g \in Goroutines : pending[g] # None}

\* Each of them has put its pattern on the list and still has to give it to the
\* mux, and that is all the list has more than the mux.
RoutesInv ==
  /\ mux \subseteq Entries(routes)
  /\ \A g \in Pending : pending[g] \in Entries(routes)
  /\ \A p \in Entries(routes) : p \in mux \/ \E g \in Pending : pending[g] = p
  /\ IsFiniteSet(mux) /\ IsFiniteSet(Pending)
  /\ Len(routes) = Cardinality(mux) + Cardinality(Pending)

LEMMA RoutesKeptIfUntouched ==
  ASSUME RoutesInv, UNCHANGED <<routes, mux, pending>>
  PROVE  RoutesInv'
BY DEF RoutesInv, Pending, Entries

\* The entries of a list after an append.
LEMMA EntriesAppend ==
  ASSUME NEW S, NEW s \in Seq(S), NEW e \in S
  PROVE  Entries(Append(s, e)) = Entries(s) \cup {e}
<1>1. \A i \in 1..Len(s) : Append(s, e)[i] = s[i]
  OBVIOUS
<1>2. Append(s, e)[Len(s) + 1] = e /\ DOMAIN Append(s, e) = 1..(Len(s) + 1) /\ DOMAIN s = 1..Len(s)
  OBVIOUS
<1> QED BY <1>1, <1>2 DEF Entries

LEMMA AppendKeeps ==
  ASSUME TypeOK, RoutesInv, NEW g \in Goroutines, NEW p \in Patterns, pending[g] = None,
         AppendRoute(g, p), mux' = mux
  PROVE  RoutesInv'
<1>1. p # None
  BY PatternsTyped
<1>2. /\ pending \in [Goroutines -> Patterns \cup {None}] /\ routes \in Seq(Patterns)
      /\ pending' = [pending EXCEPT ![g] = p] /\ routes' = Append(routes, p)
  BY DEF TypeOK, AppendRoute
<1>3. Entries(routes)' = Entries(routes) \cup {p}
  BY <1>2, EntriesAppend DEF Entries
<1>4. Pending' = Pending \cup {g} /\ g \notin Pending
  BY <1>1, <1>2 DEF Pending
<1>5. IsFiniteSet(Pending') /\ Cardinality(Pending') = Cardinality(Pending) + 1
  BY <1>4, FS_AddElement DEF RoutesInv
<1>6. Len(routes') = Len(routes) + 1
  BY <1>2
<1>7. Cardinality(mux) \in Nat /\ Cardinality(Pending) \in Nat
  BY FS_CardinalityType DEF RoutesInv
<1>8. \A h \in Pending : h # g /\ pending'[h] = pending[h]
  BY <1>2, <1>4 DEF Pending
<1>9. pending'[g] = p
  BY <1>2
<1>10. \A h \in Pending' : pending'[h] \in Entries(routes)'
  BY <1>3, <1>4, <1>8, <1>9 DEF RoutesInv
<1>11. \A q \in Entries(routes)' : q \in mux \/ \E h \in Pending' : pending'[h] = q
  BY <1>3, <1>4, <1>8, <1>9 DEF RoutesInv
<1>12. IsFiniteSet(mux') /\ mux' \subseteq Entries(routes)'
  BY <1>3 DEF RoutesInv
<1>13. Len(routes') = Cardinality(mux') + Cardinality(Pending')
  BY <1>5, <1>6, <1>7 DEF RoutesInv
<1> QED BY <1>5, <1>10, <1>11, <1>12, <1>13 DEF RoutesInv

LEMMA HandleMuxKeeps ==
  ASSUME TypeOK, RoutesInv, NEW g \in Goroutines, HandleMux(g)
  PROVE  RoutesInv'
<1>1. CASE pending[g] \in mux
  BY <1>1, RoutesKeptIfUntouched DEF HandleMux
<1>2. CASE pending[g] \notin mux
  <2>1. /\ pending \in [Goroutines -> Patterns \cup {None}] /\ pending[g] # None
        /\ pending' = [pending EXCEPT ![g] = None] /\ mux' = mux \cup {pending[g]}
        /\ routes' = routes
    BY <1>2 DEF TypeOK, HandleMux
  <2>2. Pending' = Pending \ {g} /\ g \in Pending
    BY <2>1 DEF Pending
  <2>3. IsFiniteSet(Pending') /\ Cardinality(Pending') = Cardinality(Pending) - 1
    BY <2>2, FS_RemoveElement DEF RoutesInv
  <2>4. IsFiniteSet(mux') /\ Cardinality(mux') = Cardinality(mux) + 1
    BY <1>2, <2>1, FS_AddElement DEF RoutesInv
  <2>5. Cardinality(mux) \in Nat /\ Cardinality(Pending) \in Nat
    BY FS_CardinalityType DEF RoutesInv
  <2>6. Entries(routes)' = Entries(routes)
    BY <2>1 DEF Entries
  <2>7. \A h \in Pending' : h \in Pending /\ pending'[h] = pending[h]
    BY <2>1, <2>2 DEF Pending
  <2>8. \A h \in Pending' : pending'[h] \in Entries(routes)'
    BY <2>6, <2>7 DEF RoutesInv
  <2>9. \A q \in Entries(routes)' : q \in mux' \/ \E h \in Pending' : pending'[h] = q
    <3> SUFFICES ASSUME NEW q \in Entries(routes), q \notin mux'
                 PROVE  \E h \in Pending' : pending'[h] = q
      BY <2>6
    <3>1. PICK h \in Pending : pending[h] = q
      BY <2>1 DEF RoutesInv
    <3>2. h # g
      BY <2>1, <3>1
    <3> QED BY <2>2, <2>7, <3>1, <3>2
  <2>10. mux' \subseteq Entries(routes)'
    BY <2>1, <2>2, <2>6 DEF RoutesInv
  <2>11. Len(routes') = Cardinality(mux') + Cardinality(Pending')
    BY <2>1, <2>3, <2>4, <2>5 DEF RoutesInv
  <2> QED BY <2>3, <2>4, <2>8, <2>9, <2>10, <2>11 DEF RoutesInv
<1> QED BY <1>1, <1>2

LEMMA NextKeepsRoutes ==
  ASSUME TypeOK, RoutesInv, [Next]_vars
  PROVE  RoutesInv'
<1>1. ASSUME NEW g \in Goroutines, Call(g) PROVE RoutesInv'
  <2>1. ASSUME NEW p \in DirectPatterns, Handle(g, p) PROVE RoutesInv'
    <3>1. p \in Patterns
      BY PatternsTyped
    <3>2. pending[g] = None
      BY <2>1 DEF TypeOK, Handle, Enter
    <3> QED BY <2>1, <3>1, <3>2, AppendKeeps DEF Handle
  <2>2. CASE UNCHANGED <<routes, mux, pending>>
    BY <2>2, RoutesKeptIfUntouched
  <2> QED BY <1>1, <2>1, <2>2
          DEF Call, Configure, ErrChan, StartEnter, StopEnter, SetAddr, OnReady, locals, server
<1>2. ASSUME NEW g \in Goroutines, Step(g) PROVE RoutesInv'
  <2>1. CASE HandleMux(g)
    BY <2>1, HandleMuxKeeps
  <2>2. CASE StartRoute(g)
    <3>1. queue[g] \in Seq(Patterns) /\ queue[g] # <<>>
      BY <2>2 DEF TypeOK, StartRoute
    <3>2. Head(queue[g]) \in Patterns
      BY <3>1
    <3> QED BY <2>2, <3>2, AppendKeeps DEF StartRoute, AtRegistrars
  <2>3. CASE UNCHANGED <<routes, mux, pending>>
    BY <2>3, RoutesKeptIfUntouched
  <2> QED BY <1>2, <2>1, <2>2, <2>3
          DEF Step, StartBind, StopShutdown, StartFails, StartRegistered, StartResolve, locals, server
<1>3. ASSUME NEW n \in DOMAIN servers, Serve(n) \/ ServeFails(n) PROVE RoutesInv'
  <2>1. UNCHANGED <<routes, mux, pending>>
    BY <1>3 DEF Serve, ServeBegin, ServeReady, ServeFails, ServeReports, ServeEnds, server, locals
  <2> QED BY <2>1, RoutesKeptIfUntouched
<1>4. CASE Receive \/ UNCHANGED vars
  BY <1>4, RoutesKeptIfUntouched DEF Receive, locals, vars, server
<1> QED BY <1>1, <1>2, <1>3, <1>4 DEF Next

\* The list and the mux differ only by the registrations under way.
THEOREM RoutesInvHolds == Spec => []RoutesInv
<1>1. Init => RoutesInv
  <2> SUFFICES ASSUME Init PROVE RoutesInv
    OBVIOUS
  <2>1. mux = {} /\ routes = <<>> /\ Pending = {} /\ Entries(routes) = {}
    BY DEF Init, Pending, Entries
  <2> QED BY <2>1, FS_EmptySet DEF RoutesInv
<1> QED BY <1>1, NextKeepsRoutes, TypeCorrect, PTL DEF Spec

\* What the mux serves Routes lists, and with no registration under way nothing
\* else and nothing twice.
THEOREM RoutesAreListed == Spec => []RoutesListed
<1>1. RoutesInv => RoutesListed
  <2> SUFFICES ASSUME RoutesInv PROVE RoutesListed
    OBVIOUS
  <2>1. ASSUME \A g \in Goroutines : pending[g] = None
        PROVE  Entries(routes) = mux /\ Len(routes) = Cardinality(mux)
    <3>1. Pending = {} /\ Cardinality(Pending) = 0
      BY <2>1, FS_EmptySet DEF Pending
    <3>2. Cardinality(mux) \in Nat
      BY FS_CardinalityType DEF RoutesInv
    <3>3. Len(routes) = Cardinality(mux)
      BY <3>1, <3>2 DEF RoutesInv
    <3>4. Entries(routes) \subseteq mux
      BY <3>1 DEF RoutesInv
    <3> QED BY <3>3, <3>4 DEF RoutesInv
  <2> QED BY <2>1 DEF RoutesListed, RoutesInv
<1> QED BY <1>1, RoutesInvHolds, PTL

-----------------------------------------------------------------------------
(* Panics.                                                                   *)

\* What a goroutine inside Start has still to register is not on the list, will
\* not be added by hand, and comes once.
Fresh(g) ==
  /\ \A r \in todo[g] : \A i \in DOMAIN RoutesOf[r] : RoutesOf[r][i] \notin Entries(routes)
  /\ \A i \in DOMAIN queue[g] :
       /\ queue[g][i] \notin Entries(routes) \cup DirectPatterns
       /\ \A j \in DOMAIN queue[g] : queue[g][i] = queue[g][j] => i = j
       /\ \A r \in todo[g] : queue[g][i] \notin Entries(RoutesOf[r])

\* Until a second Start registers routes, one goroutine at most does so, what it
\* has left is new, and what waits for the mux is new to it and different.
FirstPass ==
  /\ \A g \in Pending : pending[g] \notin mux
  /\ \A g, h \in Pending : pending[g] = pending[h] => g = h
  /\ \A g, h \in Goroutines : pc[g] = "register" /\ pc[h] = "register" => g = h
  /\ \A g \in Goroutines : pc[g] = "register" => Fresh(g)

PanicInv ==
  /\ PanicsNeedTwoStarts
  /\ \A g \in Goroutines : pc[g] # "register" => queue[g] = <<>>
  /\ passes = 0 => Entries(routes) \subseteq DirectPatterns /\ \A g \in Goroutines : pc[g] # "register"
  /\ passes <= 1 => FirstPass

\* A step that registers nothing: goroutines may leave the registration, and
\* nothing else about it changes.
LEMMA PanicKeptIfUntouched ==
  ASSUME PanicInv, UNCHANGED <<routes, mux, pending, crashed, passes>>,
         \A g \in Goroutines : \/ pc'[g] = pc[g] /\ queue'[g] = queue[g] /\ todo'[g] = todo[g]
                               \/ pc'[g] # "register" /\ queue'[g] = <<>>
  PROVE  PanicInv'
<1>1. Entries(routes)' = Entries(routes) /\ Pending' = Pending
  BY DEF Entries, Pending
<1>2. \A g \in Goroutines : pc'[g] = "register" =>
        pc[g] = "register" /\ queue'[g] = queue[g] /\ todo'[g] = todo[g]
  OBVIOUS
<1>3. \A g \in Goroutines : pc'[g] = "register" /\ Fresh(g) => Fresh(g)'
  BY <1>1, <1>2 DEF Fresh
<1>4. FirstPass => FirstPass'
  BY <1>1, <1>2, <1>3 DEF FirstPass
<1>5. PanicsNeedTwoStarts'
  BY DEF PanicInv, PanicsNeedTwoStarts
<1>6. \A g \in Goroutines : pc'[g] # "register" => queue'[g] = <<>>
  BY DEF PanicInv
<1>7. passes' = 0 => Entries(routes)' \subseteq DirectPatterns /\ \A g \in Goroutines : pc'[g] # "register"
  BY <1>1, <1>2 DEF PanicInv
<1> QED BY <1>4, <1>5, <1>6, <1>7 DEF PanicInv

\* A caller's pattern is new, and no registrar has it.
LEMMA HandleNoPanic ==
  ASSUME TypeOK, RoutesInv, PanicInv, NEW g \in Goroutines, NEW p \in DirectPatterns, Handle(g, p)
  PROVE  PanicInv'
<1>1. /\ pending' = [pending EXCEPT ![g] = p] /\ pending \in [Goroutines -> Patterns \cup {None}]
      /\ pc' = [pc EXCEPT ![g] = "handle"] /\ pc[g] = "idle"
      /\ pc \in [Goroutines -> {"idle", "handle", "register", "bind", "shutdown"}]
      /\ UNCHANGED <<mux, todo, queue, crashed, passes>>
  BY DEF TypeOK, Handle, Enter, AppendRoute, Goto
<1>2. Entries(routes)' = Entries(routes) \cup {p}
  <2>1. routes \in Seq(Patterns) /\ routes' = Append(routes, p) /\ p \in Patterns
    BY PatternsTyped DEF TypeOK, Handle, AppendRoute
  <2> QED BY <2>1, EntriesAppend DEF Entries
<1>3. p \notin Entries(routes) /\ p \notin mux
  BY DEF Handle, RoutesInv
<1>4. /\ g \notin Pending /\ Pending' = Pending \cup {g} /\ pending'[g] = p
      /\ \A h \in Pending : pending'[h] = pending[h] /\ pending[h] # p
  <2>1. pending[g] = None /\ p # None
    BY <1>1, PatternsTyped DEF TypeOK
  <2>2. \A h \in Pending : pending[h] # p
    BY <1>3 DEF RoutesInv
  <2> QED BY <1>1, <2>1, <2>2 DEF Pending
<1>5. \A h \in Goroutines : pc'[h] = "register" <=> pc[h] = "register"
  BY <1>1
<1>6. ASSUME NEW h \in Goroutines, Fresh(h) PROVE Fresh(h)'
  <2>1. ASSUME NEW r \in todo[h], NEW i \in DOMAIN RoutesOf[r]
        PROVE  RoutesOf[r][i] \notin Entries(routes)'
    <3>1. r \in Registrars
      BY DEF TypeOK
    <3> QED BY <1>2, <1>6, <3>1, DistinctPatterns DEF Fresh
  <2>2. ASSUME NEW i \in DOMAIN queue[h]
        PROVE  queue[h][i] \notin Entries(routes)' \cup DirectPatterns
    BY <1>2, <1>6 DEF Fresh
  <2> QED BY <1>1, <1>6, <2>1, <2>2 DEF Fresh
<1>7. FirstPass => FirstPass'
  <2> SUFFICES ASSUME FirstPass PROVE FirstPass'
    OBVIOUS
  <2>1. \A h \in Pending' : pending'[h] \notin mux'
    BY <1>1, <1>3, <1>4 DEF FirstPass
  <2>2. \A h, k \in Pending' : pending'[h] = pending'[k] => h = k
    BY <1>4 DEF FirstPass
  <2> QED BY <1>5, <1>6, <2>1, <2>2 DEF FirstPass
<1>8. passes' = 0 => Entries(routes)' \subseteq DirectPatterns
  BY <1>1, <1>2 DEF PanicInv
<1>9. \A h \in Goroutines : pc'[h] # "register" => queue'[h] = <<>>
  BY <1>1, <1>5 DEF PanicInv
<1>10. PanicsNeedTwoStarts'
  BY <1>1 DEF PanicInv, PanicsNeedTwoStarts
<1> QED BY <1>1, <1>5, <1>7, <1>8, <1>9, <1>10 DEF PanicInv

\* What the first Start appends is new; the rest of its queue stays new.
LEMMA StartRouteNoPanic ==
  ASSUME TypeOK, RoutesInv, PanicInv, NEW g \in Goroutines, StartRoute(g)
  PROVE  PanicInv'
<1> DEFINE p == Head(queue[g])
<1>1. /\ pending' = [pending EXCEPT ![g] = p] /\ pending \in [Goroutines -> Patterns \cup {None}]
      /\ pending[g] = None /\ pc[g] = "register"
      /\ queue' = [queue EXCEPT ![g] = Tail(queue[g])] /\ queue \in [Goroutines -> Seq(Patterns)]
      /\ queue[g] # <<>>
      /\ UNCHANGED <<mux, pc, todo, crashed, passes>>
  BY DEF TypeOK, StartRoute, AtRegistrars, AppendRoute, counts
<1>2. queue[g] \in Seq(Patterns) /\ p = queue[g][1] /\ 1 \in DOMAIN queue[g] /\ p \in Patterns
  BY <1>1
<1>3. Entries(routes)' = Entries(routes) \cup {p}
  <2>1. routes \in Seq(Patterns) /\ routes' = Append(routes, p)
    BY DEF TypeOK, StartRoute, AppendRoute
  <2> QED BY <1>2, <2>1, EntriesAppend DEF Entries
<1>4. \A i \in DOMAIN queue'[g] : /\ i + 1 \in DOMAIN queue[g] /\ i + 1 # 1 /\ i \in Nat
                                  /\ queue'[g][i] = queue[g][i + 1]
  BY <1>1, <1>2
<1> HIDE DEF p
<1>5. /\ g \notin Pending /\ Pending' = Pending \cup {g} /\ pending'[g] = p
      /\ \A h \in Pending : pending'[h] = pending[h] /\ pending[h] \in Entries(routes)
  <2>1. p # None
    BY <1>2, PatternsTyped
  <2> QED BY <1>1, <2>1 DEF Pending, RoutesInv
<1>6. FirstPass => FirstPass'
  <2> SUFFICES ASSUME FirstPass PROVE FirstPass'
    OBVIOUS
  <2>1. Fresh(g)
    BY <1>1 DEF FirstPass
  <2>2. p \notin Entries(routes) /\ p \notin mux
    BY <1>2, <2>1 DEF Fresh, RoutesInv
  <2>3. \A h \in Pending' : pending'[h] \notin mux'
    BY <1>1, <1>5, <2>2 DEF FirstPass
  <2>4. \A h, k \in Pending' : pending'[h] = pending'[k] => h = k
    BY <1>5, <2>2 DEF FirstPass
  <2>5. Fresh(g)'
    <3>1. ASSUME NEW r \in todo[g], NEW i \in DOMAIN RoutesOf[r]
          PROVE  RoutesOf[r][i] \notin Entries(routes)'
      <4>1. p \notin Entries(RoutesOf[r])
        BY <1>2, <2>1 DEF Fresh
      <4> QED BY <1>3, <2>1, <4>1 DEF Fresh, Entries
    <3>2. ASSUME NEW i \in DOMAIN queue'[g]
          PROVE  /\ queue'[g][i] \notin Entries(routes)' \cup DirectPatterns
                 /\ \A j \in DOMAIN queue'[g] : queue'[g][i] = queue'[g][j] => i = j
                 /\ \A r \in todo[g] : queue'[g][i] \notin Entries(RoutesOf[r])
      <4>1. queue[g][i + 1] # p
        BY <1>2, <1>4, <2>1 DEF Fresh
      <4>2. ASSUME NEW j \in DOMAIN queue'[g], queue'[g][i] = queue'[g][j] PROVE i = j
        <5>1. i + 1 = j + 1
          BY <1>4, <2>1, <4>2 DEF Fresh
        <5> QED BY <1>4, <5>1
      <4> QED BY <1>3, <1>4, <2>1, <4>1, <4>2 DEF Fresh
    <3> QED BY <1>1, <3>1, <3>2 DEF Fresh
  <2>6. \A h \in Goroutines : pc[h] = "register" => h = g
    BY <1>1 DEF FirstPass
  <2> QED BY <1>1, <2>3, <2>4, <2>5, <2>6 DEF FirstPass
<1>7. passes # 0
  BY <1>1 DEF PanicInv
<1>8. \A h \in Goroutines : pc'[h] # "register" => queue'[h] = <<>>
  BY <1>1 DEF PanicInv
<1>9. PanicsNeedTwoStarts'
  BY <1>1 DEF PanicInv, PanicsNeedTwoStarts
<1> QED BY <1>1, <1>6, <1>7, <1>8, <1>9 DEF PanicInv

\* Until a second Start registers, what waits for the mux is new to it.
LEMMA HandleMuxNoPanic ==
  ASSUME TypeOK, RoutesInv, PanicInv, ~crashed, NEW g \in Goroutines, HandleMux(g)
  PROVE  PanicInv'
<1>0. passes' = passes /\ routes' = routes /\ queue' = queue /\ todo' = todo /\ passes \in Nat
  BY DEF TypeOK, HandleMux, counts
<1>1. g \in Pending
  BY DEF HandleMux, Pending
<1>2. CASE pending[g] \in mux
  <2>1. passes > 1
    BY <1>0, <1>1, <1>2 DEF PanicInv, FirstPass
  <2>2. pc' = pc
    BY <1>2 DEF HandleMux
  <2>3. PanicsNeedTwoStarts'
    BY <1>0, <2>1 DEF PanicsNeedTwoStarts
  <2>4. \A h \in Goroutines : pc'[h] # "register" => queue'[h] = <<>>
    BY <1>0, <2>2 DEF PanicInv
  <2> QED BY <1>0, <2>1, <2>3, <2>4 DEF PanicInv
<1>3. CASE pending[g] \notin mux
  <2>1. /\ mux' = mux \cup {pending[g]} /\ pending' = [pending EXCEPT ![g] = None]
        /\ pending \in [Goroutines -> Patterns \cup {None}]
        /\ pc \in [Goroutines -> {"idle", "handle", "register", "bind", "shutdown"}]
        /\ pc' = [pc EXCEPT ![g] = IF pc[g] = "handle" THEN "idle" ELSE "register"]
        /\ crashed' = crashed
        /\ pc[g] \in {"handle", "register"}
    BY <1>3 DEF TypeOK, HandleMux, Goto
  <2>2. \A h \in Goroutines : pc'[h] = "register" <=> pc[h] = "register"
    BY <2>1
  <2>3. \A h \in Pending' : h \in Pending /\ h # g /\ pending'[h] = pending[h]
    BY <2>1 DEF Pending
  <2>4. FirstPass => FirstPass'
    <3> SUFFICES ASSUME FirstPass PROVE FirstPass'
      OBVIOUS
    <3>1. \A h \in Pending' : pending'[h] \notin mux'
      BY <1>1, <2>1, <2>3 DEF FirstPass
    <3>2. \A h, k \in Pending' : pending'[h] = pending'[k] => h = k
      BY <2>3 DEF FirstPass
    <3>3. \A h \in Goroutines : Fresh(h) => Fresh(h)'
      BY <1>0 DEF Fresh, Entries
    <3> QED BY <2>2, <3>1, <3>2, <3>3 DEF FirstPass
  <2>5. Entries(routes)' = Entries(routes)
    BY <1>0 DEF Entries
  <2>6. PanicsNeedTwoStarts'
    BY <1>0, <2>1 DEF PanicsNeedTwoStarts
  <2>7. \A h \in Goroutines : pc'[h] # "register" => queue'[h] = <<>>
    BY <1>0, <2>2 DEF PanicInv
  <2> QED BY <1>0, <2>2, <2>4, <2>5, <2>6, <2>7 DEF PanicInv
<1> QED BY <1>2, <1>3

\* The first Start finds no route of a registrar on the list.
LEMMA StartEnterNoPanic ==
  ASSUME TypeOK, PanicInv, NEW g \in Goroutines, StartEnter(g)
  PROVE  PanicInv'
<1>1. /\ UNCHANGED <<routes, mux, queue, pending, crashed>> /\ pc[g] = "idle"
      /\ pc \in [Goroutines -> {"idle", "handle", "register", "bind", "shutdown"}]
      /\ todo \in [Goroutines -> SUBSET Registrars] /\ passes \in Nat
  BY DEF TypeOK, StartEnter, Enter, server
<1>2. CASE passes' = passes /\ todo' = todo /\ (pc' = pc \/ pc' = [pc EXCEPT ![g] = "bind"])
  <2>1. \A h \in Goroutines : \/ pc'[h] = pc[h] /\ queue'[h] = queue[h] /\ todo'[h] = todo[h]
                              \/ pc'[h] # "register" /\ queue'[h] = <<>>
    BY <1>1, <1>2 DEF PanicInv
  <2> QED BY <1>1, <1>2, <2>1, PanicKeptIfUntouched
<1>3. CASE pc' = [pc EXCEPT ![g] = "register"] /\ todo' = [todo EXCEPT ![g] = Registrars]
             /\ passes' = passes + 1
  <2>1. Entries(routes)' = Entries(routes) /\ Pending' = Pending
    BY <1>1 DEF Entries, Pending
  <2>2. queue'[g] = <<>>
    BY <1>1 DEF PanicInv
  <2>3. \A h \in Goroutines : pc'[h] # "register" => queue'[h] = <<>>
    BY <1>1, <1>3 DEF PanicInv
  <2>4. PanicsNeedTwoStarts'
    BY <1>1, <1>3 DEF PanicInv, PanicsNeedTwoStarts
  <2>5. passes' # 0
    BY <1>1, <1>3
  <2>6. passes' <= 1 => FirstPass'
    <3> SUFFICES ASSUME passes = 0 PROVE FirstPass'
      BY <1>1, <1>3
    <3>1. Entries(routes) \subseteq DirectPatterns /\ \A h \in Goroutines : pc[h] # "register"
      BY DEF PanicInv
    <3>2. FirstPass
      BY DEF PanicInv
    <3>3. \A h \in Goroutines : pc'[h] = "register" => h = g
      BY <1>1, <1>3, <3>1
    <3>4. todo'[g] = Registrars
      BY <1>1, <1>3
    <3>5. \A r \in Registrars : \A i \in DOMAIN RoutesOf[r] : RoutesOf[r][i] \notin DirectPatterns
      BY DistinctPatterns
    <3>6. Fresh(g)'
      BY <2>1, <2>2, <3>1, <3>4, <3>5 DEF Fresh
    <3> QED BY <1>1, <2>1, <3>2, <3>3, <3>6 DEF FirstPass
  <2> QED BY <2>3, <2>4, <2>5, <2>6 DEF PanicInv
<1> QED BY <1>2, <1>3 DEF StartEnter, Goto

\* The routes of one registrar are different and no other's.
LEMMA StartResolveNoPanic ==
  ASSUME TypeOK, PanicInv, NEW g \in Goroutines, NEW r \in Registrars, StartResolve(g, r)
  PROVE  PanicInv'
<1>1. /\ UNCHANGED <<routes, mux, pc, pending, crashed, passes>>
      /\ pc[g] = "register" /\ r \in todo[g]
      /\ todo' = [todo EXCEPT ![g] = @ \ {r}] /\ queue' = [queue EXCEPT ![g] = RoutesOf[r]]
      /\ todo \in [Goroutines -> SUBSET Registrars] /\ queue \in [Goroutines -> Seq(Patterns)]
  BY DEF TypeOK, StartResolve, AtRegistrars, server, counts
<1>2. Entries(routes)' = Entries(routes) /\ Pending' = Pending
  BY <1>1 DEF Entries, Pending
<1>3. FirstPass => FirstPass'
  <2> SUFFICES ASSUME FirstPass PROVE FirstPass'
    OBVIOUS
  <2>1. Fresh(g)
    BY <1>1 DEF FirstPass
  <2>2. todo'[g] = todo[g] \ {r} /\ queue'[g] = RoutesOf[r] /\ todo[g] \subseteq Registrars
    BY <1>1
  <2>3. ASSUME NEW i \in DOMAIN RoutesOf[r]
        PROVE  /\ RoutesOf[r][i] \notin Entries(routes) \cup DirectPatterns
               /\ \A j \in DOMAIN RoutesOf[r] : RoutesOf[r][i] = RoutesOf[r][j] => i = j
               /\ \A q \in todo[g] \ {r} : RoutesOf[r][i] \notin Entries(RoutesOf[q])
    BY <1>1, <2>1, <2>2, DistinctPatterns DEF Fresh, Entries
  <2>4. Fresh(g)'
    BY <1>2, <2>1, <2>2, <2>3 DEF Fresh
  <2>5. \A h \in Goroutines : pc[h] = "register" => h = g
    BY <1>1 DEF FirstPass
  <2> QED BY <1>1, <1>2, <2>4, <2>5 DEF FirstPass
<1>4. \A h \in Goroutines : pc'[h] # "register" => queue'[h] = <<>>
  BY <1>1 DEF PanicInv
<1>5. PanicsNeedTwoStarts'
  BY <1>1 DEF PanicInv, PanicsNeedTwoStarts
<1>6. passes' # 0
  BY <1>1 DEF PanicInv
<1> QED BY <1>1, <1>3, <1>4, <1>5, <1>6 DEF PanicInv

LEMMA NextKeepsPanicInv ==
  ASSUME TypeOK, RoutesInv, PanicInv, [Next]_vars
  PROVE  PanicInv'
<1>0. /\ pc \in [Goroutines -> {"idle", "handle", "register", "bind", "shutdown"}]
      /\ queue \in [Goroutines -> Seq(Patterns)] /\ todo \in [Goroutines -> SUBSET Registrars]
      /\ \A h \in Goroutines : pc[h] # "register" => queue[h] = <<>>
  BY DEF TypeOK, PanicInv
<1>1. ASSUME NEW g \in Goroutines, Call(g) PROVE PanicInv'
  <2>1. CASE StopEnter(g)
    <3>1. /\ pc[g] = "idle" /\ (pc' = pc \/ pc' = [pc EXCEPT ![g] = "shutdown"])
          /\ UNCHANGED <<routes, mux, pending, crashed, passes, todo, queue>>
      BY <2>1 DEF StopEnter, Enter, Goto
    <3> QED BY <1>0, <3>1, PanicKeptIfUntouched
  <2>2. CASE UNCHANGED <<routes, mux, pending, crashed, passes, todo, queue, pc>>
    BY <2>2, PanicKeptIfUntouched
  <2> QED BY <1>1, <2>1, <2>2, HandleNoPanic, StartEnterNoPanic
          DEF Call, Configure, ErrChan, SetAddr, OnReady, locals
<1>2. ASSUME NEW g \in Goroutines, Step(g), ~crashed PROVE PanicInv'
  <2>1. CASE StartFails(g)
    <3>1. /\ pc' = [pc EXCEPT ![g] = "idle"] /\ queue' = [queue EXCEPT ![g] = <<>>]
          /\ todo' = [todo EXCEPT ![g] = {}] /\ pc[g] = "register"
          /\ UNCHANGED <<routes, mux, pending, crashed, passes>>
      BY <2>1 DEF StartFails, AtRegistrars, Goto, server, counts
    <3>2. \A h \in Goroutines : \/ pc'[h] = pc[h] /\ queue'[h] = queue[h] /\ todo'[h] = todo[h]
                                \/ pc'[h] # "register" /\ queue'[h] = <<>>
      BY <1>0, <3>1
    <3> QED BY <3>1, <3>2, PanicKeptIfUntouched
  <2>2. CASE StartRegistered(g)
    <3>1. /\ pc' = [pc EXCEPT ![g] = "bind"] /\ queue[g] = <<>>
          /\ UNCHANGED <<routes, mux, pending, crashed, passes, todo, queue>>
      BY <2>2 DEF StartRegistered, AtRegistrars, Goto, server, counts
    <3> QED BY <1>0, <3>1, PanicKeptIfUntouched
  <2>3. CASE StartBind(g) \/ StopShutdown(g)
    <3>1. /\ pc' = [pc EXCEPT ![g] = "idle"] /\ pc[g] # "register"
          /\ UNCHANGED <<routes, mux, pending, crashed, passes, todo, queue>>
      BY <2>3 DEF StartBind, StopShutdown, Goto, server, counts
    <3> QED BY <1>0, <3>1, PanicKeptIfUntouched
  <2> QED BY <1>2, <2>1, <2>2, <2>3, HandleMuxNoPanic, StartRouteNoPanic, StartResolveNoPanic DEF Step
<1>3. ASSUME NEW n \in DOMAIN servers, Serve(n) \/ ServeFails(n) PROVE PanicInv'
  <2>1. UNCHANGED <<routes, mux, pending, crashed, passes, todo, queue, pc>>
    BY <1>3 DEF Serve, ServeBegin, ServeReady, ServeFails, ServeReports, ServeEnds, server, locals, counts
  <2> QED BY <2>1, PanicKeptIfUntouched
<1>4. CASE Receive \/ UNCHANGED vars
  <2>1. UNCHANGED <<routes, mux, pending, crashed, passes, todo, queue, pc>>
    BY <1>4 DEF Receive, locals, vars, server, counts
  <2> QED BY <2>1, PanicKeptIfUntouched
<1> QED BY <1>1, <1>2, <1>3, <1>4 DEF Next

\* Declared routes bring the process down only if two Starts registered them.
THEOREM PanicsNeedTwoPasses == Spec => []PanicsNeedTwoStarts
<1>1. Init => PanicInv
  <2> SUFFICES ASSUME Init PROVE PanicInv
    OBVIOUS
  <2>1. /\ Entries(routes) = {} /\ Pending = {} /\ crashed = FALSE
        /\ \A g \in Goroutines : pc[g] = "idle" /\ queue[g] = <<>>
    BY DEF Init, Entries, Pending
  <2> QED BY <2>1 DEF PanicInv, PanicsNeedTwoStarts, FirstPass
<1>2. PanicInv => PanicsNeedTwoStarts
  BY DEF PanicInv
<1> QED BY <1>1, <1>2, NextKeepsPanicInv, RoutesInvHolds, TypeCorrect, PTL DEF Spec
=============================================================================
