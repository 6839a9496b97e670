----------------------------- MODULE Stack_proofs -----------------------------
(* Proofs about Stack: what becomes of the databases that are opened, what the *)
(* requests are told, the types and the pools' limits, what the configuration  *)
(* files say and how the sources are merged, and that a started application    *)
(* serves the database they promise.                                           *)
EXTENDS Stack, FiniteSetTheorems, SequenceTheorems, WellFoundedInduction, TLAPS

\* The handles that are open.
Alive == {h \in DOMAIN handle : handle[h].open}

\* Hook k closes handle h.
Closes(k, h) == k.of = "data" /\ k.db = h /\ k.created

HookEntry == [of : {"web", "user"}]
               \cup {k \in [of : {"data"}, db : Nat, created : BOOLEAN] : k.created => k.db # External}

Entries == hooks \in Seq(HookEntry) /\ running \in Seq(HookEntry) /\ pos \in Nat \ {0}

\* Handles are numbered in the order they were opened.
Numbered ==
  /\ \E n \in Nat : DOMAIN handle = 0..n
  /\ \A h \in DOMAIN handle :
       handle[h] = [dsn |-> handle[h].dsn, open |-> handle[h].open, limit |-> handle[h].limit]
  /\ module.db \in DOMAIN handle \cup {None}

\* The handle that was given is open, and the only other one that is open is the
\* module's, which a hook closes.
Kept ==
  /\ External \in Alive
  /\ \A h \in Alive \ {External} : h = module.db /\ \E i \in DOMAIN hooks : Closes(hooks[i], h)

\* Which hooks are running, as far as main has come.
Started ==
  /\ pc = "hooks" => \A i \in DOMAIN hooks : i < pos => \E j \in DOMAIN running : running[j] = hooks[i]
  /\ pc = "up" => \A i \in DOMAIN hooks : \E j \in DOMAIN running : running[j] = hooks[i]
  /\ pc = "stopping" => \A h \in Alive \ {External} : \E j \in DOMAIN running : Closes(running[j], h)
  /\ pc = "down" => Alive \subseteq {External}

IInv == Entries /\ Numbered /\ Kept /\ Started

\* What remains when the last hook is taken.
LEMMA RemoveLast ==
  ASSUME NEW S, NEW s \in Seq(S), s # <<>>
  PROVE  /\ RemoveAt(s, Len(s)) \in Seq(S)
         /\ DOMAIN RemoveAt(s, Len(s)) = 1..(Len(s) - 1)
         /\ \A i \in 1..(Len(s) - 1) : RemoveAt(s, Len(s))[i] = s[i]
<1> DEFINE front == SubSeq(s, 1, Len(s) - 1)
<1>1. SubSeq(s, Len(s) + 1, Len(s)) = <<>>
  <2>1. Len(s) \in Int /\ Len(s) + 1 \in Int /\ Len(s) < Len(s) + 1
    BY LenProperties
  <2> QED
    BY <2>1, SubSeqEmpty
<1>2. front \in Seq(S) /\ Len(front) = Len(s) - 1 /\ \A i \in 1..(Len(s) - 1) : front[i] = s[i]
  <2> DEFINE n == Len(s) - 1
  <2>1. n \in Nat /\ \A i \in 1..n : s[i] \in S
    BY EmptySeq, LenProperties
  <2> HIDE DEF n
  <2>2. /\ SubSeq(s, 1, n) \in Seq(S)
        /\ Len(SubSeq(s, 1, n)) = IF 1 <= n THEN n - 1 + 1 ELSE 0
        /\ \A i \in 1..(n - 1 + 1) : SubSeq(s, 1, n)[i] = s[1 + i - 1]
    BY <2>1, SubSeqProperties
  <2>3. /\ SubSeq(s, 1, n) \in Seq(S) /\ Len(SubSeq(s, 1, n)) = n
        /\ \A i \in 1..n : SubSeq(s, 1, n)[i] = s[i]
    BY <2>1, <2>2
  <2> QED
    BY <2>3 DEF n
<1>3. front \o <<>> = front
  BY <1>2
<1> QED
  BY <1>1, <1>2, <1>3 DEF RemoveAt

\* Records of handles under the two changes the code makes to one.
LEMMA Limited ==
  ASSUME NEW r, NEW x, r = [dsn |-> r.dsn, open |-> r.open, limit |-> r.limit]
  PROVE  [r EXCEPT !.limit = x] = [dsn |-> r.dsn, open |-> r.open, limit |-> x]
  OBVIOUS

\* A step that leaves handles and hooks as they are and goes to a place that asks
\* nothing of the hooks that run, or to the first hook.
LEMMA Move ==
  ASSUME IInv, UNCHANGED <<handle, hooks, running>>, module'.db = module.db, pos' \in Nat \ {0},
         \/ pc' \in {"load", "apply", "configure", "rollback", "failed"}
         \/ pc' = "hooks" /\ pos' = 1
  PROVE  IInv'
<1>1. Entries' /\ Numbered'
  BY DEF IInv, Entries, Numbered
<1>2. Kept'
  BY DEF IInv, Kept, Alive, Closes
<1>3. Started'
  <2>1. \A i \in DOMAIN hooks : ~(i < 1)
    BY DEF IInv, Entries
  <2> QED
    BY <2>1 DEF Started
<1> QED
  BY <1>1, <1>2, <1>3 DEF IInv

\* A step that leaves everything IInv is about.
LEMMA Stay ==
  ASSUME IInv, UNCHANGED <<handle, hooks, running, module, pc, pos>>
  PROVE  IInv'
BY DEF IInv, Entries, Numbered, Kept, Started, Alive, Closes

\* Only the given handle is there in the beginning.
LEMMA Initial == Init => IInv
<1> SUFFICES ASSUME Init PROVE IInv
  OBVIOUS
<1> DEFINE given == [dsn |-> "external", open |-> TRUE, limit |-> 0]
<1>1. handle = [h \in {External} |-> given] /\ hooks = <<>> /\ running = <<>> /\ pc = "load" /\ pos = 1
      /\ module.db \in {External, None}
  BY DEF Init
<1>2. given = [dsn |-> given.dsn, open |-> given.open, limit |-> given.limit] /\ given.open
  OBVIOUS
<1> HIDE DEF given
<1>3. DOMAIN handle = {External} /\ handle[External] = given
  BY <1>1
<1>4. Alive = {External}
  BY <1>2, <1>3 DEF Alive
<1>5. {External} = 0..0
  BY DEF External
<1>6. Numbered
  BY <1>1, <1>2, <1>3, <1>5 DEF Numbered
<1>7. Entries /\ Kept /\ Started
  BY <1>1, <1>4 DEF Entries, Kept, Started
<1> QED
  BY <1>6, <1>7 DEF IInv

\* A hook is registered that does not close a handle.
LEMMA Hooked ==
  ASSUME IInv, NEW k \in HookEntry, hooks' = Append(hooks, k), UNCHANGED <<handle, running>>,
         module'.db = module.db, pos' \in Nat \ {0}, pc' = "configure"
  PROVE  IInv'
<1>1. Entries' /\ Numbered' /\ Started'
  BY DEF IInv, Entries, Numbered, Started
<1>2. Kept'
  <2>1. \A i \in DOMAIN hooks : i \in DOMAIN hooks' /\ hooks'[i] = hooks[i]
    BY DEF IInv, Entries
  <2> QED
    BY <2>1 DEF IInv, Kept, Alive, Closes
<1> QED
  BY <1>1, <1>2 DEF IInv

\* What Configure does to the handles.
LEMMA NewHandle ==
  ASSUME IInv
  PROVE  /\ Created => Handle \notin DOMAIN handle /\ Handle \in Nat /\ Handle # External
         /\ ~Created => Handle = module.db /\ Handle \in DOMAIN handle
         /\ \E n \in Nat : DOMAIN handle \cup {Handle} = 0..n
<1> PICK n \in Nat : DOMAIN handle = 0..n
  BY DEF IInv, Numbered
<1>1. Cardinality(DOMAIN handle) = n + 1
  BY FS_Interval
<1>2. CASE Created
  <2>1. Handle = n + 1 /\ DOMAIN handle \cup {Handle} = 0..(n + 1)
    BY <1>1, <1>2 DEF Handle
  <2> QED
    BY <1>2, <2>1 DEF External
<1>3. CASE ~Created
  BY <1>3 DEF Handle, Created, IInv, Numbered
<1> QED
  BY <1>2, <1>3

\* A handle opened by Configure is new and open; a given one stays as it is.
LEMMA ConfiguredHandles ==
  ASSUME IInv, handle' = Holding(Opened)
  PROVE  /\ Alive' = IF Created THEN Alive \cup {Handle} ELSE Alive
         /\ DOMAIN handle' = DOMAIN handle \cup {Handle}
         /\ \A h \in DOMAIN handle' :
              handle'[h] = [dsn |-> handle'[h].dsn, open |-> handle'[h].open, limit |-> handle'[h].limit]
<1> DEFINE new == Opened
<1>1. DOMAIN handle' = DOMAIN handle \cup {Handle} /\ handle'[Handle] = new
      /\ \A h \in DOMAIN handle \ {Handle} : handle'[h] = handle[h]
  BY DEF Holding
<1>2. new = [dsn |-> new.dsn, open |-> new.open, limit |-> new.limit]
      /\ new.open = IF Created THEN TRUE ELSE handle[Handle].open
  <2>1. CASE Created
    BY <2>1 DEF Opened
  <2>2. CASE ~Created
    <3>1. new = [handle[Handle] EXCEPT !.limit = Pool(handle[Handle].limit)]
      BY <2>2 DEF Opened
    <3> QED
      BY <2>2, <3>1, NewHandle, Limited DEF IInv, Numbered
  <2> QED
    BY <2>1, <2>2
<1> HIDE DEF new
<1>3. \A h \in DOMAIN handle' :
        handle'[h] = [dsn |-> handle'[h].dsn, open |-> handle'[h].open, limit |-> handle'[h].limit]
  BY <1>1, <1>2 DEF IInv, Numbered
<1>4. Alive' = IF Created THEN Alive \cup {Handle} ELSE Alive
  BY <1>1, <1>2, NewHandle DEF Alive
<1> QED
  BY <1>1, <1>3, <1>4

\* The handle that is closed.
LEMMA Shut ==
  ASSUME NEW r, NEW q, q = [r EXCEPT !.open = FALSE],
         r = [dsn |-> r.dsn, open |-> r.open, limit |-> r.limit]
  PROVE  q = [dsn |-> q.dsn, open |-> q.open, limit |-> q.limit] /\ ~q.open
  OBVIOUS

\* A handle opened by a Configure that then fails is closed.
LEMMA ClashedHandles ==
  ASSUME IInv, handle' = Holding(IF Created THEN [Opened EXCEPT !.open = FALSE] ELSE Opened)
  PROVE  /\ Alive' = Alive
         /\ DOMAIN handle' = DOMAIN handle \cup {Handle}
         /\ \A h \in DOMAIN handle' :
              handle'[h] = [dsn |-> handle'[h].dsn, open |-> handle'[h].open, limit |-> handle'[h].limit]
<1>1. CASE ~Created
  <2>1. handle' = Holding(Opened)
    BY <1>1
  <2> QED
    BY <1>1, <2>1, ConfiguredHandles
<1>2. CASE Created
  <2> DEFINE new == [Opened EXCEPT !.open = FALSE]
  <2>1. handle' = Holding(new)
    BY <1>2
  <2>2. new = [dsn |-> new.dsn, open |-> new.open, limit |-> new.limit] /\ ~new.open
    <3>1. Opened = [dsn |-> Setting(Dsn), open |-> TRUE, limit |-> Pool(0)]
      BY <1>2 DEF Opened
    <3>2. Opened = [dsn |-> Opened.dsn, open |-> Opened.open, limit |-> Opened.limit]
      BY <3>1
    <3> QED
      BY <3>2, Shut
  <2> HIDE DEF new
  <2>3. DOMAIN handle' = DOMAIN handle \cup {Handle} /\ handle'[Handle] = new
        /\ \A h \in DOMAIN handle \ {Handle} : handle'[h] = handle[h]
    BY <2>1 DEF Holding
  <2>4. Handle \notin DOMAIN handle
    BY <1>2, NewHandle
  <2>5. \A h \in DOMAIN handle' :
          handle'[h] = [dsn |-> handle'[h].dsn, open |-> handle'[h].open, limit |-> handle'[h].limit]
    BY <2>2, <2>3 DEF IInv, Numbered
  <2>6. Alive' = Alive
    BY <2>2, <2>3, <2>4 DEF Alive
  <2> QED
    BY <2>3, <2>5, <2>6
<1> QED
  BY <1>1, <1>2

\* Configure finds a name taken.
LEMMA Clash == ASSUME IInv, DataClashes PROVE IInv'
<1>1. /\ handle' = Holding(IF Created THEN [Opened EXCEPT !.open = FALSE] ELSE Opened)
      /\ module'.db = module.db /\ UNCHANGED <<hooks, running>> /\ pc' = "failed" /\ pos' = 1
  BY DEF DataClashes, Remember, ModuleFails, GoTo
<1>2. Entries'
  BY <1>1 DEF IInv, Entries
<1>3. Numbered'
  BY <1>1, ClashedHandles, NewHandle DEF IInv, Numbered
<1>4. Kept' /\ Started'
  BY <1>1, ClashedHandles DEF IInv, Kept, Started, Closes
<1> QED
  BY <1>2, <1>3, <1>4 DEF IInv

\* Configure registers its handle, and the hook that closes it.
LEMMA Configured == ASSUME IInv, DataConfigured PROVE IInv'
<1> DEFINE k == [of |-> "data", db |-> Handle, created |-> Created]
<1>1. /\ handle' = Holding(Opened) /\ module'.db = Handle /\ hooks' = Append(hooks, k)
      /\ running' = running /\ pc' = "configure" /\ pos' = pos + 1
  BY DEF DataConfigured, Remember, ModuleReturns, At, OfMain
<1>2. k.of = "data" /\ k.db = Handle /\ k.created = Created /\ k \in HookEntry
  <2>1. Handle \in Nat /\ (Created => Handle # External)
    BY NewHandle DEF IInv, Numbered
  <2>2. Created \in BOOLEAN
    BY DEF Created
  <2> QED
    BY <2>1, <2>2 DEF HookEntry
<1> HIDE DEF k
<1>3. Entries'
  BY <1>1, <1>2 DEF IInv, Entries
<1>4. Numbered'
  BY <1>1, ConfiguredHandles, NewHandle DEF IInv, Numbered
<1>5. \A i \in DOMAIN hooks : i \in DOMAIN hooks' /\ hooks'[i] = hooks[i]
  BY <1>1 DEF IInv, Entries
<1>6. Len(hooks) + 1 \in DOMAIN hooks' /\ hooks'[Len(hooks) + 1] = k
  BY <1>1 DEF IInv, Entries
<1>7. Kept'
  <2>1. CASE Created
    <3>a. None \notin Nat
      BY StackAssumption DEF StackAssumption
    <3>1. Alive \ {External} = {}
      BY <2>1, <3>a DEF IInv, Kept, Created, Numbered, Alive
    <3>2. Alive' = Alive \cup {Handle} /\ module'.db = Handle
      BY <1>1, <2>1, ConfiguredHandles
    <3>3. External \in Alive' /\ \A h \in Alive' \ {External} : h = Handle
      BY <3>1, <3>2 DEF IInv, Kept
    <3>4. Closes(hooks'[Len(hooks) + 1], Handle)
      BY <1>2, <1>6, <2>1 DEF Closes
    <3> QED
      BY <1>6, <3>2, <3>3, <3>4 DEF Kept, Closes
  <2>2. CASE ~Created
    BY <1>1, <1>5, <2>2, NewHandle, ConfiguredHandles DEF IInv, Kept, Closes
  <2> QED
    BY <2>1, <2>2
<1>8. Started'
  BY <1>1 DEF Started
<1> QED
  BY <1>3, <1>4, <1>7, <1>8 DEF IInv

\* The last of the hooks that run is stopped; the steps of stopHooks.
LEMMA Stopped ==
  ASSUME IInv, Stopping, running # <<>>, HookStopped, UNCHANGED <<hooks, module, pc, pos>>,
         DOMAIN handle' = DOMAIN handle,
         \A h \in DOMAIN handle' :
           handle'[h] = [dsn |-> handle'[h].dsn, open |-> handle'[h].open, limit |-> handle'[h].limit],
         External \in Alive', Alive' \subseteq Alive,
         \A h \in Alive' : ~Closes(running[StopsNext], h)
  PROVE  IInv'
<1> DEFINE n == Len(running)
<1>1. /\ running' \in Seq(HookEntry) /\ DOMAIN running' = 1..(n - 1)
      /\ \A i \in 1..(n - 1) : running'[i] = running[i]
  BY RemoveLast DEF HookStopped, StopsNext, IInv, Entries
<1>2. Entries' /\ Numbered'
  BY <1>1 DEF IInv, Entries, Numbered
<1>3. Kept'
  BY DEF IInv, Kept, Closes
<1>4. Started'
  <2>1. ASSUME pc = "stopping", NEW h \in Alive' \ {External}
        PROVE  \E j \in DOMAIN running' : Closes(running'[j], h)
    <3>1. PICK j \in DOMAIN running : Closes(running[j], h)
      BY <2>1 DEF IInv, Started
    <3>2. j \in 1..(n - 1)
      BY <3>1, <2>1 DEF IInv, Entries, StopsNext
    <3> QED
      BY <1>1, <3>1, <3>2
  <2> QED
    BY <2>1 DEF Started, Stopping, Closes
<1> QED
  BY <1>2, <1>3, <1>4 DEF IInv

\* Stopping the data module's hook closes the handle it is about, if Configure
\* has opened it.
LEMMA DataStopped == ASSUME IInv, StopData PROVE IInv'
<1> DEFINE k == running[StopsNext]
<1>1. /\ Stopping /\ running # <<>> /\ HookStopped /\ UNCHANGED <<hooks, module, pc, pos>>
      /\ k.of = "data" /\ handle' = IF k.created THEN [handle EXCEPT ![k.db].open = FALSE] ELSE handle
  BY DEF StopData, Turn, OfStop, service
<1>2. k \in HookEntry
  BY <1>1 DEF IInv, Entries, StopsNext
<1>3. k.created => k.db # External
  BY <1>1, <1>2 DEF HookEntry
<1> HIDE DEF k
<1>4. CASE ~k.created
  <2>1. handle' = handle /\ Alive' = Alive
    BY <1>1, <1>4 DEF Alive
  <2>2. \A h \in Alive' : ~Closes(k, h)
    BY <1>4 DEF Closes
  <2> QED
    BY <1>1, <2>1, <2>2, Stopped DEF IInv, Numbered, Kept, k
<1>5. CASE k.created
  <2>1. DOMAIN handle' = DOMAIN handle /\ \A h \in DOMAIN handle :
          handle'[h] = IF h = k.db THEN [handle[h] EXCEPT !.open = FALSE] ELSE handle[h]
    BY <1>1, <1>5
  <2>2. \A h \in DOMAIN handle' :
          /\ handle'[h] = [dsn |-> handle'[h].dsn, open |-> handle'[h].open, limit |-> handle'[h].limit]
          /\ h = k.db => ~handle'[h].open
          /\ h # k.db => (handle'[h].open <=> handle[h].open)
    BY <2>1 DEF IInv, Numbered
  <2>3. Alive' = Alive \ {k.db}
    BY <2>1, <2>2 DEF Alive
  <2>4. External \in Alive' /\ Alive' \subseteq Alive /\ \A h \in Alive' : ~Closes(k, h)
    BY <1>3, <1>5, <2>3 DEF IInv, Kept, Closes
  <2> QED
    BY <1>1, <2>1, <2>2, <2>4, Stopped DEF k
<1> QED
  BY <1>4, <1>5

\* A hook of the web server or the application's own is stopped.
LEMMA OtherStopped ==
  ASSUME IInv, NEW of \in {"web", "user"}, Turn(of), HookStopped, UNCHANGED <<hooks, module, pc, pos, handle>>
  PROVE  IInv'
<1>1. running[StopsNext].of # "data" /\ Stopping /\ running # <<>>
  BY DEF Turn
<1>2. Alive' = Alive
  BY DEF Alive
<1> QED
  BY <1>1, <1>2, Stopped DEF IInv, Numbered, Kept, Closes

\* A hook has started.
LEMMA HookUp ==
  ASSUME IInv, pc = "hooks", pos <= Len(hooks), HookStarted, UNCHANGED <<hooks, module, handle>>
  PROVE  IInv'
<1>1. running' = Append(running, hooks[pos]) /\ pos' = pos + 1 /\ pc' = "hooks"
  BY DEF HookStarted
<1>2. hooks[pos] \in HookEntry
  BY DEF IInv, Entries
<1>3. Entries' /\ Numbered'
  BY <1>1, <1>2 DEF IInv, Entries, Numbered
<1>4. Kept'
  BY DEF IInv, Kept, Alive, Closes
<1>5. ASSUME NEW i \in DOMAIN hooks, i < pos + 1 PROVE \E j \in DOMAIN running' : running'[j] = hooks[i]
  <2>1. /\ \A j \in DOMAIN running : j \in DOMAIN running' /\ running'[j] = running[j]
        /\ Len(running) + 1 \in DOMAIN running' /\ running'[Len(running) + 1] = hooks[pos]
    BY <1>1, <1>2 DEF IInv, Entries
  <2>2. CASE i = pos
    BY <2>1, <2>2
  <2>3. CASE i < pos
    BY <2>1, <2>3 DEF IInv, Started
  <2> QED
    BY <1>5, <2>2, <2>3 DEF IInv, Entries
<1>6. Started'
  BY <1>1, <1>5 DEF Started
<1> QED
  BY <1>3, <1>4, <1>6 DEF IInv

\* main goes on without touching handles and hooks.
LEMMA MainMoves ==
  ASSUME IInv,
         \/ LoadConfig \/ Apply \/ Retry \/ ConfigureDone \/ DataRefuses
         \/ ConfigureActuator("health", "actuator.health") \/ ConfigureActuator("info", "actuator.info")
  PROVE  IInv'
<1>1. CASE LoadConfig
  BY <1>1, Move DEF LoadConfig, GoTo, service, world, IInv, Entries
<1>2. CASE Apply
  BY <1>2, Move DEF Apply, GoTo, world, IInv, Entries
<1>3. CASE Retry
  BY <1>3, Move DEF Retry, GoTo, service, world
<1>4. CASE ConfigureDone
  BY <1>4, Move DEF ConfigureDone, GoTo, service, world
<1>5. CASE DataRefuses
  BY <1>5, Move DEF DataRefuses, Remember, ModuleFails, GoTo, world
<1>6. ASSUME NEW m, NEW name, ConfigureActuator(m, name) PROVE IInv'
  BY <1>6, Move DEF ConfigureActuator, At, ModuleReturns, ModuleFails, GoTo, world, IInv, Entries
<1> QED
  BY <1>1, <1>2, <1>3, <1>4, <1>5, <1>6

\* A hook without a handle is registered.
LEMMA OtherConfigured == ASSUME IInv, ConfigureWeb \/ ConfigureUser PROVE IInv'
<1>1. CASE ConfigureUser
  <2>1. [of |-> "user"] \in HookEntry
    BY DEF HookEntry
  <2> QED
    BY <1>1, <2>1, Hooked DEF ConfigureUser, At, ModuleReturns, world, IInv, Entries
<1>2. CASE ConfigureWeb
  <2>1. [of |-> "web"] \in HookEntry
    BY DEF HookEntry
  <2>2. CASE "web.server" \notin names
    BY <1>2, <2>1, <2>2, Hooked DEF ConfigureWeb, At, ModuleReturns, world, IInv, Entries
  <2>3. CASE "web.server" \in names
    BY <1>2, <2>3, Move DEF ConfigureWeb, ModuleFails, GoTo, world
  <2> QED
    BY <2>2, <2>3
<1> QED
  BY <1>1, <1>2

\* A hook starts, or fails and Start rolls back.
LEMMA HookSteps == ASSUME IInv, StartData \/ StartWeb \/ StartUser PROVE IInv'
<1>1. UNCHANGED <<hooks, module, handle>> /\ pc = "hooks" /\ pos <= Len(hooks)
      /\ (HookStarted \/ HookFails)
  BY DEF StartData, StartWeb, StartUser, Hook, service, world
<1>2. CASE HookStarted
  BY <1>1, <1>2, HookUp
<1>3. CASE HookFails
  BY <1>1, <1>3, Move DEF HookFails, GoTo
<1> QED
  BY <1>1, <1>2, <1>3

\* Start and Stop change from one part of main to the next.
LEMMA Turns == ASSUME IInv, StartDone \/ StopEnter \/ StopDone PROVE IInv'
<1>1. UNCHANGED <<hooks, running, module, handle>> /\ pos' = 1
  BY DEF StartDone, StopEnter, StopDone, GoTo, service, world
<1>2. Entries' /\ Numbered'
  BY <1>1 DEF IInv, Entries, Numbered
<1>3. Kept'
  BY <1>1 DEF IInv, Kept, Alive, Closes
<1>4. CASE StartDone
  <2>1. pc = "hooks" /\ pos > Len(hooks) /\ pc' = "up"
    BY <1>4 DEF StartDone, GoTo
  <2>2. \A i \in DOMAIN hooks : i < pos
    BY <2>1 DEF IInv, Entries
  <2> QED
    BY <1>1, <1>2, <1>3, <2>1, <2>2 DEF IInv, Started
<1>5. CASE StopEnter
  <2>1. pc = "up" /\ pc' = "stopping"
    BY <1>5 DEF StopEnter, GoTo
  <2>2. \A h \in Alive \ {External} : \E j \in DOMAIN running : Closes(running[j], h)
    BY <2>1 DEF IInv, Kept, Started
  <2> QED
    BY <1>1, <1>2, <1>3, <2>1, <2>2 DEF IInv, Started, Alive, Closes
<1>6. CASE StopDone
  <2>1. running = <<>> /\ ((pc = "stopping" /\ pc' = "down") \/ pc' = "failed")
    BY <1>6 DEF StopDone, Stopping, GoTo
  <2>2. pc = "stopping" => Alive \subseteq {External}
    BY <2>1 DEF IInv, Started
  <2> QED
    BY <1>1, <1>2, <1>3, <2>1, <2>2 DEF IInv, Started, Alive
<1> QED
  BY <1>4, <1>5, <1>6

\* Every step keeps the invariant.
LEMMA Step == IInv /\ [Next]_vars => IInv'
<1> SUFFICES ASSUME IInv, [Next]_vars PROVE IInv'
  OBVIOUS
<1>1. CASE Main
  <2>1. CASE StopWeb
    BY <2>1, OtherStopped DEF StopWeb, OfStop, service
  <2>2. CASE StopUser
    BY <2>2, OtherStopped DEF StopUser, OfStop, service
  <2>3. CASE StopListening
    BY <2>3, Stay DEF StopListening, OfStop, service
  <2> QED
    BY <1>1, <2>1, <2>2, <2>3, MainMoves, OtherConfigured, Clash, Configured, HookSteps, Turns, DataStopped DEF Main
<1>2. ASSUME NEW w \in Workers, Serve(w) PROVE IInv'
  BY <1>2, Stay DEF Serve, Arrive, GetDB, Begin, RunFn, Rollback, Commit, Ask, Answer, Cancel,
                   OfRequest, main, service, world
<1>3. CASE LoseServer \/ ServerReturns
  BY <1>3, Stay DEF LoseServer, ServerReturns, main, service
<1>4. CASE UNCHANGED vars
  BY <1>4, Stay DEF vars, main, service, world
<1> QED
  BY <1>1, <1>2, <1>3, <1>4 DEF Next

\* Whatever was retried, the database that was given is never closed, and the only
\* other one that can be open is the module's, with a closing hook registered:
\* one that has started while the application is up, and that has run once it is
\* stopped.  For every order of modules, all settings, any number of attempts and
\* requests.
THEOREM HandlesAreAccounted == Spec => []HandlesAccounted
<1>1. IInv => HandlesAccounted
  <2>1. ASSUME IInv PROVE handle[External].open
    BY <2>1 DEF IInv, Kept, Alive
  <2>2. ASSUME IInv, NEW h \in DOMAIN handle \ {External}, handle[h].open
        PROVE  /\ h = module.db /\ ClosedBy(h, hooks)
               /\ pc \in {"up", "stopping"} => ClosedBy(h, running)
               /\ pc # "down"
    <3>1. h \in Alive \ {External}
      BY <2>2 DEF Alive
    <3>2. h = module.db /\ \E i \in DOMAIN hooks : Closes(hooks[i], h)
      BY <2>2, <3>1 DEF IInv, Kept
    <3>3. pc \in {"up", "stopping"} => \E j \in DOMAIN running : Closes(running[j], h)
      BY <2>2, <3>1, <3>2 DEF IInv, Started
    <3>4. pc # "down"
      BY <2>2, <3>1 DEF IInv, Started
    <3> QED BY <3>2, <3>3, <3>4 DEF ClosedBy, Closes
  <2> QED
    BY <2>1, <2>2 DEF HandlesAccounted
<1> QED
  BY <1>1, Initial, Step, PTL DEF Spec
-----------------------------------------------------------------------------
(* The requests: what WithTx and the probes tell.                             *)

\* What a request is made of.
Parts == {"at", "db", "depth", "tx", "fn", "todo", "overall", "seen", "gone", "told"}

\* What WithTx returned is what happened to the transaction.
TxHonest(t) ==
  t # None /\ t.of = "tx" =>
    /\ t.result = "nil" => t.durable
    /\ t.fn \in {"error", "panic"} => ~t.durable /\ t.result = t.fn

\* A probe has not answered before it asked everybody, and its status is the
\* worst it was told.
ProbeHonest(r) ==
  /\ r.at = "probe" => r.told = None
  /\ (r.overall = "DOWN") <=> ("DOWN" \in r.seen)
  /\ r.told # None /\ r.told.of = "probe" =>
       r.at = "idle" /\ ((r.told.code = 503) <=> ("DOWN" \in r.seen))

\* A WithTx is under way.
Going(r) == r.at \in {"begin", "fn", "end"}

\* Every transaction that is open belongs to a WithTx that is under way: the calls
\* are nested, and the innermost one has none before BeginTx returned.
Nested(r) ==
  /\ r.at \in {"idle", "get", "begin", "fn", "end", "probe"} /\ r.depth \in 0..MaxDepth
  /\ Going(r) => r.depth >= 1
  /\ r.at = "end" => r.fn \in {"ok", "error", "panic"}
  /\ \A d \in 1..MaxDepth : r.tx[d] = "open" => Going(r) /\ d <= r.depth /\ (r.at = "begin" => d < r.depth)

\* What a WithTx tells when it tells the truth.
LEMMA Told ==
  ASSUME NEW f, NEW x, NEW b \in BOOLEAN, x = "nil" => b, f \in {"error", "panic"} => ~b /\ x = f
  PROVE  TxHonest([of |-> "tx", fn |-> f, result |-> x, durable |-> b])
  BY DEF TxHonest

\* A request when it arrives.
LEMMA New ==
  /\ DOMAIN NewRequest = Parts /\ NewRequest.at = "idle" /\ NewRequest.depth = 0
  /\ NewRequest.told = None /\ NewRequest.seen = {} /\ NewRequest.overall = "UP"
  /\ NewRequest.tx = [d \in 1..MaxDepth |-> "none"]
  BY DEF NewRequest, Parts

\* Ending a transaction changes nothing but that transaction.
LEMMA EndedParts ==
  ASSUME NEW r, DOMAIN r = Parts
  PROVE  LET q == Ended(r) IN
           /\ DOMAIN q = Parts /\ q.tx = [r.tx EXCEPT ![r.depth] = "none"] 
           /\ \A p \in Parts \ {"tx"} : q[p] = r[p]
  BY DEF Ended, Parts

\* What is true of every request at every step.
Answered(r) ==
  /\ DOMAIN r = Parts /\ DOMAIN r.tx = 1..MaxDepth
  /\ Nested(r) /\ TxHonest(r.told) /\ ProbeHonest(r)

\* It is true of all of them.
RInv == req = [w \in Workers |-> req[w]] /\ \A w \in Workers : Answered(req[w])

\* A WithTx that returns hands its outcome to the one around it, or to the request.
LEMMA ReturnedAnswered ==
  ASSUME NEW r, DOMAIN r = Parts, DOMAIN r.tx = 1..MaxDepth, r.depth \in 1..MaxDepth,
         \A d \in 1..MaxDepth : r.tx[d] = "open" => d < r.depth,
         (r.overall = "DOWN") <=> ("DOWN" \in r.seen),
         NEW f, NEW x, NEW b \in BOOLEAN, x = "nil" => b, f \in {"error", "panic"} => ~b /\ x = f
  PROVE  Answered(Returned(r, f, x, b))
<1> DEFINE q == Returned(r, f, x, b)
<1>1. /\ DOMAIN q = Parts /\ q.tx = r.tx /\ q.overall = r.overall /\ q.seen = r.seen /\ q.depth = r.depth - 1
      /\ r.depth = 1 => q.at = "idle"
      /\ r.depth > 1 => q.at = IF x = "panic" THEN "end" ELSE "fn"
      /\ q.fn = IF r.depth > 1 /\ x = "panic" THEN "panic" ELSE "none"
  BY DEF Returned, Parts
<1>2. q.told = [of |-> "tx", fn |-> f, result |-> x, durable |-> b]
  BY DEF Returned, Parts
<1>3. TxHonest(q.told) /\ q.told.of = "tx"
  BY <1>2, Told
<1> HIDE DEF q
<1>4. Nested(q)
  BY <1>1, StackAssumption DEF Nested, Going, StackAssumption
<1>5. ProbeHonest(q)
  BY <1>1, <1>3 DEF ProbeHonest
<1> QED
  BY <1>1, <1>3, <1>4, <1>5 DEF Answered, q

\* A step of one request leaves the others as they were.
LEMMA SetReq ==
  ASSUME RInv, NEW w \in Workers, NEW q, Answered(q), req' = [req EXCEPT ![w] = q]
  PROVE  RInv'
BY DEF RInv, Answered, Nested, Going, TxHonest, ProbeHonest

\* The transaction that was committed or rolled back was the innermost one.
LEMMA EndedAnswered ==
  ASSUME NEW r, Answered(r), r.at = "end"
  PROVE  /\ DOMAIN Ended(r) = Parts /\ DOMAIN Ended(r).tx = 1..MaxDepth /\ Ended(r).depth \in 1..MaxDepth
         /\ \A d \in 1..MaxDepth : Ended(r).tx[d] = "open" => d < Ended(r).depth
         /\ (Ended(r).overall = "DOWN") <=> ("DOWN" \in Ended(r).seen)
<1> DEFINE q == Ended(r)
<1>1. /\ DOMAIN q = Parts /\ q.tx = [r.tx EXCEPT ![r.depth] = "none"] /\ q.depth = r.depth
      /\ q.overall = r.overall /\ q.seen = r.seen
  BY EndedParts DEF Answered, Parts
<1> HIDE DEF q
<1>2. \A d \in 1..MaxDepth : q.tx[d] = "open" => d < q.depth
  BY <1>1, StackAssumption DEF StackAssumption, Answered, Nested, Going
<1> QED
  BY <1>1, <1>2, StackAssumption DEF StackAssumption, Answered, Nested, Going, ProbeHonest, q

\* The steps of WithTx keep it.
LEMMA ServeTx ==
  ASSUME RInv, NEW w \in Workers, Begin(w) \/ Rollback(w) \/ Commit(w) \/ RunFn(w) \/ GetDB(w)
  PROVE  RInv'
<1> DEFINE r == req[w]
<1>1. Answered(r)
  BY DEF RInv
<1>2. SUFFICES \E q : Answered(q) /\ req' = [req EXCEPT ![w] = q]
  BY SetReq
<1> HIDE DEF r
<1>a. MaxDepth \in Nat \ {0}
  BY StackAssumption DEF StackAssumption
<1> USE <1>a
<1>3. CASE Begin(w)
  <2>1. r.at = "begin"
    BY <1>3 DEF Begin, r
  <2>2. CASE req' = [req EXCEPT ![w] = [r EXCEPT !.at = "fn", !.tx[r.depth] = "open"]]
    <3> DEFINE q == [r EXCEPT !.at = "fn", !.tx[r.depth] = "open"]
    <3>1. /\ DOMAIN q = Parts /\ q.at = "fn" /\ q.tx = [r.tx EXCEPT ![r.depth] = "open"] /\ q.depth = r.depth
          /\ q.overall = r.overall /\ q.seen = r.seen /\ q.told = r.told
      BY <1>1 DEF Answered, Parts
    <3> HIDE DEF q
    <3>2. Answered(q)
      BY <1>1, <2>1, <3>1 DEF Answered, Nested, Going, ProbeHonest
    <3> QED
      BY <2>2, <3>2 DEF q
  <2>3. CASE req' = [req EXCEPT ![w] = Returned(r, "none", "error", FALSE)]
    <3>1. /\ DOMAIN r = Parts /\ DOMAIN r.tx = 1..MaxDepth /\ r.depth \in 1..MaxDepth
          /\ \A d \in 1..MaxDepth : r.tx[d] = "open" => d < r.depth
          /\ (r.overall = "DOWN") <=> ("DOWN" \in r.seen)
      BY <1>1, <2>1 DEF Answered, Nested, Going, ProbeHonest
    <3>2. Answered(Returned(r, "none", "error", FALSE))
      BY <3>1, ReturnedAnswered
    <3> QED
      BY <2>3, <3>2
  <2> QED
    BY <1>3, <2>2, <2>3 DEF Begin, Set, r
<1>4. CASE Rollback(w)
  <2>1. r.at = "end" /\ r.fn \in {"error", "panic"}
        /\ req' = [req EXCEPT ![w] = Returned(Ended(r), r.fn, r.fn, FALSE)]
    BY <1>4 DEF Rollback, Set, r
  <2>2. Answered(Returned(Ended(r), r.fn, r.fn, FALSE))
    BY <1>1, <2>1, EndedAnswered, ReturnedAnswered
  <2> QED
    BY <2>1, <2>2
<1>5. CASE Commit(w)
  <2>1. r.at = "end"
    BY <1>5 DEF Commit, r
  <2>2. PICK x \in {"nil", "error"}, b \in BOOLEAN :
          (x = "nil" => b) /\ req' = [req EXCEPT ![w] = Returned(Ended(r), "ok", x, b)]
    BY <1>5 DEF Commit, Set, r
  <2>3. Answered(Returned(Ended(r), "ok", x, b))
    BY <1>1, <2>1, <2>2, EndedAnswered, ReturnedAnswered
  <2> QED
    BY <2>2, <2>3
<1>6. CASE RunFn(w)
  <2>1. r.at = "fn"
    BY <1>6 DEF RunFn, r
  <2>2. ASSUME NEW fn \in {"ok", "error", "panic"}, req' = [req EXCEPT ![w] = [r EXCEPT !.at = "end", !.fn = fn]]
        PROVE  \E q : Answered(q) /\ req' = [req EXCEPT ![w] = q]
    <3> DEFINE q == [r EXCEPT !.at = "end", !.fn = fn]
    <3>1. /\ DOMAIN q = Parts /\ q.at = "end" /\ q.fn = fn /\ q.tx = r.tx /\ q.depth = r.depth
          /\ q.overall = r.overall /\ q.seen = r.seen /\ q.told = r.told
      BY <1>1 DEF Answered, Parts
    <3> HIDE DEF q
    <3>2. Answered(q)
      BY <1>1, <2>1, <3>1 DEF Answered, Nested, Going, ProbeHonest
    <3> QED
      BY <2>2, <3>2 DEF q
  <2>3. CASE r.depth < MaxDepth /\ req' = [req EXCEPT ![w] = [r EXCEPT !.at = "begin", !.depth = @ + 1]]
    <3> DEFINE q == [r EXCEPT !.at = "begin", !.depth = @ + 1]
    <3>1. /\ DOMAIN q = Parts /\ q.at = "begin" /\ q.tx = r.tx /\ q.depth = r.depth + 1
          /\ q.overall = r.overall /\ q.seen = r.seen /\ q.told = r.told
      BY <1>1 DEF Answered, Parts
    <3> HIDE DEF q
    <3>2. Answered(q)
      BY <1>1, <2>1, <2>3, <3>1 DEF Answered, Nested, Going, ProbeHonest
    <3> QED
      BY <2>3, <3>2 DEF q
  <2> QED
    BY <1>6, <2>2, <2>3 DEF RunFn, Set, r
<1>7. CASE GetDB(w)
  <2>1. r.at = "get"
    BY <1>7 DEF GetDB, r
  <2>2. CASE req' = [req EXCEPT ![w] = [r EXCEPT !.at = "idle"]]
    <3> DEFINE q == [r EXCEPT !.at = "idle"]
    <3>1. /\ DOMAIN q = Parts /\ q.at = "idle" /\ q.tx = r.tx /\ q.depth = r.depth
          /\ q.overall = r.overall /\ q.seen = r.seen /\ q.told = r.told
      BY <1>1 DEF Answered, Parts
    <3> HIDE DEF q
    <3>2. Answered(q)
      BY <1>1, <2>1, <3>1 DEF Answered, Nested, Going, ProbeHonest
    <3> QED
      BY <2>2, <3>2 DEF q
  <2>3. CASE req' = [req EXCEPT ![w] = [r EXCEPT !.at = "begin", !.db = dbService, !.depth = 1]]
    <3> DEFINE q == [r EXCEPT !.at = "begin", !.db = dbService, !.depth = 1]
    <3>1. /\ DOMAIN q = Parts /\ q.at = "begin" /\ q.tx = r.tx /\ q.depth = 1
          /\ q.overall = r.overall /\ q.seen = r.seen /\ q.told = r.told
      BY <1>1 DEF Answered, Parts
    <3> HIDE DEF q
    <3>2. Nested(q)
      BY <1>1, <2>1, <3>1 DEF Answered, Nested, Going
    <3>3. ProbeHonest(q)
      BY <1>1, <2>1, <3>1 DEF Answered, ProbeHonest
    <3> QED
      BY <1>1, <2>3, <3>1, <3>2, <3>3 DEF q, Answered
  <2> QED
    BY <1>7, <2>2, <2>3 DEF GetDB, Set, r
<1> QED
  BY <1>3, <1>4, <1>5, <1>6, <1>7

\* The steps of a probe keep it.
LEMMA ServeProbe ==
  ASSUME RInv, NEW w \in Workers, Arrive(w) \/ Ask(w) \/ Answer(w)
  PROVE  RInv'
<1> DEFINE r == req[w]
<1>1. Answered(r)
  BY DEF RInv
<1>2. SUFFICES \E q : Answered(q) /\ req' = [req EXCEPT ![w] = q]
  BY SetReq
<1> HIDE DEF r
<1>3. CASE Arrive(w)
  <2>1. ASSUME NEW at \in {"get", "probe"}, NEW todo, NEW q,
               q = [NewRequest EXCEPT !.at = at] \/ q = [NewRequest EXCEPT !.at = at, !.todo = todo]
        PROVE  Answered(q)
    <3>1. /\ DOMAIN q = Parts /\ q.at = at /\ q.tx = NewRequest.tx /\ q.depth = 0
          /\ q.overall = "UP" /\ q.seen = {} /\ q.told = None
      BY <2>1, New DEF Parts
    <3> QED
      BY <3>1, New, StackAssumption DEF StackAssumption, Answered, Nested, Going, TxHonest, ProbeHonest
  <2>2. CASE req' = [req EXCEPT ![w] = [NewRequest EXCEPT !.at = "get"]]
    BY <2>1, <2>2
  <2>3. ASSUME NEW probe, req' = [req EXCEPT ![w] = [NewRequest EXCEPT !.at = "probe", !.todo = Asked(probe)]]
        PROVE  \E q : Answered(q) /\ req' = [req EXCEPT ![w] = q]
    BY <2>1, <2>3
  <2> QED
    BY <1>3, <2>2, <2>3 DEF Arrive, Set
<1>4. CASE Ask(w)
  <2>1. PICK status \in {"UP", "DOWN", "UNKNOWN"} :
          req' = [req EXCEPT ![w] = [r EXCEPT !.todo = Tail(@), !.seen = @ \cup {status}, !.overall = Worse(@, status)]]
    BY <1>4 DEF Ask, Set, r
  <2> DEFINE q == [r EXCEPT !.todo = Tail(@), !.seen = @ \cup {status}, !.overall = Worse(@, status)]
  <2>2. /\ DOMAIN q = Parts /\ q.at = r.at /\ q.tx = r.tx /\ q.depth = r.depth /\ q.fn = r.fn /\ q.told = r.told
        /\ q.seen = r.seen \cup {status} /\ q.overall = Worse(r.overall, status)
    BY <1>1 DEF Answered, Parts
  <2>3. r.at = "probe"
    BY <1>4 DEF Ask, r
  <2> HIDE DEF q
  <2>4. (q.overall = "DOWN") <=> ("DOWN" \in q.seen)
    BY <1>1, <2>2 DEF Answered, ProbeHonest, Worse
  <2>5. ProbeHonest(q)
    BY <1>1, <2>2, <2>3, <2>4 DEF Answered, ProbeHonest
  <2>6. Nested(q)
    BY <1>1, <2>2 DEF Answered, Nested, Going
  <2> QED
    BY <1>1, <2>1, <2>2, <2>5, <2>6 DEF Answered, q
<1>5. CASE Answer(w)
  <2> DEFINE told == [of |-> "probe", code |-> IF r.overall = "DOWN" THEN 503 ELSE 200]
             q == [r EXCEPT !.at = "idle", !.told = told]
  <2>1. r.at = "probe" /\ req' = [req EXCEPT ![w] = q]
    BY <1>5 DEF Answer, Set, r
  <2>2. /\ DOMAIN q = Parts /\ q.at = "idle" /\ q.tx = r.tx /\ q.depth = r.depth /\ q.fn = r.fn /\ q.told = told
        /\ q.seen = r.seen /\ q.overall = r.overall
    BY <1>1 DEF Answered, Parts
  <2>3. told.of = "probe" /\ ((told.code = 503) <=> (r.overall = "DOWN"))
    OBVIOUS
  <2> HIDE DEF q, told
  <2>4. ProbeHonest(q) /\ TxHonest(q.told)
    BY <1>1, <2>2, <2>3 DEF Answered, ProbeHonest, TxHonest
  <2>5. Nested(q)
    BY <1>1, <2>1, <2>2 DEF Answered, Nested, Going
  <2> QED
    BY <1>1, <2>1, <2>2, <2>4, <2>5 DEF Answered
<1> QED
  BY <1>3, <1>4, <1>5

\* A transaction that is over for the server is open for nobody.
LEMMA OverAnswered ==
  ASSUME NEW r, Answered(r), NEW q, NEW tx,
         DOMAIN tx = 1..MaxDepth, \A d \in 1..MaxDepth : tx[d] # "open",
         q = [r EXCEPT !.tx = tx] \/ q = [r EXCEPT !.gone = TRUE, !.tx = tx]
  PROVE  Answered(q)
<1>1. /\ DOMAIN q = Parts /\ q.at = r.at /\ q.tx = tx /\ q.depth = r.depth /\ q.fn = r.fn /\ q.told = r.told
      /\ q.seen = r.seen /\ q.overall = r.overall
  BY DEF Answered, Parts
<1>2. Nested(q) /\ ProbeHonest(q)
  BY <1>1 DEF Answered, Nested, Going, ProbeHonest
<1> QED
  BY <1>1, <1>2 DEF Answered

\* What cancels a request, or takes the server away, keeps it.
LEMMA Outside == ASSUME RInv, LoseServer \/ \E w \in Workers : Cancel(w) PROVE RInv'
<1> DEFINE tx(w) == [d \in 1..MaxDepth |-> IF d \in Open(w) THEN "over" ELSE req[w].tx[d]]
<1>1. \A w \in Workers : DOMAIN tx(w) = 1..MaxDepth /\ \A d \in 1..MaxDepth : tx(w)[d] # "open"
  BY DEF Open
<1>2. CASE LoseServer
  <2>1. req' = [w \in Workers |-> [req[w] EXCEPT !.tx = tx(w)]]
    BY <1>2 DEF LoseServer
  <2> HIDE DEF tx
  <2>2. \A w \in Workers : Answered(req'[w])
    BY <1>1, <2>1, OverAnswered DEF RInv
  <2> QED
    BY <2>1, <2>2 DEF RInv
<1>3. ASSUME NEW w \in Workers, Cancel(w) PROVE RInv'
  <2>1. req' = [req EXCEPT ![w] = [req[w] EXCEPT !.gone = TRUE, !.tx = tx(w)]]
    BY <1>3 DEF Cancel, Set
  <2> HIDE DEF tx
  <2>2. Answered([req[w] EXCEPT !.gone = TRUE, !.tx = tx(w)])
    BY <1>1, OverAnswered DEF RInv
  <2> QED
    BY <2>1, <2>2, SetReq
<1> QED
  BY <1>2, <1>3

\* Every step keeps it.
LEMMA RequestStep == RInv /\ [Next]_vars => RInv'
<1> SUFFICES ASSUME RInv, [Next]_vars PROVE RInv'
  OBVIOUS
<1>1. CASE req' = req
  BY <1>1 DEF RInv, Answered, Nested, Going, TxHonest, ProbeHonest
<1>2. CASE Main
  <2>1. req' = req
    BY <1>2 DEF Main, LoadConfig, Apply, Retry, ConfigureWeb, ConfigureActuator, ConfigureUser, DataRefuses,
                DataClashes, DataConfigured, ConfigureDone, StartData, StartWeb, StartUser, StartDone, StopEnter,
                StopData, StopListening, StopWeb, StopUser, StopDone, OfStop, request
  <2> QED
    BY <1>1, <2>1
<1>3. ASSUME NEW w \in Workers, Serve(w) PROVE RInv'
  BY <1>3, ServeTx, ServeProbe, Outside DEF Serve
<1>4. CASE LoseServer
  BY <1>4, Outside
<1>5. CASE ServerReturns \/ UNCHANGED vars
  BY <1>1, <1>5 DEF ServerReturns, vars, request
<1> QED
  BY <1>2, <1>3, <1>4, <1>5 DEF Next

\* It is true of those that have not arrived.
LEMMA RequestsInitial == Init => RInv
<1>1. Answered(NewRequest)
  BY New, StackAssumption DEF StackAssumption, Answered, Nested, Going, TxHonest, ProbeHonest
<1> QED
  BY <1>1 DEF Init, RInv

\* WithTx returns nil only for what is durable, its function's error or panic only
\* after a roll-back, no transaction outlives its WithTx, and a probe says 503
\* exactly when a check said DOWN (tx.go, health.go).
THEOREM AnswersAreHonest == Spec => []AnswersHonest
<1>1. RInv => AnswersHonest
  BY DEF RInv, Answered, Nested, Going, TxHonest, ProbeHonest, AnswersHonest, Open
<1> QED
  BY <1>1, RequestsInitial, RequestStep, PTL DEF Spec

-----------------------------------------------------------------------------
(* What the files say.  Every set of naturals has a least element, which does *)
(* for the inductions along the sources.                                      *)

\* The least element, by the well-foundedness of < on the naturals.
LEMMA Least ==
  ASSUME NEW S \in SUBSET Nat, S # {}
  PROVE  \E m \in S : \A n \in S : m <= n
<1> DEFINE R == OpToRel(<, Nat)
<1>1. IsWellFoundedOn(R, Nat)
  BY NatLessThanWellFounded
<1>2. \A x, y \in Nat : x < y => <<x, y>> \in R
  BY DEF OpToRel
<1> HIDE DEF R
<1>3. PICK m \in S : \A n \in S : ~ (<<n, m>> \in R)
  BY <1>1, WFMin
<1>4. \A n \in S : n \in Nat /\ m \in Nat /\ ~(n < m)
  BY <1>2, <1>3
<1>5. \A n \in S : m <= n
  BY <1>4
<1> QED
  BY <1>5

\* A property of 0 that passes from a number to the next one holds up to n.
LEMMA UpTo ==
  ASSUME NEW n \in Nat, NEW S, 0 \in S, \A i \in 0..(n - 1) : i \in S => i + 1 \in S
  PROVE  n \in S
<1> SUFFICES ASSUME n \notin S PROVE FALSE
  OBVIOUS
<1> DEFINE T == {i \in 0..n : i \notin S}
<1>1. T \in SUBSET Nat /\ T # {}
  OBVIOUS
<1>2. PICK m \in T : \A i \in T : m <= i
  BY <1>1, Least
<1>3. m \in 0..n /\ m \notin S /\ m # 0
  BY <1>2
<1>4. m - 1 \in 0..(n - 1) /\ (m - 1) + 1 = m /\ m - 1 \in 0..n
  BY <1>3
<1>5. m - 1 \notin T
  BY <1>2, <1>3
<1> QED
  BY <1>3, <1>4, <1>5

\* Max of numbers up to n is one of them, and no other is greater.
LEMMA Greatest ==
  ASSUME NEW n \in Nat, NEW S \in SUBSET (1..n), S # {}
  PROVE  Max(S) \in S /\ \A i \in S : i <= Max(S)
<1> DEFINE T == {n - i : i \in S}
<1>1. T \in SUBSET Nat /\ T # {}
  <2>1. \A i \in 1..n : n - i \in Nat
    OBVIOUS
  <2> QED
    BY <2>1
<1>2. PICK m \in T : \A i \in T : m <= i
  BY <1>1, Least
<1>3. PICK x \in S : m = n - x
  BY <1>2
<1>4. ASSUME NEW i \in S PROVE x >= i
  <2>1. m <= n - i /\ i \in Nat /\ x \in Nat
    BY <1>2
  <2> QED
    BY <1>3, <2>1
<1>5. Max(S) \in S /\ \A y \in S : Max(S) >= y
  BY <1>4 DEF Max
<1> QED
  BY <1>5

\* Merging the sources in order gives each key the value of the last source that has it.
LastOf(s, j, r) ==
  /\ DOMAIN r = UNION {DOMAIN s[i] : i \in 1..j}
  /\ \A k \in DOMAIN r : \E i \in 1..j : /\ k \in DOMAIN s[i] /\ r[k] = s[i][k]
                                         /\ \A l \in (i + 1)..j : k \notin DOMAIN s[l]

\* FoldLeft(Overridden) does this: the fold unrolled source by source.
LEMMA MergeLast ==
  ASSUME NEW n \in Nat, NEW s, DOMAIN s = 1..n
  PROVE  LastOf(s, n, FoldLeft(Overridden, <<>>, s))
<1> DEFINE D == 1..n
           Merge(f) == [t \in SUBSET D |-> IF t = {} THEN <<>> ELSE Overridden(f[t \ {Max(t)}], s[Max(t)])]
           Has(t, k) == {i \in t : k \in DOMAIN s[i]}
           Known(t) == [k \in UNION {DOMAIN s[i] : i \in t} |-> s[Max(Has(t, k))][k]]
           c == [t \in SUBSET D |-> IF t = {} THEN <<>> ELSE Known(t)]
           iter == CHOOSE f : f = Merge(f)
<1>1. FoldLeft(Overridden, <<>>, s) = iter[D]
  BY DEF FoldLeft, MapThenFoldSet
<1>2. c = Merge(c)
  <2> SUFFICES ASSUME NEW t \in SUBSET D, t # {} PROVE Known(t) = Overridden(c[t \ {Max(t)}], s[Max(t)])
    OBVIOUS
  <2> DEFINE m == Max(t)
             u == t \ {m}
  <2>1. m \in t /\ u \in SUBSET D /\ \A i \in t : i <= m
    BY Greatest
  <2>2. DOMAIN c[u] = UNION {DOMAIN s[i] : i \in u} /\ \A k \in DOMAIN c[u] : c[u][k] = s[Max(Has(u, k))][k]
    <3>1. CASE u = {}
      BY <2>1, <3>1
    <3>2. CASE u # {}
      BY <2>1, <3>2
    <3> QED
      BY <3>1, <3>2
  <2>3. UNION {DOMAIN s[i] : i \in t} = DOMAIN s[m] \cup UNION {DOMAIN s[i] : i \in u}
    BY <2>1
  <2>4. ASSUME NEW k \in DOMAIN s[m] PROVE Max(Has(t, k)) = m
    <3>1. Has(t, k) \in SUBSET (1..n) /\ m \in Has(t, k)
      BY <2>1
    <3>2. Max(Has(t, k)) \in Has(t, k) /\ \A i \in Has(t, k) : i <= Max(Has(t, k))
      BY <3>1, Greatest
    <3> QED
      BY <2>1, <3>1, <3>2
  <2>5. ASSUME NEW k, k \notin DOMAIN s[m] PROVE Has(t, k) = Has(u, k)
    BY <2>5
  <2> HIDE DEF m, u, c, Has
  <2>6. Overridden(c[u], s[m]) =
          [k \in DOMAIN c[u] \cup DOMAIN s[m] |-> IF k \in DOMAIN s[m] THEN s[m][k] ELSE c[u][k]]
    BY DEF Overridden
  <2>7. Known(t) = Overridden(c[u], s[m])
    BY <2>2, <2>3, <2>4, <2>5, <2>6
  <2> QED
    BY <2>7 DEF m, u
<1>3. iter = Merge(iter)
  BY <1>2
<1> HIDE DEF iter, c, Known
<1>4. ASSUME NEW j \in 1..n PROVE iter[1..j] = Overridden(iter[1..(j - 1)], s[j])
  <2>1. 1..j \in SUBSET D /\ 1..j # {} /\ (1..j) \ {j} = 1..(j - 1) /\ 1..(j - 1) \in SUBSET D
    <3>1. j \in Nat /\ j >= 1 /\ j <= n
      OBVIOUS
    <3>2. 1..j \in SUBSET D /\ 1..(j - 1) \in SUBSET D
      BY <3>1
    <3>3. j \in 1..j
      BY <3>1
    <3>4. (1..j) \ {j} = 1..(j - 1)
      BY <3>1
    <3> QED
      BY <3>2, <3>3, <3>4
  <2>2. Max(1..j) = j
    <3>1. Max(1..j) \in 1..j /\ \A i \in 1..j : i <= Max(1..j)
      BY <2>1, Greatest
    <3> QED
      BY <3>1
  <2> QED
    BY <1>3, <2>1, <2>2
<1>5. iter[{}] = <<>>
  BY <1>3
<1> DEFINE S == {j \in 0..n : LastOf(s, j, iter[1..j])}
<1>6. 0 \in S
  <2>1. 1..0 = {}
    OBVIOUS
  <2> QED
    BY <1>5, <2>1 DEF LastOf
<1>7. ASSUME NEW i \in 0..(n - 1), i \in S PROVE i + 1 \in S
  <2> DEFINE j == i + 1
             r == iter[1..i]
             q == iter[1..j]
  <2>1. j \in 1..n /\ j - 1 = i /\ LastOf(s, i, r) /\ 1..j = (1..i) \cup {j}
    BY <1>7
  <2>2. q = Overridden(r, s[j])
    BY <1>4, <2>1
  <2>3. DOMAIN q = DOMAIN s[j] \cup DOMAIN r /\ \A k \in DOMAIN q : q[k] = IF k \in DOMAIN s[j] THEN s[j][k] ELSE r[k]
    BY <2>2 DEF Overridden
  <2> HIDE DEF q, r, j
  <2>4. DOMAIN q = UNION {DOMAIN s[l] : l \in 1..j}
    BY <2>1, <2>3 DEF LastOf
  <2>5. ASSUME NEW k \in DOMAIN q
        PROVE  \E x \in 1..j : k \in DOMAIN s[x] /\ q[k] = s[x][k] /\ \A l \in (x + 1)..j : k \notin DOMAIN s[l]
    <3>1. CASE k \in DOMAIN s[j]
      BY <2>1, <2>3, <3>1
    <3>2. CASE k \notin DOMAIN s[j]
      <4>1. PICK x \in 1..i : k \in DOMAIN s[x] /\ r[k] = s[x][k] /\ \A l \in (x + 1)..i : k \notin DOMAIN s[l]
        BY <2>1, <2>3, <3>2 DEF LastOf
      <4>2. x \in 1..j /\ \A l \in (x + 1)..j : l \in (x + 1)..i \/ l = j
        BY <2>1 DEF j
      <4> QED
        BY <2>3, <3>2, <4>1, <4>2
    <3> QED
      BY <3>1, <3>2
  <2> QED
    BY <2>1, <2>4, <2>5 DEF LastOf, q, j
<1>8. n \in S
  BY <1>6, <1>7, UpTo
<1> QED
  BY <1>1, <1>8

\* The directories are searched one after the other, and each once.
LEMMA Searched ==
  ASSUME NEW env
  PROVE  /\ Len(SearchDirs(env)) \in Nat /\ DOMAIN SearchDirs(env) = 1..Len(SearchDirs(env))
         /\ \A i, j \in DOMAIN SearchDirs(env) : SearchDirs(env)[i] = SearchDirs(env)[j] => i = j
<1>1. CASE env.dir # ""
  <2>1. SearchDirs(env) = <<env.dir>>
    BY <1>1 DEF SearchDirs
  <2>2. Len(<<env.dir>>) = 1 /\ DOMAIN <<env.dir>> = 1..1
    OBVIOUS
  <2>3. \A i, j \in 1..1 : i = j
    OBVIOUS
  <2> QED
    BY <2>1, <2>2, <2>3
<1>2. CASE env.dir = ""
  <2>1. SearchDirs(env) = Dirs
    BY <1>2 DEF SearchDirs
  <2>2. Dirs \in Seq(STRING) /\ IsInjective(Dirs)
    BY SettingsAssumption DEF SettingsAssumption
  <2> QED
    BY <2>1, <2>2, LenProperties DEF IsInjective
<1> QED
  BY <1>1, <1>2

\* No file of the preferred extension stands beside it.
Preferred(contents, f) == f.ext = "json" => [f EXCEPT !.ext = "toml"] \notin DOMAIN contents

\* Of the files of a directory and a profile, the preferred one is found.
LEMMA FoundFile ==
  ASSUME NEW contents, DOMAIN contents \subseteq File, NEW dir, NEW profile
  PROVE  LET at == {f \in DOMAIN contents : f.dir = dir /\ f.profile = profile /\ Preferred(contents, f)} IN
           \/ at = {} /\ Found(contents, dir, profile) = <<>>
           \/ \E f \in at : at = {f} /\ Found(contents, dir, profile) = contents[f]
<1> DEFINE at == {f \in DOMAIN contents : f.dir = dir /\ f.profile = profile /\ Preferred(contents, f)}
           Named(ext) == [dir |-> dir, profile |-> profile, ext |-> ext]
           present == {i \in DOMAIN Extensions : Named(Extensions[i]) \in DOMAIN contents}
<1>1. DOMAIN Extensions = {1, 2} /\ Extensions[1] = "toml" /\ Extensions[2] = "json"
  BY DEF Extensions
<1>2. Found(contents, dir, profile) = IF present = {} THEN <<>> ELSE contents[Named(Extensions[Min(present)])]
  BY DEF Found
<1>3. \A f \in DOMAIN contents : f.dir = dir /\ f.profile = profile => f = Named(f.ext) /\ f.ext \in {"toml", "json"}
  BY DEF File
<1>4. [Named("json") EXCEPT !.ext = "toml"] = Named("toml")
  OBVIOUS
<1>5. \A ext : Named(ext).dir = dir /\ Named(ext).profile = profile /\ Named(ext).ext = ext
  OBVIOUS
<1> HIDE DEF Named
<1>6. CASE Named("toml") \in DOMAIN contents
  <2>1. 1 \in present /\ present \subseteq {1, 2}
    BY <1>1, <1>6
  <2>2. Min(present) = 1
    <3>1. Min(present) \in present /\ \A y \in present : Min(present) <= y
      <4>1. \A y \in present : 1 <= y
        BY <2>1
      <4> QED
        BY <2>1, <4>1 DEF Min
    <3> QED
      BY <2>1, <3>1
  <2>3. Found(contents, dir, profile) = contents[Named("toml")]
    BY <1>1, <1>2, <2>1, <2>2
  <2>4. at = {Named("toml")}
    <3>1. Named("toml") \in at
      BY <1>5, <1>6 DEF Preferred
    <3>2. ASSUME NEW f \in at PROVE f = Named("toml")
      <4>1. f \in DOMAIN contents /\ f = Named(f.ext) /\ f.ext \in {"toml", "json"} /\ Preferred(contents, f)
        BY <1>3
      <4>2. f.ext = "json" => [f EXCEPT !.ext = "toml"] = Named("toml")
        BY <1>4, <4>1
      <4> QED
        BY <1>6, <4>1, <4>2 DEF Preferred
    <3> QED
      BY <3>1, <3>2
  <2> QED
    BY <2>3, <2>4
<1>7. CASE Named("toml") \notin DOMAIN contents /\ Named("json") \in DOMAIN contents
  <2>1. present = {2}
    BY <1>1, <1>7
  <2>2. Min(present) = 2
    BY <2>1 DEF Min
  <2>3. Found(contents, dir, profile) = contents[Named("json")]
    BY <1>1, <1>2, <2>1, <2>2
  <2>4. at = {Named("json")}
    <3>1. Named("json") \in at
      BY <1>4, <1>5, <1>7 DEF Preferred
    <3>2. \A f \in at : f = Named("json")
      BY <1>3, <1>7
    <3> QED
      BY <3>1, <3>2
  <2> QED
    BY <2>3, <2>4
<1>8. CASE Named("toml") \notin DOMAIN contents /\ Named("json") \notin DOMAIN contents
  <2>1. present = {}
    BY <1>1, <1>8
  <2>2. at = {}
    BY <1>3, <1>8
  <2> QED
    BY <1>2, <2>1, <2>2
<1> QED
  BY <1>6, <1>7, <1>8

\* The places files are loaded from, in order: place i is a directory and a profile.
Count(env) == IF ActiveProfile(env) = "" THEN Len(SearchDirs(env)) ELSE 2 * Len(SearchDirs(env))
DirAt(env, i) == IF i <= Len(SearchDirs(env)) THEN SearchDirs(env)[i] ELSE SearchDirs(env)[i - Len(SearchDirs(env))]
ProfileAt(env, i) == IF i <= Len(SearchDirs(env)) THEN "" ELSE ActiveProfile(env)

\* Two layers and one source more.
LEMMA Joined ==
  ASSUME NEW m \in Nat, NEW a, NEW b, a = [i \in 1..m |-> a[i]], b = [i \in 1..m |-> b[i]], NEW e
  PROVE  /\ LET s == a \o <<>> \o <<e>> IN
              DOMAIN s = 1..(m + 1) /\ s[m + 1] = e /\ \A i \in 1..m : s[i] = a[i]
         /\ LET s == a \o b \o <<e>> IN
              DOMAIN s = 1..(m + m + 1) /\ s[m + m + 1] = e
              /\ \A i \in 1..m : s[i] = a[i] /\ s[m + i] = b[i]
<1> DEFINE T == {a[i] : i \in 1..m} \cup {b[i] : i \in 1..m} \cup {e}
<1>1. a \in Seq(T) /\ b \in Seq(T) /\ Len(a) = m /\ Len(b) = m /\ <<>> \in Seq(T) /\ <<e>> \in Seq(T)
      /\ Len(<<e>>) = 1 /\ Len(<<>>) = 0 /\ <<e>>[1] = e
  <2>1. a \in [1..m -> T] /\ b \in [1..m -> T]
    OBVIOUS
  <2>2. a \in Seq(T) /\ b \in Seq(T) /\ Len(a) = m /\ Len(b) = m
    <3> HIDE DEF T
    <3>1. \A c \in [1..m -> T] : c \in Seq(T) /\ Len(c) = m
      OBVIOUS
    <3> QED
      BY <2>1, <3>1
  <2>3. e \in T /\ <<>> \in Seq(T) /\ Len(<<>>) = 0
    OBVIOUS
  <2> HIDE DEF T
  <2>4. <<e>> \in Seq(T) /\ Len(<<e>>) = 1 /\ <<e>>[1] = e
    BY <2>3
  <2> QED
    BY <2>2, <2>3, <2>4
<1> HIDE DEF T
<1>2. /\ a \o <<>> \in Seq(T) /\ Len(a \o <<>>) = m /\ \A i \in 1..m : (a \o <<>>)[i] = a[i]
      /\ a \o b \in Seq(T) /\ Len(a \o b) = m + m
      /\ \A i \in 1..m : (a \o b)[i] = a[i] /\ (a \o b)[m + i] = b[i]
  BY <1>1, ConcatProperties
<1> DEFINE c == a \o <<>>
           d == a \o b
<1> HIDE DEF c, d
<1>3. /\ c \o <<e>> \in Seq(T) /\ Len(c \o <<e>>) = m + 1 /\ (c \o <<e>>)[m + 1] = e
      /\ \A i \in 1..m : (c \o <<e>>)[i] = c[i]
  BY <1>1, <1>2, ConcatProperties DEF c
<1>4. /\ d \o <<e>> \in Seq(T) /\ Len(d \o <<e>>) = m + m + 1 /\ (d \o <<e>>)[m + m + 1] = e
      /\ \A i \in 1..(m + m) : (d \o <<e>>)[i] = d[i]
  BY <1>1, <1>2, ConcatProperties DEF d
<1>5. \A i \in 1..m : i \in 1..(m + m) /\ m + i \in 1..(m + m)
  OBVIOUS
<1> QED
  BY <1>2, <1>3, <1>4, <1>5, LenProperties DEF c, d

\* DefaultSources has one source for every place, and EnvSource at the end.
LEMMA SourcesAre ==
  ASSUME NEW contents, NEW env
  PROVE  LET s == DefaultSources(contents, env) IN
           /\ Count(env) \in Nat /\ DOMAIN s = 1..(Count(env) + 1)
           /\ s[Count(env) + 1] = EnvSource(env)
           /\ \A i \in 1..Count(env) : s[i] = Found(contents, DirAt(env, i), ProfileAt(env, i))
<1> DEFINE dirs == SearchDirs(env)
           p == ActiveProfile(env)
           e == EnvSource(env)
<1> PICK m \in Nat : m = Len(dirs) /\ DOMAIN dirs = 1..m
  BY Searched
<1> DEFINE a == [i \in 1..m |-> Found(contents, dirs[i], "")]
           b == [i \in 1..m |-> Found(contents, dirs[i], p)]
<1>1. Layer(contents, env, "") = a /\ Layer(contents, env, p) = b
  BY DEF Layer
<1>2. DefaultSources(contents, env) = IF p = "" THEN a \o <<>> \o <<e>> ELSE a \o b \o <<e>>
  BY <1>1 DEF DefaultSources
<1>3. \A i \in 1..m : a[i] = Found(contents, dirs[i], "") /\ b[i] = Found(contents, dirs[i], p)
  OBVIOUS
<1>4. a = [i \in 1..m |-> a[i]] /\ b = [i \in 1..m |-> b[i]]
  OBVIOUS
<1>5. \A i \in 1..m : DirAt(env, i) = dirs[i] /\ ProfileAt(env, i) = ""
  BY DEF DirAt, ProfileAt
<1>6. \A i \in 1..m : DirAt(env, m + i) = dirs[i] /\ ProfileAt(env, m + i) = p
  <2> SUFFICES ASSUME NEW i \in 1..m PROVE DirAt(env, m + i) = dirs[i] /\ ProfileAt(env, m + i) = p
    OBVIOUS
  <2>1. ~(m + i <= Len(dirs)) /\ m + i - Len(dirs) = i
    <3> HIDE DEF dirs
    <3> QED
      OBVIOUS
  <2>2. DirAt(env, m + i) = dirs[m + i - Len(dirs)]
    BY <2>1 DEF DirAt
  <2> QED
    BY <2>1, <2>2 DEF ProfileAt
<1>7. p = "" => Count(env) = m
  BY DEF Count
<1>8. p # "" => Count(env) = m + m
  <2>1. 2 * Len(dirs) = m + m
    <3> HIDE DEF dirs
    <3> QED
      OBVIOUS
  <2> QED
    BY <2>1 DEF Count
<1> HIDE DEF a, b, e, dirs, p
<1>9. CASE p = ""
  <2> DEFINE s == a \o <<>> \o <<e>>
  <2>1. DOMAIN s = 1..(m + 1) /\ s[m + 1] = e /\ \A i \in 1..m : s[i] = a[i]
    BY <1>4, Joined
  <2> HIDE DEF s
  <2>2. DefaultSources(contents, env) = s
    BY <1>2, <1>9 DEF s
  <2> QED
    BY <1>3, <1>5, <1>7, <1>9, <2>1, <2>2 DEF e
<1>10. CASE p # ""
  <2> DEFINE s == a \o b \o <<e>>
  <2>1. DOMAIN s = 1..(m + m + 1) /\ s[m + m + 1] = e /\ \A i \in 1..m : s[i] = a[i] /\ s[m + i] = b[i]
    BY <1>4, Joined
  <2> HIDE DEF s
  <2>2. DefaultSources(contents, env) = s
    BY <1>2, <1>10 DEF s
  <2>3. ASSUME NEW i \in 1..(m + m) PROVE s[i] = Found(contents, DirAt(env, i), ProfileAt(env, i))
    <3>1. CASE i \in 1..m
      BY <1>3, <1>5, <2>1, <3>1
    <3>2. CASE i \notin 1..m
      <4>1. PICK j \in 1..m : i = m + j
        <5>1. i - m \in 1..m /\ m + (i - m) = i
          BY <3>2
        <5> QED
          BY <5>1
      <4> QED
        BY <1>3, <1>6, <2>1, <4>1
    <3> QED
      BY <3>1, <3>2
  <2>4. Count(env) = m + m
    BY <1>8, <1>10
  <2>5. Count(env) \in Nat
    BY <2>4
  <2> QED
    BY <2>1, <2>2, <2>3, <2>4, <2>5 DEF e
<1> QED
  BY <1>9, <1>10

\* File f is looked for at place i.
Placed(env, f, i) == i \in 1..Count(env) /\ f.dir = DirAt(env, i) /\ f.profile = ProfileAt(env, i)

\* Place i is a directory that is searched, and a profile that is active or none.
LEMMA PlaceIs ==
  ASSUME NEW env, NEW i \in 1..Count(env)
  PROVE  \E d \in DOMAIN SearchDirs(env) :
           /\ DirAt(env, i) = SearchDirs(env)[d]
           /\ \/ d = i /\ ProfileAt(env, i) = ""
              \/ /\ i = Len(SearchDirs(env)) + d /\ ProfileAt(env, i) = ActiveProfile(env)
                 /\ ActiveProfile(env) # ""
<1> PICK m \in Nat : m = Len(SearchDirs(env)) /\ DOMAIN SearchDirs(env) = 1..m
  BY Searched
<1>1. CASE i <= m
  <2>1. i \in 1..m
    BY <1>1
  <2>2. i <= Len(SearchDirs(env))
    BY <1>1
  <2> QED
    BY <2>1, <2>2 DEF DirAt, ProfileAt
<1>2. CASE ~(i <= m)
  <2>1. ActiveProfile(env) # "" /\ Count(env) = 2 * m
    <3>1. ActiveProfile(env) = "" => Count(env) = m
      BY DEF Count
    <3>2. ActiveProfile(env) # "" => Count(env) = 2 * m
      BY DEF Count
    <3>3. Count(env) # m
      BY <1>2
    <3> QED
      BY <3>1, <3>2, <3>3
  <2>a. i \in 1..(2 * m)
    BY <2>1
  <2>2. i - m \in 1..m /\ i = m + (i - m)
    BY <1>2, <2>a
  <2>3. ~(i <= Len(SearchDirs(env))) /\ i - Len(SearchDirs(env)) = i - m
    BY <1>2
  <2>4. DirAt(env, i) = SearchDirs(env)[i - m] /\ ProfileAt(env, i) = ActiveProfile(env)
    BY <2>3 DEF DirAt, ProfileAt
  <2> QED
    BY <2>1, <2>2, <2>4
<1> QED
  BY <1>1, <1>2

\* Each file that counts has its place.
LEMMA CountsPlaced ==
  ASSUME NEW contents, NEW env, NEW f, Counts(contents, env, f)
  PROVE  \E i : Placed(env, f, i)
<1> PICK m \in Nat : m = Len(SearchDirs(env)) /\ DOMAIN SearchDirs(env) = 1..m
  BY Searched
<1> PICK d \in 1..m : f.dir = SearchDirs(env)[d]
  BY DEF Counts, Range
<1>1. CASE f.profile = ""
  <2>1. Count(env) = m \/ Count(env) = 2 * m
    BY DEF Count
  <2>2. d \in 1..Count(env)
    BY <2>1
  <2>3. d <= Len(SearchDirs(env))
    OBVIOUS
  <2> QED
    BY <1>1, <2>2, <2>3 DEF Placed, DirAt, ProfileAt
<1>2. CASE f.profile # ""
  <2>1. f.profile = ActiveProfile(env) /\ ActiveProfile(env) # ""
    BY <1>2 DEF Counts
  <2>2. Count(env) = 2 * m
    BY <2>1 DEF Count
  <2>3. m + d \in 1..Count(env)
    BY <2>2
  <2>4. ~(m + d <= Len(SearchDirs(env))) /\ (m + d) - Len(SearchDirs(env)) = d
    OBVIOUS
  <2>5. DirAt(env, m + d) = SearchDirs(env)[d] /\ ProfileAt(env, m + d) = ActiveProfile(env)
    BY <2>4 DEF DirAt, ProfileAt
  <2> QED
    BY <2>1, <2>3, <2>5 DEF Placed
<1> QED
  BY <1>1, <1>2

\* A file of a later place is stronger than one of an earlier place.
LEMMA LaterStronger ==
  ASSUME NEW env, NEW f, NEW g, NEW i, NEW j, Placed(env, f, i), Placed(env, g, j), j < i
  PROVE  Stronger(env, f, g)
<1> DEFINE dirs == SearchDirs(env)
           p == ActiveProfile(env)
<1>1. PICK m \in Nat : m = Len(dirs) /\ DOMAIN dirs = 1..m
  BY Searched
<1>2. Count(env) \in Nat
  <2>1. Count(env) = m \/ Count(env) = 2 * m
    BY <1>1 DEF Count
  <2> QED
    BY <2>1
<1>3. /\ i \in 1..Count(env) /\ f.dir = DirAt(env, i) /\ f.profile = ProfileAt(env, i)
      /\ j \in 1..Count(env) /\ g.dir = DirAt(env, j) /\ g.profile = ProfileAt(env, j)
  BY DEF Placed
<1>4. PICK d \in DOMAIN dirs : /\ f.dir = dirs[d]
                               /\ \/ d = i /\ f.profile = ""
                                  \/ i = m + d /\ f.profile = p /\ p # ""
  <2>1. \E d \in DOMAIN dirs : /\ DirAt(env, i) = dirs[d]
                               /\ \/ d = i /\ ProfileAt(env, i) = ""
                                  \/ i = Len(dirs) + d /\ ProfileAt(env, i) = p /\ p # ""
    BY <1>3, PlaceIs
  <2> QED
    BY <1>1, <1>3, <2>1
<1>5. PICK e \in DOMAIN dirs : /\ g.dir = dirs[e]
                               /\ \/ e = j /\ g.profile = ""
                                  \/ j = m + e /\ g.profile = p /\ p # ""
  <2>1. \E e \in DOMAIN dirs : /\ DirAt(env, j) = dirs[e]
                               /\ \/ e = j /\ ProfileAt(env, j) = ""
                                  \/ j = Len(dirs) + e /\ ProfileAt(env, j) = p /\ p # ""
    BY <1>3, PlaceIs
  <2> QED
    BY <1>1, <1>3, <2>1
<1> HIDE DEF dirs, p
<1>6. i \in Nat /\ j \in Nat /\ d \in 1..m /\ e \in 1..m
  <2>1. i \in Nat /\ j \in Nat
    BY <1>2, <1>3
  <2>2. d \in 1..m /\ e \in 1..m
    BY <1>1, <1>4, <1>5
  <2> QED
    BY <2>1, <2>2
<1>7. CASE f.profile = "" /\ g.profile = ""
  <2>1. d > e
    BY <1>4, <1>5, <1>6, <1>7
  <2> QED
    BY <1>4, <1>5, <1>7, <2>1 DEF Stronger, dirs
<1>8. CASE f.profile # "" /\ g.profile # ""
  <2>0. i = m + d /\ j = m + e
    BY <1>4, <1>5, <1>8
  <2>1. d > e
    BY <1>6, <2>0
  <2> QED
    BY <1>4, <1>5, <1>8, <2>1 DEF Stronger, dirs
<1>9. CASE f.profile = "" /\ g.profile # ""
  <2>1. i = d /\ j = m + e
    BY <1>4, <1>5, <1>9
  <2>2. m + e < d /\ d <= m
    BY <1>6, <2>1
  <2> QED
    BY <1>6, <2>2
<1>10. CASE f.profile # "" /\ g.profile = ""
  BY <1>10 DEF Stronger
<1> QED
  BY <1>7, <1>8, <1>9, <1>10

\* Of two files only one is the stronger.
LEMMA OneStronger ==
  ASSUME NEW env, NEW f, NEW g, Stronger(env, f, g)
  PROVE  ~Stronger(env, g, f)
<1> DEFINE dirs == SearchDirs(env)
<1>1. DOMAIN dirs = 1..Len(dirs) /\ \A i, j \in DOMAIN dirs : dirs[i] = dirs[j] => i = j
  BY Searched
<1>2. CASE f.profile # "" /\ g.profile = ""
  BY <1>2 DEF Stronger
<1>3. CASE (f.profile = "") = (g.profile = "")
  <2> SUFFICES ASSUME Stronger(env, g, f) PROVE FALSE
    OBVIOUS
  <2>1. PICK i, j \in DOMAIN dirs : i > j /\ dirs[i] = f.dir /\ dirs[j] = g.dir
    BY <1>3 DEF Stronger
  <2>2. PICK a, b \in DOMAIN dirs : a > b /\ dirs[a] = g.dir /\ dirs[b] = f.dir
    BY <1>3 DEF Stronger
  <2>3. a = j /\ b = i
    BY <1>1, <2>1, <2>2
  <2> QED
    BY <1>1, <2>1, <2>2, <2>3
<1> QED
  BY <1>2, <1>3 DEF Stronger

\* For any files, variables and profiles, unless a source fails: what Load and the
\* field's default give for a key is the value of the strongest place that sets it
\* (config.go, profile.go).
THEOREM LoadPromised ==
  ASSUME NEW contents, DOMAIN contents \subseteq File, NEW env, Load(contents, env) # Broken, NEW k
  PROVE  Raw(Load(contents, env), k) = Promised(contents, env, k)
<1> DEFINE s == DefaultSources(contents, env)
           n == Count(env)
           r == Load(contents, env)
           files == {f \in DOMAIN contents : Counts(contents, env, f) /\ k \in DOMAIN contents[f]}
           e == EnvSource(env)
<1>1. /\ n \in Nat /\ DOMAIN s = 1..(n + 1) /\ s[n + 1] = e
      /\ \A i \in 1..n : s[i] = Found(contents, DirAt(env, i), ProfileAt(env, i))
  BY SourcesAre
<1>2. LastOf(s, n + 1, r)
  <2>1. r = FoldLeft(Overridden, <<>>, s)
    BY DEF Load
  <2>2. n + 1 \in Nat
    BY <1>1
  <2> HIDE DEF s, n, r
  <2> QED
    BY <1>1, <2>1, <2>2, MergeLast
<1>3. DOMAIN e = {KeyOf[v] : v \in DOMAIN env.vars}
      /\ (k \in DOMAIN e => e[k] = env.vars[CHOOSE v \in DOMAIN env.vars : KeyOf[v] = k])
  BY DEF EnvSource
<1>4. ASSUME NEW f \in files PROVE \E i \in 1..n : Placed(env, f, i) /\ s[i] = contents[f]
  <2>1. PICK i : Placed(env, f, i)
    BY CountsPlaced
  <2>2. i \in 1..n /\ f.dir = DirAt(env, i) /\ f.profile = ProfileAt(env, i)
    BY <2>1 DEF Placed
  <2>3. Preferred(contents, f)
    BY DEF Preferred, Counts
  <2>4. s[i] = contents[f]
    BY <1>1, <2>2, <2>3, FoundFile
  <2> QED
    BY <2>1, <2>2, <2>4
<1>5. ASSUME NEW i \in 1..n, k \in DOMAIN s[i]
      PROVE  \E f \in files : /\ Placed(env, f, i) /\ s[i] = contents[f]
                              /\ \A g \in files : Placed(env, g, i) => g = f
  <2>1. s[i] = Found(contents, DirAt(env, i), ProfileAt(env, i))
    BY <1>1
  <2>2. Found(contents, DirAt(env, i), ProfileAt(env, i)) # <<>>
    BY <1>5, <2>1
  <2>3. PICK f \in DOMAIN contents :
          /\ f.dir = DirAt(env, i) /\ f.profile = ProfileAt(env, i) /\ Preferred(contents, f) /\ s[i] = contents[f]
          /\ \A g \in DOMAIN contents :
               g.dir = DirAt(env, i) /\ g.profile = ProfileAt(env, i) /\ Preferred(contents, g) => g = f
    BY <2>1, <2>2, FoundFile
  <2>4. f.dir \in Range(SearchDirs(env)) /\ f.profile \in {"", ActiveProfile(env)}
    BY <2>3, PlaceIs DEF Range
  <2>5. f \in files
    BY <1>5, <2>3, <2>4 DEF Counts, Preferred
  <2>6. \A g \in files : Preferred(contents, g)
    BY DEF Counts, Preferred
  <2> QED
    BY <2>3, <2>5, <2>6 DEF Placed
<1> HIDE DEF s, r, e, n
<1>6. DOMAIN r = UNION {DOMAIN s[i] : i \in 1..(n + 1)}
  BY <1>2 DEF LastOf
<1>7. CASE k \in DOMAIN e
  <2>1. n + 1 \in 1..(n + 1)
    BY <1>1
  <2>2. k \in DOMAIN r
    BY <1>1, <1>6, <1>7, <2>1
  <2>3. PICK i \in 1..(n + 1) : k \in DOMAIN s[i] /\ r[k] = s[i][k] /\ \A l \in (i + 1)..(n + 1) : k \notin DOMAIN s[l]
    BY <1>2, <2>2 DEF LastOf
  <2>4. i = n + 1
    BY <1>1, <1>7, <2>3
  <2>5. \E v \in DOMAIN env.vars : KeyOf[v] = k
    BY <1>3, <1>7
  <2>6. Promised(contents, env, k) = env.vars[CHOOSE v \in DOMAIN env.vars : KeyOf[v] = k]
    BY <2>5 DEF Promised
  <2> QED
    BY <1>1, <1>3, <1>7, <2>2, <2>3, <2>4, <2>6 DEF Raw, r
<1>8. CASE k \notin DOMAIN e /\ files # {}
  <2>1. k \in DOMAIN r
    BY <1>1, <1>4, <1>6, <1>8
  <2>2. PICK i \in 1..(n + 1) : k \in DOMAIN s[i] /\ r[k] = s[i][k] /\ \A l \in (i + 1)..(n + 1) : k \notin DOMAIN s[l]
    BY <1>2, <2>1 DEF LastOf
  <2>3. i \in 1..n
    BY <1>1, <1>8, <2>2
  <2>4. PICK f \in files : Placed(env, f, i) /\ s[i] = contents[f] /\ \A g \in files : Placed(env, g, i) => g = f
    BY <1>5, <2>2, <2>3
  <2>5. ASSUME NEW g \in files \ {f} PROVE Stronger(env, f, g)
    <3>1. PICK j \in 1..n : Placed(env, g, j) /\ s[j] = contents[g]
      BY <1>4
    <3>2. j # i /\ k \in DOMAIN s[j]
      BY <2>4, <3>1
    <3>3. j < i
      BY <1>1, <2>2, <3>1, <3>2
    <3> QED
      BY <2>4, <3>1, <3>3, LaterStronger
  <2> DEFINE Strongest(x) == \A g \in files \ {x} : Stronger(env, x, g)
  <2>6. \A x \in files : Strongest(x) => x = f
    BY <2>5, OneStronger
  <2>7. Strongest(f)
    BY <2>5
  <2> HIDE DEF files
  <2>8. (CHOOSE x \in files : Strongest(x)) = f
    BY <2>4, <2>6, <2>7
  <2>9. ~(\E v \in DOMAIN env.vars : KeyOf[v] = k)
    BY <1>3, <1>8
  <2>10. Promised(contents, env, k) = contents[CHOOSE x \in files : Strongest(x)][k]
    BY <1>8, <2>9 DEF Promised, files
  <2> QED
    BY <2>1, <2>2, <2>4, <2>8, <2>10 DEF Raw, r
<1>9. CASE k \notin DOMAIN e /\ files = {}
  <2>1. k \notin DOMAIN r
    <3> SUFFICES ASSUME NEW i \in 1..(n + 1), k \in DOMAIN s[i] PROVE FALSE
      BY <1>6
    <3>1. i \in 1..n
      BY <1>1, <1>9
    <3> QED
      BY <1>5, <1>9, <3>1
  <2>2. ~(\E v \in DOMAIN env.vars : KeyOf[v] = k)
    BY <1>3, <1>9
  <2>3. Promised(contents, env, k) = Default[k]
    BY <1>9, <2>2 DEF Promised
  <2> QED
    BY <2>1, <2>3 DEF Raw, r
<1> QED
  BY <1>7, <1>8, <1>9
-----------------------------------------------------------------------------
(* What is true of the whole: the types, and what they rest on.               *)

\* Requests, and the database server, leave main and the modules alone.
LEMMA RequestsLeave ==
  ASSUME (\E w \in Workers : Serve(w)) \/ LoseServer \/ ServerReturns \/ UNCHANGED vars
  PROVE  UNCHANGED <<main, service, running, handle, migrated, web>>
<1>1. CASE \E w \in Workers : Serve(w)
  BY <1>1 DEF Serve, Arrive, GetDB, Begin, RunFn, Rollback, Commit, Ask, Answer, Cancel, OfRequest, world
<1>2. CASE LoseServer \/ ServerReturns
  BY <1>2 DEF LoseServer, ServerReturns
<1>3. CASE UNCHANGED vars
  BY <1>3 DEF vars, world
<1> QED
  BY <1>1, <1>2, <1>3

\* main serves no request.
LEMMA MainLeaves == ASSUME Main PROVE UNCHANGED <<app, req, arrived, dbUp>>
<1>1. CASE LoadConfig \/ Apply \/ Retry \/ ConfigureWeb \/ ConfigureUser \/ DataRefuses \/ DataClashes
           \/ DataConfigured \/ ConfigureDone
  BY <1>1 DEF LoadConfig, Apply, Retry, ConfigureWeb, ConfigureUser, DataRefuses, DataClashes,
              DataConfigured, ConfigureDone, OfMain, request, world
<1>2. CASE ConfigureActuator("health", "actuator.health") \/ ConfigureActuator("info", "actuator.info")
  BY <1>2 DEF ConfigureActuator, OfMain, request, world
<1>3. CASE StartData \/ StartWeb \/ StartUser \/ StartDone \/ StopEnter \/ StopDone
  BY <1>3 DEF StartData, StartWeb, StartUser, StartDone, StopEnter, StopDone, OfMain, request, world
<1>4. CASE StopData \/ StopListening \/ StopWeb \/ StopUser
  BY <1>4 DEF StopData, StopListening, StopWeb, StopUser, OfStop, OfMain, request
<1> QED
  BY <1>1, <1>2, <1>3, <1>4 DEF Main

Places == {"load", "apply", "configure", "hooks", "rollback", "failed", "up", "stopping", "down"}

Ranges ==
  /\ app \in Applications /\ disk \in Disks[app] /\ {loaded, bound} \subseteq Disks[app] \cup {None}
  /\ pc \in Places /\ configured \in BOOLEAN /\ listening \in BOOLEAN /\ overdue \in BOOLEAN
  /\ attempts \in 1..MaxStarts /\ faults \in 0..MaxFaults[app]

\* Failures stay within their bound.
LEMMA FaultBound ==
  ASSUME app \in Applications, faults \in 0..MaxFaults[app], Fault PROVE faults' \in 0..MaxFaults[app]
<1>1. MaxFaults[app] \in Nat
  BY StackAssumption DEF StackAssumption
<1> QED
  BY <1>1 DEF Fault

\* The steps of main keep the ranges of its variables.
LEMMA RangesMain == ASSUME Ranges, Main PROVE Ranges'
<1>0. app' = app
  BY MainLeaves
<1>1. CASE LoadConfig \/ Apply \/ ConfigureDone
  BY <1>0, <1>1 DEF Ranges, LoadConfig, Apply, ConfigureDone, GoTo, Places, service, web, OfMain
<1>2. CASE Retry
  <2>1. MaxStarts \in Nat
    BY StackAssumption DEF StackAssumption
  <2>2. attempts' \in 1..MaxStarts
    BY <1>2, <2>1 DEF Ranges, Retry
  <2> QED
    BY <1>0, <1>2, <2>2 DEF Ranges, Retry, GoTo, Places, service, web
<1>3. CASE ConfigureWeb \/ ConfigureUser
  BY <1>0, <1>3 DEF Ranges, ConfigureWeb, ConfigureUser, ModuleReturns, ModuleFails, GoTo, Places, web, OfMain
<1>4. CASE ConfigureActuator("health", "actuator.health") \/ ConfigureActuator("info", "actuator.info")
  BY <1>0, <1>4 DEF Ranges, ConfigureActuator, ModuleReturns, ModuleFails, GoTo, Places, web, OfMain
<1>5. CASE DataRefuses \/ DataClashes \/ DataConfigured
  <2>1. bound' = loaded
    BY <1>5 DEF DataRefuses, DataClashes, DataConfigured, Remember
  <2> QED
    BY <1>0, <1>5, <2>1 DEF Ranges, DataRefuses, DataClashes, DataConfigured, ModuleReturns, ModuleFails, GoTo,
                            Places, web, OfMain
<1>6. CASE StartData \/ StartWeb \/ StartUser
  BY <1>0, <1>6, FaultBound DEF Ranges, StartData, StartWeb, StartUser, Hook, HookStarted, HookFails, GoTo,
                                Places, service, web, OfMain
<1>7. CASE StartDone \/ StopEnter \/ StopDone
  BY <1>0, <1>7 DEF Ranges, StartDone, StopEnter, StopDone, GoTo, Places, service, web, OfMain
<1>8. CASE StopData \/ StopListening \/ StopWeb \/ StopUser
  BY <1>0, <1>8, FaultBound DEF Ranges, StopData, StopListening, StopWeb, StopUser, OfStop, OfMain, service, web
<1> QED
  BY <1>1, <1>2, <1>3, <1>4, <1>5, <1>6, <1>7, <1>8 DEF Main

\* So do all others.
LEMMA RangesStep == ASSUME Ranges, [Next]_vars PROVE Ranges'
<1>1. CASE (\E w \in Workers : Serve(w)) \/ LoseServer \/ ServerReturns \/ UNCHANGED vars
  <2>1. UNCHANGED <<app, disk, loaded, bound, pc, configured, listening, overdue, attempts>>
    BY <1>1, RequestsLeave DEF main, service, web
  <2>2. faults' = faults \/ Fault
    BY <1>1 DEF Serve, Arrive, GetDB, Begin, RunFn, Rollback, Commit, Ask, Answer, Cancel,
                LoseServer, ServerReturns, vars
  <2> QED
    BY <2>1, <2>2, FaultBound DEF Ranges
<1> QED
  BY <1>1, RangesMain DEF Next

\* No hook runs and nobody is served.
Unserved == running = <<>> /\ ~listening /\ \A w \in Workers : req[w].at = "idle"

\* Nothing is started before the modules are configured, so that no module is
\* configured twice or while a request is under way.
Early ==
  /\ ~configured => Unserved /\ pc \in {"load", "apply", "configure", "failed"}
  /\ pc = "apply" /\ app.late => configured

\* main comes to the hooks only by ConfigureDone.
LEMMA EarlyMain == ASSUME Ranges, Early, Main PROVE Early'
<1>0. app' = app /\ req' = req
  BY MainLeaves
<1>1. CASE LoadConfig \/ Apply \/ ConfigureDone
  BY <1>0, <1>1 DEF Ranges, Early, Unserved, LoadConfig, Apply, ConfigureDone, GoTo, web, OfMain
<1>2. CASE Retry
  BY <1>0, <1>2 DEF Ranges, Early, Unserved, Retry, GoTo, web
<1>3. CASE ConfigureWeb \/ ConfigureUser
  BY <1>0, <1>3 DEF Ranges, Early, Unserved, ConfigureWeb, ConfigureUser, At, ModuleReturns, ModuleFails, GoTo, web
<1>4. CASE ConfigureActuator("health", "actuator.health") \/ ConfigureActuator("info", "actuator.info")
  BY <1>0, <1>4 DEF Ranges, Early, Unserved, ConfigureActuator, At, ModuleReturns, ModuleFails, GoTo, web
<1>5. CASE DataRefuses \/ DataClashes \/ DataConfigured
  BY <1>0, <1>5 DEF Ranges, Early, Unserved, DataRefuses, DataClashes, DataConfigured, At, ModuleReturns,
                    ModuleFails, GoTo, web
<1>6. ASSUME configured, configured' = configured, pc' # "apply" PROVE Early'
  BY <1>6 DEF Early
<1>7. CASE StartData \/ StartWeb \/ StartUser
  <2>1. pc = "hooks" /\ configured' = configured /\ pc' # "apply"
    BY <1>7 DEF StartData, StartWeb, StartUser, Hook, HookStarted, HookFails, GoTo
  <2> QED
    BY <1>6, <2>1 DEF Ranges, Early
<1>8. CASE StartDone \/ StopEnter \/ StopDone
  <2>1. pc \in {"hooks", "up", "rollback", "stopping"} /\ configured' = configured /\ pc' # "apply"
    BY <1>8 DEF StartDone, StopEnter, StopDone, Stopping, GoTo
  <2> QED
    BY <1>6, <2>1 DEF Ranges, Early
<1>9. CASE StopData \/ StopListening \/ StopWeb \/ StopUser
  <2>1. pc \in {"rollback", "stopping"} /\ configured' = configured /\ pc' = pc
    BY <1>9 DEF StopData, StopListening, StopWeb, StopUser, Turn, Stopping, OfStop
  <2> QED
    BY <1>6, <2>1 DEF Ranges, Early
<1> QED
  BY <1>1, <1>2, <1>3, <1>4, <1>5, <1>7, <1>8, <1>9 DEF Main

\* Nobody is served before main listens.
LEMMA EarlyStep == ASSUME Ranges, Early, RInv, [Next]_vars PROVE Early'
<1>1. CASE (\E w \in Workers : Serve(w)) \/ LoseServer \/ ServerReturns \/ UNCHANGED vars
  <2>1. UNCHANGED <<app, pc, configured, listening, running>>
    BY <1>1, RequestsLeave DEF main, web
  <2>2. ASSUME Unserved PROVE Unserved'
    <3>1. \A w \in Workers : req'[w].at = "idle"
      <4>1. CASE LoseServer
        <5>1. req' = [w \in Workers |-> [req[w] EXCEPT !.tx =
                              [d \in 1..MaxDepth |-> IF d \in Open(w) THEN "over" ELSE @[d]]]]
          BY <4>1 DEF LoseServer
        <5>2. \A w \in Workers : DOMAIN req[w] = Parts
          BY DEF RInv, Answered
        <5> QED
          BY <2>2, <5>1, <5>2 DEF Unserved, Parts
      <4>2. ASSUME NEW w \in Workers, Serve(w) PROVE FALSE
        BY <2>2, <4>2 DEF Unserved, Serve, Arrive, GetDB, Begin, RunFn, Rollback, Commit, Ask, Answer, Cancel
      <4>3. CASE ServerReturns \/ UNCHANGED vars
        BY <2>2, <4>3 DEF Unserved, ServerReturns, vars, request
      <4> QED
        BY <1>1, <4>1, <4>2, <4>3
    <3> QED
      BY <2>1, <2>2, <3>1 DEF Unserved
  <2> QED
    BY <2>1, <2>2 DEF Early
<1> QED
  BY <1>1, EarlyMain DEF Next

\* The name data.db stands for a handle.
Registered ==
  /\ dbService \in DOMAIN handle \cup {None}
  /\ (dbService = None) <=> ("data.db" \notin names)

\* A sequence of one.
LEMMA Single == ASSUME NEW S, NEW x \in S PROVE <<x>> \in Seq(S) /\ Len(<<x>>) = 1 /\ <<x>>[1] = x
  OBVIOUS

DataNames == {"data.db", "data.instrumented-db", "data.dialect"}

\* data.db is the first name the data module registers.
LEMMA FirstWanted == Wanted \in Seq(DataNames) /\ 1 \in DOMAIN Wanted /\ Wanted[1] = "data.db"
<1> DEFINE a == <<"data.db">>
           b == IF Number[Setting(Slow)] > 0 THEN <<"data.instrumented-db">> ELSE <<>>
           c == IF Dialect # None THEN <<"data.dialect">> ELSE <<>>
<1>1. a \in Seq(DataNames) /\ Len(a) = 1 /\ a[1] = "data.db"
  BY Single DEF DataNames
<1>2. b \in Seq(DataNames) /\ c \in Seq(DataNames)
  <2>1. "data.instrumented-db" \in DataNames /\ "data.dialect" \in DataNames
    BY DEF DataNames
  <2>2. <<>> \in Seq(DataNames)
    OBVIOUS
  <2> QED
    BY <2>1, <2>2, Single
<1>3. Wanted = a \o b \o c
  BY DEF Wanted
<1> HIDE DEF a, b, c
<1>4. a \o b \in Seq(DataNames) /\ Len(a \o b) \in Nat /\ Len(a \o b) >= 1 /\ (a \o b)[1] = "data.db"
  BY <1>1, <1>2, ConcatProperties, LenProperties
<1> QED
  BY <1>2, <1>3, <1>4, ConcatProperties, LenProperties

\* What the data module's Configure registers: nothing of its own, or its handle.
LEMMA DataRegisters ==
  ASSUME IInv, DataClashes \/ DataConfigured
  PROVE  \/ /\ dbService' = dbService
            /\ ("data.db" \in names') <=> ("data.db" \in names)
         \/ /\ "data.db" \notin names /\ "data.db" \in names'
            /\ dbService' = Handle /\ Handle \in DOMAIN handle' /\ Handle \in Nat
<1>1. Handle \in DOMAIN handle' /\ Handle \in Nat
  <2>1. Handle \in DOMAIN handle'
    BY DEF DataClashes, DataConfigured, Holding
  <2> QED
    BY <2>1, NewHandle DEF IInv, Numbered
<1>2. CASE DataClashes
  <2>1. PICK i \in DOMAIN Wanted :
          /\ Wanted[i] \in names /\ \A j \in 1..(i - 1) : Wanted[j] \notin names
          /\ names' = names \cup {Wanted[j] : j \in 1..(i - 1)}
          /\ dbService' = IF i > 1 THEN Handle ELSE dbService
    BY <1>2 DEF DataClashes
  <2>2. i \in Nat /\ i >= 1
    BY FirstWanted, LenProperties
  <2>3. CASE i = 1
    BY <2>1, <2>2, <2>3
  <2>4. CASE i > 1
    <3>1. 1 \in 1..(i - 1)
      BY <2>2, <2>4
    <3> QED
      BY <1>1, <2>1, <2>4, <3>1, FirstWanted
  <2> QED
    BY <2>2, <2>3, <2>4
<1>3. CASE DataConfigured
  <2>1. "data.db" \in Range(Wanted)
    BY FirstWanted DEF Range
  <2> QED
    BY <1>1, <1>3, <2>1 DEF DataConfigured
<1> QED
  BY <1>2, <1>3

\* The handles there are stay, and all other steps than those of the data module
\* leave their limits alone.
LEMMA HandlesStay ==
  ASSUME IInv, [Next]_vars
  PROVE  /\ DOMAIN handle \subseteq DOMAIN handle'
         /\ \A h \in DOMAIN handle : handle'[h].dsn = handle[h].dsn
         /\ ~(DataClashes \/ DataConfigured) =>
              DOMAIN handle' = DOMAIN handle /\ \A h \in DOMAIN handle : handle'[h].limit = handle[h].limit
<1>1. CASE DataClashes \/ DataConfigured
  <2>1. PICK db : /\ handle' = Holding(db)
                  /\ ~Created => db.dsn = handle[Handle].dsn
    <3>1. ~Created => Opened.dsn = handle[Handle].dsn
      <4> SUFFICES ASSUME ~Created PROVE Opened.dsn = handle[Handle].dsn
        OBVIOUS
      <4>1. Opened = [handle[Handle] EXCEPT !.limit = Pool(handle[Handle].limit)]
        BY DEF Opened
      <4>2. handle[Handle] = [dsn |-> handle[Handle].dsn, open |-> handle[Handle].open, limit |-> handle[Handle].limit]
        BY NewHandle DEF IInv, Numbered
      <4> QED
        BY <4>1, <4>2, Limited
    <3>2. CASE DataClashes
      <4>1. handle' = Holding(IF Created THEN [Opened EXCEPT !.open = FALSE] ELSE Opened)
        BY <3>2 DEF DataClashes
      <4> QED
        BY <3>1, <4>1
    <3>3. CASE DataConfigured
      BY <3>1, <3>3 DEF DataConfigured
    <3> QED
      BY <1>1, <3>2, <3>3
  <2>2. /\ DOMAIN handle' = DOMAIN handle \cup {Handle} /\ handle'[Handle] = db
        /\ \A h \in DOMAIN handle \ {Handle} : handle'[h] = handle[h]
    BY <2>1 DEF Holding
  <2> QED
    BY <1>1, <2>1, <2>2, NewHandle
<1>2. CASE handle' = handle
  BY <1>2
<1>3. CASE StopData
  <2>1. PICK k : handle' = [handle EXCEPT ![k].open = FALSE] \/ handle' = handle
    BY <1>3 DEF StopData
  <2>2. CASE handle' = [handle EXCEPT ![k].open = FALSE]
    <3>1. DOMAIN handle' = DOMAIN handle /\ \A h \in DOMAIN handle :
            handle'[h] = IF h = k THEN [handle[h] EXCEPT !.open = FALSE] ELSE handle[h]
      BY <2>2
    <3>2. \A h \in DOMAIN handle : handle'[h].dsn = handle[h].dsn /\ handle'[h].limit = handle[h].limit
      BY <3>1 DEF IInv, Numbered
    <3>3. ~(DataClashes \/ DataConfigured)
      BY <1>3 DEF DataClashes, DataConfigured, At, StopData, Turn, Stopping
    <3> QED
      BY <3>1, <3>2
  <2> QED
    BY <1>2, <2>1, <2>2
<1>4. CASE Main /\ ~(DataClashes \/ DataConfigured \/ StopData)
  BY <1>2, <1>4 DEF Main, LoadConfig, Apply, Retry, ConfigureWeb, ConfigureActuator, ConfigureUser, DataRefuses,
     ConfigureDone, StartData, StartWeb, StartUser, StartDone, StopEnter, StopListening, StopWeb, StopUser,
     StopDone, world
<1> QED
  BY <1>1, <1>2, <1>3, <1>4, RequestsLeave DEF Next

\* Names and the handle they stand for are registered by Configure and Apply.
LEMMA RegisteredStep == ASSUME IInv, Registered, [Next]_vars PROVE Registered'
<1>0. External \in DOMAIN handle
  BY DEF IInv, Kept, Alive
<1>a. None # External /\ None \notin Nat
  BY StackAssumption DEF StackAssumption, External
<1>1. CASE UNCHANGED <<names, dbService>>
  BY <1>1, HandlesStay DEF Registered
<1>2. CASE DataClashes \/ DataConfigured
  BY <1>2, <1>a, DataRegisters, HandlesStay DEF Registered
<1>3. CASE Apply
  <2>1. \/ UNCHANGED <<names, dbService>>
        \/ \E n : /\ n \notin names /\ names' = names \cup {n}
                  /\ dbService' = IF n = "data.db" THEN External ELSE dbService
    BY <1>3 DEF Apply
  <2> QED
    BY <1>0, <1>1, <1>a, <2>1, HandlesStay DEF Registered
<1>4. CASE ConfigureWeb
  BY <1>4, HandlesStay DEF ConfigureWeb, Registered
<1>5. CASE ConfigureActuator("health", "actuator.health")
  BY <1>5, HandlesStay DEF ConfigureActuator, Registered
<1>6. CASE ConfigureActuator("info", "actuator.info")
  BY <1>6, HandlesStay DEF ConfigureActuator, Registered
<1>7. CASE LoadConfig \/ Retry \/ ConfigureUser \/ DataRefuses \/ ConfigureDone
           \/ StartData \/ StartWeb \/ StartUser \/ StartDone
           \/ StopEnter \/ StopData \/ StopListening \/ StopWeb \/ StopUser \/ StopDone
  BY <1>1, <1>7 DEF LoadConfig, Retry, ConfigureUser, DataRefuses, ConfigureDone, StartData, StartWeb, StartUser,
     StartDone, StopEnter, StopData, StopListening, StopWeb, StopUser, StopDone, OfStop, service
<1>8. CASE (\E w \in Workers : Serve(w)) \/ LoseServer \/ ServerReturns \/ UNCHANGED vars
  BY <1>1, <1>8, RequestsLeave DEF service
<1> QED
  BY <1>2, <1>3, <1>4, <1>5, <1>6, <1>7, <1>8 DEF Next, Main

\* What Bind has set when it succeeds.
LEMMA BoundIs ==
  ASSUME Bound.ok, NEW f \in Range(Fields)
  PROVE  Setting(f) = Raw(cfg, f) /\ Setting(f) \in Parses[f]
<1> DEFINE Parsed(n) == \A j \in 1..n : Raw(cfg, Fields[j]) \in Parses[Fields[j]]
           i == CHOOSE x \in DOMAIN Fields : Fields[x] = f
<1>1. DOMAIN Fields = 1..Len(Fields) /\ Len(Fields) \in Nat
  BY SettingsAssumption, LenProperties DEF SettingsAssumption
<1>2. i \in DOMAIN Fields /\ Fields[i] = f
  BY DEF Range
<1>3. Bound.ok = Parsed(Len(Fields)) /\ Bound.target[f] = IF Parsed(i) THEN Raw(cfg, f) ELSE module.settings[f]
  BY DEF Bound, Bind
<1> HIDE DEF i
<1>4. Parsed(Len(Fields)) /\ Parsed(i)
  <2>1. Parsed(Len(Fields))
    <3> HIDE DEF Parsed
    <3> QED
      BY <1>3
  <2>2. \A j \in 1..i : j \in 1..Len(Fields)
    BY <1>1, <1>2
  <2> QED
    BY <2>1, <2>2
<1>5. Raw(cfg, f) \in Parses[f]
  BY <1>1, <1>2, <1>4
<1> HIDE DEF Parsed
<1> QED
  BY <1>3, <1>4, <1>5 DEF Setting

\* A pool's limit stays a natural number.
LEMMA PoolNat == ASSUME ~Refuses, NEW l \in Nat PROVE Pool(l) \in Nat
<1>1. Conns \in Range(Fields) /\ \A v \in Parses[Conns] : Number[v] \in Int
  BY StackAssumption DEF StackAssumption
<1>2. Number[Setting(Conns)] \in Int
  BY <1>1, BoundIs DEF Refuses
<1> HIDE DEF Conns
<1> QED
  BY <1>2 DEF Pool

\* No pool lends more connections than it has.
Lent ==
  \A h \in DOMAIN handle :
    /\ handle[h].limit \in Nat
    /\ handle[h].limit > 0 => Cardinality(InUse(h)) <= handle[h].limit

\* The lent connections can be counted, and fewer are lent where none is added.
LEMMA UseFinite ==
  ASSUME NEW h
  PROVE  /\ IsFiniteSet(InUse(h)) /\ Cardinality(InUse(h)) \in Nat
         /\ InUse(h)' \subseteq InUse(h) =>
              Cardinality(InUse(h))' \in Nat /\ Cardinality(InUse(h))' <= Cardinality(InUse(h))
<1>1. IsFiniteSet(1..MaxDepth) /\ IsFiniteSet(Workers)
  BY FS_Interval, StackAssumption DEF StackAssumption
<1>2. IsFiniteSet(Workers \X (1..MaxDepth))
  BY <1>1, FS_Product
<1>3. InUse(h) \in SUBSET (Workers \X (1..MaxDepth)) /\ InUse(h)' \in SUBSET (Workers \X (1..MaxDepth))
  BY DEF InUse
<1>4. IsFiniteSet(InUse(h)) /\ IsFiniteSet(InUse(h)')
  BY <1>2, <1>3, FS_Subset
<1>5. InUse(h)' \subseteq InUse(h) => Cardinality(InUse(h)') <= Cardinality(InUse(h))
  BY <1>4, FS_Subset
<1> QED
  BY <1>4, <1>5, FS_CardinalityType

\* A request that opens no transaction borrows no connection.
LEMMA NoMoreUse ==
  ASSUME RInv, NEW w \in Workers, NEW q, req' = [req EXCEPT ![w] = q], NEW h,
         \A d \in 1..MaxDepth : q.tx[d] = "open" => req[w].tx[d] = "open" /\ q.db = req[w].db
  PROVE  InUse(h)' \subseteq InUse(h)
<1>1. req'[w] = q /\ \A v \in Workers \ {w} : req'[v] = req[v]
  BY DEF RInv
<1> QED
  BY <1>1 DEF InUse, Open

\* Of the steps of a request only BeginTx borrows a connection.
LEMMA UseShrinks ==
  ASSUME RInv, NEW w \in Workers, NEW h,
         Arrive(w) \/ GetDB(w) \/ RunFn(w) \/ Rollback(w) \/ Commit(w) \/ Ask(w) \/ Answer(w) \/ Cancel(w)
  PROVE  InUse(h)' \subseteq InUse(h)
<1> DEFINE r == req[w]
<1>1. Answered(r) /\ DOMAIN r = Parts
  BY DEF RInv, Answered
<1>2. SUFFICES \E q : /\ req' = [req EXCEPT ![w] = q]
                      /\ \A d \in 1..MaxDepth : q.tx[d] = "open" => r.tx[d] = "open" /\ q.db = r.db
  BY NoMoreUse
<1> HIDE DEF r
<1>3. CASE Arrive(w)
  <2>1. ASSUME NEW at, NEW todo, NEW q,
               q = [NewRequest EXCEPT !.at = at] \/ q = [NewRequest EXCEPT !.at = at, !.todo = todo]
        PROVE  \A d \in 1..MaxDepth : q.tx[d] # "open"
    BY <2>1, New DEF Parts
  <2>2. CASE req' = [req EXCEPT ![w] = [NewRequest EXCEPT !.at = "get"]]
    BY <2>1, <2>2
  <2>3. ASSUME NEW probe, req' = [req EXCEPT ![w] = [NewRequest EXCEPT !.at = "probe", !.todo = Asked(probe)]]
        PROVE  \E q : req' = [req EXCEPT ![w] = q] /\ \A d \in 1..MaxDepth : q.tx[d] # "open"
    BY <2>1, <2>3
  <2> QED
    BY <1>3, <2>2, <2>3 DEF Arrive, Set
<1>4. CASE GetDB(w)
  <2>1. r.at = "get" /\ \A d \in 1..MaxDepth : r.tx[d] # "open"
    BY <1>1, <1>4 DEF GetDB, Answered, Nested, Going, r
  <2>2. PICK q : req' = [req EXCEPT ![w] = q] /\ q.tx = r.tx
    <3>1. [r EXCEPT !.at = "idle"].tx = r.tx /\ [r EXCEPT !.at = "begin", !.db = dbService, !.depth = 1].tx = r.tx
      BY <1>1 DEF Parts
    <3> QED
      BY <1>4, <3>1 DEF GetDB, Set, r
  <2> QED
    BY <2>1, <2>2
<1>5. CASE RunFn(w)
  <2>1. ASSUME NEW fn PROVE [r EXCEPT !.at = "end", !.fn = fn].tx = r.tx /\ [r EXCEPT !.at = "end", !.fn = fn].db = r.db
    BY <1>1 DEF Parts
  <2>2. [r EXCEPT !.at = "begin", !.depth = @ + 1].tx = r.tx /\ [r EXCEPT !.at = "begin", !.depth = @ + 1].db = r.db
    BY <1>1 DEF Parts
  <2>3. ASSUME NEW fn, req' = [req EXCEPT ![w] = [r EXCEPT !.at = "end", !.fn = fn]]
        PROVE  \E q : req' = [req EXCEPT ![w] = q] /\ q.tx = r.tx /\ q.db = r.db
    BY <2>1, <2>3
  <2>4. CASE req' = [req EXCEPT ![w] = [r EXCEPT !.at = "begin", !.depth = @ + 1]]
    BY <2>2, <2>4
  <2> QED
    BY <1>5, <2>3, <2>4 DEF RunFn, Set, r
<1>6. CASE Rollback(w) \/ Commit(w)
  <2>1. PICK f, x, b : req' = [req EXCEPT ![w] = Returned(Ended(r), f, x, b)]
    <3>1. CASE Rollback(w)
      BY <3>1 DEF Rollback, Set, r
    <3>2. CASE Commit(w)
      <4>1. PICK x \in {"nil", "error"}, b \in BOOLEAN :
              req' = [req EXCEPT ![w] = Returned(Ended(r), "ok", x, b)]
        BY <3>2 DEF Commit, Set, r
      <4> QED
        BY <4>1
    <3> QED
      BY <1>6, <3>1, <3>2
  <2> DEFINE q == Returned(Ended(r), f, x, b)
  <2>2. q.tx = Ended(r).tx /\ q.db = Ended(r).db
    BY <1>1, EndedParts DEF Returned, Parts
  <2>3. Ended(r).tx = [r.tx EXCEPT ![r.depth] = "none"] /\ Ended(r).db = r.db
    BY <1>1, EndedParts DEF Parts
  <2>4. \A d \in 1..MaxDepth : q.tx[d] = "open" => r.tx[d] = "open"
    BY <1>1, <2>2, <2>3 DEF Answered
  <2> QED
    BY <2>1, <2>2, <2>3, <2>4
<1>7. CASE Ask(w) \/ Answer(w)
  <2>1. PICK q : req' = [req EXCEPT ![w] = q] /\ q.tx = r.tx /\ q.db = r.db
    <3>1. ASSUME NEW status
          PROVE  LET q == [r EXCEPT !.todo = Tail(@), !.seen = @ \cup {status}, !.overall = Worse(@, status)]
                 IN  q.tx = r.tx /\ q.db = r.db
      BY <1>1 DEF Parts
    <3>2. ASSUME NEW told
          PROVE  /\ [r EXCEPT !.at = "idle", !.told = told].tx = r.tx
                 /\ [r EXCEPT !.at = "idle", !.told = told].db = r.db
      BY <1>1 DEF Parts
    <3>3. CASE Ask(w)
      BY <3>1, <3>3 DEF Ask, Set, r
    <3>4. CASE Answer(w)
      <4> DEFINE told == [of |-> "probe", code |-> IF r.overall = "DOWN" THEN 503 ELSE 200]
      <4>1. req' = [req EXCEPT ![w] = [r EXCEPT !.at = "idle", !.told = told]]
        BY <3>4 DEF Answer, Set, r
      <4> HIDE DEF told
      <4> QED
        BY <3>2, <4>1
    <3> QED
      BY <1>7, <3>3, <3>4
  <2> QED
    BY <2>1
<1>8. CASE Cancel(w)
  <2> DEFINE tx == [d \in 1..MaxDepth |-> IF d \in Open(w) THEN "over" ELSE r.tx[d]]
             q == [r EXCEPT !.gone = TRUE, !.tx = tx]
  <2>1. req' = [req EXCEPT ![w] = q]
    BY <1>8 DEF Cancel, Set, r
  <2>2. q.tx = tx /\ \A d \in 1..MaxDepth : tx[d] # "open"
    BY <1>1 DEF Parts, Open, r
  <2> QED
    BY <2>1, <2>2
<1> QED
  BY <1>3, <1>4, <1>5, <1>6, <1>7, <1>8

\* BeginTx borrows one, if it is to be had.
LEMMA BeginUses ==
  ASSUME RInv, NEW w \in Workers, Begin(w), NEW h
  PROVE  \/ InUse(h)' \subseteq InUse(h)
         \/ HasConn(h) /\ \E t : InUse(h)' \subseteq InUse(h) \cup {t}
<1> DEFINE r == req[w]
<1>1. Answered(r) /\ DOMAIN r = Parts
  BY DEF RInv, Answered
<1> HIDE DEF r
<1>2. CASE req' = [req EXCEPT ![w] = Returned(r, "none", "error", FALSE)]
  <2> DEFINE q == Returned(r, "none", "error", FALSE)
  <2>1. q.tx = r.tx /\ q.db = r.db
    BY <1>1 DEF Returned, Parts
  <2> HIDE DEF q
  <2>2. req' = [req EXCEPT ![w] = q]
    BY <1>2 DEF q
  <2>3. InUse(h)' \subseteq InUse(h)
    BY <2>1, <2>2, NoMoreUse DEF r
  <2> QED
    BY <2>3
<1>3. CASE HasConn(r.db) /\ req' = [req EXCEPT ![w] = [r EXCEPT !.at = "fn", !.tx[r.depth] = "open"]]
  <2> DEFINE q == [r EXCEPT !.at = "fn", !.tx[r.depth] = "open"]
  <2>1. q.tx = [r.tx EXCEPT ![r.depth] = "open"] /\ q.db = r.db
    BY <1>1 DEF Parts
  <2>2. req'[w] = q /\ \A v \in Workers \ {w} : req'[v] = req[v]
    BY <1>3 DEF RInv
  <2> HIDE DEF q
  <2>3. ASSUME NEW t \in InUse(h)', t \notin InUse(h) PROVE t = <<w, r.depth>> /\ h = r.db
    <3>1. t \in Workers \X (1..MaxDepth) /\ req'[t[1]].db = h /\ t[2] \in 1..MaxDepth /\ req'[t[1]].tx[t[2]] = "open"
      BY <2>3 DEF InUse, Open
    <3>2. t[1] = w
      BY <2>2, <2>3, <3>1 DEF InUse, Open
    <3>3. t[2] = r.depth
      BY <1>1, <2>1, <2>2, <2>3, <3>1, <3>2 DEF InUse, Open, Answered, r
    <3> QED
      BY <2>1, <2>2, <3>1, <3>2, <3>3
  <2>4. CASE h = r.db
    BY <1>3, <2>3, <2>4
  <2>5. CASE h # r.db
    BY <2>3, <2>5
  <2> QED
    BY <2>4, <2>5
<1> QED
  BY <1>2, <1>3 DEF Begin, Set, r

\* No request borrows beyond the limit.
LEMMA LentServed == ASSUME IInv, RInv, Lent, NEW w \in Workers, Serve(w) PROVE Lent'
<1>1. handle' = handle
  BY RequestsLeave
<1> SUFFICES ASSUME NEW h \in DOMAIN handle, handle[h].limit > 0
             PROVE  Cardinality(InUse(h))' <= handle[h].limit
  BY <1>1 DEF Lent
<1>2. handle[h].limit \in Nat /\ Cardinality(InUse(h)) <= handle[h].limit
  BY DEF Lent
<1>3. CASE InUse(h)' \subseteq InUse(h)
  BY <1>2, <1>3, UseFinite
<1>4. CASE Begin(w) /\ ~(InUse(h)' \subseteq InUse(h))
  <2>1. Cardinality(InUse(h)) < handle[h].limit
    BY <1>2, <1>4, BeginUses DEF HasConn
  <2>2. PICK t : InUse(h)' \subseteq InUse(h) \cup {t}
    BY <1>4, BeginUses
  <2>3. IsFiniteSet(InUse(h)) /\ Cardinality(InUse(h)) \in Nat
    BY UseFinite
  <2>4. IsFiniteSet(InUse(h) \cup {t}) /\ Cardinality(InUse(h) \cup {t}) <= Cardinality(InUse(h)) + 1
    <3>1. Cardinality(InUse(h) \cup {t}) = IF t \in InUse(h) THEN Cardinality(InUse(h)) ELSE Cardinality(InUse(h)) + 1
      BY <2>3, FS_AddElement
    <3> QED
      BY <2>3, <3>1, FS_AddElement
  <2>5. Cardinality(InUse(h)') <= Cardinality(InUse(h) \cup {t})
    BY <2>2, <2>4, FS_Subset
  <2>6. Cardinality(InUse(h)') \in Nat /\ Cardinality(InUse(h) \cup {t}) \in Nat
    BY <2>2, <2>4, FS_Subset, FS_CardinalityType
  <2> QED
    BY <1>2, <2>1, <2>3, <2>4, <2>5, <2>6
<1> QED
  BY <1>3, <1>4, UseShrinks DEF Serve

\* Limits change only while nobody is served, and stay natural numbers.
LEMMA LentStep == ASSUME IInv, RInv, Early, Lent, [Next]_vars PROVE Lent'
<1>1. ASSUME \A h : InUse(h)' \subseteq InUse(h), ~(DataClashes \/ DataConfigured) PROVE Lent'
  <2>1. DOMAIN handle' = DOMAIN handle /\ \A h \in DOMAIN handle : handle'[h].limit = handle[h].limit
    BY <1>1, HandlesStay
  <2> SUFFICES ASSUME NEW h \in DOMAIN handle
               PROVE  /\ handle'[h].limit \in Nat
                      /\ handle'[h].limit > 0 => Cardinality(InUse(h))' <= handle'[h].limit
    BY <2>1 DEF Lent
  <2>2. handle'[h].limit = handle[h].limit /\ handle[h].limit \in Nat
        /\ (handle[h].limit > 0 => Cardinality(InUse(h)) <= handle[h].limit)
    BY <2>1 DEF Lent
  <2> QED
    BY <1>1, <2>2, UseFinite
<1>2. CASE DataClashes \/ DataConfigured
  <2>1. \A w \in Workers : req[w].at = "idle"
    BY <1>2 DEF Early, Unserved, DataClashes, DataConfigured, At
  <2>2. req' = req
    BY <1>2, MainLeaves DEF Main
  <2>3. \A h : InUse(h)' = {}
    BY <2>1, <2>2 DEF InUse, Open, RInv, Answered, Nested, Going
  <2>4. ~Refuses
    BY <1>2 DEF DataClashes, DataConfigured
  <2>5. \A h \in DOMAIN handle' : handle'[h].limit \in Nat
    <3>1. Opened.limit \in Nat
      <4>1. CASE Created
        <5>1. Opened.limit = Pool(0)
          BY <4>1 DEF Opened
        <5> QED
          BY <2>4, <5>1, PoolNat
      <4>2. CASE ~Created
        <5>1. Opened = [handle[Handle] EXCEPT !.limit = Pool(handle[Handle].limit)]
          BY <4>2 DEF Opened
        <5>2. handle[Handle] = [dsn |-> handle[Handle].dsn, open |-> handle[Handle].open, limit |-> handle[Handle].limit]
              /\ handle[Handle].limit \in Nat
          BY <4>2, NewHandle DEF IInv, Numbered, Lent
        <5>3. Opened = [dsn |-> handle[Handle].dsn, open |-> handle[Handle].open, limit |-> Pool(handle[Handle].limit)]
          BY <5>1, <5>2, Limited
        <5> QED
          BY <2>4, <5>2, <5>3, PoolNat
      <4> QED
        BY <4>1, <4>2
    <3>2. PICK db : handle' = Holding(db) /\ db.limit \in Nat
      <4>1. CASE DataConfigured
        BY <3>1, <4>1 DEF DataConfigured
      <4>2. CASE DataClashes /\ ~Created
        BY <3>1, <4>2 DEF DataClashes
      <4>3. CASE DataClashes /\ Created
        <5>1. Opened = [dsn |-> Setting(Dsn), open |-> TRUE, limit |-> Pool(0)]
          BY <4>3 DEF Opened
        <5>2. [Opened EXCEPT !.open = FALSE].limit = Opened.limit
          BY <5>1
        <5> QED
          BY <3>1, <4>3, <5>2 DEF DataClashes
      <4> QED
        BY <1>2, <4>1, <4>2, <4>3
    <3>3. DOMAIN handle' = DOMAIN handle \cup {Handle} /\ handle'[Handle] = db
          /\ \A h \in DOMAIN handle \ {Handle} : handle'[h] = handle[h]
      BY <3>2 DEF Holding
    <3> QED
      BY <3>2, <3>3 DEF Lent
  <2>6. \A h : Cardinality(InUse(h))' = 0
    BY <2>3, FS_EmptySet
  <2> QED
    BY <2>5, <2>6 DEF Lent
<1>3. CASE Main /\ ~(DataClashes \/ DataConfigured)
  <2>1. \A h : InUse(h)' = InUse(h)
    BY <1>3, MainLeaves DEF InUse, Open
  <2> QED
    BY <1>1, <1>3, <2>1
<1>4. CASE LoseServer
  <2>1. req' = [w \in Workers |-> [req[w] EXCEPT !.tx = [d \in 1..MaxDepth |-> IF d \in Open(w) THEN "over" ELSE @[d]]]]
    BY <1>4 DEF LoseServer
  <2>2. \A w \in Workers : DOMAIN req[w] = Parts
    BY DEF RInv, Answered
  <2>3. \A w \in Workers : \A d \in 1..MaxDepth : req'[w].tx[d] # "open"
    BY <2>1, <2>2 DEF Open, Parts
  <2>4. \A h : InUse(h)' = {}
    BY <2>3 DEF InUse, Open
  <2>5. ~(DataClashes \/ DataConfigured)
    BY <1>4 DEF DataClashes, DataConfigured, OfMain, LoseServer, request
  <2> QED
    BY <1>1, <2>4, <2>5
<1>5. CASE ServerReturns \/ UNCHANGED vars
  <2>1. req' = req /\ handle' = handle
    BY <1>5 DEF ServerReturns, vars, request, world
  <2>2. \A h : InUse(h)' = InUse(h)
    BY <2>1 DEF InUse, Open
  <2> QED
    BY <2>1, <2>2 DEF Lent
<1> QED
  BY <1>2, <1>3, <1>4, <1>5, LentServed DEF Next

\* The hooks that run are the first ones.
Prefix ==
  /\ \A i \in DOMAIN running : i \in DOMAIN hooks /\ running[i] = hooks[i]
  /\ pc = "hooks" => Len(running) = pos - 1
  /\ pc = "up" => Len(running) = Len(hooks)
  /\ pc \in {"load", "apply", "configure", "failed", "down"} => running = <<>>

\* Start appends the next hook, and Stop takes the last away.
LEMMA PrefixMain == ASSUME IInv, Prefix, Main PROVE Prefix'
<1>0. DOMAIN hooks = 1..Len(hooks) /\ Len(hooks) \in Nat /\ DOMAIN running = 1..Len(running) /\ Len(running) \in Nat
      /\ hooks \in Seq(HookEntry) /\ running \in Seq(HookEntry) /\ pos \in Nat \ {0}
      /\ Len(<<>>) = 0
  BY LenProperties DEF IInv, Entries
<1>1. CASE LoadConfig \/ Apply \/ Retry \/ ConfigureDone
  <2>1. pc \in {"load", "apply", "configure", "failed", "down"} /\ UNCHANGED <<hooks, running>>
    BY <1>1 DEF LoadConfig, Apply, Retry, ConfigureDone, service
  <2>2. pc' # "up" /\ (pc' = "hooks" => pos' = 1)
    <3>1. CASE LoadConfig
      BY <3>1 DEF LoadConfig, GoTo
    <3>2. CASE Apply
      BY <3>2 DEF Apply, GoTo
    <3>3. CASE Retry \/ ConfigureDone
      BY <3>3 DEF Retry, ConfigureDone, GoTo
    <3> QED
      BY <1>1, <3>1, <3>2, <3>3
  <2>3. running = <<>>
    BY <2>1 DEF Prefix
  <2> QED
    BY <1>0, <2>1, <2>2, <2>3 DEF Prefix
<1>2. CASE ConfigureWeb \/ ConfigureUser \/ DataRefuses \/ DataClashes \/ DataConfigured
           \/ ConfigureActuator("health", "actuator.health") \/ ConfigureActuator("info", "actuator.info")
  <2>1. pc = "configure" /\ running' = running /\ pc' \in {"configure", "failed"}
    BY <1>2 DEF ConfigureWeb, ConfigureUser, DataRefuses, DataClashes, DataConfigured, ConfigureActuator, At,
                ModuleReturns, ModuleFails, GoTo
  <2>2. running = <<>>
    BY <2>1 DEF Prefix
  <2> QED
    BY <1>0, <2>1, <2>2 DEF Prefix
<1>3. CASE StartData \/ StartWeb \/ StartUser
  <2>1. pc = "hooks" /\ pos <= Len(hooks) /\ hooks' = hooks /\ (HookStarted \/ HookFails)
    BY <1>3 DEF StartData, StartWeb, StartUser, Hook, service
  <2>2. CASE HookStarted
    <3>1. running' = Append(running, hooks[pos]) /\ pos' = pos + 1 /\ pc' = "hooks" /\ Len(running) = pos - 1
      BY <2>1, <2>2 DEF HookStarted, Prefix
    <3>2. /\ Len(running') = pos /\ DOMAIN running' = 1..pos
          /\ \A i \in 1..pos : running'[i] = IF i = pos THEN hooks[pos] ELSE running[i]
      <4>1. hooks[pos] \in HookEntry
        BY <1>0, <2>1
      <4> QED
        BY <1>0, <3>1, <4>1, AppendProperties, LenProperties
    <3>3. \A i \in 1..pos : i \in DOMAIN hooks /\ running'[i] = hooks[i]
      BY <1>0, <2>1, <3>1, <3>2 DEF Prefix
    <3> QED
      BY <1>0, <2>1, <3>1, <3>2, <3>3 DEF Prefix
  <2>3. CASE HookFails
    BY <2>1, <2>3 DEF Prefix, HookFails, GoTo
  <2> QED
    BY <2>1, <2>2, <2>3
<1>4. CASE StartDone
  <2>1. Len(running) = pos - 1 /\ pos > Len(hooks) /\ UNCHANGED <<hooks, running>> /\ pc' = "up"
    BY <1>4 DEF StartDone, GoTo, Prefix, service
  <2>2. Len(running) <= Len(hooks)
    <3>1. CASE Len(running) = 0
      BY <1>0, <3>1
    <3>2. CASE Len(running) # 0
      <4>1. Len(running) \in DOMAIN running
        BY <1>0, <3>2
      <4>2. Len(running) \in DOMAIN hooks
        BY <4>1 DEF Prefix
      <4> QED
        BY <1>0, <4>2
    <3> QED
      BY <3>1, <3>2
  <2> QED
    BY <1>0, <2>1, <2>2 DEF Prefix
<1>5. CASE StopEnter \/ StopDone
  BY <1>0, <1>5 DEF Prefix, StopEnter, StopDone, Stopping, GoTo, service
<1>6. CASE StopListening
  BY <1>6 DEF Prefix, StopListening, Turn, Stopping, OfStop, service
<1>7. CASE StopData \/ StopWeb \/ StopUser
  <2>1. HookStopped /\ running # <<>> /\ UNCHANGED <<hooks, pc>> /\ pc \in {"rollback", "stopping"}
    BY <1>7 DEF StopData, StopWeb, StopUser, Turn, Stopping, OfStop, service
  <2>2. DOMAIN running' = 1..(Len(running) - 1) /\ \A i \in 1..(Len(running) - 1) : running'[i] = running[i]
    BY <1>0, <2>1, RemoveLast DEF HookStopped, StopsNext
  <2>3. \A i \in 1..(Len(running) - 1) : i \in DOMAIN running
    BY <1>0
  <2> QED
    BY <2>1, <2>2, <2>3 DEF Prefix
<1> QED
  BY <1>1, <1>2, <1>3, <1>4, <1>5, <1>6, <1>7 DEF Main

\* No other step touches the hooks.
LEMMA PrefixStep == ASSUME IInv, Prefix, [Next]_vars PROVE Prefix'
<1>1. CASE (\E w \in Workers : Serve(w)) \/ LoseServer \/ ServerReturns \/ UNCHANGED vars
  BY <1>1, RequestsLeave DEF Prefix, main, service
<1> QED
  BY <1>1, PrefixMain DEF Next

\* What the requests count.
Counted ==
  /\ arrived \in 0..MaxRequests /\ dbUp \in BOOLEAN
  /\ \A w \in Workers : req[w].overall \in {"UP", "DOWN", "UNKNOWN"}

\* aggregate knows three statuses.
LEMMA OverallKept ==
  ASSUME RInv, NEW w \in Workers, req[w].overall \in {"UP", "DOWN", "UNKNOWN"}, Serve(w)
  PROVE  req'[w].overall \in {"UP", "DOWN", "UNKNOWN"}
<1> DEFINE r == req[w]
           Status == {"UP", "DOWN", "UNKNOWN"}
<1>1. DOMAIN r = Parts /\ r.overall \in Status
  BY DEF RInv, Answered
<1>2. SUFFICES \E q : req' = [req EXCEPT ![w] = q] /\ q.overall \in Status
  BY DEF RInv
<1> HIDE DEF r
<1>3. CASE Arrive(w)
  <2>1. ASSUME NEW at, NEW todo
        PROVE  /\ [NewRequest EXCEPT !.at = at].overall = "UP"
               /\ [NewRequest EXCEPT !.at = at, !.todo = todo].overall = "UP"
    BY New DEF Parts
  <2>2. CASE req' = [req EXCEPT ![w] = [NewRequest EXCEPT !.at = "get"]]
    BY <2>1, <2>2
  <2>3. ASSUME NEW probe, req' = [req EXCEPT ![w] = [NewRequest EXCEPT !.at = "probe", !.todo = Asked(probe)]]
        PROVE  \E q : req' = [req EXCEPT ![w] = q] /\ q.overall \in Status
    <3> DEFINE q == [NewRequest EXCEPT !.at = "probe", !.todo = Asked(probe)]
    <3>1. q.overall = "UP"
      BY <2>1
    <3> HIDE DEF q
    <3>2. req' = [req EXCEPT ![w] = q]
      BY <2>3 DEF q
    <3> QED
      BY <3>1, <3>2
  <2> QED
    BY <1>3, <2>2, <2>3 DEF Arrive, Set
<1>4. CASE GetDB(w)
  <2>1. [r EXCEPT !.at = "idle"].overall = r.overall
        /\ [r EXCEPT !.at = "begin", !.db = dbService, !.depth = 1].overall = r.overall
    BY <1>1 DEF Parts
  <2> QED
    BY <1>1, <1>4, <2>1 DEF GetDB, Set, r
<1>5. ASSUME NEW q, DOMAIN q = Parts, NEW f, NEW x, NEW b PROVE Returned(q, f, x, b).overall = q.overall
  BY <1>5 DEF Returned, Parts
<1>6. CASE Begin(w)
  <2>1. [r EXCEPT !.at = "fn", !.tx[r.depth] = "open"].overall = r.overall
    BY <1>1 DEF Parts
  <2>2. CASE req' = [req EXCEPT ![w] = Returned(r, "none", "error", FALSE)]
    <3>1. Returned(r, "none", "error", FALSE).overall = r.overall
      BY <1>1 DEF Returned, Parts
    <3> QED
      BY <1>1, <2>2, <3>1
  <2>3. CASE req' = [req EXCEPT ![w] = [r EXCEPT !.at = "fn", !.tx[r.depth] = "open"]]
    BY <1>1, <2>1, <2>3
  <2> QED
    BY <1>6, <2>2, <2>3 DEF Begin, Set, r
<1>7. CASE RunFn(w)
  <2>1. ASSUME NEW fn, req' = [req EXCEPT ![w] = [r EXCEPT !.at = "end", !.fn = fn]]
        PROVE  \E q : req' = [req EXCEPT ![w] = q] /\ q.overall \in Status
    <3>1. [r EXCEPT !.at = "end", !.fn = fn].overall = r.overall
      BY <1>1 DEF Parts
    <3> QED
      BY <1>1, <2>1, <3>1
  <2>2. CASE req' = [req EXCEPT ![w] = [r EXCEPT !.at = "begin", !.depth = @ + 1]]
    <3>1. [r EXCEPT !.at = "begin", !.depth = @ + 1].overall = r.overall
      BY <1>1 DEF Parts
    <3> QED
      BY <1>1, <2>2, <3>1
  <2> QED
    BY <1>7, <2>1, <2>2 DEF RunFn, Set, r
<1>8. CASE Rollback(w) \/ Commit(w)
  <2>1. PICK f, x, b : req' = [req EXCEPT ![w] = Returned(Ended(r), f, x, b)]
    <3>1. CASE Rollback(w)
      BY <1>8, <3>1 DEF Rollback, Set, r
    <3>2. CASE Commit(w)
      <4>1. PICK x \in {"nil", "error"}, b \in BOOLEAN :
              req' = [req EXCEPT ![w] = Returned(Ended(r), "ok", x, b)]
        BY <3>2 DEF Commit, Set, r
      <4> QED
        BY <4>1
    <3> QED
      BY <1>8, <3>1, <3>2
  <2>2. DOMAIN Ended(r) = Parts /\ Ended(r).overall = r.overall
    BY <1>1, EndedParts DEF Parts
  <2>3. Returned(Ended(r), f, x, b).overall = r.overall
    BY <1>5, <2>2
  <2> QED
    BY <1>1, <2>1, <2>3
<1>9. CASE Ask(w)
  <2>1. PICK status \in Status :
          req' = [req EXCEPT ![w] = [r EXCEPT !.todo = Tail(@), !.seen = @ \cup {status}, !.overall = Worse(@, status)]]
    BY <1>9 DEF Ask, Set, r
  <2>2. [r EXCEPT !.todo = Tail(@), !.seen = @ \cup {status}, !.overall = Worse(@, status)].overall
          = Worse(r.overall, status)
    BY <1>1 DEF Parts
  <2>3. Worse(r.overall, status) \in Status
    BY <1>1 DEF Worse
  <2> QED
    BY <2>1, <2>2, <2>3
<1>10. CASE Answer(w)
  <2> DEFINE told == [of |-> "probe", code |-> IF r.overall = "DOWN" THEN 503 ELSE 200]
  <2>1. req' = [req EXCEPT ![w] = [r EXCEPT !.at = "idle", !.told = told]]
    BY <1>10 DEF Answer, Set, r
  <2> HIDE DEF told
  <2>2. [r EXCEPT !.at = "idle", !.told = told].overall = r.overall
    BY <1>1 DEF Parts
  <2> QED
    BY <1>1, <2>1, <2>2
<1>11. CASE Cancel(w)
  <2> DEFINE tx == [d \in 1..MaxDepth |-> IF d \in Open(w) THEN "over" ELSE r.tx[d]]
  <2>1. req' = [req EXCEPT ![w] = [r EXCEPT !.gone = TRUE, !.tx = tx]]
    BY <1>11 DEF Cancel, Set, r
  <2>2. [r EXCEPT !.gone = TRUE, !.tx = tx].overall = r.overall
    BY <1>1 DEF Parts
  <2> QED
    BY <1>1, <2>1, <2>2
<1> QED
  BY <1>3, <1>4, <1>6, <1>7, <1>8, <1>9, <1>10, <1>11 DEF Serve

\* Every step keeps the counts.
LEMMA CountedStep == ASSUME RInv, Counted, [Next]_vars PROVE Counted'
<1>1. CASE req' = req /\ arrived' = arrived /\ dbUp' \in BOOLEAN
  BY <1>1 DEF Counted
<1>2. CASE Main
  BY <1>1, <1>2, MainLeaves DEF Counted
<1>3. ASSUME NEW w \in Workers, Serve(w) PROVE Counted'
  <2>1. \A v \in Workers \ {w} : req'[v] = req[v]
    BY <1>3 DEF RInv, Serve, Arrive, GetDB, Begin, RunFn, Rollback, Commit, Ask, Answer, Cancel, Set
  <2>2. req'[w].overall \in {"UP", "DOWN", "UNKNOWN"}
    BY <1>3, OverallKept DEF Counted
  <2>3. dbUp' = dbUp /\ arrived' \in 0..MaxRequests
    <3>1. MaxRequests \in Nat
      BY StackAssumption DEF StackAssumption
    <3>2. CASE Arrive(w)
      BY <3>1, <3>2 DEF Counted, Arrive, world
    <3>3. CASE ~Arrive(w)
      BY <1>3, <3>3 DEF Counted, Serve, GetDB, Begin, RunFn, Rollback, Commit, Ask, Answer, Cancel, OfRequest, world
    <3> QED
      BY <3>2, <3>3
  <2> QED
    BY <2>1, <2>2, <2>3 DEF Counted
<1>4. CASE LoseServer
  <2>1. req' = [w \in Workers |-> [req[w] EXCEPT !.tx = [d \in 1..MaxDepth |-> IF d \in Open(w) THEN "over" ELSE @[d]]]]
        /\ arrived' = arrived /\ dbUp' = FALSE
    BY <1>4 DEF LoseServer
  <2>2. \A w \in Workers : DOMAIN req[w] = Parts
    BY DEF RInv, Answered
  <2> QED
    BY <2>1, <2>2 DEF Counted, Parts
<1>5. CASE ServerReturns \/ UNCHANGED vars
  BY <1>1, <1>5 DEF ServerReturns, vars, request, world, Counted
<1> QED
  BY <1>2, <1>3, <1>4, <1>5 DEF Next

TInv == IInv /\ RInv /\ Ranges /\ Early /\ Registered /\ Lent /\ Prefix /\ Counted

\* The invariant holds in the beginning.
LEMMA TypesInitial == Init => TInv
<1> SUFFICES ASSUME Init PROVE TInv
  OBVIOUS
<1>1. IInv /\ RInv
  BY Initial, RequestsInitial
<1>2. \A w \in Workers : req[w] = NewRequest
  BY DEF Init
<1>3. handle = [h \in {External} |-> [dsn |-> "external", open |-> TRUE, limit |-> 0]] /\ hooks = <<>> /\ running = <<>>
      /\ names = {} /\ dbService = None /\ pc = "load"
  BY DEF Init
<1>4. Ranges
  <2>1. MaxStarts \in Nat \ {0} /\ MaxFaults[app] \in Nat
    BY StackAssumption DEF StackAssumption, Init
  <2>2. attempts \in 1..MaxStarts /\ faults \in 0..MaxFaults[app]
    <3>1. attempts = 1 /\ faults = 0
      BY DEF Init
    <3> QED
      BY <2>1, <3>1
  <2>3. pc \in Places /\ {loaded, bound} \subseteq Disks[app] \cup {None}
    BY DEF Init, Places
  <2> QED
    BY <2>2, <2>3 DEF Init, Ranges
<1>5. Early
  BY <1>2, New DEF Init, Early, Unserved
<1>6. Registered /\ Prefix
  BY <1>3 DEF Registered, Prefix
<1>7. Lent
  BY <1>3 DEF Lent
<1>8. Counted
  <2>1. MaxRequests \in Nat
    BY StackAssumption DEF StackAssumption
  <2>2. arrived \in 0..MaxRequests /\ dbUp \in BOOLEAN
    <3>1. arrived = 0 /\ dbUp = TRUE
      BY DEF Init
    <3> QED
      BY <2>1, <3>1
  <2> QED
    BY <1>2, <2>2, New DEF Counted
<1> QED
  BY <1>1, <1>4, <1>5, <1>6, <1>7, <1>8 DEF TInv

\* Every step keeps it.
LEMMA TypesStep == TInv /\ [Next]_vars => TInv'
BY Step, RequestStep, RangesStep, EarlyStep, RegisteredStep, LentStep, PrefixStep, CountedStep DEF TInv

\* Every variable keeps its type; no pool lends more connections than its limit,
\* which is never negative.
THEOREM TypesHold == Spec => []TypeOK
<1>1. TInv => TypeOK
  <2> SUFFICES ASSUME TInv PROVE TypeOK
    OBVIOUS
  <2>1. pos \in Nat \ {0} /\ module.db \in DOMAIN handle \cup {None}
    BY DEF TInv, IInv, Entries, Numbered
  <2>2. \A w \in Workers : req[w].at \in {"idle", "get", "begin", "fn", "end", "probe"} /\ req[w].depth \in 0..MaxDepth
    BY DEF TInv, RInv, Answered, Nested
  <2>3. (dbService = None) = ("data.db" \notin names)
    BY DEF TInv, Registered
  <2> QED
    BY <2>1, <2>2, <2>3 DEF TInv, Ranges, Places, Registered, Lent, Prefix, Counted, TypeOK
<1> QED
  BY <1>1, TypesInitial, TypesStep, PTL DEF Spec
-----------------------------------------------------------------------------
(* A started application serves the database its files promise.               *)

\* What main has set was loaded from files it found.
IsConfig(c) == c = Load(loaded, app.env) /\ c # Broken /\ loaded \in Disks[app]
Config ==
  /\ cfg # None => IsConfig(cfg)
  /\ pc \in {"apply", "configure"} => IsConfig(cfg)

\* Only LoadConfig sets it, together with the files it comes from.
LEMMA ConfigStep == ASSUME Ranges, Config, [Next]_vars PROVE Config'
<1>1. CASE UNCHANGED <<app, cfg, loaded>> /\ (pc' \in {"apply", "configure"} => pc \in {"apply", "configure"})
  BY <1>1 DEF Config, IsConfig
<1>2. CASE LoadConfig
  <2>0. app' = app
    BY <1>2 DEF LoadConfig
  <2>1. CASE cfg' = Load(disk, app.env) /\ cfg' # Broken /\ loaded' = disk
    BY <2>0, <2>1 DEF Ranges, Config, IsConfig
  <2>2. CASE pc' = "failed" /\ UNCHANGED <<cfg, loaded>>
    BY <2>0, <2>2 DEF Config, IsConfig
  <2> QED
    BY <1>2, <2>1, <2>2 DEF LoadConfig, GoTo
<1>3. CASE Retry
  BY <1>3 DEF Config, IsConfig, Retry, GoTo
<1>4. CASE Main /\ ~LoadConfig /\ ~Retry
  <2>1. CASE Apply \/ ConfigureDone
    BY <1>1, <2>1 DEF Apply, ConfigureDone, GoTo, OfMain
  <2>2. CASE ConfigureWeb \/ ConfigureUser \/ DataRefuses \/ DataClashes \/ DataConfigured
             \/ ConfigureActuator("health", "actuator.health") \/ ConfigureActuator("info", "actuator.info")
    BY <1>1, <2>2 DEF ConfigureWeb, ConfigureUser, DataRefuses, DataClashes, DataConfigured, ConfigureActuator, At,
                      ModuleReturns, ModuleFails, GoTo, OfMain
  <2>3. CASE StartData \/ StartWeb \/ StartUser \/ StartDone \/ StopEnter \/ StopDone
    BY <1>1, <2>3 DEF StartData, StartWeb, StartUser, StartDone, StopEnter, StopDone, HookStarted, HookFails, Hook,
                      GoTo, OfMain
  <2>4. CASE StopData \/ StopListening \/ StopWeb \/ StopUser
    BY <1>1, <2>4 DEF StopData, StopListening, StopWeb, StopUser, OfStop, OfMain
  <2> QED
    BY <1>4, <2>1, <2>2, <2>3, <2>4 DEF Main
<1>5. CASE (\E w \in Workers : Serve(w)) \/ LoseServer \/ ServerReturns \/ UNCHANGED vars
  BY <1>1, <1>5, RequestsLeave DEF main
<1> QED
  BY <1>2, <1>3, <1>4, <1>5 DEF Next

\* The data module has at most one hook, for the handle that is registered.
OneData ==
  /\ \A i \in DOMAIN hooks : hooks[i].of = "data" =>
       /\ "data.db" \in names /\ hooks[i].db = dbService /\ dbService = module.db
       /\ \A j \in DOMAIN hooks : hooks[j].of = "data" => j = i
  /\ \A i \in DOMAIN hooks : hooks[i].of = "web" => "web.server" \in names
  /\ (\A i \in DOMAIN hooks : hooks[i].of # "data") => module.db = IF app.withDB THEN External ELSE None

\* Names are not taken back, and data.db keeps its meaning.
LEMMA NamesStay ==
  ASSUME IInv, [Next]_vars
  PROVE  names \subseteq names' /\ ("data.db" \in names => dbService' = dbService)
<1>1. CASE UNCHANGED <<names, dbService>>
  BY <1>1
<1>2. CASE DataClashes \/ DataConfigured
  <2>1. names \subseteq names'
    BY <1>2 DEF DataClashes, DataConfigured
  <2> QED
    BY <1>2, <2>1, DataRegisters
<1>3. CASE Apply
  BY <1>3 DEF Apply
<1>4. CASE ConfigureWeb
  BY <1>4 DEF ConfigureWeb
<1>5. CASE ConfigureActuator("health", "actuator.health") \/ ConfigureActuator("info", "actuator.info")
  BY <1>5 DEF ConfigureActuator
<1>6. CASE LoadConfig \/ Retry \/ ConfigureUser \/ DataRefuses \/ ConfigureDone
           \/ StartData \/ StartWeb \/ StartUser \/ StartDone
           \/ StopEnter \/ StopData \/ StopListening \/ StopWeb \/ StopUser \/ StopDone
  BY <1>1, <1>6 DEF LoadConfig, Retry, ConfigureUser, DataRefuses, ConfigureDone, StartData, StartWeb, StartUser,
     StartDone, StopEnter, StopData, StopListening, StopWeb, StopUser, StopDone, OfStop, service
<1>7. CASE (\E w \in Workers : Serve(w)) \/ LoseServer \/ ServerReturns \/ UNCHANGED vars
  BY <1>1, <1>7, RequestsLeave DEF service
<1> QED
  BY <1>2, <1>3, <1>4, <1>5, <1>6, <1>7 DEF Next, Main

\* The application is the same, and only the data module's Configure touches its fields.
LEMMA ModuleStays ==
  ASSUME [Next]_vars
  PROVE  /\ app' = app
         /\ ~(DataRefuses \/ DataClashes \/ DataConfigured) => UNCHANGED <<module, bound, guessed>>
         /\ ~(ConfigureWeb \/ ConfigureUser \/ DataConfigured) => hooks' = hooks
<1>1. CASE Apply \/ ConfigureWeb \/ ConfigureUser \/ DataRefuses \/ DataClashes \/ DataConfigured
  BY <1>1 DEF Apply, ConfigureWeb, ConfigureUser, DataRefuses, DataClashes, DataConfigured, OfMain
<1>2. CASE ConfigureActuator("health", "actuator.health") \/ ConfigureActuator("info", "actuator.info")
  BY <1>2 DEF ConfigureActuator, OfMain
<1>3. CASE LoadConfig \/ Retry \/ ConfigureDone \/ StartData \/ StartWeb \/ StartUser \/ StartDone
           \/ StopEnter \/ StopDone
  BY <1>3 DEF LoadConfig, Retry, ConfigureDone, StartData, StartWeb, StartUser, StartDone, StopEnter, StopDone,
              OfMain, service
<1>4. CASE StopData \/ StopListening \/ StopWeb \/ StopUser
  BY <1>4 DEF StopData, StopListening, StopWeb, StopUser, OfStop, OfMain, service
<1>5. CASE (\E w \in Workers : Serve(w)) \/ LoseServer \/ ServerReturns \/ UNCHANGED vars
  BY <1>5, RequestsLeave DEF main, service
<1> QED
  BY <1>1, <1>2, <1>3, <1>4, <1>5 DEF Next, Main

\* A hook is appended.
LEMMA HookAdded ==
  ASSUME IInv, NEW k \in HookEntry, hooks' = Append(hooks, k)
  PROVE  /\ DOMAIN hooks' = 1..(Len(hooks) + 1) /\ Len(hooks) \in Nat /\ DOMAIN hooks = 1..Len(hooks)
         /\ \A i \in DOMAIN hooks : hooks'[i] = hooks[i]
         /\ hooks'[Len(hooks) + 1] = k
BY AppendProperties, LenProperties DEF IInv, Entries

\* The name data.db, once taken, keeps the data module from a second hook.
LEMMA OneDataStep == ASSUME IInv, OneData, [Next]_vars PROVE OneData'
<1>0. app' = app
  BY ModuleStays
<1>1. ASSUME hooks' = hooks, module'.db = module.db PROVE OneData'
  BY <1>0, <1>1, NamesStay DEF OneData
<1>2. CASE ConfigureWeb /\ hooks' # hooks
  <2> DEFINE k == [of |-> "web"]
  <2>1. hooks' = Append(hooks, k) /\ "web.server" \in names' /\ module' = module
    BY <1>2 DEF ConfigureWeb
  <2>2. k \in HookEntry /\ k.of = "web"
    BY DEF HookEntry
  <2> HIDE DEF k
  <2>3. \A i \in DOMAIN hooks' : (i \in DOMAIN hooks /\ hooks'[i] = hooks[i]) \/ hooks'[i] = k
    BY <2>1, <2>2, HookAdded
  <2>4. \A i \in DOMAIN hooks : i \in DOMAIN hooks' /\ hooks'[i] = hooks[i]
    BY <2>1, <2>2, HookAdded
  <2> QED
    BY <1>0, <2>1, <2>2, <2>3, <2>4, NamesStay DEF OneData
<1>3. CASE ConfigureUser
  <2> DEFINE k == [of |-> "user"]
  <2>1. hooks' = Append(hooks, k) /\ module' = module
    BY <1>3 DEF ConfigureUser
  <2>2. k \in HookEntry /\ k.of = "user"
    BY DEF HookEntry
  <2> HIDE DEF k
  <2>3. \A i \in DOMAIN hooks' : (i \in DOMAIN hooks /\ hooks'[i] = hooks[i]) \/ hooks'[i] = k
    BY <2>1, <2>2, HookAdded
  <2>4. \A i \in DOMAIN hooks : i \in DOMAIN hooks' /\ hooks'[i] = hooks[i]
    BY <2>1, <2>2, HookAdded
  <2> QED
    BY <1>0, <2>1, <2>2, <2>3, <2>4, NamesStay DEF OneData
<1>4. CASE DataConfigured
  <2> DEFINE k == [of |-> "data", db |-> Handle, created |-> Created]
  <2>1. hooks' = Append(hooks, k) /\ module'.db = Handle /\ dbService' = Handle
        /\ "data.db" \notin names /\ "data.db" \in names'
    <3>1. "data.db" \in Range(Wanted)
      BY FirstWanted DEF Range
    <3> QED
      BY <1>4, <3>1 DEF DataConfigured, Remember
  <2>2. k.of = "data" /\ k.db = Handle /\ k \in HookEntry
    <3>1. Handle \in Nat /\ (Created => Handle # External) /\ Created \in BOOLEAN
      BY NewHandle DEF IInv, Numbered, Created
    <3> QED
      BY <3>1 DEF HookEntry
  <2>3. \A i \in DOMAIN hooks : hooks[i].of # "data"
    BY <2>1 DEF OneData
  <2> HIDE DEF k
  <2>4. \A i \in DOMAIN hooks' : i = Len(hooks) + 1 \/ (i \in DOMAIN hooks /\ hooks'[i] = hooks[i])
    BY <2>1, <2>2, HookAdded
  <2>5. Len(hooks) + 1 \in DOMAIN hooks' /\ hooks'[Len(hooks) + 1] = k
    BY <2>1, <2>2, HookAdded
  <2> QED
    BY <1>0, <2>1, <2>2, <2>3, <2>4, <2>5, NamesStay DEF OneData
<1>5. CASE DataRefuses \/ DataClashes
  BY <1>1, <1>5 DEF DataRefuses, DataClashes, Remember
<1> QED
  BY <1>1, <1>2, <1>3, <1>4, <1>5, ModuleStays

\* The dialect is the one of the driver it was detected from.
Detected == module.dialect # None => guessed \in DOMAIN DialectOf /\ module.dialect = DialectOf[guessed]

\* Only the data module's Configure detects one.
LEMMA DetectedStep == ASSUME Detected, [Next]_vars PROVE Detected'
<1>1. CASE UNCHANGED <<module, guessed>>
  BY <1>1 DEF Detected
<1>2. CASE DataRefuses \/ DataClashes \/ DataConfigured
  <2>1. PICK d : /\ module'.dialect = d /\ d = (IF Bound.ok THEN Dialect ELSE module.dialect)
                 /\ guessed' = IF d # module.dialect THEN Setting(Driver) ELSE guessed
    BY <1>2 DEF DataRefuses, DataClashes, DataConfigured, Remember
  <2>2. d = module.dialect \/ (Setting(Driver) \in DOMAIN DialectOf /\ d = DialectOf[Setting(Driver)])
    BY <2>1 DEF Dialect
  <2> QED
    BY <2>1, <2>2 DEF Detected
<1> QED
  BY <1>1, <1>2, ModuleStays

\* The modules that were configured, in this attempt or before.
Passed == {i \in DOMAIN app.order : configured \/ (pc = "configure" /\ i < pos)}

\* What the data module leaves when it was configured.
DataDone ==
  /\ "data.db" \in names /\ module.db = dbService
  /\ \E i \in DOMAIN hooks : hooks[i].of = "data"
  /\ \A f \in Range(Fields) : module.settings[f] = Promised(bound, app.env, f)
  /\ ~app.withDB => handle[dbService].dsn = Promised(bound, app.env, Dsn)

\* Each hook of the web server has one of the data module before it.
DataFirst == \A i \in DOMAIN hooks : hooks[i].of = "web" => \E j \in DOMAIN hooks : j < i /\ hooks[j].of = "data"

Done ==
  /\ (\E i \in Passed : app.order[i] = "data") => DataDone
  /\ (\E i, j \in Passed : i < j /\ app.order[i] = "data" /\ app.order[j] = "web") => DataFirst

\* Hooks that are added take nothing from those that are there.
LEMMA HooksGrow ==
  ASSUME IInv, [Next]_vars
  PROVE  \A i \in DOMAIN hooks : i \in DOMAIN hooks' /\ hooks'[i] = hooks[i]
<1>1. CASE hooks' = hooks
  BY <1>1
<1>2. ASSUME NEW k \in HookEntry, hooks' = Append(hooks, k)
      PROVE  \A i \in DOMAIN hooks : i \in DOMAIN hooks' /\ hooks'[i] = hooks[i]
  BY <1>2, HookAdded
<1>3. CASE ConfigureWeb \/ ConfigureUser
  <2>1. [of |-> "web"] \in HookEntry /\ [of |-> "user"] \in HookEntry
    BY DEF HookEntry
  <2> QED
    BY <1>1, <1>2, <1>3, <2>1 DEF ConfigureWeb, ConfigureUser
<1>4. CASE DataConfigured
  <2>1. [of |-> "data", db |-> Handle, created |-> Created] \in HookEntry
    <3>1. Handle \in Nat /\ (Created => Handle # External) /\ Created \in BOOLEAN
      BY NewHandle DEF IInv, Numbered, Created
    <3> QED
      BY <3>1 DEF HookEntry
  <2> QED
    BY <1>2, <1>4, <2>1 DEF DataConfigured
<1> QED
  BY <1>1, <1>3, <1>4, ModuleStays

\* What the data module left stays, unless it is configured again.
LEMMA DataDoneKept ==
  ASSUME TInv, DataDone, [Next]_vars, ~(DataRefuses \/ DataClashes)
  PROVE  DataDone'
<1>1. ~DataConfigured
  <2>1. "data.db" \in Range(Wanted)
    BY FirstWanted DEF Range
  <2> QED
    BY <2>1 DEF DataDone, DataConfigured
<1>2. UNCHANGED <<app, module, bound>> /\ dbService' = dbService /\ "data.db" \in names'
  BY <1>1, ModuleStays, NamesStay DEF DataDone, TInv
<1>3. \E i \in DOMAIN hooks' : hooks'[i].of = "data"
  BY HooksGrow DEF DataDone, TInv
<1>4. handle'[dbService].dsn = handle[dbService].dsn
  <2>1. dbService \in DOMAIN handle
    BY DEF DataDone, TInv, Registered
  <2> QED
    BY <2>1, HandlesStay DEF TInv
<1> QED
  BY <1>2, <1>3, <1>4 DEF DataDone

\* The data module's Configure takes the settings that were loaded.
LEMMA DataDoneNow ==
  ASSUME TInv, Config, OneData, DataConfigured
  PROVE  DataDone'
<1>1. /\ app' = app /\ module'.db = Handle /\ dbService' = Handle /\ bound' = loaded
      /\ module'.settings = Bound.target /\ handle' = Holding(Opened) /\ ~Refuses
      /\ hooks' = Append(hooks, [of |-> "data", db |-> Handle, created |-> Created])
      /\ names' = names \cup Range(Wanted) /\ Range(Wanted) \cap names = {} /\ pc = "configure"
  BY DEF DataConfigured, Remember, OfMain, At
<1>2. "data.db" \in Range(Wanted)
  BY FirstWanted DEF Range
<1>3. \A i \in DOMAIN hooks : hooks[i].of # "data"
  BY <1>1, <1>2 DEF OneData
<1>4. IsConfig(cfg)
  BY <1>1 DEF Config
<1>5. DOMAIN loaded \subseteq File
  BY <1>4, StackAssumption DEF StackAssumption, IsConfig, TInv, Ranges
<1>6. \A f \in Range(Fields) : Setting(f) = Promised(loaded, app.env, f)
  <2> SUFFICES ASSUME NEW f \in Range(Fields) PROVE Setting(f) = Promised(loaded, app.env, f)
    OBVIOUS
  <2>1. Setting(f) = Raw(cfg, f)
    BY <1>1, BoundIs DEF Refuses
  <2>2. cfg = Load(loaded, app.env) /\ Load(loaded, app.env) # Broken
    BY <1>4 DEF IsConfig
  <2>3. Raw(Load(loaded, app.env), f) = Promised(loaded, app.env, f)
    BY <1>5, <2>2, LoadPromised
  <2> QED
    BY <2>1, <2>2, <2>3
<1>7. \E i \in DOMAIN hooks' : hooks'[i].of = "data"
  <2> DEFINE k == [of |-> "data", db |-> Handle, created |-> Created]
  <2>1. k \in HookEntry /\ k.of = "data"
    <3>1. Handle \in Nat /\ (Created => Handle # External) /\ Created \in BOOLEAN
      BY NewHandle DEF IInv, Numbered, Created, TInv
    <3> QED
      BY <3>1 DEF HookEntry
  <2> HIDE DEF k
  <2>2. hooks' = Append(hooks, k)
    BY <1>1 DEF k
  <2>3. Len(hooks) + 1 \in DOMAIN hooks' /\ hooks'[Len(hooks) + 1] = k
    BY <2>1, <2>2, HookAdded DEF TInv
  <2> QED
    BY <2>1, <2>3
<1>8. ~app.withDB => handle'[Handle].dsn = Setting(Dsn)
  <2> SUFFICES ASSUME ~app.withDB PROVE handle'[Handle].dsn = Setting(Dsn)
    OBVIOUS
  <2>1. Created
    BY <1>3 DEF OneData, Created
  <2>2. Opened = [dsn |-> Setting(Dsn), open |-> TRUE, limit |-> Pool(0)]
    BY <2>1 DEF Opened
  <2>3. handle'[Handle] = Opened
    BY <1>1 DEF Holding
  <2> QED
    BY <2>2, <2>3
<1>9. Dsn \in Range(Fields)
  BY StackAssumption DEF StackAssumption
<1>10. \A f \in Range(Fields) : module'.settings[f] = Promised(bound', app'.env, f)
  BY <1>1, <1>6 DEF Setting
<1> QED
  BY <1>1, <1>2, <1>6, <1>7, <1>8, <1>9, <1>10 DEF DataDone

\* How many modules were configured changes where Configure goes on, fails, or is done.
LEMMA PassedSteps ==
  ASSUME TInv, [Next]_vars
  PROVE  \/ Passed' \subseteq Passed /\ ~(DataRefuses \/ DataClashes \/ DataConfigured)
         \/ Passed' = {}
         \/ /\ ConfigureWeb \/ ConfigureUser \/ DataConfigured
               \/ ConfigureActuator("health", "actuator.health") \/ ConfigureActuator("info", "actuator.info")
            /\ pc = "configure" /\ ~configured /\ pos \in DOMAIN app.order /\ Passed' = Passed \cup {pos}
            /\ \A i \in Passed : i < pos
            /\ hooks' = hooks => ~ConfigureWeb
<1>0. app' = app /\ pos \in Nat \ {0}
  BY ModuleStays DEF TInv, IInv, Entries
<1>1. DOMAIN app.order = 1..Len(app.order) /\ Len(app.order) \in Nat
  <2>1. app.order \in Seq(Modules)
    BY StackAssumption DEF StackAssumption, TInv, Ranges, Application
  <2> QED
    BY <2>1, LenProperties
<1>2. CASE UNCHANGED <<pc, pos, configured>> /\ ~(DataRefuses \/ DataClashes \/ DataConfigured)
  BY <1>0, <1>2 DEF Passed
<1>3. CASE configured /\ configured'
  <2>1. ~(DataRefuses \/ DataClashes \/ DataConfigured)
    BY <1>3 DEF DataRefuses, DataClashes, DataConfigured, At
  <2> QED
    BY <1>0, <1>3, <2>1 DEF Passed
<1>4. CASE ~configured' /\ (pc' # "configure" \/ pos' = 1)
  BY <1>0, <1>1, <1>4 DEF Passed
<1>5. CASE LoadConfig \/ Retry
  BY <1>3, <1>4, <1>5 DEF LoadConfig, Retry, GoTo, TInv, Ranges
<1>6. CASE Apply
  <2>1. configured' = configured
    BY <1>6 DEF Apply
  <2>2. pc' # "configure" \/ pos' = 1
    BY <1>6 DEF Apply, GoTo
  <2> QED
    BY <1>3, <1>4, <2>1, <2>2 DEF TInv, Ranges
<1>7. CASE ConfigureDone
  <2>1. configured \/ \A i \in DOMAIN app.order : i < pos
    BY <1>0, <1>1, <1>7 DEF ConfigureDone
  <2>2. Passed' \subseteq Passed
    BY <1>0, <1>7, <2>1 DEF Passed, ConfigureDone
  <2>3. ~(DataRefuses \/ DataClashes \/ DataConfigured)
    <3>1. CASE configured
      BY <3>1 DEF DataRefuses, DataClashes, DataConfigured, At
    <3>2. CASE ~configured
      BY <1>7, <3>2 DEF ConfigureDone, DataRefuses, DataClashes, DataConfigured, OfMain
    <3> QED
      BY <3>1, <3>2
  <2> QED
    BY <2>2, <2>3
<1>8. CASE DataRefuses \/ DataClashes
  BY <1>4, <1>8 DEF DataRefuses, DataClashes, At, ModuleFails, GoTo
<1>9. CASE ConfigureWeb \/ ConfigureUser \/ DataConfigured
           \/ ConfigureActuator("health", "actuator.health") \/ ConfigureActuator("info", "actuator.info")
  <2>1. pc = "configure" /\ ~configured /\ pos \in DOMAIN app.order /\ configured' = configured
    BY <1>0, <1>1, <1>9 DEF ConfigureWeb, ConfigureUser, DataConfigured, ConfigureActuator, At
  <2>2. CASE pc' = "failed"
    BY <1>4, <2>1, <2>2
  <2>3. CASE pc' = pc /\ pos' = pos + 1
    <3>1. Passed' = Passed \cup {pos} /\ \A i \in Passed : i < pos
      BY <1>0, <1>1, <2>1, <2>3 DEF Passed
    <3>2. hooks' = hooks => ~ConfigureWeb
      <4> SUFFICES ASSUME ConfigureWeb PROVE hooks' # hooks
        OBVIOUS
      <4>1. hooks' = Append(hooks, [of |-> "web"])
        BY <2>1, <2>3 DEF ConfigureWeb, ModuleFails, GoTo
      <4>2. [of |-> "web"] \in HookEntry
        BY DEF HookEntry
      <4>3. DOMAIN hooks' = 1..(Len(hooks) + 1) /\ DOMAIN hooks = 1..Len(hooks) /\ Len(hooks) \in Nat
        BY <4>1, <4>2, HookAdded DEF TInv
      <4> QED
        BY <4>3
    <3> QED
      BY <1>9, <2>1, <3>1, <3>2
  <2> QED
    BY <1>9, <2>2, <2>3 DEF ConfigureWeb, ConfigureUser, DataConfigured, ConfigureActuator, ModuleReturns,
                            ModuleFails, GoTo
<1>10. CASE StartData \/ StartWeb \/ StartUser \/ StartDone \/ StopEnter \/ StopDone
  <2>1. pc \in {"hooks", "up", "rollback", "stopping"} /\ configured' = configured
    BY <1>10 DEF StartData, StartWeb, StartUser, StartDone, StopEnter, StopDone, Hook, Stopping
  <2> QED
    BY <1>3, <2>1 DEF TInv, Early, Ranges
<1>11. CASE StopData \/ StopListening \/ StopWeb \/ StopUser
  <2>1. pc \in {"rollback", "stopping"} /\ configured' = configured
    BY <1>11 DEF StopData, StopListening, StopWeb, StopUser, Turn, Stopping, OfStop
  <2> QED
    BY <1>3, <2>1 DEF TInv, Early, Ranges
<1>12. CASE (\E w \in Workers : Serve(w)) \/ LoseServer \/ ServerReturns \/ UNCHANGED vars
  <2>1. UNCHANGED <<pc, pos, configured, names, hooks>>
    BY <1>12, RequestsLeave DEF main, service
  <2>2. ~(DataRefuses \/ DataClashes \/ DataConfigured)
    <3>1. DataConfigured => names' # names
      BY FirstWanted DEF DataConfigured, Range
    <3>2. DataRefuses \/ DataClashes => pc' # pc
      BY DEF DataRefuses, DataClashes, At, ModuleFails, GoTo
    <3> QED
      BY <2>1, <3>1, <3>2
  <2> QED
    BY <1>2, <2>1, <2>2
<1> QED
  BY <1>5, <1>6, <1>7, <1>8, <1>9, <1>10, <1>11, <1>12 DEF Next, Main

\* A hook is added where a module returns.
LEMMA HookPassed == ASSUME TInv, [Next]_vars, hooks' # hooks PROVE pos \in Passed' /\ pos \notin Passed
<1>1. ConfigureWeb \/ ConfigureUser \/ DataConfigured
  BY ModuleStays
<1>2. pc = "configure" /\ ~configured /\ pos <= Len(app.order) /\ UNCHANGED <<pc, configured, app>> /\ pos' = pos + 1
  BY <1>1 DEF ConfigureWeb, ConfigureUser, DataConfigured, At, ModuleReturns, OfMain
<1>3. pos \in Nat \ {0} /\ DOMAIN app.order = 1..Len(app.order) /\ Len(app.order) \in Nat
  <2>1. app.order \in Seq(Modules)
    BY StackAssumption DEF StackAssumption, TInv, Ranges, Application
  <2> QED
    BY <2>1, LenProperties DEF TInv, IInv, Entries
<1> QED
  BY <1>2, <1>3 DEF Passed

\* The web server's hook comes after that of the data module.
LEMMA WebAfterData ==
  ASSUME TInv, OneData, DataDone, ConfigureWeb, hooks' # hooks
  PROVE  DataFirst'
<1> DEFINE k == [of |-> "web"]
<1>1. hooks' = Append(hooks, k) /\ "web.server" \notin names
  BY DEF ConfigureWeb
<1>2. k \in HookEntry
  BY DEF HookEntry
<1> HIDE DEF k
<1>3. PICK n \in Nat : /\ DOMAIN hooks' = 1..(n + 1) /\ DOMAIN hooks = 1..n
                       /\ \A i \in DOMAIN hooks : hooks'[i] = hooks[i]
  BY <1>1, <1>2, HookAdded DEF TInv
<1>4. PICK j \in 1..n : hooks[j].of = "data"
  BY <1>3 DEF DataDone
<1>5. j \in DOMAIN hooks' /\ hooks'[j].of = "data"
  BY <1>3, <1>4
<1>6. ASSUME NEW i \in DOMAIN hooks', hooks'[i].of = "web" PROVE j < i
  <2>1. i \notin 1..n
    BY <1>1, <1>3, <1>6 DEF OneData
  <2> QED
    BY <1>3, <2>1
<1> QED
  BY <1>5, <1>6 DEF DataFirst

\* Hooks of others leave their order alone.
LEMMA DataFirstKept ==
  ASSUME TInv, DataFirst, [Next]_vars, ~ConfigureWeb \/ hooks' = hooks
  PROVE  DataFirst'
<1>1. CASE hooks' = hooks
  BY <1>1 DEF DataFirst
<1>2. CASE ConfigureUser \/ DataConfigured
  <2>1. PICK k \in HookEntry : hooks' = Append(hooks, k) /\ k.of # "web"
    <3>1. [of |-> "user"] \in HookEntry
      BY DEF HookEntry
    <3>2. [of |-> "data", db |-> Handle, created |-> Created] \in HookEntry
      <4>1. Handle \in Nat /\ (Created => Handle # External) /\ Created \in BOOLEAN
        BY NewHandle DEF IInv, Numbered, Created, TInv
      <4> QED
        BY <4>1 DEF HookEntry
    <3> QED
      BY <1>2, <3>1, <3>2 DEF ConfigureUser, DataConfigured
  <2>2. /\ \A i \in DOMAIN hooks' : i \in DOMAIN hooks \/ hooks'[i] = k
        /\ \A i \in DOMAIN hooks : i \in DOMAIN hooks' /\ hooks'[i] = hooks[i]
    BY <2>1, HookAdded DEF TInv
  <2> QED
    BY <2>1, <2>2 DEF DataFirst
<1> QED
  BY <1>1, <1>2, ModuleStays

\* What was configured is kept until Configure starts over, which a taken name fails.
LEMMA DoneStep == ASSUME TInv, Config, OneData, Done, [Next]_vars PROVE Done'
<1>0. app' = app
  BY ModuleStays
<1>1. CASE Passed' \subseteq Passed /\ ~(DataRefuses \/ DataClashes \/ DataConfigured)
  <2>1. DataDone => DataDone'
    BY <1>1, DataDoneKept
  <2>2. DataFirst => DataFirst'
    <3>1. hooks' = hooks
      BY <1>1, HookPassed
    <3> QED
      BY <3>1 DEF DataFirst
  <2> QED
    BY <1>0, <1>1, <2>1, <2>2 DEF Done
<1>2. CASE Passed' = {}
  BY <1>2 DEF Done
<1>3. ASSUME ConfigureWeb \/ ConfigureUser \/ DataConfigured
               \/ ConfigureActuator("health", "actuator.health") \/ ConfigureActuator("info", "actuator.info"),
             pos \in DOMAIN app.order, Passed' = Passed \cup {pos}, \A i \in Passed : i < pos,
             hooks' = hooks => ~ConfigureWeb
      PROVE  Done'
  <2>1. /\ ConfigureWeb => app.order[pos] = "web"
        /\ DataConfigured => app.order[pos] = "data"
        /\ ~ConfigureWeb => app.order[pos] # "web"
        /\ ~DataConfigured => app.order[pos] # "data" /\ ~(DataRefuses \/ DataClashes)
    BY <1>3 DEF ConfigureWeb, ConfigureUser, ConfigureActuator, DataConfigured, DataRefuses, DataClashes, At
  <2>2. pos \in Nat /\ Passed \subseteq Nat
    <3>1. DOMAIN app.order = 1..Len(app.order)
      <4>1. app.order \in Seq(Modules)
        BY StackAssumption DEF StackAssumption, TInv, Ranges, Application
      <4> QED
        BY <4>1, LenProperties
    <3> QED
      BY <3>1 DEF Passed, TInv, IInv, Entries
  <2>3. ASSUME NEW i \in Passed', app.order[i] = "data" PROVE DataDone'
    <3>1. CASE DataConfigured
      BY <3>1, DataDoneNow
    <3>2. CASE ~DataConfigured
      <4>1. i \in Passed
        BY <1>3, <2>1, <2>3, <3>2
      <4> QED
        BY <2>1, <2>3, <3>2, <4>1, DataDoneKept DEF Done
    <3> QED
      BY <3>1, <3>2
  <2>4. ASSUME NEW i \in Passed', NEW j \in Passed', i < j, app.order[i] = "data", app.order[j] = "web"
        PROVE  DataFirst'
    <3>1. i \in Passed
      <4>1. j \in Passed \/ j = pos
        BY <1>3
      <4>2. j \in Nat /\ j <= pos
        BY <1>3, <2>2, <4>1
      <4>3. i # pos
        BY <2>2, <2>4, <4>2
      <4> QED
        BY <1>3, <4>3
    <3>2. DataDone
      BY <2>4, <3>1 DEF Done
    <3>3. CASE ConfigureWeb
      BY <1>3, <3>2, <3>3, WebAfterData
    <3>4. CASE ~ConfigureWeb
      <4>1. j \in Passed
        BY <1>3, <2>1, <2>4, <3>4
      <4>2. DataFirst
        BY <2>4, <3>1, <4>1 DEF Done
      <4> QED
        BY <3>4, <4>2, DataFirstKept
    <3> QED
      BY <3>3, <3>4
  <2> QED
    BY <1>0, <2>3, <2>4 DEF Done
<1> QED
  BY <1>1, <1>2, <1>3, PassedSteps

\* The database of a hook that runs is open and has its schema.
Good(h) == handle[h].open /\ (app.migrations => handle[h].dsn \in migrated)
Ready == \A i \in DOMAIN running : running[i].of = "data" => Good(running[i].db)

\* The web server's hook runs while requests are served.
WebRuns ==
  ~overdue /\ (listening \/ \E w \in Workers : req[w].at # "idle") =>
    \E i \in DOMAIN running : running[i].of = "web"

\* The hook that starts is the last of those that run then.
LEMMA OneMore ==
  ASSUME IInv, pc = "hooks", pos <= Len(hooks), HookStarted
  PROVE  \E n \in Nat : /\ DOMAIN running = 1..n /\ DOMAIN running' = 1..(n + 1)
                        /\ running'[n + 1] = hooks[pos]
                        /\ \A i \in 1..n : running'[i] = running[i]
<1>1. hooks[pos] \in HookEntry /\ running \in Seq(HookEntry) /\ running' = Append(running, hooks[pos])
  BY LenProperties DEF IInv, Entries, HookStarted
<1> QED
  BY <1>1, AppendProperties, LenProperties

\* The hook that stops is the last of those that run.
LEMMA OneLess ==
  ASSUME IInv, running # <<>>, HookStopped
  PROVE  /\ StopsNext \in DOMAIN running /\ StopsNext \notin DOMAIN running'
         /\ DOMAIN running = DOMAIN running' \cup {StopsNext}
         /\ \A i \in DOMAIN running' : running'[i] = running[i]
<1>1. /\ DOMAIN running' = 1..(Len(running) - 1)
      /\ \A i \in 1..(Len(running) - 1) : running'[i] = running[i]
  BY RemoveLast DEF IInv, Entries, HookStopped, StopsNext
<1>2. PICK n \in Nat \ {0} : Len(running) = n /\ DOMAIN running = 1..n
  BY EmptySeq, LenProperties DEF IInv, Entries
<1>3. DOMAIN running' = 1..(n - 1) /\ n \in 1..n /\ n \notin 1..(n - 1) /\ 1..n = 1..(n - 1) \cup {n}
  BY <1>1, <1>2
<1> QED
  BY <1>1, <1>2, <1>3 DEF StopsNext

\* A hook that runs has checked its database, and no other hook closes it.
LEMMA ReadyStep == ASSUME TInv, OneData, Ready, [Next]_vars PROVE Ready'
<1>0. app' = app /\ IInv
  BY ModuleStays DEF TInv
<1>1. CASE UNCHANGED <<handle, migrated, running>>
  BY <1>0, <1>1 DEF Ready, Good
<1>2. CASE DataClashes \/ DataConfigured
  <2>1. running = <<>> /\ running' = running
    BY <1>2 DEF DataClashes, DataConfigured, At, TInv, Early, Unserved
  <2> QED
    BY <2>1 DEF Ready
<1>3. CASE StartData /\ HookStarted
  <2>1. /\ pc = "hooks" /\ pos <= Len(hooks) /\ handle' = handle /\ migrated \subseteq migrated'
        /\ handle[hooks[pos].db].open
        /\ app.migrations => handle[hooks[pos].db].dsn \in migrated'
    BY <1>3 DEF StartData, Hook, HookStarted, HookFails, GoTo, Answers
  <2>2. PICK n \in Nat : /\ DOMAIN running = 1..n /\ DOMAIN running' = 1..(n + 1)
                         /\ running'[n + 1] = hooks[pos]
                         /\ \A i \in 1..n : running'[i] = running[i]
    BY <1>0, <1>3, <2>1, OneMore
  <2>3. ASSUME NEW i \in DOMAIN running', running'[i].of = "data"
        PROVE  LET h == running'[i].db IN handle'[h].open /\ (app.migrations => handle'[h].dsn \in migrated')
    <3>1. CASE i = n + 1
      BY <1>0, <2>1, <2>2, <3>1 DEF Good
    <3>2. CASE i \in 1..n
      BY <1>0, <2>1, <2>2, <2>3, <3>2 DEF Ready, Good
    <3>3. i = n + 1 \/ i \in 1..n
      BY <2>2
    <3> QED
      BY <3>1, <3>2, <3>3
  <2> QED
    BY <1>0, <2>3 DEF Ready, Good
<1>4. CASE (StartWeb \/ StartUser) /\ HookStarted
  <2>1. /\ pc = "hooks" /\ pos <= Len(hooks) /\ UNCHANGED <<handle, migrated>> /\ hooks[pos].of # "data"
    BY <1>4 DEF StartWeb, StartUser, Hook, world
  <2>2. PICK n \in Nat : /\ DOMAIN running = 1..n /\ DOMAIN running' = 1..(n + 1)
                         /\ running'[n + 1] = hooks[pos]
                         /\ \A i \in 1..n : running'[i] = running[i]
    BY <1>0, <1>4, <2>1, OneMore
  <2>3. \A i \in DOMAIN running' : i = n + 1 \/ i \in 1..n
    BY <2>2
  <2> QED
    BY <1>0, <2>1, <2>2, <2>3 DEF Ready, Good
<1>5. CASE StopData
  <2>1. running # <<>> /\ HookStopped /\ running[StopsNext].of = "data"
    BY <1>5 DEF StopData, Turn
  <2>2. ASSUME NEW i \in DOMAIN running', running'[i].of = "data" PROVE FALSE
    <3>1. i \in DOMAIN running /\ i # StopsNext /\ StopsNext \in DOMAIN running /\ running[i].of = "data"
      BY <1>0, <2>1, <2>2, OneLess
    <3>2. /\ i \in DOMAIN hooks /\ hooks[i].of = "data"
          /\ StopsNext \in DOMAIN hooks /\ hooks[StopsNext].of = "data"
      BY <2>1, <3>1 DEF TInv, Prefix
    <3> QED
      BY <3>1, <3>2 DEF OneData
  <2> QED
    BY <2>2 DEF Ready
<1>6. CASE StopWeb \/ StopUser
  <2>1. running # <<>> /\ HookStopped /\ UNCHANGED <<handle, migrated>>
    BY <1>6 DEF StopWeb, StopUser, Turn, OfStop
  <2> QED
    BY <1>0, <2>1, OneLess DEF Ready, Good
<1>7. CASE (StartData \/ StartWeb \/ StartUser) /\ ~HookStarted
  BY <1>1, <1>7 DEF StartData, StartWeb, StartUser, HookFails, world
<1>8. CASE \/ LoadConfig \/ Apply \/ Retry \/ ConfigureWeb \/ ConfigureUser \/ DataRefuses \/ ConfigureDone
           \/ ConfigureActuator("health", "actuator.health") \/ ConfigureActuator("info", "actuator.info")
           \/ StartDone \/ StopEnter \/ StopListening \/ StopDone
  BY <1>1, <1>8 DEF LoadConfig, Apply, Retry, ConfigureWeb, ConfigureUser, DataRefuses, ConfigureDone,
     ConfigureActuator, StartDone, StopEnter, StopListening, StopDone, OfStop, world
<1>9. CASE (\E w \in Workers : Serve(w)) \/ LoseServer \/ ServerReturns \/ UNCHANGED vars
  BY <1>1, <1>9, RequestsLeave
<1> QED
  BY <1>2, <1>3, <1>4, <1>5, <1>6, <1>7, <1>8, <1>9 DEF Next, Main

\* The web server's hook stops only after the listener is closed and the requests
\* are answered, or overdue.
LEMMA WebRunsStep == ASSUME TInv, WebRuns, [Next]_vars PROVE WebRuns'
<1>0. IInv
  BY DEF TInv
<1>1. ASSUME UNCHANGED <<overdue, listening, req>>,
             \A i \in DOMAIN running : i \in DOMAIN running' /\ running'[i] = running[i]
      PROVE  WebRuns'
  BY <1>1 DEF WebRuns
<1>2. ASSUME HookStarted, pc = "hooks", pos <= Len(hooks)
      PROVE  \A i \in DOMAIN running : i \in DOMAIN running' /\ running'[i] = running[i]
  <2>1. PICK n \in Nat : /\ DOMAIN running = 1..n /\ DOMAIN running' = 1..(n + 1)
                         /\ \A i \in 1..n : running'[i] = running[i]
    BY <1>0, <1>2, OneMore
  <2> QED
    BY <2>1
<1>3. CASE \/ LoadConfig \/ Apply \/ Retry \/ ConfigureWeb \/ ConfigureUser \/ DataRefuses \/ DataClashes
           \/ DataConfigured \/ ConfigureDone \/ ConfigureActuator("health", "actuator.health")
           \/ ConfigureActuator("info", "actuator.info") \/ StartDone \/ StopEnter \/ StopDone
  BY <1>1, <1>3, MainLeaves DEF Main, LoadConfig, Apply, Retry, ConfigureWeb, ConfigureUser, DataRefuses, DataClashes,
     DataConfigured, ConfigureDone, ConfigureActuator, StartDone, StopEnter, StopDone, web, request
<1>4. CASE StartData \/ StartUser
  <2>1. UNCHANGED <<overdue, listening, req>> /\ pc = "hooks" /\ pos <= Len(hooks)
        /\ (HookStarted \/ running' = running)
    BY <1>4 DEF StartData, StartUser, Hook, HookFails, web, request
  <2> QED
    BY <1>1, <1>2, <2>1
<1>5. CASE StartWeb /\ HookStarted
  <2>1. pc = "hooks" /\ pos <= Len(hooks) /\ hooks[pos].of = "web"
    BY <1>5 DEF StartWeb, Hook
  <2>2. \E i \in DOMAIN running' : running'[i].of = "web"
    <3>1. PICK n \in Nat : DOMAIN running' = 1..(n + 1) /\ running'[n + 1] = hooks[pos]
      BY <1>0, <1>5, <2>1, OneMore
    <3>2. n + 1 \in 1..(n + 1)
      OBVIOUS
    <3> QED
      BY <2>1, <3>1, <3>2
  <2> QED
    BY <2>2 DEF WebRuns
<1>6. CASE StartWeb /\ ~HookStarted
  BY <1>1, <1>6 DEF StartWeb, HookFails, request
<1>7. CASE StopData \/ StopUser
  <2>1. /\ running # <<>> /\ HookStopped /\ running[StopsNext].of # "web"
        /\ UNCHANGED <<overdue, listening, req>>
    BY <1>7 DEF StopData, StopUser, Turn, OfStop, web, request
  <2>2. \A i \in DOMAIN running : running[i].of = "web" => i \in DOMAIN running' /\ running'[i] = running[i]
    BY <1>0, <2>1, OneLess
  <2> QED
    BY <2>1, <2>2 DEF WebRuns
<1>8. CASE StopListening
  BY <1>8 DEF WebRuns, StopListening, OfStop, request
<1>9. CASE StopWeb
  <2>1. ~listening' /\ req' = req /\ ((\A w \in Workers : req[w].at = "idle") \/ overdue')
    BY <1>9 DEF StopWeb, OfStop, request
  <2> QED
    BY <2>1 DEF WebRuns
<1>10. ASSUME NEW w \in Workers, Serve(w) PROVE WebRuns'
  <2>1. UNCHANGED <<overdue, listening, running>>
    BY <1>10, RequestsLeave DEF web
  <2>2. listening \/ req[w].at # "idle"
    BY <1>10 DEF Serve, Arrive, GetDB, Begin, RunFn, Rollback, Commit, Ask, Answer, Cancel
  <2> QED
    BY <2>1, <2>2 DEF WebRuns
<1>11. CASE LoseServer
  <2>1. req' = [w \in Workers |-> [req[w] EXCEPT !.tx = [d \in 1..MaxDepth |-> IF d \in Open(w) THEN "over" ELSE @[d]]]]
        /\ UNCHANGED <<overdue, listening, running>>
    BY <1>11 DEF LoseServer, web
  <2>2. \A w \in Workers : req'[w].at = req[w].at
    BY <2>1 DEF TInv, RInv, Answered, Parts
  <2> QED
    BY <2>1, <2>2 DEF WebRuns
<1>12. CASE ServerReturns \/ UNCHANGED vars
  BY <1>1, <1>12 DEF ServerReturns, vars, web, request
<1> QED
  BY <1>3, <1>4, <1>5, <1>6, <1>7, <1>8, <1>9, <1>10, <1>11, <1>12 DEF Next, Main

DInv == TInv /\ Config /\ OneData /\ Detected /\ Done /\ Ready /\ WebRuns

\* The invariant holds in the beginning.
LEMMA ServedInitial == Init => DInv
<1> SUFFICES ASSUME Init PROVE DInv
  OBVIOUS
<1>1. TInv
  BY TypesInitial
<1>2. /\ cfg = None /\ pc = "load" /\ hooks = <<>> /\ running = <<>> /\ configured = FALSE /\ listening = FALSE
      /\ module = [settings |-> [f \in Range(Fields) |-> ""], dialect |-> None,
                   db |-> IF app.withDB THEN External ELSE None]
  BY DEF Init
<1>3. Config /\ OneData /\ Detected /\ Ready
  <2>1. module.dialect = None /\ module.db = IF app.withDB THEN External ELSE None
    BY <1>2
  <2>2. Config
    BY <1>2 DEF Config
  <2>3. DOMAIN hooks = {} /\ DOMAIN running = {}
    <3>1. \A s : s = <<>> => DOMAIN s = {}
      OBVIOUS
    <3>2. hooks = <<>> /\ running = <<>>
      BY <1>2
    <3> QED
      BY <3>1, <3>2
  <2>4. OneData
    BY <2>1, <2>3 DEF OneData
  <2> QED
    BY <2>1, <2>2, <2>3, <2>4 DEF Detected, Ready
<1>4. Done
  BY <1>2 DEF Done, Passed
<1>5. WebRuns
  <2>1. \A w \in Workers : req[w].at = "idle"
    BY New DEF Init
  <2> QED
    BY <1>2, <2>1 DEF WebRuns
<1> QED
  BY <1>1, <1>3, <1>4, <1>5 DEF DInv

\* Every step keeps it.
LEMMA ServedStep == DInv /\ [Next]_vars => DInv'
<1> SUFFICES ASSUME DInv, [Next]_vars PROVE DInv'
  OBVIOUS
<1>1. TInv' /\ Config'
  BY TypesStep, ConfigStep DEF DInv, TInv
<1>2. OneData' /\ Detected' /\ Done'
  BY OneDataStep, DetectedStep, DoneStep DEF DInv, TInv
<1>3. Ready' /\ WebRuns'
  BY ReadyStep, WebRunsStep DEF DInv
<1> QED
  BY <1>1, <1>2, <1>3 DEF DInv

\* The hook of the data module, if it runs, is for the handle under data.db.
LEMMA RunsReady ==
  ASSUME DInv, NEW i \in DOMAIN running, running[i].of = "data"
  PROVE  Good(dbService)
<1>1. i \in DOMAIN hooks /\ running[i] = hooks[i]
  BY DEF DInv, TInv, Prefix
<1> QED
  BY <1>1 DEF DInv, OneData, Ready

\* Any application that is up serves the database its configuration files
\* promise, checked and with its schema; one that lists the data module before
\* the web server never serves a request without it.
THEOREM DatabaseIsServed == Spec => []DatabaseServed
<1>1. DInv => DatabaseServed
  <2> SUFFICES ASSUME DInv PROVE DatabaseServed
    OBVIOUS
  <2>1. configured => Passed = DOMAIN app.order
    BY DEF Passed
  <2>2. ASSUME pc = "up", "data" \in Range(app.order)
        PROVE  /\ dbService = module.db /\ handle[dbService].open
               /\ app.migrations => handle[dbService].dsn \in migrated
               /\ \A f \in Range(Fields) : module.settings[f] = Promised(bound, app.env, f)
               /\ ~app.withDB => handle[dbService].dsn = Promised(bound, app.env, Dsn)
               /\ guessed \in {None, module.settings[Driver]} =>
                    (module.dialect # None => module.dialect = DialectOf[module.settings[Driver]])
    <3>1. configured
      BY <2>2 DEF DInv, TInv, Early
    <3>2. DataDone
      BY <2>1, <2>2, <3>1 DEF Range, DInv, Done
    <3>3. Good(dbService)
      <4>1. PICK i \in DOMAIN hooks : hooks[i].of = "data"
        BY <3>2 DEF DataDone
      <4>2. DOMAIN running = DOMAIN hooks
        BY <2>2, LenProperties DEF DInv, TInv, IInv, Entries, Prefix
      <4>3. running[i].of = "data"
        BY <4>1, <4>2 DEF DInv, TInv, Prefix
      <4> QED
        BY <4>1, <4>2, <4>3, RunsReady
    <3>4. guessed \in {None, module.settings[Driver]} =>
            (module.dialect # None => module.dialect = DialectOf[module.settings[Driver]])
      <4>1. None \notin DOMAIN DialectOf
        BY StackAssumption DEF StackAssumption
      <4> QED
        BY <4>1 DEF DInv, Detected
    <3> QED
      BY <3>2, <3>3, <3>4 DEF DataDone, Good
  <2>3. ASSUME Before("data", "web"), ~overdue, listening \/ \E w \in Workers : req[w].at # "idle"
        PROVE  handle[dbService].open /\ (app.migrations => handle[dbService].dsn \in migrated)
    <3>1. PICK i \in DOMAIN running : running[i].of = "web"
      BY <2>3 DEF DInv, WebRuns
    <3>2. configured
      BY <2>3 DEF DInv, TInv, Early, Unserved
    <3>3. /\ Place("data") \in DOMAIN app.order /\ app.order[Place("data")] = "data"
          /\ Place("web") \in DOMAIN app.order /\ app.order[Place("web")] = "web"
          /\ Place("data") < Place("web")
      BY <2>3 DEF Before, Place, Range
    <3>4. DataFirst
      BY <2>1, <3>2, <3>3 DEF DInv, Done
    <3>5. PICK j \in DOMAIN hooks : j < i /\ hooks[j].of = "data"
      <4>1. i \in DOMAIN hooks /\ hooks[i].of = "web"
        BY <3>1 DEF DInv, TInv, Prefix
      <4> QED
        BY <3>4, <4>1 DEF DataFirst
    <3>6. j \in DOMAIN running /\ running[j].of = "data"
      <4>1. /\ DOMAIN running = 1..Len(running) /\ Len(running) \in Nat
            /\ DOMAIN hooks = 1..Len(hooks) /\ Len(hooks) \in Nat
        BY LenProperties DEF DInv, TInv, IInv, Entries
      <4>2. j \in DOMAIN running
        BY <3>5, <4>1
      <4> QED
        BY <3>5, <4>2 DEF DInv, TInv, Prefix
    <3> QED
      BY <3>6, RunsReady DEF Good
  <2> QED
    BY <2>2, <2>3 DEF DatabaseServed
<1> QED
  BY <1>1, ServedInitial, ServedStep, PTL DEF Spec
=============================================================================
