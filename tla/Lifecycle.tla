------------------------------ MODULE Lifecycle ------------------------------
(***************************************************************************)
(* core.App (src/core/app.go): named services, modules, lifecycle hooks,   *)
(* and the calls Configure, Start and Stop, made by several goroutines.    *)
(*                                                                         *)
(* App.mu protects single reads and writes, not whole calls: Configure and *)
(* Start read a flag and take a snapshot in one critical section, run      *)
(* foreign code with the lock released, and set the flag in a second one.  *)
(* Every critical section and every foreign call is one action here, and   *)
(* pc says where each goroutine is between them.                           *)
(***************************************************************************)
EXTENDS Integers, Sequences, FiniteSets

CONSTANTS
  Goroutines,      \* callers of the App
  Modules,         \* core.Module values
  NilModule,       \* a nil Module passed to New or Use
  Hooks,           \* core.Hook values
  Names,           \* names of services
  Types,           \* types that providers construct
  InitialModules,  \* the modules given to New
  Script,          \* what each module's Configure does to the App, in order
  Autowired,       \* types of autowire.Constructors(), in order
  NilStart,        \* hooks with a nil Start
  NilStop,         \* hooks with a nil Stop
  FlakyModules,    \* modules whose Configure may fail by itself
  FlakyStarts,     \* hooks whose Start may return an error
  FlakyStops,      \* hooks whose Stop may return an error
  DirectIds,       \* ids the goroutines register on the App themselves
  OverrideIds,     \* ids given to OverrideService and OverrideProvider
  LateModules,     \* modules given to Use while the App lives
  LateHooks,       \* hooks given to RegisterHook while the App lives
  MaxCalls,        \* bound: number of calls into the App
  MaxFaults        \* bound: number of errors returned by foreign code

\* A call on the App made by a module's Configure.
Effect == [op : {"service"}, id : Names]
            \cup [op : {"provider"}, id : Types]
            \cup [op : {"hook"}, id : Hooks]

ASSUME LifecycleAssumption ==
  /\ NilModule \notin Modules
  /\ InitialModules \in Seq(Modules \cup {NilModule})
  /\ Script \in [Modules -> Seq(Effect)]
  /\ Autowired \in Seq(Types)
  /\ DirectIds \subseteq Names \cup Types
  /\ OverrideIds \subseteq Names \cup Types
  /\ LateModules \subseteq Modules \cup {NilModule}
  /\ LateHooks \subseteq Hooks
  /\ MaxCalls \in Nat
  /\ MaxFaults \in Nat

\* The steps of a module that register a hook, and what a step of the x-th registers.
HookSteps(m) == {k \in DOMAIN Script[m] : Script[m][k].op = "hook"}
IdAt(x, k) == Script[InitialModules[x]][k].id

\* Something is autowired, or modules register a name before their hooks.  The
\* hooks of the App's modules are different, and nobody else registers them.
ASSUME OwnHooks ==
  LET Real == {x \in DOMAIN InitialModules : InitialModules[x] # NilModule} IN
  /\ Autowired # <<>> \/ \A m \in Modules : 1 \notin HookSteps(m)
  /\ \A x, y \in Real : \A k \in HookSteps(InitialModules[x]), l \in HookSteps(InitialModules[y]) :
       IdAt(x, k) = IdAt(y, l) => x = y /\ k = l
  /\ \A x \in Real : \A k \in HookSteps(InitialModules[x]) :
       /\ IdAt(x, k) \notin LateHooks
       /\ \A m \in LateModules \ {NilModule} : \A l \in HookSteps(m) : Script[m][l].id # IdAt(x, k)

VARIABLES
  modules, hooks, services, providers,  \* App.modules, hooks, services; Container.providers
  configured, started, startedHooks,    \* App.configured, started, startedHooks
  pc,        \* where each goroutine is
  call,      \* the call it is in: Start runs Configure first
  todo,      \* Configure: the modules of its snapshot not configured yet
  pos,       \* Configure: the next autowired type, or the next effect of the module
  snap,      \* Start: the hooks of its snapshot not started yet
  held,      \* Start: its `started` slice; Stop: the runs it has still to stop
  calls, faults,                        \* numbers of calls and of faults so far
  \* history
  passes,    \* number of Start calls that got past the check of `started`
  pass,      \* the number of the Start pass a goroutine is in
  live,      \* runs of hooks: Start succeeded, its turn to stop has not come
  lost,      \* runs whose entry in startedHooks was overwritten
  raced,     \* two passes of Start were open at once
  clash      \* ids whose second registration made a Configure pass fail

registry == <<modules, hooks, services, providers>>
flags    == <<configured, started, startedHooks>>
locals   == <<pc, call, todo, pos, snap, held>>
counts   == <<calls, faults>>
runs     == <<passes, pass, live, lost>>
history  == <<raced, clash>>
vars     == <<registry, flags, locals, counts, runs, history>>

\* A run of a hook: the Start pass that started it and its place in the pass.
Run == [hook : Hooks, pass : Nat, at : Nat \ {0}]

Entries(s) == {s[i] : i \in DOMAIN s}

Starting    == {g \in Goroutines : pc[g] = "hooks"}
Stopping    == {g \in Goroutines : pc[g] \in {"rollback", "stopping"}}
Idle        == \A g \in Goroutines : pc[g] = "idle"

Init ==
  /\ modules = InitialModules
  /\ hooks = <<>>
  /\ services = {}
  /\ providers = {}
  /\ configured = FALSE
  /\ started = FALSE
  /\ startedHooks = <<>>
  /\ pc = [g \in Goroutines |-> "idle"]
  /\ call = [g \in Goroutines |-> "none"]
  /\ todo = [g \in Goroutines |-> <<>>]
  /\ pos = [g \in Goroutines |-> 1]
  /\ snap = [g \in Goroutines |-> <<>>]
  /\ held = [g \in Goroutines |-> <<>>]
  /\ calls = 0
  /\ faults = 0
  /\ passes = 0
  /\ pass = [g \in Goroutines |-> 0]
  /\ live = {}
  /\ lost = {}
  /\ raced = FALSE
  /\ clash = {}

-----------------------------------------------------------------------------
(* Calls that are one critical section.                                    *)

Enter(g) == pc[g] = "idle" /\ calls < MaxCalls /\ calls' = calls + 1

\* Foreign code returns an error.
Fault == faults < MaxFaults /\ faults' = faults + 1

Use(g, m) ==
  /\ Enter(g)
  /\ modules' = Append(modules, m)
  /\ UNCHANGED <<hooks, services, providers, flags, locals, faults, runs, history>>

RegisterHook(g, h) ==
  /\ Enter(g)
  /\ hooks' = Append(hooks, h)
  /\ UNCHANGED <<modules, services, providers, flags, locals, faults, runs, history>>

\* Broken variant: a second registration silently replaces the first.
TakenNever(id) == FALSE

\* Register and Provide reject an id that is taken: the caller gets an error.
AddId(id) ==
  /\ services' = services \cup ({id} \cap Names)
  /\ providers' = providers \cup ({id} \cap Types)
Taken(id) == id \in services \/ id \in providers

RegisterDirect(g, id) ==
  /\ Enter(g)
  /\ IF Taken(id) THEN UNCHANGED <<services, providers>> ELSE AddId(id)
  /\ UNCHANGED <<modules, hooks, flags, locals, faults, runs, history>>

\* SetConfig, OverrideService and OverrideProvider write without a check.
Override(g, id) ==
  /\ Enter(g)
  /\ AddId(id)
  /\ UNCHANGED <<modules, hooks, flags, locals, faults, runs, history>>

-----------------------------------------------------------------------------
(* Configure, called by itself or at the head of Start.                    *)

\* Configure returns nil: its caller gets it, or Start goes on.
ConfigureReturns(g) ==
  /\ pc' = [pc EXCEPT ![g] = IF call'[g] = "start" THEN "start" ELSE "idle"]

ConfigureEnter(g, c) ==
  /\ Enter(g)
  /\ call' = [call EXCEPT ![g] = c]
  /\ IF configured
       THEN ConfigureReturns(g) /\ UNCHANGED <<todo, pos>>
       ELSE /\ pc' = [pc EXCEPT ![g] = "autowire"]
            /\ todo' = [todo EXCEPT ![g] = modules]
            /\ pos' = [pos EXCEPT ![g] = 1]
  /\ UNCHANGED <<registry, flags, snap, held, faults, runs, history>>

\* Configure returns an error, and so does a Start that called it.  What the
\* pass has registered so far stays registered.
ConfigureFails(g) ==
  /\ pc' = [pc EXCEPT ![g] = "idle"]
  /\ todo' = [todo EXCEPT ![g] = <<>>]
  /\ pos' = [pos EXCEPT ![g] = 1]
  /\ UNCHANGED <<flags, call, snap, held, calls, runs, raced>>

\* a.provide of the next autowired constructor.
Autowire(g) ==
  /\ pc[g] = "autowire" /\ pos[g] <= Len(Autowired)
  /\ ~Taken(Autowired[pos[g]])
  /\ AddId(Autowired[pos[g]])
  /\ pos' = [pos EXCEPT ![g] = @ + 1]
  /\ UNCHANGED <<modules, hooks, flags, pc, call, todo, snap, held, counts, runs, history>>

AutowireClash(g) ==
  /\ pc[g] = "autowire" /\ pos[g] <= Len(Autowired)
  /\ Taken(Autowired[pos[g]])
  /\ clash' = clash \cup {Autowired[pos[g]]}
  /\ ConfigureFails(g)
  /\ UNCHANGED <<registry, faults>>

AutowireDone(g) ==
  /\ pc[g] = "autowire" /\ pos[g] > Len(Autowired)
  /\ pc' = [pc EXCEPT ![g] = "module"]
  /\ pos' = [pos EXCEPT ![g] = 1]
  /\ UNCHANGED <<registry, flags, call, todo, snap, held, counts, runs, history>>

\* The module whose Configure goroutine g is running, and its next effect.
InModule(g)   == pc[g] = "module" /\ todo[g] # <<>> /\ Head(todo[g]) # NilModule
NextEffect(g) == Script[Head(todo[g])][pos[g]]
MoreEffects(g) == InModule(g) /\ pos[g] <= Len(Script[Head(todo[g])])

ModuleEffect(g) ==
  /\ MoreEffects(g)
  /\ LET e == NextEffect(g) IN
       \/ /\ e.op = "hook"
          /\ hooks' = Append(hooks, e.id)
          /\ UNCHANGED <<services, providers>>
       \/ /\ e.op # "hook" /\ ~Taken(e.id)
          /\ AddId(e.id)
          /\ UNCHANGED hooks
  /\ pos' = [pos EXCEPT ![g] = @ + 1]
  /\ UNCHANGED <<modules, flags, pc, call, todo, snap, held, counts, runs, history>>

ModuleClash(g) ==
  /\ MoreEffects(g)
  /\ NextEffect(g).op # "hook" /\ Taken(NextEffect(g).id)
  /\ clash' = clash \cup {NextEffect(g).id}
  /\ ConfigureFails(g)
  /\ UNCHANGED <<registry, faults>>

\* The module returns an error of its own: a bad setting, a database it cannot open.
ModuleFault(g) ==
  /\ InModule(g) /\ Head(todo[g]) \in FlakyModules
  /\ Fault
  /\ ConfigureFails(g)
  /\ UNCHANGED <<registry, clash>>

ModuleIsNil(g) ==
  /\ pc[g] = "module" /\ todo[g] # <<>> /\ Head(todo[g]) = NilModule
  /\ ConfigureFails(g)
  /\ UNCHANGED <<registry, faults, clash>>

ModuleReturns(g) ==
  /\ InModule(g) /\ pos[g] > Len(Script[Head(todo[g])])
  /\ todo' = [todo EXCEPT ![g] = Tail(@)]
  /\ pos' = [pos EXCEPT ![g] = 1]
  /\ UNCHANGED <<registry, flags, pc, call, snap, held, counts, runs, history>>

ConfigureDone(g) ==
  /\ pc[g] = "module" /\ todo[g] = <<>>
  /\ configured' = TRUE
  /\ UNCHANGED call /\ ConfigureReturns(g)
  /\ UNCHANGED <<registry, started, startedHooks, todo, pos, snap, held, counts, runs, history>>

-----------------------------------------------------------------------------
(* Start, after Configure has returned nil.                                *)

StartNoop(g) ==
  /\ pc[g] = "start" /\ started
  /\ pc' = [pc EXCEPT ![g] = "idle"]
  /\ UNCHANGED <<registry, flags, call, todo, pos, snap, held, counts, runs, history>>

\* Broken variant: Start does not look at `started`.
StartEnterAgain(g) ==
  /\ pc[g] = "start"
  /\ pc' = [pc EXCEPT ![g] = "hooks"]
  /\ snap' = [snap EXCEPT ![g] = hooks]
  /\ passes' = passes + 1
  /\ pass' = [pass EXCEPT ![g] = passes + 1]
  /\ raced' = (raced \/ Starting # {})
  /\ UNCHANGED <<registry, flags, call, todo, pos, held, counts, live, lost, clash>>

StartEnter(g) ==
  /\ pc[g] = "start" /\ ~started
  /\ pc' = [pc EXCEPT ![g] = "hooks"]
  /\ snap' = [snap EXCEPT ![g] = hooks]
  /\ held' = [held EXCEPT ![g] = <<>>]
  /\ passes' = passes + 1
  /\ pass' = [pass EXCEPT ![g] = passes + 1]
  /\ raced' = (raced \/ Starting # {})
  /\ UNCHANGED <<registry, flags, call, todo, pos, counts, live, lost, clash>>

\* hook.Start is nil or returns nil.
StartHook(g) ==
  /\ pc[g] = "hooks" /\ snap[g] # <<>>
  /\ LET run == [hook |-> Head(snap[g]), pass |-> pass[g], at |-> Len(held[g]) + 1] IN
       /\ held' = [held EXCEPT ![g] = Append(@, run)]
       /\ live' = live \cup {run}
  /\ snap' = [snap EXCEPT ![g] = Tail(@)]
  /\ UNCHANGED <<registry, flags, pc, call, todo, pos, counts, passes, pass, lost, history>>

\* Broken variant: a failed Start returns without stopping what it started.
StartHookNoRollback(g) ==
  /\ pc[g] = "hooks" /\ snap[g] # <<>>
  /\ Head(snap[g]) \in FlakyStarts \ NilStart
  /\ Fault
  /\ pc' = [pc EXCEPT ![g] = "idle"]
  /\ snap' = [snap EXCEPT ![g] = <<>>]
  /\ UNCHANGED <<registry, flags, call, todo, pos, held, calls, runs, history>>

\* hook.Start returns an error: stopHooks runs over what has been started.
StartHookFault(g) ==
  /\ pc[g] = "hooks" /\ snap[g] # <<>>
  /\ Head(snap[g]) \in FlakyStarts \ NilStart
  /\ Fault
  /\ pc' = [pc EXCEPT ![g] = "rollback"]
  /\ snap' = [snap EXCEPT ![g] = <<>>]
  /\ UNCHANGED <<registry, flags, call, todo, pos, held, calls, runs, history>>

StartDone(g) ==
  /\ pc[g] = "hooks" /\ snap[g] = <<>>
  /\ startedHooks' = held[g]
  /\ started' = TRUE
  /\ pc' = [pc EXCEPT ![g] = "idle"]
  /\ held' = [held EXCEPT ![g] = <<>>]
  /\ lost' = lost \cup Entries(startedHooks)
  /\ UNCHANGED <<registry, configured, call, todo, pos, snap, counts, passes, pass, live, history>>

-----------------------------------------------------------------------------
(* Stop.                                                                   *)

StopNoop(g) ==
  /\ Enter(g) /\ ~started
  /\ UNCHANGED <<registry, flags, locals, faults, runs, history>>

\* Broken variant: Stop clears startedHooks before it copies them.
StopEnterCleared(g) ==
  /\ Enter(g) /\ started
  /\ startedHooks' = <<>>
  /\ started' = FALSE
  /\ pc' = [pc EXCEPT ![g] = "stopping"]
  /\ call' = [call EXCEPT ![g] = "stop"]
  /\ UNCHANGED <<registry, configured, todo, pos, snap, held, faults, runs, history>>

StopEnter(g) ==
  /\ Enter(g) /\ started
  /\ held' = [held EXCEPT ![g] = startedHooks]
  /\ startedHooks' = <<>>
  /\ started' = FALSE
  /\ pc' = [pc EXCEPT ![g] = "stopping"]
  /\ call' = [call EXCEPT ![g] = "stop"]
  /\ UNCHANGED <<registry, configured, todo, pos, snap, faults, runs, history>>

\* Broken variants of stopHooks: it returns at the first error; it stops the
\* hooks in the order they were started.
StopHookGivesUp(g) ==
  /\ g \in Stopping /\ held[g] # <<>>
  /\ LET run == held[g][Len(held[g])] IN
       \/ /\ UNCHANGED faults
          /\ live' = live \ {run}
          /\ held' = [held EXCEPT ![g] = SubSeq(@, 1, Len(@) - 1)]
       \/ /\ run.hook \in FlakyStops \ NilStop /\ Fault
          /\ live' = live \ {run}
          /\ held' = [held EXCEPT ![g] = <<>>]
  /\ UNCHANGED <<registry, flags, pc, call, todo, pos, snap, calls, passes, pass, lost, history>>

StopHookForward(g) ==
  /\ g \in Stopping /\ held[g] # <<>>
  /\ live' = live \ {Head(held[g])}
  /\ held' = [held EXCEPT ![g] = Tail(@)]
  /\ UNCHANGED <<registry, flags, pc, call, todo, pos, snap, counts, passes, pass, lost, history>>

\* One turn of stopHooks.  An error is collected and the loop goes on.
StopHook(g) ==
  /\ g \in Stopping /\ held[g] # <<>>
  /\ LET run == held[g][Len(held[g])] IN
       /\ \/ UNCHANGED faults
          \/ run.hook \in FlakyStops \ NilStop /\ Fault
       /\ live' = live \ {run}
  /\ held' = [held EXCEPT ![g] = SubSeq(@, 1, Len(@) - 1)]
  /\ UNCHANGED <<registry, flags, pc, call, todo, pos, snap, calls, passes, pass, lost, history>>

\* Broken variant: Stop waits until nobody has started the App again.
StopWaits(g) ==
  /\ g \in Stopping /\ held[g] = <<>> /\ ~started
  /\ pc' = [pc EXCEPT ![g] = "idle"]
  /\ UNCHANGED <<registry, flags, call, todo, pos, snap, held, counts, runs, history>>

StopReturns(g) ==
  /\ g \in Stopping /\ held[g] = <<>>
  /\ pc' = [pc EXCEPT ![g] = "idle"]
  /\ UNCHANGED <<registry, flags, call, todo, pos, snap, held, counts, runs, history>>

-----------------------------------------------------------------------------

ConfigureStep(g) ==
  \/ Autowire(g) \/ AutowireClash(g) \/ AutowireDone(g)
  \/ ModuleEffect(g) \/ ModuleClash(g) \/ ModuleFault(g) \/ ModuleIsNil(g) \/ ModuleReturns(g)
  \/ ConfigureDone(g)

StartStep(g) ==
  \/ StartNoop(g) \/ StartEnter(g) \/ StartHook(g) \/ StartHookFault(g) \/ StartDone(g)

StopStep(g) == StopHook(g) \/ StopReturns(g)

\* The steps of a call that has begun.
Step(g) == ConfigureStep(g) \/ StartStep(g) \/ StopStep(g)

\* A goroutine calls into the App.
Call(g) ==
  \/ \E m \in LateModules : Use(g, m)
  \/ \E h \in LateHooks : RegisterHook(g, h)
  \/ \E id \in DirectIds : RegisterDirect(g, id)
  \/ \E id \in OverrideIds : Override(g, id)
  \/ \E c \in {"configure", "start"} : ConfigureEnter(g, c)
  \/ StopNoop(g) \/ StopEnter(g)

Next == \E g \in Goroutines : Call(g) \/ Step(g)

\* A call that has begun runs to its end: hooks and modules return, and the
\* scheduler runs every goroutine that can run.  Nobody has to make a call.
Fairness == \A g \in Goroutines : WF_vars(Step(g))

Spec == Init /\ [][Next]_vars
FairSpec == Spec /\ Fairness

-----------------------------------------------------------------------------
(* The App implements Supervisor: a Start is open while a goroutine is in  *)
(* its loop over the hooks.                                                *)

Promise == INSTANCE Supervisor
  WITH opened <- passes, open <- {pass[g] : g \in Starting}, running <- live

-----------------------------------------------------------------------------
(* Properties.                                                             *)

\* Every variable keeps its type, and a goroutine outside Configure, Start or
\* Stop holds none of their snapshots.
TypeOK ==
  /\ modules \in Seq(Modules \cup {NilModule}) /\ hooks \in Seq(Hooks)
  /\ services \subseteq Names \cup Types /\ providers \subseteq Names \cup Types
  /\ configured \in BOOLEAN /\ started \in BOOLEAN /\ startedHooks \in Seq(Run)
  /\ pc \in [Goroutines -> {"idle", "autowire", "module", "start", "hooks", "rollback", "stopping"}]
  /\ call \in [Goroutines -> {"none", "configure", "start", "stop"}]
  /\ todo \in [Goroutines -> Seq(Modules \cup {NilModule})]
  /\ pos \in [Goroutines -> Nat \ {0}]
  /\ snap \in [Goroutines -> Seq(Hooks)]
  /\ held \in [Goroutines -> Seq(Run)]
  /\ calls \in Nat /\ faults \in Nat
  /\ passes \in Nat /\ pass \in [Goroutines -> Nat]
  /\ live \subseteq Run /\ lost \subseteq Run
  /\ raced \in BOOLEAN
  /\ clash \subseteq Names \cup Types
  /\ \A g \in Goroutines : g \notin Starting \cup Stopping => held[g] = <<>>

\* Every run of a hook has exactly one owner that will stop it: startedHooks, a
\* Start that can still roll back, or a Stop under way.  Only runs whose entry
\* another Start overwrote have none.  So no hook is stopped twice for one
\* start, and a failed Start leaves nothing of its own behind.
RunsAccounted ==
  /\ live = lost \cup Entries(startedHooks) \cup UNION {Entries(held[g]) : g \in Goroutines}
  /\ lost \cap Entries(startedHooks) = {}
  /\ \A g \in Goroutines : Entries(held[g]) \cap (lost \cup Entries(startedHooks)) = {}
  /\ \A f, g \in Goroutines : f # g => Entries(held[f]) \cap Entries(held[g]) = {}
  /\ \A i, j \in DOMAIN startedHooks : startedHooks[i] = startedHooks[j] => i = j
  /\ \A g \in Goroutines : \A i, j \in DOMAIN held[g] : held[g][i] = held[g][j] => i = j

\* A hook runs only while everything its Start pass started before it still
\* runs: Start goes forward, rollback and Stop go backward, so the web server
\* never outlives the database module it was started after.
PrefixRunning ==
  \A r \in live : \A i \in 1..(r.at - 1) : \E q \in live : q.pass = r.pass /\ q.at = i

\* The check of `started` and its setting are two critical sections, so two
\* Starts can both run the hooks; a run is lost to a later Start only then.
NothingLost == ~raced => lost = {}

\* However calls interleave and whatever fails, the hooks of every Start behave
\* as the stack of Supervisor: pushed in order while the Start is in its loop,
\* popped from the top and only after it left the loop, each at most once, and
\* never pushed again by a Start that is over.
StacksKept == Promise!Spec

\* With no call under way and `started` false, no hook runs: not after a Stop,
\* not after a Start that failed half way, however the calls interleaved
\* (two Starts at once excepted).
NothingLeftRunning == Idle /\ ~started /\ ~raced => live = {}

\* A started App runs every hook of the modules it was built from once, modules
\* in their order and each module's hooks in theirs.  A Configure that failed
\* half way, or that another one overlapped, cannot make a hook start twice or
\* leave one out: of all passes only one gets past the first name, and the App
\* never starts unless that pass succeeds (OwnHooks).
HookPlace(x, k) == {i \in DOMAIN startedHooks : startedHooks[i].hook = IdAt(x, k)}
StartedComplete ==
  started =>
    \A x \in DOMAIN InitialModules : \A k \in HookSteps(InitialModules[x]) :
      /\ Cardinality(HookPlace(x, k)) = 1
      /\ \A y \in DOMAIN InitialModules : \A l \in HookSteps(InitialModules[y]) :
           x < y \/ (x = y /\ k < l) =>
             \A i \in HookPlace(x, k), j \in HookPlace(y, l) : i < j

\* Once Stop or a rollback has taken a pass's runs, all of them come to an end,
\* also when a Stop returns an error.
TakenRunsEnd ==
  \A p \in 1..MaxCalls :
    (\E g \in Stopping : \E r \in Entries(held[g]) : r.pass = p)
      ~> (\A r \in live : r.pass # p)

\* Every call returns.
CallsReturn == \A g \in Goroutines : (pc[g] # "idle") ~> (pc[g] = "idle")

\* docs/testing.md:39 says services and providers can be overridden before the
\* App starts.  The name a module registers itself is then taken, and Configure
\* fails on it.
OverrideIsHarmless == clash \cap OverrideIds = {}
=============================================================================
