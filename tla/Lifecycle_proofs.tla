--------------------------- MODULE Lifecycle_proofs ---------------------------
(* Theorems about Lifecycle, for any goroutines, modules, hooks and bounds.   *)
EXTENDS Lifecycle, FiniteSetTheorems, TLAPS

-----------------------------------------------------------------------------
(* Type correctness.                                                         *)

LEMMA InitTypeOK == Init => TypeOK
  <1> SUFFICES ASSUME Init PROVE TypeOK
    OBVIOUS
  <1>1. InitialModules \in Seq(Modules \cup {NilModule})
    BY LifecycleAssumption DEF LifecycleAssumption
  <1>2. /\ hooks \in Seq(Hooks) /\ startedHooks \in Seq(Run)
        /\ todo \in [Goroutines -> Seq(Modules \cup {NilModule})]
        /\ snap \in [Goroutines -> Seq(Hooks)]
        /\ held \in [Goroutines -> Seq(Run)]
    BY DEF Init
  <1>3. \A g \in Goroutines : held[g] = <<>>
    BY DEF Init
  <1>4. /\ pos \in [Goroutines -> Nat \ {0}] /\ pass \in [Goroutines -> Nat]
        /\ live \subseteq Run /\ lost \subseteq Run
    BY DEF Init
  <1> QED BY <1>1, <1>2, <1>3, <1>4 DEF Init, TypeOK

\* The next effect of a module's script is an effect.
LEMMA EffectTyped ==
  ASSUME TypeOK, NEW g \in Goroutines, MoreEffects(g)
  PROVE  NextEffect(g) \in Effect
  <1>1. todo[g] \in Seq(Modules \cup {NilModule}) /\ todo[g] # <<>>
    BY DEF TypeOK, MoreEffects, InModule
  <1>2. Head(todo[g]) \in Modules
    BY <1>1 DEF MoreEffects, InModule
  <1>3. Script[Head(todo[g])] \in Seq(Effect)
    BY <1>2, LifecycleAssumption DEF LifecycleAssumption
  <1>4. pos[g] \in 1..Len(Script[Head(todo[g])])
    BY <1>3 DEF TypeOK, MoreEffects
  <1> QED BY <1>3, <1>4 DEF NextEffect

\* A call that only writes the registry keeps the types.
LEMMA RegistryTypeOK ==
  ASSUME TypeOK, UNCHANGED <<flags, locals, faults, runs, history>>, calls' \in Nat,
         modules' \in Seq(Modules \cup {NilModule}), hooks' \in Seq(Hooks),
         services' \subseteq Names \cup Types, providers' \subseteq Names \cup Types
  PROVE  TypeOK'
  <1>1. \A f \in Goroutines : f \notin (Starting \cup Stopping)' => held'[f] = <<>>
    BY DEF TypeOK, locals, Starting, Stopping
  <1> QED BY <1>1 DEF TypeOK, flags, locals, runs, history

LEMMA CallTypeOK ==
  ASSUME TypeOK, NEW g \in Goroutines, Call(g)
  PROVE  TypeOK'
  <1>1. ASSUME NEW m \in LateModules, Use(g, m) PROVE TypeOK'
    <2>1. m \in Modules \cup {NilModule}
      BY LifecycleAssumption DEF LifecycleAssumption
    <2>2. modules' \in Seq(Modules \cup {NilModule}) /\ calls' \in Nat
      BY <1>1, <2>1 DEF TypeOK, Use, Enter
    <2> QED BY <1>1, <2>2, RegistryTypeOK DEF TypeOK, Use
  <1>2. ASSUME NEW h \in LateHooks, RegisterHook(g, h) PROVE TypeOK'
    <2>1. h \in Hooks
      BY LifecycleAssumption DEF LifecycleAssumption
    <2>2. hooks' \in Seq(Hooks) /\ calls' \in Nat
      BY <1>2, <2>1 DEF TypeOK, RegisterHook, Enter
    <2> QED BY <1>2, <2>2, RegistryTypeOK DEF TypeOK, RegisterHook
  <1>3. ASSUME NEW id \in DirectIds, RegisterDirect(g, id) PROVE TypeOK'
    <2>1. services' \subseteq Names \cup Types /\ providers' \subseteq Names \cup Types
      BY <1>3 DEF TypeOK, RegisterDirect, AddId
    <2>2. calls' \in Nat
      BY <1>3 DEF TypeOK, RegisterDirect, Enter
    <2> QED BY <1>3, <2>1, <2>2, RegistryTypeOK DEF TypeOK, RegisterDirect
  <1>4. ASSUME NEW id \in OverrideIds, Override(g, id) PROVE TypeOK'
    <2>1. services' \subseteq Names \cup Types /\ providers' \subseteq Names \cup Types
      BY <1>4 DEF TypeOK, Override, AddId
    <2>2. calls' \in Nat
      BY <1>4 DEF TypeOK, Override, Enter
    <2> QED BY <1>4, <2>1, <2>2, RegistryTypeOK DEF TypeOK, Override
  <1>5. ASSUME NEW c \in {"configure", "start"}, ConfigureEnter(g, c) PROVE TypeOK'
    <2>1. /\ call' \in [Goroutines -> {"none", "configure", "start", "stop"}]
          /\ calls' \in Nat
      BY <1>5 DEF TypeOK, ConfigureEnter, Enter
    <2>2. UNCHANGED <<registry, flags, snap, held, faults, runs, history>>
      BY <1>5 DEF ConfigureEnter
    <2>3. PICK s \in {"idle", "start", "autowire"} : pc' = [pc EXCEPT ![g] = s]
      BY <1>5 DEF ConfigureEnter, ConfigureReturns
    <2>4. todo' \in [Goroutines -> Seq(Modules \cup {NilModule})]
      <3>1. todo' = todo \/ todo' = [todo EXCEPT ![g] = modules]
        BY <1>5 DEF ConfigureEnter
      <3> QED BY <3>1 DEF TypeOK
    <2>5. pos' \in [Goroutines -> Nat \ {0}]
      <3>1. pos' = pos \/ pos' = [pos EXCEPT ![g] = 1]
        BY <1>5 DEF ConfigureEnter
      <3>2. pos \in [Goroutines -> Nat \ {0}]
        BY DEF TypeOK
      <3> QED BY <3>1, <3>2
    <2>6. \A f \in Goroutines : f \notin (Starting \cup Stopping)' => held'[f] = <<>>
      BY <1>5, <2>2, <2>3 DEF TypeOK, Starting, Stopping, ConfigureEnter, Enter
    <2>7. pc' \in [Goroutines -> {"idle", "autowire", "module", "start", "hooks", "rollback", "stopping"}]
      BY <2>3 DEF TypeOK
    <2> QED BY <2>1, <2>2, <2>4, <2>5, <2>6, <2>7 DEF TypeOK, registry, flags, runs, history
  <1>6. ASSUME StopNoop(g) PROVE TypeOK'
    <2>1. calls' \in Nat /\ UNCHANGED <<registry, flags, locals, faults, runs, history>>
      BY <1>6 DEF TypeOK, StopNoop, Enter
    <2> QED BY <2>1, RegistryTypeOK DEF TypeOK, registry
  <1>7. ASSUME StopEnter(g) PROVE TypeOK'
    <2>1. /\ held' \in [Goroutines -> Seq(Run)] /\ startedHooks' \in Seq(Run)
          /\ call' \in [Goroutines -> {"none", "configure", "start", "stop"}]
          /\ pc' \in [Goroutines -> {"idle", "autowire", "module", "start", "hooks", "rollback", "stopping"}]
      BY <1>7 DEF TypeOK, StopEnter
    <2>2. \A f \in Goroutines : f \notin (Starting \cup Stopping)' => held'[f] = <<>>
      BY <1>7 DEF TypeOK, StopEnter, Starting, Stopping
    <2>3. calls' \in Nat /\ started' = FALSE
      BY <1>7 DEF TypeOK, StopEnter, Enter
    <2>4. UNCHANGED <<registry, configured, todo, pos, snap, faults, runs, history>>
      BY <1>7 DEF StopEnter
    <2> QED BY <2>1, <2>2, <2>3, <2>4 DEF TypeOK, registry, runs, history
  <1> QED BY <1>1, <1>2, <1>3, <1>4, <1>5, <1>6, <1>7 DEF Call

\* A Configure that returns an error keeps the types.
LEMMA ConfigureFailsTypeOK ==
  ASSUME TypeOK, NEW g \in Goroutines, pc[g] \in {"autowire", "module"},
         ConfigureFails(g), UNCHANGED registry,
         faults' \in Nat, clash' \subseteq Names \cup Types
  PROVE  TypeOK'
  <1>1. /\ pc' = [pc EXCEPT ![g] = "idle"]
        /\ todo' \in [Goroutines -> Seq(Modules \cup {NilModule})]
        /\ pos' \in [Goroutines -> Nat \ {0}]
    BY DEF TypeOK, ConfigureFails
  <1>2. UNCHANGED <<registry, flags, call, snap, held, calls, runs, raced>>
    BY DEF ConfigureFails
  <1>3. \A f \in Goroutines : f \notin (Starting \cup Stopping)' => held'[f] = <<>>
    <2>1. /\ pc \in [Goroutines -> {"idle", "autowire", "module", "start", "hooks", "rollback", "stopping"}]
          /\ \A f \in Goroutines : f \notin Starting \cup Stopping => held[f] = <<>>
      BY DEF TypeOK
    <2>2. \A f \in Goroutines : f = g \/ pc'[f] = pc[f]
      BY <1>1, <2>1
    <2>3. held[g] = <<>>
      BY <2>1 DEF Starting, Stopping
    <2> QED BY <1>2, <2>1, <2>2, <2>3 DEF Starting, Stopping
  <1> QED BY <1>1, <1>2, <1>3 DEF TypeOK, registry, flags, runs

\* A step of a Configure that goes on keeps the types.
LEMMA ConfiguringTypeOK ==
  ASSUME TypeOK, NEW g \in Goroutines, pc[g] \in {"autowire", "module"},
         UNCHANGED <<modules, started, startedHooks, call, snap, held, counts, runs, history>>,
         configured' \in BOOLEAN, hooks' \in Seq(Hooks),
         services' \subseteq Names \cup Types, providers' \subseteq Names \cup Types,
         todo' \in [Goroutines -> Seq(Modules \cup {NilModule})], pos' \in [Goroutines -> Nat \ {0}],
         NEW s \in {"idle", "autowire", "module", "start"}, pc' = [pc EXCEPT ![g] = s]
  PROVE  TypeOK'
  <1>1. pc' \in [Goroutines -> {"idle", "autowire", "module", "start", "hooks", "rollback", "stopping"}]
    BY DEF TypeOK
  <1>2. \A f \in Goroutines : f \notin (Starting \cup Stopping)' => held'[f] = <<>>
    <2>1. \A f \in Goroutines : f \in Starting \cup Stopping => f # g
      BY DEF Starting, Stopping
    <2>2. \A f \in Goroutines : f # g => pc'[f] = pc[f]
      BY DEF TypeOK
    <2>3. \A f \in Goroutines : f \in Starting \cup Stopping => f \in (Starting \cup Stopping)'
      BY <2>1, <2>2 DEF Starting, Stopping
    <2> QED BY <2>3 DEF TypeOK
  <1> QED BY <1>1, <1>2 DEF TypeOK, counts, runs, history

LEMMA ConfigureStepTypeOK ==
  ASSUME TypeOK, NEW g \in Goroutines, ConfigureStep(g)
  PROVE  TypeOK'
  <1>a. pc = [pc EXCEPT ![g] = pc[g]]
    BY DEF TypeOK
  <1>b. \A n \in Nat \ {0} : [pos EXCEPT ![g] = n] \in [Goroutines -> Nat \ {0}]
    BY DEF TypeOK
  <1>c. pos[g] + 1 \in Nat \ {0}
    BY DEF TypeOK
  <1>1. CASE Autowire(g)
    <2>1. Autowired[pos[g]] \in Types
      BY <1>1, LifecycleAssumption DEF LifecycleAssumption, TypeOK, Autowire
    <2>2. services' \subseteq Names \cup Types /\ providers' \subseteq Names \cup Types
      BY <1>1, <2>1 DEF TypeOK, Autowire, AddId
    <2>3. pos' \in [Goroutines -> Nat \ {0}]
      BY <1>1, <1>b, <1>c DEF Autowire
    <2> QED BY <1>1, <1>a, <2>2, <2>3, ConfiguringTypeOK DEF TypeOK, Autowire, flags
  <1>2. CASE AutowireClash(g)
    <2>1. Autowired \in Seq(Types)
      BY LifecycleAssumption DEF LifecycleAssumption
    <2>2. Autowired[pos[g]] \in Types
      BY <1>2, <2>1 DEF TypeOK, AutowireClash
    <2> QED BY <1>2, <2>2, ConfigureFailsTypeOK DEF AutowireClash, TypeOK
  <1>3. CASE AutowireDone(g)
    <2>1. pos' \in [Goroutines -> Nat \ {0}]
      BY <1>3, <1>b DEF AutowireDone
    <2> QED BY <1>3, <2>1, ConfiguringTypeOK DEF TypeOK, AutowireDone, registry, flags
  <1>4. CASE ModuleEffect(g)
    <2> DEFINE e == NextEffect(g)
    <2>1. e \in Effect
      BY <1>4, EffectTyped DEF ModuleEffect
    <2> HIDE DEF e
    <2>2. hooks' \in Seq(Hooks) /\ services' \subseteq Names \cup Types /\ providers' \subseteq Names \cup Types
      <3>1. CASE e.op = "hook" /\ hooks' = Append(hooks, e.id) /\ UNCHANGED <<services, providers>>
        BY <2>1, <3>1 DEF TypeOK, Effect
      <3>2. CASE e.op # "hook" /\ AddId(e.id) /\ UNCHANGED hooks
        BY <3>2 DEF TypeOK, AddId
      <3> QED BY <1>4, <3>1, <3>2 DEF ModuleEffect, e
    <2>3. pos' \in [Goroutines -> Nat \ {0}]
      BY <1>4, <1>b, <1>c DEF ModuleEffect
    <2> QED BY <1>4, <1>a, <2>2, <2>3, ConfiguringTypeOK DEF TypeOK, ModuleEffect, MoreEffects, InModule, flags
  <1>5. CASE ModuleClash(g)
    <2>1. NextEffect(g) \in Effect
      BY <1>5, EffectTyped DEF ModuleClash
    <2>2. NextEffect(g).id \in Names \cup Types
      BY <1>5, <2>1 DEF ModuleClash, Effect
    <2> QED BY <1>5, <2>2, ConfigureFailsTypeOK DEF TypeOK, ModuleClash, MoreEffects, InModule
  <1>6. CASE ModuleFault(g)
    <2>1. faults' \in Nat
      BY <1>6 DEF TypeOK, ModuleFault, Fault
    <2> QED BY <1>6, <2>1, ConfigureFailsTypeOK DEF TypeOK, ModuleFault, InModule
  <1>7. CASE ModuleIsNil(g)
    BY <1>7, ConfigureFailsTypeOK DEF TypeOK, ModuleIsNil
  <1>8. CASE ModuleReturns(g)
    <2>1. todo' \in [Goroutines -> Seq(Modules \cup {NilModule})]
      BY <1>8 DEF TypeOK, ModuleReturns, InModule
    <2>2. pos' \in [Goroutines -> Nat \ {0}]
      BY <1>8, <1>b DEF ModuleReturns
    <2> QED BY <1>8, <1>a, <2>1, <2>2, ConfiguringTypeOK DEF TypeOK, ModuleReturns, InModule, registry, flags
  <1>9. CASE ConfigureDone(g)
    <2>1. PICK s \in {"idle", "start"} : pc' = [pc EXCEPT ![g] = s]
      BY <1>9 DEF ConfigureDone, ConfigureReturns
    <2> QED BY <1>9, <2>1, ConfiguringTypeOK DEF TypeOK, ConfigureDone, registry
  <1> QED BY <1>1, <1>2, <1>3, <1>4, <1>5, <1>6, <1>7, <1>8, <1>9 DEF ConfigureStep

LEMMA StartStepTypeOK ==
  ASSUME TypeOK, NEW g \in Goroutines, StartStep(g)
  PROVE  TypeOK'
  <1> USE DEF TypeOK, registry, flags, runs, counts, history, Starting, Stopping
  <1>1. CASE StartNoop(g)
    BY <1>1 DEF StartNoop
  <1>2. CASE StartEnter(g)
    <2>1. passes' \in Nat /\ pass' \in [Goroutines -> Nat]
      BY <1>2 DEF StartEnter
    <2>2. /\ snap' \in [Goroutines -> Seq(Hooks)] /\ held' \in [Goroutines -> Seq(Run)]
          /\ pc' \in [Goroutines -> {"idle", "autowire", "module", "start", "hooks", "rollback", "stopping"}]
      BY <1>2 DEF StartEnter
    <2>3. \A f \in Goroutines : f \notin (Starting \cup Stopping)' => held'[f] = <<>>
      BY <1>2 DEF StartEnter
    <2>4. raced' \in BOOLEAN
      BY <1>2 DEF StartEnter
    <2> QED BY <1>2, <2>1, <2>2, <2>3, <2>4 DEF StartEnter
  <1>3. CASE StartHook(g)
    <2> DEFINE run == [hook |-> Head(snap[g]), pass |-> pass[g], at |-> Len(held[g]) + 1]
    <2>1. run \in Run
      BY <1>3 DEF StartHook, Run
    <2>2. /\ held' = [held EXCEPT ![g] = Append(@, run)]
          /\ live' = live \cup {run}
          /\ snap' = [snap EXCEPT ![g] = Tail(@)]
      BY <1>3 DEF StartHook
    <2> HIDE DEF run
    <2>3. held' \in [Goroutines -> Seq(Run)] /\ snap' \in [Goroutines -> Seq(Hooks)]
      BY <1>3, <2>1, <2>2 DEF StartHook
    <2> QED BY <1>3, <2>1, <2>2, <2>3 DEF StartHook
  <1>4. CASE StartHookFault(g)
    <2>1. /\ pc' \in [Goroutines -> {"idle", "autowire", "module", "start", "hooks", "rollback", "stopping"}]
          /\ snap' \in [Goroutines -> Seq(Hooks)] /\ faults' \in Nat
      BY <1>4 DEF StartHookFault, Fault
    <2>2. \A f \in Goroutines : f \notin (Starting \cup Stopping)' => held'[f] = <<>>
      BY <1>4 DEF StartHookFault
    <2> QED BY <1>4, <2>1, <2>2 DEF StartHookFault
  <1>5. CASE StartDone(g)
    BY <1>5 DEF StartDone, Entries
  <1> QED BY <1>1, <1>2, <1>3, <1>4, <1>5 DEF StartStep

LEMMA StopStepTypeOK ==
  ASSUME TypeOK, NEW g \in Goroutines, StopStep(g)
  PROVE  TypeOK'
  <1> USE DEF TypeOK, registry, flags, runs, counts, history, Starting, Stopping
  <1>1. CASE StopHook(g)
    <2>1. SubSeq(held[g], 1, Len(held[g]) - 1) \in Seq(Run)
      BY <1>1 DEF StopHook
    <2>2. faults' \in Nat
      BY <1>1 DEF StopHook, Fault
    <2> QED BY <1>1, <2>1, <2>2 DEF StopHook
  <1>2. CASE StopReturns(g)
    BY <1>2 DEF StopReturns
  <1> QED BY <1>1, <1>2 DEF StopStep

\* In every reachable state every variable has its type.
THEOREM TypeCorrect == Spec => []TypeOK
  <1>1. TypeOK /\ [Next]_vars => TypeOK'
    <2> SUFFICES ASSUME TypeOK, [Next]_vars PROVE TypeOK'
      OBVIOUS
    <2>1. CASE Next
      BY <2>1, CallTypeOK, ConfigureStepTypeOK, StartStepTypeOK, StopStepTypeOK DEF Next, Step
    <2>2. CASE UNCHANGED vars
      BY <2>2 DEF vars, registry, flags, locals, counts, runs, history, TypeOK, Starting, Stopping
    <2> QED BY <2>1, <2>2
  <1> QED BY InitTypeOK, <1>1, PTL DEF Spec

-----------------------------------------------------------------------------
(* Who owns the runs.  The invariant says which runs every slice holds: those *)
(* of one pass, numbered by their place.  A Start under way is the only one   *)
(* that holds runs of its pass, so the run it adds next is new.               *)

OnePass(s) == \A i \in DOMAIN s : s[i].at = i /\ s[i].pass = s[1].pass
Closed(R)  == \A r \in R : \A i \in 1..(r.at - 1) : \E q \in R : q.pass = r.pass /\ q.at = i

Owners ==
  /\ \A r \in live : \/ r \in lost \cup Entries(startedHooks)
                    \/ \E g \in Goroutines : r \in Entries(held[g])
  /\ lost \cup Entries(startedHooks) \subseteq live
  /\ \A g \in Goroutines : Entries(held[g]) \subseteq live
  /\ lost \cap Entries(startedHooks) = {}
  /\ \A g \in Goroutines : Entries(held[g]) \cap (lost \cup Entries(startedHooks)) = {}
  /\ \A f, g \in Goroutines : f # g => Entries(held[f]) \cap Entries(held[g]) = {}

Slices ==
  /\ OnePass(startedHooks)
  /\ \A g \in Goroutines : OnePass(held[g])
  /\ Closed(lost)
  /\ ~started => startedHooks = <<>>

Passes ==
  /\ \A r \in live : r.pass <= passes
  /\ \A g \in Starting :
       /\ pass[g] <= passes
       /\ \A r \in Entries(held[g]) : r.pass = pass[g]
       /\ \A r \in live \ Entries(held[g]) : r.pass # pass[g]
       /\ \A f \in Starting : f # g => pass[f] # pass[g]

Unraced ==
  ~raced => /\ lost = {}
            /\ \A f, g \in Starting : f = g
            /\ Starting # {} => ~started

RunsInv == TypeOK /\ Owners /\ Slices /\ Passes /\ Unraced

LEMMA InitRunsInv == Init => RunsInv
  <1> SUFFICES ASSUME Init PROVE RunsInv
    OBVIOUS
  <1>1. \A g \in Goroutines : held[g] = <<>> /\ g \notin Starting
    BY DEF Init, Starting
  <1>2. startedHooks = <<>> /\ live = {} /\ lost = {}
    BY DEF Init
  <1>3. Owners
    BY <1>1, <1>2 DEF Owners, Entries
  <1>4. Slices
    BY <1>1, <1>2 DEF Slices, OnePass, Closed
  <1>5. Passes /\ Unraced
    BY <1>1, <1>2 DEF Passes, Unraced, Starting
  <1> QED BY InitTypeOK, <1>3, <1>4, <1>5 DEF RunsInv

\* Most steps leave the runs alone; a goroutine may leave Start's loop.
LEMMA RunsUntouched ==
  ASSUME RunsInv, TypeOK', Starting' \subseteq Starting,
         UNCHANGED <<started, startedHooks, held, passes, pass, live, lost, raced>>
  PROVE  RunsInv'
  <1>1. Owners'
    BY DEF RunsInv, Owners
  <1>2. Slices'
    BY DEF RunsInv, Slices, OnePass, Closed
  <1>3. Passes'
    BY DEF RunsInv, Passes, Entries
  <1>4. Unraced'
    BY DEF RunsInv, Unraced
  <1> QED BY <1>1, <1>2, <1>3, <1>4 DEF RunsInv

LEMMA StartEnterRunsInv ==
  ASSUME RunsInv, TypeOK', NEW g \in Goroutines, StartEnter(g)
  PROVE  RunsInv'
  <1>1. /\ held[g] = <<>> /\ ~started /\ g \notin Starting
        /\ held' = [held EXCEPT ![g] = <<>>]
        /\ Starting' = Starting \cup {g}
        /\ passes' = passes + 1 /\ pass' = [pass EXCEPT ![g] = passes + 1]
        /\ raced' = (raced \/ Starting # {})
        /\ UNCHANGED <<started, startedHooks, live, lost>>
    <2>1. held[g] = <<>> /\ ~started /\ g \notin Starting
      <3>1. pc[g] = "start" /\ ~started
        BY DEF StartEnter
      <3>2. g \notin Starting /\ g \notin Stopping
        BY <3>1 DEF Starting, Stopping
      <3>3. \A f \in Goroutines : f \notin Starting \cup Stopping => held[f] = <<>>
        BY DEF RunsInv, TypeOK
      <3> QED BY <3>1, <3>2, <3>3
    <2>2. pc' = [pc EXCEPT ![g] = "hooks"]
      BY DEF StartEnter
    <2>3. Starting' = Starting \cup {g}
      <3>1. pc \in [Goroutines -> {"idle", "autowire", "module", "start", "hooks", "rollback", "stopping"}]
        BY DEF RunsInv, TypeOK
      <3>2. \A f \in Goroutines : pc'[f] = IF f = g THEN "hooks" ELSE pc[f]
        BY <2>2, <3>1
      <3> QED BY <3>2 DEF Starting
    <2> QED BY <2>1, <2>3 DEF StartEnter, flags
  <1>2. held' = held
    BY <1>1 DEF RunsInv, TypeOK
  <1>3. Owners'
    BY <1>1, <1>2 DEF RunsInv, Owners
  <1>4. Slices'
    BY <1>1, <1>2 DEF RunsInv, Slices, OnePass, Closed
  <1>5. Passes'
    <2>1. passes \in Nat /\ pass \in [Goroutines -> Nat] /\ \A r \in live : r.pass \in Nat
      BY DEF RunsInv, TypeOK, Run
    <2>2. Entries(held'[g]) = {}
      BY <1>1, <1>2 DEF Entries
    <2>3. \A f \in Starting : f # g /\ pass'[f] = pass[f] /\ pass[f] <= passes
      BY <1>1, <2>1 DEF RunsInv, Passes, Starting
    <2>4. \A r \in live' : r.pass <= passes'
      BY <1>1, <2>1 DEF RunsInv, Passes
    <2>5. pass'[g] = passes + 1 /\ \A r \in live : r.pass # passes + 1
      BY <1>1, <2>1 DEF RunsInv, Passes
    <2>6. ASSUME NEW f \in Starting PROVE
            /\ pass'[f] <= passes'
            /\ \A r \in Entries(held'[f]) : r.pass = pass'[f]
            /\ \A r \in live' \ Entries(held'[f]) : r.pass # pass'[f]
            /\ \A h \in Starting' : h # f => pass'[h] # pass'[f]
      BY <1>1, <1>2, <2>1, <2>3, <2>5, <2>6 DEF RunsInv, Passes, Starting
    <2>7. /\ pass'[g] <= passes'
          /\ \A r \in Entries(held'[g]) : r.pass = pass'[g]
          /\ \A r \in live' \ Entries(held'[g]) : r.pass # pass'[g]
          /\ \A h \in Starting' : h # g => pass'[h] # pass'[g]
      BY <1>1, <2>1, <2>2, <2>3, <2>5
    <2> QED BY <1>1, <2>4, <2>6, <2>7 DEF Passes
  <1>6. Unraced'
    BY <1>1 DEF RunsInv, Unraced
  <1> QED BY <1>3, <1>4, <1>5, <1>6 DEF RunsInv

\* The run that Start appends is new, and what the others hold stays theirs.
LEMMA StartHookRunsInv ==
  ASSUME RunsInv, TypeOK', NEW g \in Goroutines, StartHook(g)
  PROVE  RunsInv'
  <1> DEFINE run == [hook |-> Head(snap[g]), pass |-> pass[g], at |-> Len(held[g]) + 1]
  <1>1. /\ g \in Starting /\ Starting' = Starting
        /\ held' = [held EXCEPT ![g] = Append(@, run)]
        /\ live' = live \cup {run}
        /\ UNCHANGED <<started, startedHooks, passes, pass, lost, raced>>
    BY DEF StartHook, Starting, flags, history
  <1>2. run.pass = pass[g] /\ run.at = Len(held[g]) + 1
    OBVIOUS
  <1> HIDE DEF run
  <1>3. /\ held \in [Goroutines -> Seq(Run)] /\ pass \in [Goroutines -> Nat] /\ passes \in Nat
        /\ startedHooks \in Seq(Run) /\ lost \subseteq Run /\ held[g] \in Seq(Run)
    BY DEF RunsInv, TypeOK
  <1>4. run \notin live
    <2>1. ASSUME run \in live PROVE FALSE
      <3>1. run \in Entries(held[g])
        BY <1>1, <1>2, <2>1 DEF RunsInv, Passes
      <3>2. PICK i \in DOMAIN held[g] : held[g][i] = run
        BY <3>1 DEF Entries
      <3>3. run.at = i /\ i \in 1..Len(held[g])
        BY <1>3, <3>2 DEF RunsInv, Slices, OnePass
      <3> QED BY <1>2, <1>3, <3>3
    <2> QED BY <2>1
  <1>5. /\ Entries(held'[g]) = Entries(held[g]) \cup {run}
        /\ \A f \in Goroutines : f # g => held'[f] = held[f]
    <2>1. held'[g] = Append(held[g], run) /\ \A f \in Goroutines : f # g => held'[f] = held[f]
      BY <1>1, <1>3
    <2>2. /\ DOMAIN Append(held[g], run) = DOMAIN held[g] \cup {Len(held[g]) + 1}
          /\ \A i \in DOMAIN held[g] : Append(held[g], run)[i] = held[g][i]
          /\ Append(held[g], run)[Len(held[g]) + 1] = run
      BY <1>3
    <2> QED BY <2>1, <2>2 DEF Entries
  <1>6. Owners'
    <2>1. /\ Entries(startedHooks) \subseteq live /\ lost \subseteq live
          /\ \A f \in Goroutines : Entries(held[f]) \subseteq live
      BY DEF RunsInv, Owners
    <2>2. \A f \in Goroutines :
            Entries(held'[f]) = IF f = g THEN Entries(held[g]) \cup {run} ELSE Entries(held[f])
      BY <1>5 DEF Entries
    <2>3. \A r \in live' : \/ r \in lost \cup Entries(startedHooks)
                          \/ \E f \in Goroutines : r \in Entries(held'[f])
      BY <1>1, <2>2 DEF RunsInv, Owners
    <2>4. \A f \in Goroutines : Entries(held'[f]) \subseteq live'
      BY <1>1, <2>1, <2>2
    <2>5. \A f \in Goroutines : Entries(held'[f]) \cap (lost \cup Entries(startedHooks)) = {}
      BY <1>4, <2>1, <2>2 DEF RunsInv, Owners
    <2>6. \A f, h \in Goroutines : f # h => Entries(held'[f]) \cap Entries(held'[h]) = {}
      BY <1>4, <2>1, <2>2 DEF RunsInv, Owners
    <2>7. lost \cap Entries(startedHooks) = {}
      BY DEF RunsInv, Owners
    <2>8. lost' = lost /\ startedHooks' = startedHooks /\ lost \cup Entries(startedHooks) \subseteq live'
      BY <1>1, <2>1
    <2> QED BY <2>3, <2>4, <2>5, <2>6, <2>7, <2>8 DEF Owners
  <1>7. Slices'
    <2>1. OnePass(held'[g])
      <3>1. \A i \in DOMAIN held[g] : held[g][i].at = i /\ held[g][i].pass = pass[g]
        BY <1>1 DEF RunsInv, Slices, OnePass, Passes, Entries
      <3>2. held'[g] = Append(held[g], run)
        BY <1>1, <1>3
      <3>3. \A i \in DOMAIN held'[g] : held'[g][i].at = i /\ held'[g][i].pass = pass[g]
        BY <1>2, <1>3, <3>1, <3>2
      <3>4. DOMAIN held'[g] # {} => 1 \in DOMAIN held'[g]
        BY <1>3, <3>2
      <3> QED BY <3>3, <3>4 DEF OnePass
    <2>2. \A f \in Goroutines : OnePass(held'[f])
      BY <1>5, <2>1 DEF RunsInv, Slices
    <2> QED BY <1>1, <2>2 DEF RunsInv, Slices, OnePass, Closed
  <1>8. Passes'
    <2>1. \A r \in live' : r.pass <= passes'
      BY <1>1, <1>2, <1>3 DEF RunsInv, Passes
    <2>2. ASSUME NEW f \in Starting PROVE
            /\ pass'[f] <= passes'
            /\ \A r \in Entries(held'[f]) : r.pass = pass'[f]
            /\ \A r \in live' \ Entries(held'[f]) : r.pass # pass'[f]
            /\ \A h \in Starting' : h # f => pass'[h] # pass'[f]
      <3>1. /\ pass[f] <= passes
            /\ \A r \in Entries(held[f]) : r.pass = pass[f]
            /\ \A r \in live \ Entries(held[f]) : r.pass # pass[f]
            /\ \A h \in Starting : h # f => pass[h] # pass[f]
        BY <2>2 DEF RunsInv, Passes
      <3>2. f \in Goroutines
        BY DEF Starting
      <3>3. CASE f = g
        BY <1>1, <1>2, <1>5, <3>1, <3>3
      <3>4. CASE f # g
        <4>1. held'[f] = held[f] /\ pass[f] # run.pass
          BY <1>1, <1>2, <1>5, <3>1, <3>2, <3>4
        <4> QED BY <1>1, <3>1, <4>1
      <3> QED BY <3>3, <3>4
    <2> QED BY <1>1, <2>1, <2>2 DEF Passes
  <1>9. Unraced'
    BY <1>1 DEF RunsInv, Unraced
  <1> QED BY <1>6, <1>7, <1>8, <1>9 DEF RunsInv

\* Publishing: held[g] becomes startedHooks, and what startedHooks held is lost.
LEMMA StartDoneRunsInv ==
  ASSUME RunsInv, TypeOK', NEW g \in Goroutines, StartDone(g)
  PROVE  RunsInv'
  <1>1. /\ g \in Starting /\ Starting' = Starting \ {g}
        /\ startedHooks' = held[g] /\ started' = TRUE
        /\ held' = [held EXCEPT ![g] = <<>>]
        /\ lost' = lost \cup Entries(startedHooks)
        /\ UNCHANGED <<passes, pass, live, raced>>
    BY DEF RunsInv, TypeOK, StartDone, Starting, history
  <1>2. held'[g] = <<>> /\ \A f \in Goroutines : f # g => held'[f] = held[f]
    BY <1>1 DEF RunsInv, TypeOK
  <1>3. Entries(held'[g]) = {}
    BY <1>2 DEF Entries
  <1>4. Owners'
    BY <1>1, <1>2, <1>3 DEF RunsInv, Owners
  <1>5. Slices'
    <2>1. OnePass(startedHooks') /\ \A f \in Goroutines : OnePass(held'[f])
      BY <1>1, <1>2 DEF RunsInv, Slices, OnePass
    <2>2. Closed(Entries(startedHooks))
      <3> SUFFICES ASSUME NEW r \in Entries(startedHooks), NEW i \in 1..(r.at - 1)
                   PROVE  \E q \in Entries(startedHooks) : q.pass = r.pass /\ q.at = i
        BY DEF Closed
      <3>1. PICK j \in DOMAIN startedHooks : startedHooks[j] = r
        BY DEF Entries
      <3>2. startedHooks \in Seq(Run)
        BY DEF RunsInv, TypeOK
      <3>3. r.at = j /\ i \in DOMAIN startedHooks
        BY <3>1, <3>2 DEF RunsInv, Slices, OnePass
      <3>4. startedHooks[i].at = i /\ startedHooks[i].pass = r.pass
        BY <3>1, <3>3 DEF RunsInv, Slices, OnePass
      <3> QED BY <3>3, <3>4 DEF Entries
    <2>3. Closed(lost')
      BY <1>1, <2>2 DEF RunsInv, Slices, Closed
    <2> QED BY <1>1, <2>1, <2>3 DEF Slices
  <1>6. Passes'
    <2>1. \A f \in Starting' : f \in Starting /\ f # g /\ f \in Goroutines /\ held'[f] = held[f]
      BY <1>1, <1>2 DEF Starting
    <2> QED BY <1>1, <2>1 DEF RunsInv, Passes
  <1>7. Unraced'
    <2>1. ~raced => lost' = {}
      <3>1. ~raced => lost = {} /\ startedHooks = <<>>
        BY <1>1 DEF RunsInv, Unraced, Slices
      <3>2. Entries(<<>>) = {}
        BY DEF Entries
      <3> QED BY <1>1, <3>1, <3>2
    <2>2. ~raced => Starting' = {}
      BY <1>1 DEF RunsInv, Unraced
    <2> QED BY <1>1, <2>1, <2>2 DEF Unraced
  <1> QED BY <1>4, <1>5, <1>6, <1>7 DEF RunsInv

\* Stop takes startedHooks.
LEMMA StopEnterRunsInv ==
  ASSUME RunsInv, TypeOK', NEW g \in Goroutines, StopEnter(g)
  PROVE  RunsInv'
  <1>1. /\ g \notin Starting /\ held[g] = <<>> /\ Starting' = Starting
        /\ startedHooks' = <<>> /\ started /\ started' = FALSE
        /\ held' = [held EXCEPT ![g] = startedHooks]
        /\ UNCHANGED <<passes, pass, live, lost, raced>>
    BY DEF RunsInv, TypeOK, StopEnter, Enter, Starting, Stopping, runs, history
  <1>2. held'[g] = startedHooks /\ \A f \in Goroutines : f # g => held'[f] = held[f]
    BY <1>1 DEF RunsInv, TypeOK
  <1>3. Entries(held[g]) = {} /\ Entries(startedHooks') = {}
    BY <1>1 DEF Entries
  <1>4. Owners'
    BY <1>1, <1>2, <1>3 DEF RunsInv, Owners
  <1>5. Slices'
    <2>1. OnePass(startedHooks') /\ \A f \in Goroutines : OnePass(held'[f])
      BY <1>1, <1>2 DEF RunsInv, Slices, OnePass
    <2> QED BY <1>1, <2>1 DEF RunsInv, Slices, Closed
  <1>6. Passes'
    <2>1. \A f \in Starting : f \in Goroutines /\ f # g /\ held'[f] = held[f]
      BY <1>1, <1>2 DEF Starting
    <2> QED BY <1>1, <2>1 DEF RunsInv, Passes
  <1>7. Unraced'
    BY <1>1 DEF RunsInv, Unraced
  <1> QED BY <1>4, <1>5, <1>6, <1>7 DEF RunsInv

\* stopHooks ends the run it takes off the end of its slice.
LEMMA StopHookRunsInv ==
  ASSUME RunsInv, TypeOK', NEW g \in Goroutines, StopHook(g)
  PROVE  RunsInv'
  <1> DEFINE n   == Len(held[g])
             run == held[g][n]
  <1>1. /\ g \notin Starting /\ Starting' = Starting /\ held[g] # <<>>
        /\ live' = live \ {run}
        /\ held' = [held EXCEPT ![g] = SubSeq(held[g], 1, n - 1)]
        /\ UNCHANGED <<started, startedHooks, passes, pass, lost, raced>>
    BY DEF StopHook, Starting, Stopping, flags, history
  <1>2. held \in [Goroutines -> Seq(Run)] /\ held[g] \in Seq(Run)
    BY DEF RunsInv, TypeOK
  <1>3. /\ n \in Nat \ {0} /\ DOMAIN held[g] = 1..n
        /\ DOMAIN held'[g] = 1..(n - 1)
        /\ \A i \in 1..(n - 1) : held'[g][i] = held[g][i]
    BY <1>1, <1>2
  <1>4. \A f \in Goroutines : f # g => held'[f] = held[f]
    BY <1>1, <1>2
  <1>5. \A i, j \in DOMAIN held[g] : held[g][i] = held[g][j] => i = j
    BY DEF RunsInv, Slices, OnePass
  <1> HIDE DEF n
  <1>6. run \in Entries(held[g]) /\ Entries(held'[g]) = Entries(held[g]) \ {run}
    <2>1. run \in Entries(held[g])
      BY <1>3 DEF Entries
    <2>2. ASSUME NEW r \in Entries(held'[g]) PROVE r \in Entries(held[g]) /\ r # run
      <3>1. PICK i \in 1..(n - 1) : held[g][i] = r
        BY <1>3, <2>2 DEF Entries
      <3>2. i \in DOMAIN held[g] /\ n \in DOMAIN held[g] /\ i # n
        BY <1>3
      <3>3. r # run
        BY <1>5, <3>1, <3>2
      <3> QED BY <3>1, <3>2, <3>3 DEF Entries
    <2>3. ASSUME NEW r \in Entries(held[g]), r # run PROVE r \in Entries(held'[g])
      <3>1. PICK i \in 1..n : held[g][i] = r
        BY <1>3, <2>3 DEF Entries
      <3>2. i \in 1..(n - 1)
        BY <1>3, <2>3, <3>1
      <3>3. i \in DOMAIN held'[g] /\ held'[g][i] = r
        BY <1>3, <3>1, <3>2
      <3> QED BY <3>3 DEF Entries
    <2> QED BY <2>1, <2>2, <2>3
  <1> HIDE DEF run
  <1>7. Owners'
    <2>1. /\ run \notin lost \cup Entries(startedHooks)
          /\ \A f \in Goroutines : f # g => run \notin Entries(held[f])
      BY <1>6 DEF RunsInv, Owners
    <2>2. \A f \in Goroutines : Entries(held'[f]) = Entries(held[f]) \ {run}
      BY <1>4, <1>6, <2>1
    <2>3. /\ \A r \in live' : \/ r \in lost \cup Entries(startedHooks)
                             \/ \E f \in Goroutines : r \in Entries(held'[f])
          /\ lost \cup Entries(startedHooks) \subseteq live'
          /\ \A f \in Goroutines : Entries(held'[f]) \subseteq live'
      BY <1>1, <2>1, <2>2 DEF RunsInv, Owners
    <2>4. /\ lost \cap Entries(startedHooks) = {}
          /\ \A f \in Goroutines : Entries(held'[f]) \cap (lost \cup Entries(startedHooks)) = {}
          /\ \A f, h \in Goroutines : f # h => Entries(held'[f]) \cap Entries(held'[h]) = {}
      BY <2>2 DEF RunsInv, Owners
    <2> QED BY <1>1, <2>3, <2>4 DEF Owners
  <1>8. Slices'
    <2>1. OnePass(held'[g])
      <3> DEFINE t == held'[g]
      <3>1. \A i \in 1..(n - 1) : i \in 1..n /\ 1 \in 1..(n - 1)
        BY <1>3
      <3>2. \A i \in 1..n : held[g][i].at = i /\ held[g][i].pass = held[g][1].pass
        BY <1>3 DEF RunsInv, Slices, OnePass
      <3>3. DOMAIN t = 1..(n - 1) /\ \A i \in 1..(n - 1) : t[i] = held[g][i] /\ t[1] = held[g][1]
        BY <1>3, <3>1
      <3> HIDE DEF t
      <3>4. ASSUME NEW i \in DOMAIN t PROVE t[i].at = i /\ t[i].pass = t[1].pass
        <4>1. i \in 1..(n - 1) /\ i \in 1..n /\ 1 \in 1..n /\ t[i] = held[g][i] /\ t[1] = held[g][1]
          BY <1>3, <3>1, <3>3
        <4> QED BY <3>2, <4>1
      <3>5. OnePass(t)
        BY <3>4 DEF OnePass
      <3> QED BY <3>5 DEF t
    <2>2. \A f \in Goroutines : OnePass(held'[f])
      BY <1>4, <2>1 DEF RunsInv, Slices
    <2>3. OnePass(startedHooks)' /\ Closed(lost)' /\ (~started => startedHooks = <<>>)'
      BY <1>1 DEF RunsInv, Slices, OnePass, Closed
    <2> QED BY <2>2, <2>3 DEF Slices
  <1>9. Passes'
    <2>1. \A f \in Starting : f \in Goroutines /\ f # g /\ held'[f] = held[f]
      BY <1>1, <1>4 DEF Starting
    <2> QED BY <1>1, <2>1 DEF RunsInv, Passes
  <1>10. Unraced'
    BY <1>1 DEF RunsInv, Unraced
  <1> QED BY <1>7, <1>8, <1>9, <1>10 DEF RunsInv

THEOREM RunsInvHolds == Spec => []RunsInv
  <1>1. RunsInv /\ [Next]_vars => RunsInv'
    <2> SUFFICES ASSUME RunsInv, [Next]_vars PROVE RunsInv'
      OBVIOUS
    <2>1. TypeOK'
      <3>1. TypeOK
        BY DEF RunsInv
      <3>2. CASE Next
        BY <3>1, <3>2, CallTypeOK, ConfigureStepTypeOK, StartStepTypeOK, StopStepTypeOK DEF Next, Step
      <3>3. CASE UNCHANGED vars
        BY <3>1, <3>3 DEF vars, registry, flags, locals, counts, runs, history, TypeOK, Starting, Stopping
      <3> QED BY <3>2, <3>3
    <2>2. ASSUME NEW g \in Goroutines, Call(g) PROVE RunsInv'
      <3>1. CASE StopEnter(g)
        BY <2>1, <3>1, StopEnterRunsInv
      <3>2. CASE ~StopEnter(g)
        <4>1. /\ UNCHANGED <<started, startedHooks, held, passes, pass, live, lost, raced>>
              /\ pc' = pc \/ \E s \in {"idle", "start", "autowire"} : pc' = [pc EXCEPT ![g] = s]
          BY <2>2, <3>2
          DEF Call, Use, RegisterHook, RegisterDirect, Override, ConfigureEnter, ConfigureReturns,
              StopNoop, flags, locals, runs, history
        <4>2. Starting' \subseteq Starting
          BY <4>1 DEF RunsInv, TypeOK, Starting
        <4> QED BY <2>1, <4>1, <4>2, RunsUntouched
      <3> QED BY <3>1, <3>2
    <2>3. ASSUME NEW g \in Goroutines, ConfigureStep(g) PROVE RunsInv'
      <3>1. /\ UNCHANGED <<started, startedHooks, held, passes, pass, live, lost, raced>>
            /\ pc' = pc \/ \E s \in {"idle", "start", "module"} : pc' = [pc EXCEPT ![g] = s]
        BY <2>3
        DEF ConfigureStep, Autowire, AutowireClash, AutowireDone, ModuleEffect, ModuleClash, ModuleFault,
            ModuleIsNil, ModuleReturns, ConfigureDone, ConfigureFails, ConfigureReturns, flags, runs, history
      <3>2. Starting' \subseteq Starting
        BY <3>1 DEF RunsInv, TypeOK, Starting
      <3> QED BY <2>1, <3>1, <3>2, RunsUntouched
    <2>4. ASSUME NEW g \in Goroutines, StartNoop(g) \/ StartHookFault(g) \/ StopReturns(g) PROVE RunsInv'
      <3>1. /\ UNCHANGED <<started, startedHooks, held, passes, pass, live, lost, raced>>
            /\ \E s \in {"idle", "rollback"} : pc' = [pc EXCEPT ![g] = s]
        BY <2>4 DEF StartNoop, StartHookFault, StopReturns, flags, runs, history
      <3>2. Starting' \subseteq Starting
        BY <3>1 DEF RunsInv, TypeOK, Starting
      <3> QED BY <2>1, <3>1, <3>2, RunsUntouched
    <2>5. CASE UNCHANGED vars
      BY <2>1, <2>5, RunsUntouched DEF vars, flags, locals, runs, history, Starting
    <2> QED
      BY <2>1, <2>2, <2>3, <2>4, <2>5, StartEnterRunsInv, StartHookRunsInv, StartDoneRunsInv, StopHookRunsInv
      DEF Next, Step, StartStep, StopStep
  <1> QED BY InitRunsInv, <1>1, PTL DEF Spec

\* Every run of a hook has exactly one owner that will stop it, unless another
\* Start overwrote its entry in startedHooks.
THEOREM RunsAreAccounted == Spec => []RunsAccounted
  <1>1. RunsInv => RunsAccounted
    <2> SUFFICES ASSUME RunsInv PROVE RunsAccounted
      OBVIOUS
    <2>1. live = lost \cup Entries(startedHooks) \cup UNION {Entries(held[g]) : g \in Goroutines}
      BY DEF RunsInv, Owners
    <2>2. \A i, j \in DOMAIN startedHooks : startedHooks[i] = startedHooks[j] => i = j
      BY DEF RunsInv, Slices, OnePass
    <2>3. \A g \in Goroutines : \A i, j \in DOMAIN held[g] : held[g][i] = held[g][j] => i = j
      BY DEF RunsInv, Slices, OnePass
    <2> QED BY <2>1, <2>2, <2>3 DEF RunsInv, Owners, RunsAccounted
  <1> QED BY RunsInvHolds, <1>1, PTL

\* A hook runs only while what its Start pass started before it still runs.
THEOREM PrefixIsRunning == Spec => []PrefixRunning
  <1>1. RunsInv => PrefixRunning
    <2> SUFFICES ASSUME RunsInv, NEW r \in live, NEW i \in 1..(r.at - 1)
                 PROVE  \E q \in live : q.pass = r.pass /\ q.at = i
      BY DEF PrefixRunning
    <2>1. ASSUME NEW s \in Seq(Run), OnePass(s), Entries(s) \subseteq live, r \in Entries(s)
          PROVE  \E q \in live : q.pass = r.pass /\ q.at = i
      <3>1. PICK j \in DOMAIN s : s[j] = r
        BY <2>1 DEF Entries
      <3>2. r.at = j /\ i \in DOMAIN s
        BY <2>1, <3>1 DEF OnePass
      <3>3. s[i] \in live /\ s[i].at = i /\ s[i].pass = r.pass
        BY <2>1, <3>1, <3>2 DEF OnePass, Entries
      <3> QED BY <3>3
    <2>2. CASE r \in lost
      BY <2>2 DEF RunsInv, Owners, Slices, Closed
    <2>3. CASE r \in Entries(startedHooks)
      BY <2>1, <2>3 DEF RunsInv, TypeOK, Owners, Slices
    <2>4. ASSUME NEW g \in Goroutines, r \in Entries(held[g])
          PROVE  \E q \in live : q.pass = r.pass /\ q.at = i
      <3>1. held[g] \in Seq(Run) /\ OnePass(held[g]) /\ Entries(held[g]) \subseteq live
        BY DEF RunsInv, TypeOK, Owners, Slices
      <3> QED BY <2>1, <2>4, <3>1
    <2> QED BY <2>2, <2>3, <2>4 DEF RunsInv, Owners
  <1> QED BY RunsInvHolds, <1>1, PTL

\* Without two Starts at once no run is lost to another Start.
THEOREM NothingIsLost == Spec => []NothingLost
  <1>1. RunsInv => NothingLost
    BY DEF RunsInv, Unraced, NothingLost
  <1> QED BY RunsInvHolds, <1>1, PTL

\* With no call under way, a stopped App has no hook running.
THEOREM NothingIsLeftRunning == Spec => []NothingLeftRunning
  <1>1. RunsInv => NothingLeftRunning
    <2> SUFFICES ASSUME RunsInv, Idle, ~started, ~raced PROVE live = {}
      BY DEF NothingLeftRunning
    <2>1. \A g \in Goroutines : held[g] = <<>>
      BY DEF RunsInv, TypeOK, Idle, Starting, Stopping
    <2>2. startedHooks = <<>> /\ lost = {}
      BY DEF RunsInv, Slices, Unraced
    <2>3. Entries(<<>>) = {}
      BY DEF Entries
    <2> QED BY <2>1, <2>2, <2>3 DEF RunsInv, Owners
  <1> QED BY RunsInvHolds, <1>1, PTL

-----------------------------------------------------------------------------
(* The App implements Supervisor.  A Stop or a rollback pops the top of the   *)
(* stack of its pass because the runs of a pass all have the same owner.      *)

Apart ==
  \A r, q \in live : r.pass = q.pass =>
    /\ r \in lost <=> q \in lost
    /\ r \in Entries(startedHooks) <=> q \in Entries(startedHooks)
    /\ \A g \in Goroutines : r \in Entries(held[g]) <=> q \in Entries(held[g])

\* What the steps do to the runs, in terms of their owners.
LEMMA StartHookFacts ==
  ASSUME RunsInv, NEW g \in Goroutines, StartHook(g)
  PROVE  \E run \in Run :
           /\ g \in Starting /\ Starting' = Starting
           /\ run.hook \in Hooks /\ run.pass = pass[g] /\ run.at = Len(held[g]) + 1
           /\ run = [hook |-> run.hook, pass |-> run.pass, at |-> run.at]
           /\ live' = live \cup {run} /\ UNCHANGED <<startedHooks, passes, pass, lost>>
           /\ Entries(held'[g]) = Entries(held[g]) \cup {run}
           /\ \A f \in Goroutines : f # g => held'[f] = held[f]
  <1> DEFINE run == [hook |-> Head(snap[g]), pass |-> pass[g], at |-> Len(held[g]) + 1]
  <1>1. /\ held \in [Goroutines -> Seq(Run)] /\ held[g] \in Seq(Run) /\ pass[g] \in Nat
        /\ snap[g] \in Seq(Hooks)
    BY DEF RunsInv, TypeOK
  <1>2. snap[g] # <<>> /\ Head(snap[g]) \in Hooks
    BY <1>1 DEF StartHook
  <1>3. run \in Run /\ run.hook \in Hooks /\ run.pass = pass[g] /\ run.at = Len(held[g]) + 1
    BY <1>1, <1>2 DEF Run
  <1>4. run = [hook |-> run.hook, pass |-> run.pass, at |-> run.at]
    OBVIOUS
  <1>5. /\ g \in Starting /\ Starting' = Starting
        /\ held' = [held EXCEPT ![g] = Append(@, run)]
        /\ live' = live \cup {run}
        /\ UNCHANGED <<startedHooks, passes, pass, lost>>
    BY DEF StartHook, Starting, flags, history
  <1> HIDE DEF run
  <1>6. held'[g] = Append(held[g], run) /\ \A f \in Goroutines : f # g => held'[f] = held[f]
    BY <1>1, <1>5
  <1>7. /\ DOMAIN Append(held[g], run) = DOMAIN held[g] \cup {Len(held[g]) + 1}
        /\ \A i \in DOMAIN held[g] : Append(held[g], run)[i] = held[g][i]
        /\ Append(held[g], run)[Len(held[g]) + 1] = run
    BY <1>1, <1>3
  <1>8. Entries(held'[g]) = Entries(held[g]) \cup {run}
    BY <1>6, <1>7 DEF Entries
  <1> QED BY <1>3, <1>4, <1>5, <1>6, <1>8

LEMMA StopHookFacts ==
  ASSUME RunsInv, NEW g \in Goroutines, StopHook(g)
  PROVE  \E run \in Entries(held[g]) :
           /\ g \notin Starting /\ Starting' = Starting
           /\ \A r \in Entries(held[g]) : r.at <= run.at
           /\ live' = live \ {run} /\ UNCHANGED <<startedHooks, passes, pass, lost>>
           /\ Entries(held'[g]) = Entries(held[g]) \ {run}
           /\ \A f \in Goroutines : f # g => held'[f] = held[f]
  <1> DEFINE n   == Len(held[g])
             run == held[g][n]
  <1>1. /\ g \notin Starting /\ Starting' = Starting /\ held[g] # <<>>
        /\ live' = live \ {run}
        /\ held' = [held EXCEPT ![g] = SubSeq(held[g], 1, n - 1)]
        /\ UNCHANGED <<startedHooks, passes, pass, lost>>
    BY DEF StopHook, Starting, Stopping, flags, history
  <1>2. held \in [Goroutines -> Seq(Run)] /\ held[g] \in Seq(Run)
    BY DEF RunsInv, TypeOK
  <1>3. /\ n \in Nat \ {0} /\ DOMAIN held[g] = 1..n
        /\ DOMAIN held'[g] = 1..(n - 1)
        /\ \A i \in 1..(n - 1) : held'[g][i] = held[g][i]
    BY <1>1, <1>2
  <1>4. \A f \in Goroutines : f # g => held'[f] = held[f]
    BY <1>1, <1>2
  <1>5. \A i \in DOMAIN held[g] : held[g][i].at = i
    BY DEF RunsInv, Slices, OnePass
  <1> HIDE DEF n
  <1>6. run \in Entries(held[g]) /\ run.at = n
    BY <1>3, <1>5 DEF Entries
  <1>7. \A r \in Entries(held[g]) : r.at <= n
    BY <1>3, <1>5 DEF Entries
  <1>8. ASSUME NEW r \in Entries(held'[g]) PROVE r \in Entries(held[g]) /\ r # run
    <2>1. PICK i \in 1..(n - 1) : held[g][i] = r
      BY <1>3, <1>8 DEF Entries
    <2>2. r.at = i /\ i # n /\ i \in DOMAIN held[g]
      BY <1>3, <1>5, <2>1
    <2> QED BY <1>6, <2>1, <2>2 DEF Entries
  <1>9. ASSUME NEW r \in Entries(held[g]), r # run PROVE r \in Entries(held'[g])
    <2>1. PICK i \in 1..n : held[g][i] = r
      BY <1>3, <1>9 DEF Entries
    <2>2. i \in DOMAIN held'[g] /\ held'[g][i] = r
      BY <1>3, <1>9, <2>1
    <2> QED BY <2>2 DEF Entries
  <1> QED BY <1>1, <1>4, <1>6, <1>7, <1>8, <1>9

\* The remaining steps leave the runs and their owners alone.
LEMMA OtherStepFacts ==
  ASSUME RunsInv, [Next]_vars,
         \A g \in Goroutines : ~StartEnter(g) /\ ~StartHook(g) /\ ~StartDone(g) /\ ~StopEnter(g) /\ ~StopHook(g)
  PROVE  /\ UNCHANGED <<startedHooks, held, passes, pass, live, lost>>
         /\ \/ Starting' = Starting
            \/ \E g \in Starting : Starting' = Starting \ {g}
  <1>1. CASE UNCHANGED vars
    BY <1>1 DEF vars, flags, locals, runs, Starting
  <1>2. ASSUME NEW g \in Goroutines, Call(g)
        PROVE  /\ UNCHANGED <<startedHooks, held, passes, pass, live, lost>>
               /\ Starting' = Starting
    <2>1. /\ UNCHANGED <<startedHooks, held, passes, pass, live, lost>>
          /\ pc[g] = "idle"
          /\ pc' = pc \/ \E s \in {"idle", "start", "autowire"} : pc' = [pc EXCEPT ![g] = s]
      BY <1>2
      DEF Call, Use, RegisterHook, RegisterDirect, Override, ConfigureEnter, ConfigureReturns,
          StopNoop, Enter, flags, locals, runs
    <2> QED BY <2>1 DEF RunsInv, TypeOK, Starting
  <1>3. ASSUME NEW g \in Goroutines, ConfigureStep(g)
        PROVE  /\ UNCHANGED <<startedHooks, held, passes, pass, live, lost>>
               /\ Starting' = Starting
    <2>1. /\ UNCHANGED <<startedHooks, held, passes, pass, live, lost>>
          /\ pc[g] \in {"autowire", "module"}
          /\ pc' = pc \/ \E s \in {"idle", "start", "module"} : pc' = [pc EXCEPT ![g] = s]
      BY <1>3
      DEF ConfigureStep, Autowire, AutowireClash, AutowireDone, ModuleEffect, ModuleClash, ModuleFault,
          ModuleIsNil, ModuleReturns, MoreEffects, InModule, ConfigureDone, ConfigureFails, ConfigureReturns,
          flags, runs
    <2> QED BY <2>1 DEF RunsInv, TypeOK, Starting
  <1>4. ASSUME NEW g \in Goroutines, StartNoop(g) \/ StopReturns(g)
        PROVE  /\ UNCHANGED <<startedHooks, held, passes, pass, live, lost>>
               /\ Starting' = Starting
    <2>1. /\ UNCHANGED <<startedHooks, held, passes, pass, live, lost>>
          /\ pc[g] # "hooks" /\ pc' = [pc EXCEPT ![g] = "idle"]
      BY <1>4 DEF StartNoop, StopReturns, Stopping, flags, runs
    <2> QED BY <2>1 DEF RunsInv, TypeOK, Starting
  <1>5. ASSUME NEW g \in Goroutines, StartHookFault(g)
        PROVE  /\ UNCHANGED <<startedHooks, held, passes, pass, live, lost>>
               /\ g \in Starting /\ Starting' = Starting \ {g}
    <2>1. /\ UNCHANGED <<startedHooks, held, passes, pass, live, lost>>
          /\ pc[g] = "hooks" /\ pc' = [pc EXCEPT ![g] = "rollback"]
      BY <1>5 DEF StartHookFault, flags, runs
    <2> QED BY <2>1 DEF RunsInv, TypeOK, Starting
  <1> QED BY <1>1, <1>2, <1>3, <1>4, <1>5 DEF Next, Step, StartStep, StopStep, Call

THEOREM ApartHolds == Spec => []Apart
  <1>1. Init => Apart
    BY DEF Init, Apart
  <1>2. RunsInv /\ Apart /\ [Next]_vars => Apart'
    <2> SUFFICES ASSUME RunsInv, Apart, [Next]_vars PROVE Apart'
      OBVIOUS
    <2> USE DEF Apart
    <2>1. ASSUME NEW g \in Goroutines, StartEnter(g) PROVE Apart'
      <3>1. UNCHANGED <<startedHooks, live, lost>> /\ held' = [held EXCEPT ![g] = <<>>] /\ held[g] = <<>>
        <4>1. g \notin Starting \cup Stopping
          BY <2>1 DEF StartEnter, Starting, Stopping
        <4> QED BY <2>1, <4>1 DEF StartEnter, flags, RunsInv, TypeOK
      <3>2. held' = held
        BY <3>1 DEF RunsInv, TypeOK
      <3> QED BY <3>1, <3>2
    <2>2. ASSUME NEW g \in Goroutines, StartHook(g) PROVE Apart'
      <3>1. PICK run \in Run :
              /\ g \in Starting /\ run.pass = pass[g]
              /\ live' = live \cup {run} /\ UNCHANGED <<startedHooks, lost>>
              /\ Entries(held'[g]) = Entries(held[g]) \cup {run}
              /\ \A f \in Goroutines : f # g => held'[f] = held[f]
        BY <2>2, StartHookFacts
      <3>2. \A r \in live : r \in Entries(held[g]) <=> r.pass = run.pass
        BY <3>1 DEF RunsInv, Passes
      <3>3. /\ Entries(held[g]) \cap (lost \cup Entries(startedHooks)) = {}
            /\ \A f \in Goroutines : f # g => Entries(held[f]) \cap Entries(held[g]) = {}
            /\ lost \cup Entries(startedHooks) \subseteq live
            /\ \A f \in Goroutines : Entries(held[f]) \subseteq live
        BY DEF RunsInv, Owners
      <3>4. startedHooks' = startedHooks /\ Entries(startedHooks') = Entries(startedHooks) /\ lost' = lost
        BY <3>1
      <3>5. \A f \in Goroutines : Entries(held'[f]) = IF f = g THEN Entries(held[g]) \cup {run} ELSE Entries(held[f])
        BY <3>1
      <3>6. ASSUME NEW r \in live, r.pass = run.pass
            PROVE  /\ r \in Entries(held[g]) /\ r \notin lost /\ r \notin Entries(startedHooks)
                   /\ \A f \in Goroutines : f # g => r \notin Entries(held[f])
        BY <3>2, <3>3, <3>6
      <3>7. ASSUME run \in live PROVE Apart'
        BY <3>1, <3>2, <3>3, <3>4, <3>5, <3>6, <3>7
      <3>8. ASSUME run \notin live PROVE Apart'
        <4>1. /\ run \notin lost /\ run \notin Entries(startedHooks)
              /\ \A f \in Goroutines : run \notin Entries(held[f])
          BY <3>3, <3>8
        <4>2. ASSUME NEW r \in live', NEW q \in live', r.pass = q.pass
              PROVE  /\ r \in lost' <=> q \in lost'
                     /\ r \in Entries(startedHooks') <=> q \in Entries(startedHooks')
                     /\ \A f \in Goroutines : r \in Entries(held'[f]) <=> q \in Entries(held'[f])
          <5>1. CASE r = run /\ q = run
            BY <5>1
          <5>2. CASE r = run /\ q # run
            BY <3>1, <3>4, <3>5, <3>6, <4>1, <4>2, <5>2
          <5>3. CASE r # run /\ q = run
            BY <3>1, <3>4, <3>5, <3>6, <4>1, <4>2, <5>3
          <5>4. CASE r # run /\ q # run
            BY <3>1, <3>4, <3>5, <4>2, <5>4
          <5> QED BY <5>1, <5>2, <5>3, <5>4
        <4> QED BY <4>2
      <3> QED BY <3>7, <3>8
    <2>3. ASSUME NEW g \in Goroutines, StartDone(g) PROVE Apart'
      <3>1. /\ startedHooks' = held[g] /\ lost' = lost \cup Entries(startedHooks) /\ live' = live
            /\ held' = [held EXCEPT ![g] = <<>>] /\ held \in [Goroutines -> Seq(Run)]
        BY <2>3 DEF StartDone, RunsInv, TypeOK
      <3>2. held'[g] = <<>> /\ \A f \in Goroutines : f # g => held'[f] = held[f]
        BY <3>1
      <3>3. Entries(held'[g]) = {} /\ Entries(startedHooks') = Entries(held[g])
        BY <3>1, <3>2 DEF Entries
      <3>4. \A f \in Goroutines : f # g => Entries(held'[f]) = Entries(held[f])
        BY <3>2
      <3> QED BY <3>1, <3>3, <3>4
    <2>4. ASSUME NEW g \in Goroutines, StopEnter(g) PROVE Apart'
      <3>1. /\ startedHooks' = <<>> /\ lost' = lost /\ live' = live /\ held \in [Goroutines -> Seq(Run)]
            /\ held' = [held EXCEPT ![g] = startedHooks]
        BY <2>4 DEF StopEnter, runs, RunsInv, TypeOK
      <3>2. held'[g] = startedHooks /\ \A f \in Goroutines : f # g => held'[f] = held[f]
        BY <3>1
      <3>3. Entries(startedHooks') = {} /\ Entries(held'[g]) = Entries(startedHooks)
        BY <3>1, <3>2 DEF Entries
      <3>4. \A f \in Goroutines : f # g => Entries(held'[f]) = Entries(held[f])
        BY <3>2
      <3> QED BY <3>1, <3>3, <3>4
    <2>5. ASSUME NEW g \in Goroutines, StopHook(g) PROVE Apart'
      <3>1. PICK run \in Entries(held[g]) :
              /\ live' = live \ {run} /\ UNCHANGED <<startedHooks, lost>>
              /\ Entries(held'[g]) = Entries(held[g]) \ {run}
              /\ \A f \in Goroutines : f # g => held'[f] = held[f]
        BY <2>5, StopHookFacts
      <3>2. \A f \in Goroutines : f # g => Entries(held'[f]) = Entries(held[f])
        BY <3>1
      <3> QED BY <3>1, <3>2
    <2>6. CASE \A g \in Goroutines :
                 ~StartEnter(g) /\ ~StartHook(g) /\ ~StartDone(g) /\ ~StopEnter(g) /\ ~StopHook(g)
      BY <2>6, OtherStepFacts
    <2> QED BY <2>1, <2>2, <2>3, <2>4, <2>5, <2>6
  <1> QED BY RunsInvHolds, <1>1, <1>2, PTL DEF Spec

\* The App implements Supervisor: every step of every interleaving opens, pushes
\* on, closes or pops the stack of one Start, or leaves them all alone.
THEOREM AppSupervises == Spec => StacksKept
  <1> DEFINE open == {pass[g] : g \in Starting}
  <1>1. Init => Promise!Init
    BY DEF Init, Starting, Promise!Init
  <1>2. RunsInv /\ Apart /\ [Next]_vars => [Promise!Next]_Promise!vars
    <2> SUFFICES ASSUME RunsInv, Apart, [Next]_vars PROVE [Promise!Next]_Promise!vars
      OBVIOUS
    <2>1. ASSUME NEW g \in Goroutines, StartEnter(g) PROVE Promise!Next
      <3>1. /\ Starting' = Starting \cup {g} /\ g \notin Starting
            /\ passes' = passes + 1 /\ pass' = [pass EXCEPT ![g] = passes + 1] /\ live' = live
        BY <2>1 DEF StartEnter, RunsInv, TypeOK, Starting
      <3>2. pass'[g] = passes + 1 /\ \A f \in Starting : pass'[f] = pass[f]
        BY <3>1 DEF RunsInv, TypeOK, Starting
      <3>3. open' = open \cup {passes + 1}
        BY <3>1, <3>2
      <3>4. Promise!Open
        BY <3>1, <3>3 DEF Promise!Open
      <3> QED BY <3>4 DEF Promise!Next
    <2>2. ASSUME NEW g \in Goroutines, StartHook(g) PROVE Promise!Next
      <3>1. PICK run \in Run :
              /\ g \in Starting /\ Starting' = Starting
              /\ run.hook \in Hooks /\ run.pass = pass[g] /\ run.at = Len(held[g]) + 1
              /\ run = [hook |-> run.hook, pass |-> run.pass, at |-> run.at]
              /\ live' = live \cup {run} /\ UNCHANGED <<startedHooks, passes, pass, lost>>
              /\ Entries(held'[g]) = Entries(held[g]) \cup {run}
              /\ \A f \in Goroutines : f # g => held'[f] = held[f]
        BY <2>2, StartHookFacts
      <3>2. run.pass \in open
        BY <3>1
      <3>3. Promise!Of(run.pass) = Entries(held[g])
        BY <3>1 DEF Promise!Of, RunsInv, Passes, Owners
      <3>4. held[g] \in Seq(Run) /\ \A i \in DOMAIN held[g] : held[g][i].at = i
        BY DEF RunsInv, TypeOK, Slices, OnePass
      <3>5. {r.at : r \in Entries(held[g])} = DOMAIN held[g] /\ DOMAIN held[g] = 1..(run.at - 1)
        BY <3>1, <3>4 DEF Entries
      <3>6. run.at \in {1} \cup {r.at + 1 : r \in Entries(held[g])}
        <4>1. CASE Len(held[g]) = 0
          BY <3>1, <4>1
        <4>2. CASE Len(held[g]) # 0
          <5>1. Len(held[g]) \in DOMAIN held[g]
            BY <3>4, <4>2
          <5>2. held[g][Len(held[g])] \in Entries(held[g]) /\ held[g][Len(held[g])].at + 1 = run.at
            BY <3>1, <3>4, <5>1 DEF Entries
          <5> QED BY <5>2
        <4> QED BY <4>1, <4>2
      <3>7. open' = open
        BY <3>1
      <3>8. Promise!Push(run.pass)
        <4>1. {r.at : r \in Promise!Of(run.pass)} = 1..(run.at - 1)
          BY <3>3, <3>5
        <4>2. run.at \in {1} \cup {r.at + 1 : r \in Promise!Of(run.pass)}
          BY <3>3, <3>6
        <4> QED BY <3>1, <3>2, <3>7, <4>1, <4>2 DEF Promise!Push
      <3> QED BY <3>2, <3>8 DEF Promise!Next
    <2>3. ASSUME NEW g \in Goroutines, g \in Starting, Starting' = Starting \ {g},
                 UNCHANGED <<passes, pass, live>>
          PROVE  Promise!Next
      <3>1. \A f \in Starting : f # g => pass[f] # pass[g]
        BY <2>3 DEF RunsInv, Passes
      <3>2. pass[g] \in open /\ open' = open \ {pass[g]}
        BY <2>3, <3>1
      <3>3. PICK p \in open : p = pass[g]
        BY <3>2
      <3>4. Promise!Close(p)
        BY <2>3, <3>2, <3>3 DEF Promise!Close
      <3> QED BY <3>4 DEF Promise!Next
    <2>4. ASSUME NEW g \in Goroutines, StartDone(g) PROVE Promise!Next
      <3>1. g \in Starting /\ Starting' = Starting \ {g} /\ UNCHANGED <<passes, pass, live>>
        BY <2>4 DEF StartDone, Starting, RunsInv, TypeOK
      <3> QED BY <2>3, <3>1
    <2>5. ASSUME NEW g \in Goroutines, StopEnter(g) PROVE UNCHANGED Promise!vars
      <3>1. Starting' = Starting /\ UNCHANGED <<passes, pass, live>>
        BY <2>5 DEF StopEnter, Enter, Starting, runs, RunsInv, TypeOK
      <3> QED BY <3>1 DEF Promise!vars
    <2>6. ASSUME NEW g \in Goroutines, StopHook(g) PROVE Promise!Next
      <3>1. PICK run \in Entries(held[g]) :
              /\ g \notin Starting /\ Starting' = Starting
              /\ \A r \in Entries(held[g]) : r.at <= run.at
              /\ live' = live \ {run} /\ UNCHANGED <<passes, pass>>
        BY <2>6, StopHookFacts
      <3>2. run \in live
        BY <3>1 DEF RunsInv, Owners
      <3>3. run.pass \notin open
        <4> SUFFICES ASSUME NEW f \in Starting, pass[f] = run.pass PROVE FALSE
          OBVIOUS
        <4>1. f # g /\ f \in Goroutines
          BY <3>1 DEF Starting
        <4>2. run \notin Entries(held[f])
          BY <3>1, <4>1 DEF RunsInv, Owners
        <4> QED BY <3>2, <4>2 DEF RunsInv, Passes
      <3>4. \A q \in Promise!Of(run.pass) : q.at <= run.at
        BY <3>1, <3>2 DEF Promise!Of, Apart
      <3>5. open' = open
        BY <3>1
      <3>6. Promise!Pop(run)
        BY <3>1, <3>2, <3>3, <3>4, <3>5 DEF Promise!Pop
      <3> QED BY <3>2, <3>6 DEF Promise!Next
    <2>7. CASE \A g \in Goroutines :
                 ~StartEnter(g) /\ ~StartHook(g) /\ ~StartDone(g) /\ ~StopEnter(g) /\ ~StopHook(g)
      <3>1. /\ UNCHANGED <<passes, pass, live>>
            /\ \/ Starting' = Starting
               \/ \E g \in Starting : Starting' = Starting \ {g}
        BY <2>7, OtherStepFacts
      <3>2. CASE Starting' = Starting
        BY <3>1, <3>2 DEF Promise!vars
      <3>3. CASE \E g \in Starting : Starting' = Starting \ {g}
        <4>1. PICK g \in Starting : Starting' = Starting \ {g}
          BY <3>3
        <4>2. g \in Goroutines
          BY DEF Starting
        <4> QED BY <2>3, <3>1, <4>1, <4>2
      <3> QED BY <3>1, <3>2, <3>3
    <2> QED BY <2>1, <2>2, <2>4, <2>5, <2>6, <2>7
  <1> QED BY RunsInvHolds, ApartHolds, <1>1, <1>2, PTL DEF Spec, StacksKept, Promise!Spec

-----------------------------------------------------------------------------
(* A started App is complete.  Of all passes of Configure at most one gets     *)
(* past the first name that the App registers, FirstId: every other one finds  *)
(* it taken, before it has registered a hook.  So the hooks of the App are in  *)
(* `hooks` as far as that pass has come.                                       *)

Size == Len(InitialModules)

\* The hooks that the App's modules register, by their places.
Places == {p \in (DOMAIN InitialModules) \X (Nat \ {0}) :
             InitialModules[p[1]] # NilModule /\ p[2] \in HookSteps(InitialModules[p[1]])}
HookOf(p) == IdAt(p[1], p[2])

\* The place p comes before the n-th step of the module x.
Earlier(p, x, n) == p[1] < x \/ (p[1] = x /\ p[2] < n)

\* Of the hooks of the App, s has those before that step, once and in order.
Lists(s, x, n) ==
  /\ \A p \in Places : IF Earlier(p, x, n)
       THEN \E i \in DOMAIN s : s[i] = HookOf(p) /\ \A j \in DOMAIN s : s[j] = HookOf(p) => j = i
       ELSE \A i \in DOMAIN s : s[i] # HookOf(p)
  /\ \A p, q \in Places : \A i, j \in DOMAIN s :
       Earlier(p, q[1], q[2]) /\ s[i] = HookOf(p) /\ s[j] = HookOf(q) => i < j
Complete(s) == Lists(s, Size + 1, 1)

\* The modules t are those of the App from x on, and then modules given to Use.
Rest(t, x) ==
  /\ x \in 1..(Size + 1) /\ Size + 1 - x <= Len(t)
  /\ \A i \in 1..(Size + 1 - x) : t[i] = InitialModules[x + i - 1]
  /\ \A i \in DOMAIN t : i > Size + 1 - x => t[i] \in LateModules

\* The module registers nothing.
Silent(y) == InitialModules[y] # NilModule /\ Script[InitialModules[y]] = <<>>

\* The App's first registration, if there is one before a nil module.
Loud(x)  == /\ x \in DOMAIN InitialModules /\ InitialModules[x] # NilModule /\ Script[InitialModules[x]] # <<>>
            /\ \A y \in 1..(x - 1) : Silent(y)
FirstId  == IF Autowired # <<>> THEN Autowired[1] ELSE IdAt(CHOOSE x \in DOMAIN InitialModules : Loud(x), 1)
Claimed  == (Autowired # <<>> \/ \E x \in DOMAIN InitialModules : Loud(x)) /\ Taken(FirstId)

Configuring == {g \in Goroutines : pc[g] \in {"autowire", "module"}}

\* The pass has registered nothing yet,
Fresh(g) ==
  /\ pos[g] = 1
  /\ pc[g] = "module" => Autowired = <<>> /\ \E x \in 1..(Size + 1) : Rest(todo[g], x) /\ \A y \in 1..(x - 1) : Silent(y)

\* or is past the first name.
Past(g) == \E x \in 1..(Size + 1) :
  /\ Rest(todo[g], x) /\ \A y \in 1..(x - 1) : InitialModules[y] # NilModule
  /\ IF pc[g] = "autowire" THEN Lists(hooks, 1, 1) ELSE Lists(hooks, x, pos[g])

Registered ==
  /\ Rest(modules, 1)
  /\ \A g \in Configuring : /\ Fresh(g) \/ Past(g)
                            /\ pc[g] = "autowire" => Rest(todo[g], 1)
  /\ configured => Complete(hooks) /\ \A y \in DOMAIN InitialModules : InitialModules[y] # NilModule

OneWinner ==
  Places # {} =>
    /\ ~Claimed => ~configured /\ Lists(hooks, 1, 1) /\ \A g \in Configuring : Fresh(g)
    /\ configured => \A g \in Configuring : Fresh(g)
    /\ \A f, g \in Configuring : f = g \/ Fresh(f) \/ Fresh(g)

\* What a Start has started and what it still has to start, in a line.
HooksOf(s) == [i \in DOMAIN s |-> s[i].hook]
Line(g) == [i \in 1..(Len(held[g]) + Len(snap[g])) |->
              IF i <= Len(held[g]) THEN held[g][i].hook ELSE snap[g][i - Len(held[g])]]
Starts ==
  /\ \A g \in Goroutines : pc[g] \in {"start", "hooks"} => configured
  /\ \A g \in Starting : Complete(Line(g))
  /\ started => configured /\ Complete(HooksOf(startedHooks))

CompleteInv == Registered /\ OneWinner /\ Starts

\* The constants: places are steps of scripts, and their hooks are different.
LEMMA PlaceFacts ==
  /\ InitialModules \in Seq(Modules \cup {NilModule}) /\ Size \in Nat
  /\ \A m \in Modules : Script[m] \in Seq(Effect)
  /\ \A p \in Places : /\ p = <<p[1], p[2]>> /\ p[1] \in 1..Size /\ InitialModules[p[1]] \in Modules
                       /\ p[2] \in 1..Len(Script[InitialModules[p[1]]])
                       /\ p[2] \in HookSteps(InitialModules[p[1]])
  /\ \A p, q \in Places : HookOf(p) = HookOf(q) => p = q
<1>1. InitialModules \in Seq(Modules \cup {NilModule}) /\ Size \in Nat
  BY LifecycleAssumption DEF LifecycleAssumption, Size
<1>2. \A m \in Modules : Script[m] \in Seq(Effect)
  BY LifecycleAssumption DEF LifecycleAssumption
<1>3. ASSUME NEW p \in Places
      PROVE  /\ p = <<p[1], p[2]>> /\ p[1] \in 1..Size /\ InitialModules[p[1]] \in Modules
             /\ p[2] \in 1..Len(Script[InitialModules[p[1]]]) /\ p[2] \in HookSteps(InitialModules[p[1]])
             /\ p[1] \in DOMAIN InitialModules /\ InitialModules[p[1]] # NilModule
  <2>1. /\ p = <<p[1], p[2]>> /\ p[1] \in DOMAIN InitialModules
        /\ InitialModules[p[1]] # NilModule /\ p[2] \in HookSteps(InitialModules[p[1]])
    BY DEF Places
  <2>2. p[1] \in 1..Size /\ InitialModules[p[1]] \in Modules
    BY <1>1, <2>1 DEF Size
  <2>3. p[2] \in 1..Len(Script[InitialModules[p[1]]])
    BY <1>2, <2>1, <2>2 DEF HookSteps
  <2> QED
    BY <2>1, <2>2, <2>3
<1>4. ASSUME NEW p \in Places, NEW q \in Places, HookOf(p) = HookOf(q)
      PROVE  p = q
  <2>1. p[1] = q[1] /\ p[2] = q[2]
    BY <1>3, <1>4, OwnHooks DEF HookOf
  <2> QED
    BY <1>3, <2>1
<1> QED
  BY <1>1, <1>2, <1>3, <1>4

\* A hook of somebody else does not disturb the list,
LEMMA ListsOther ==
  ASSUME NEW s \in Seq(Hooks), NEW x \in Nat, NEW n \in Nat, Lists(s, x, n),
         NEW h, \A p \in Places : HookOf(p) # h
  PROVE  Lists(Append(s, h), x, n)
<1> DEFINE t == Append(s, h)
<1>1. /\ DOMAIN t = 1..(Len(s) + 1) /\ DOMAIN s = 1..Len(s) /\ \A i \in DOMAIN s : t[i] = s[i]
      /\ t[Len(s) + 1] = h
  OBVIOUS
<1> HIDE DEF t
<1>2. \A i \in DOMAIN t : i \in DOMAIN s \/ i = Len(s) + 1
  BY <1>1
<1>3. ASSUME NEW p \in Places
      PROVE  IF Earlier(p, x, n)
               THEN \E i \in DOMAIN t : t[i] = HookOf(p) /\ \A j \in DOMAIN t : t[j] = HookOf(p) => j = i
               ELSE \A i \in DOMAIN t : t[i] # HookOf(p)
  BY <1>1, <1>2 DEF Lists
<1>4. ASSUME NEW p \in Places, NEW q \in Places, NEW i \in DOMAIN t, NEW j \in DOMAIN t,
             Earlier(p, q[1], q[2]), t[i] = HookOf(p), t[j] = HookOf(q)
      PROVE  i < j
  BY <1>1, <1>2, <1>4 DEF Lists
<1> QED
  BY <1>3, <1>4 DEF Lists, t

\* the hook of the next step extends it,
LEMMA ListsNext ==
  ASSUME NEW s \in Seq(Hooks), NEW p \in Places, Lists(s, p[1], p[2])
  PROVE  Lists(Append(s, HookOf(p)), p[1], p[2] + 1)
<1> DEFINE h == HookOf(p)
           t == Append(s, h)
<1>1. /\ DOMAIN t = 1..(Len(s) + 1) /\ DOMAIN s = 1..Len(s) /\ Len(s) \in Nat /\ \A i \in DOMAIN s : t[i] = s[i]
      /\ t[Len(s) + 1] = h
  OBVIOUS
<1> HIDE DEF t
<1>2. \A i \in DOMAIN t : i \in DOMAIN s \/ i = Len(s) + 1
  BY <1>1
<1>3. /\ p[1] \in Nat /\ p[2] \in Nat /\ p = <<p[1], p[2]>>
      /\ \A q \in Places : q[1] \in Nat /\ q[2] \in Nat /\ q = <<q[1], q[2]>>
  BY PlaceFacts
<1>4. \A q \in Places : Earlier(q, p[1], p[2] + 1) <=> q = p \/ Earlier(q, p[1], p[2])
  BY <1>3 DEF Earlier
<1>5. ~Earlier(p, p[1], p[2]) /\ \A q \in Places : q # p => HookOf(q) # h
  BY <1>3, PlaceFacts DEF Earlier
<1>6. \A i \in DOMAIN s : s[i] # h
  BY <1>5 DEF Lists
<1>7. ASSUME NEW q \in Places
      PROVE  IF Earlier(q, p[1], p[2] + 1)
               THEN \E i \in DOMAIN t : t[i] = HookOf(q) /\ \A j \in DOMAIN t : t[j] = HookOf(q) => j = i
               ELSE \A i \in DOMAIN t : t[i] # HookOf(q)
  <2>1. CASE q = p
    <3>1. Len(s) + 1 \in DOMAIN t /\ t[Len(s) + 1] = HookOf(q)
      BY <1>1, <2>1
    <3>2. \A j \in DOMAIN t : t[j] = HookOf(q) => j = Len(s) + 1
      BY <1>1, <1>2, <1>6, <2>1
    <3> QED
      BY <1>4, <2>1, <3>1, <3>2
  <2>2. CASE q # p
    <3>1. HookOf(q) # h /\ (Earlier(q, p[1], p[2] + 1) <=> Earlier(q, p[1], p[2]))
      BY <1>4, <1>5, <2>2
    <3> HIDE DEF h
    <3>2. \A i \in DOMAIN t : t[i] = HookOf(q) => i \in DOMAIN s /\ s[i] = HookOf(q)
      BY <1>1, <1>2, <3>1
    <3>3. CASE Earlier(q, p[1], p[2])
      <4>1. PICK i \in DOMAIN s : s[i] = HookOf(q) /\ \A j \in DOMAIN s : s[j] = HookOf(q) => j = i
        BY <3>3 DEF Lists
      <4>2. i \in DOMAIN t /\ t[i] = HookOf(q)
        BY <1>1, <4>1
      <4> QED
        BY <3>1, <3>2, <3>3, <4>1, <4>2
    <3>4. CASE ~Earlier(q, p[1], p[2])
      BY <3>1, <3>2, <3>4 DEF Lists
    <3> QED
      BY <3>3, <3>4
  <2> QED
    BY <2>1, <2>2
<1>8. ASSUME NEW q \in Places, NEW r \in Places, NEW i \in DOMAIN t, NEW j \in DOMAIN t,
             Earlier(q, r[1], r[2]), t[i] = HookOf(q), t[j] = HookOf(r)
      PROVE  i < j
  <2>1. CASE i \in DOMAIN s /\ j \in DOMAIN s
    BY <1>1, <1>8, <2>1 DEF Lists
  <2>2. CASE i \in DOMAIN s /\ j = Len(s) + 1
    BY <1>1, <2>2
  <2>3. CASE i = Len(s) + 1
    <3>1. q = p
      BY <1>1, <1>5, <1>8, <2>3
    <3>2. ~Earlier(r, p[1], p[2] + 1)
      BY <1>3, <1>8, <3>1 DEF Earlier
    <3>3. t[j] # HookOf(r)
      BY <1>7, <3>2
    <3> QED
      BY <1>8, <3>3
  <2> QED
    BY <1>2, <2>1, <2>2, <2>3
<1> QED
  BY <1>7, <1>8 DEF Lists, t

\* and a step that registers no hook leaves it.
LEMMA ListsSame ==
  ASSUME NEW s, NEW x, NEW n, NEW y, NEW m, Lists(s, x, n),
         \A p \in Places : Earlier(p, x, n) <=> Earlier(p, y, m)
  PROVE  Lists(s, y, m)
  BY DEF Lists

-----------------------------------------------------------------------------

\* The head of the modules still to be configured.
LEMMA RestHead ==
  ASSUME NEW t \in Seq(Modules \cup {NilModule}), t # <<>>, NEW x \in 1..(Size + 1), Rest(t, x)
  PROVE  \/ x \in 1..Size /\ Head(t) = InitialModules[x] /\ Rest(Tail(t), x + 1)
         \/ x = Size + 1 /\ Head(t) \in LateModules /\ Rest(Tail(t), x)
<1>1. /\ Len(t) \in Nat \ {0} /\ Head(t) = t[1] /\ Len(Tail(t)) = Len(t) - 1 /\ DOMAIN t = 1..Len(t)
      /\ DOMAIN Tail(t) = 1..(Len(t) - 1) /\ \A i \in 1..(Len(t) - 1) : Tail(t)[i] = t[i + 1]
  OBVIOUS
<1> DEFINE s == Tail(t)
<1> HIDE DEF s
<1>2. CASE x \in 1..Size
  <2>1. Head(t) = InitialModules[x]
    BY <1>1, <1>2, PlaceFacts DEF Rest
  <2>2. Size + 1 - (x + 1) <= Len(s)
    BY <1>1, <1>2, PlaceFacts DEF Rest, s
  <2>3. ASSUME NEW i \in 1..(Size + 1 - (x + 1)) PROVE s[i] = InitialModules[(x + 1) + i - 1]
    <3>1. i + 1 \in 1..(Size + 1 - x) /\ i \in 1..(Len(t) - 1) /\ (x + 1) + i - 1 = x + (i + 1) - 1
      <4>1. Size \in Nat /\ x \in 1..Size /\ Len(t) \in Nat \ {0} /\ Size + 1 - x <= Len(t)
        BY <1>1, <1>2, PlaceFacts DEF Rest
      <4> QED
        BY <2>3, <4>1
    <3> DEFINE j == i + 1
               k == (x + 1) + i - 1
    <3>2. k = x + j - 1
      BY <3>1
    <3>3. j \in 1..(Size + 1 - x) /\ s[i] = t[j]
      BY <1>1, <3>1 DEF s
    <3> HIDE DEF j, k
    <3>4. t[j] = InitialModules[x + j - 1]
      BY <3>3 DEF Rest
    <3>5. s[i] = InitialModules[k]
      BY <3>2, <3>3, <3>4
    <3> QED
      BY <3>5 DEF k
  <2>4. ASSUME NEW i \in DOMAIN s, i > Size + 1 - (x + 1) PROVE s[i] \in LateModules
    <3>1. i + 1 \in DOMAIN t /\ i + 1 > Size + 1 - x /\ s[i] = t[i + 1]
      BY <1>1, <1>2, <2>4, PlaceFacts DEF s
    <3> QED
      BY <3>1 DEF Rest
  <2>5. x + 1 \in 1..(Size + 1)
    BY <1>2, PlaceFacts
  <2>6. Rest(s, x + 1)
    BY <2>2, <2>3, <2>4, <2>5 DEF Rest
  <2> QED
    BY <1>2, <2>1, <2>6 DEF s
<1>3. CASE x = Size + 1
  <2>1. Size + 1 - x = 0
    BY <1>3, PlaceFacts
  <2>2. \A i \in DOMAIN t : t[i] \in LateModules
    BY <1>1, <2>1 DEF Rest
  <2>3. Head(t) \in LateModules /\ \A i \in DOMAIN s : s[i] \in LateModules
    BY <1>1, <2>2 DEF s
  <2>4. Rest(s, x)
    BY <1>1, <2>1, <2>3 DEF Rest, s
  <2> QED
    BY <1>3, <2>3, <2>4 DEF s
<1> QED
  BY <1>2, <1>3, PlaceFacts

LEMMA RestOver ==
  ASSUME NEW x, Rest(<<>>, x)
  PROVE  x = Size + 1
  BY PlaceFacts DEF Rest

\* Silent modules have no hooks.
LEMMA AllSilent ==
  ASSUME \A y \in 1..Size : Silent(y)
  PROVE  Places = {}
<1> SUFFICES ASSUME NEW p \in Places PROVE FALSE
  OBVIOUS
<1>1. p[1] \in 1..Size /\ p[2] \in 1..Len(Script[InitialModules[p[1]]])
  BY PlaceFacts
<1>2. Script[InitialModules[p[1]]] = <<>>
  BY <1>1 DEF Silent
<1> QED
  BY <1>1, <1>2

\* There is at most one first registration.
LEMMA LoudOnce ==
  ASSUME NEW x, Loud(x)
  PROVE  x = CHOOSE y \in DOMAIN InitialModules : Loud(y)
<1>1. \A y \in DOMAIN InitialModules : Loud(y) => y = x
  <2>1. DOMAIN InitialModules = 1..Size /\ Size \in Nat
    BY PlaceFacts DEF Size
  <2> SUFFICES ASSUME NEW y \in 1..Size, Loud(y), y # x PROVE FALSE
    BY <2>1
  <2>2. x \in 1..Size /\ (x \in 1..(y - 1) \/ y \in 1..(x - 1))
    BY <2>1 DEF Loud
  <2> QED
    BY <2>2 DEF Loud, Silent
<1> QED
  BY <1>1 DEF Loud

\* A step of the pass that goroutine g is in, which registers no hook.  It
\* leaves the first name behind only by registering it.
LEMMA PassStep ==
  ASSUME TypeOK, Registered, OneWinner, NEW g \in Goroutines,
         Rest(modules', 1), UNCHANGED <<hooks, configured>>, Taken(FirstId) => Taken(FirstId)',
         \A f \in Goroutines \ {g} : pc'[f] = pc[f] /\ todo'[f] = todo[f] /\ pos'[f] = pos[f],
         g \in Configuring' =>
           /\ Fresh(g)' \/ (Past(g)' /\ g \in Configuring /\ (Places # {} /\ Fresh(g) => ~Claimed /\ Claimed'))
           /\ pc'[g] = "autowire" => Rest(todo'[g], 1)
  PROVE  Registered' /\ OneWinner'
<1>1. ASSUME NEW f \in Goroutines \ {g}
      PROVE  (f \in Configuring' <=> f \in Configuring) /\ (Fresh(f)' <=> Fresh(f)) /\ (Past(f)' <=> Past(f))
  <2>1. pc'[f] = pc[f] /\ todo'[f] = todo[f] /\ pos'[f] = pos[f] /\ hooks' = hooks
    BY <1>1
  <2> QED
    BY <2>1 DEF Configuring, Fresh, Past
<1>2. Registered'
  <2>1. ASSUME NEW f \in Configuring' PROVE (Fresh(f)' \/ Past(f)') /\ (pc'[f] = "autowire" => Rest(todo'[f], 1))
    <3>1. CASE f = g
      BY <2>1, <3>1
    <3>2. CASE f # g
      <4>1. f \in Goroutines \ {g} /\ f \in Configuring
        BY <1>1, <2>1, <3>2 DEF Configuring
      <4> QED
        BY <1>1, <4>1 DEF Registered
    <3> QED
      BY <3>1, <3>2
  <2>2. configured' => Complete(hooks') /\ \A y \in DOMAIN InitialModules : InitialModules[y] # NilModule
    BY DEF Registered
  <2> QED
    BY <2>1, <2>2 DEF Registered
<1>3. OneWinner'
  <2> SUFFICES ASSUME Places # {}
               PROVE  /\ ~Claimed' => ~configured' /\ Lists(hooks', 1, 1) /\ \A f \in Configuring' : Fresh(f)'
                      /\ configured' => \A f \in Configuring' : Fresh(f)'
                      /\ \A e, f \in Configuring' : e = f \/ Fresh(e)' \/ Fresh(f)'
    BY DEF OneWinner
  <2>1. ~Claimed' => ~Claimed
    BY DEF Claimed
  <2>2. ASSUME NEW f \in Configuring', f # g PROVE f \in Configuring /\ (Fresh(f)' <=> Fresh(f))
    BY <1>1, <2>2 DEF Configuring
  <2>3. g \in Configuring' => Fresh(g)' \/ (g \in Configuring /\ (Fresh(g) => ~Claimed /\ Claimed'))
    OBVIOUS
  <2>4. ASSUME ~Claimed' PROVE ~configured' /\ Lists(hooks', 1, 1) /\ \A f \in Configuring' : Fresh(f)'
    <3>1. ~Claimed /\ ~configured /\ Lists(hooks, 1, 1) /\ \A f \in Configuring : Fresh(f)
      BY <2>1, <2>4 DEF OneWinner
    <3> QED
      BY <2>2, <2>3, <2>4, <3>1
  <2>5. ASSUME configured' PROVE \A f \in Configuring' : Fresh(f)'
    <3>1. Claimed /\ \A f \in Configuring : Fresh(f)
      BY <2>5 DEF OneWinner
    <3> QED
      BY <2>2, <2>3, <3>1
  <2>6. ASSUME NEW f \in Configuring', f # g, ~Fresh(f)', g \in Configuring' PROVE Fresh(g)'
    <3>1. f \in Configuring /\ ~Fresh(f)
      BY <2>2, <2>6
    <3>2. Claimed /\ (g \in Configuring => Fresh(g))
      BY <2>6, <3>1 DEF OneWinner
    <3> QED
      BY <2>3, <2>6, <3>2
  <2>7. \A e, f \in Configuring' : e = f \/ Fresh(e)' \/ Fresh(f)'
    <3> SUFFICES ASSUME NEW e \in Configuring', NEW f \in Configuring', e # f, ~Fresh(e)', ~Fresh(f)' PROVE FALSE
      OBVIOUS
    <3>1. (e \in Configuring /\ f \in Configuring) \/ e = g \/ f = g
      BY <2>2
    <3>2. CASE e = g \/ f = g
      BY <2>6, <3>2
    <3>3. CASE e # g /\ f # g
      BY <2>2, <3>3 DEF OneWinner
    <3> QED
      BY <3>2, <3>3
  <2> QED
    BY <2>4, <2>5, <2>7
<1> QED
  BY <1>2, <1>3

LEMMA NoPlaces ==
  ASSUME Places = {}, NEW s, NEW x, NEW n
  PROVE  Lists(s, x, n)
  BY DEF Lists

\* Steps of no pass keep who has got how far.
LEMMA NoPassStep ==
  ASSUME TypeOK, Registered, OneWinner, Rest(modules', 1), UNCHANGED <<hooks, configured>>,
         Taken(FirstId) => Taken(FirstId)', NEW g \in Goroutines,
         \A f \in Goroutines \ {g} : pc'[f] = pc[f] /\ todo'[f] = todo[f] /\ pos'[f] = pos[f],
         g \notin Configuring' \/ UNCHANGED <<pc, todo, pos>>
  PROVE  Registered' /\ OneWinner'
<1>1. CASE g \notin Configuring'
  BY <1>1, PassStep
<1>2. CASE UNCHANGED <<pc, todo, pos>>
  <2>1. (Fresh(g)' <=> Fresh(g)) /\ (Past(g)' <=> Past(g)) /\ (g \in Configuring' <=> g \in Configuring)
    BY <1>2 DEF Fresh, Past, Configuring
  <2>2. g \in Configuring' => /\ Fresh(g)' \/ (Past(g)' /\ g \in Configuring /\ ~Fresh(g))
                              /\ pc'[g] = "autowire" => Rest(todo'[g], 1)
    BY <1>2, <2>1 DEF Registered
  <2> QED
    BY <2>2, PassStep
<1> QED
  BY <1>1, <1>2

\* Names are not given back.
LEMMA TakenStays ==
  ASSUME NEW id, services \subseteq services', providers \subseteq providers', Taken(id)
  PROVE  Taken(id)'
  BY DEF Taken

\* Somebody registers a hook of his own.
LEMMA HookAdded ==
  ASSUME TypeOK, Registered, OneWinner, UNCHANGED <<modules, services, providers, configured, pc, todo, pos>>,
         NEW h, hooks' = Append(hooks, h), \A p \in Places : HookOf(p) # h
  PROVE  Registered' /\ OneWinner'
<1>1. hooks \in Seq(Hooks)
  BY DEF TypeOK
<1>2. \A x, n \in Nat : Lists(hooks, x, n) => Lists(hooks', x, n)
  BY <1>1, ListsOther
<1>3. 1 \in Nat /\ Size + 1 \in Nat
  BY PlaceFacts
<1>4. ASSUME NEW f \in Configuring' PROVE f \in Configuring /\ (Fresh(f)' <=> Fresh(f)) /\ (Past(f) => Past(f)')
  <2>1. f \in Configuring /\ (Fresh(f)' <=> Fresh(f))
    BY <1>4 DEF Configuring, Fresh
  <2>2. ASSUME Past(f) PROVE Past(f)'
    <3>1. PICK x \in 1..(Size + 1) : /\ Rest(todo[f], x) /\ \A y \in 1..(x - 1) : InitialModules[y] # NilModule
                                     /\ IF pc[f] = "autowire" THEN Lists(hooks, 1, 1) ELSE Lists(hooks, x, pos[f])
      BY <2>2 DEF Past
    <3>2. x \in Nat /\ pos[f] \in Nat
      BY <2>1, PlaceFacts DEF Configuring, TypeOK
    <3>3. IF pc[f] = "autowire" THEN Lists(hooks', 1, 1) ELSE Lists(hooks', x, pos[f])
      BY <1>2, <1>3, <3>1, <3>2
    <3> QED
      BY <3>1, <3>3 DEF Past
  <2> QED
    BY <2>1, <2>2
<1>5. Lists(hooks, 1, 1) => Lists(hooks', 1, 1)
  BY <1>2, <1>3
<1>6. Complete(hooks) => Complete(hooks')
  BY <1>2, <1>3 DEF Complete
<1>7. Claimed' <=> Claimed
  BY DEF Claimed, Taken
<1>8. Registered'
  <2>1. \A f \in Configuring' : (Fresh(f)' \/ Past(f)') /\ (pc'[f] = "autowire" => Rest(todo'[f], 1))
    BY <1>4 DEF Registered
  <2> QED
    BY <1>6, <2>1 DEF Registered
<1>9. OneWinner'
  BY <1>4, <1>5, <1>7 DEF OneWinner
<1> QED
  BY <1>8, <1>9

LEMMA CallRegistered ==
  ASSUME TypeOK, Registered, OneWinner, NEW g \in Goroutines, Call(g)
  PROVE  Registered' /\ OneWinner'
<1>1. Rest(modules, 1)
  BY DEF Registered
<1>2. ASSUME NEW m \in LateModules, Use(g, m) PROVE Registered' /\ OneWinner'
  <2>1. modules' = Append(modules, m) /\ UNCHANGED <<hooks, services, providers, configured, pc, todo, pos>>
    BY <1>2 DEF Use, flags, locals
  <2>2. modules \in Seq(Modules \cup {NilModule})
    BY DEF TypeOK
  <2>3. Rest(modules', 1)
    <3>1. /\ Len(modules') = Len(modules) + 1 /\ Len(modules) \in Nat /\ DOMAIN modules' = 1..(Len(modules) + 1)
          /\ \A i \in 1..Len(modules) : modules'[i] = modules[i] /\ i \in DOMAIN modules
          /\ modules'[Len(modules) + 1] = m
      BY <2>1, <2>2
    <3> QED
      BY <1>1, <3>1, PlaceFacts DEF Rest
  <2> QED
    BY <2>1, <2>3, NoPassStep DEF Taken
<1>3. ASSUME NEW h \in LateHooks, RegisterHook(g, h) PROVE Registered' /\ OneWinner'
  <2>1. hooks' = Append(hooks, h) /\ UNCHANGED <<modules, services, providers, configured, pc, todo, pos>>
    BY <1>3 DEF RegisterHook, flags, locals
  <2>2. ASSUME NEW p \in Places PROVE HookOf(p) # h
    <3>1. p[1] \in DOMAIN InitialModules /\ InitialModules[p[1]] # NilModule /\ p[2] \in HookSteps(InitialModules[p[1]])
      BY DEF Places
    <3>2. IdAt(p[1], p[2]) \notin LateHooks
      BY <3>1, OwnHooks
    <3> QED
      BY <3>2 DEF HookOf
  <2> QED
    BY <2>1, <2>2, HookAdded
<1>4. ASSUME NEW id, RegisterDirect(g, id) \/ Override(g, id) PROVE Registered' /\ OneWinner'
  <2>1. /\ UNCHANGED <<modules, hooks, configured, pc, todo, pos>>
        /\ services \subseteq services' /\ providers \subseteq providers'
    BY <1>4 DEF RegisterDirect, Override, AddId, flags, locals
  <2> QED
    BY <1>1, <2>1, NoPassStep, TakenStays
<1>5. ASSUME NEW c \in {"configure", "start"}, ConfigureEnter(g, c) PROVE Registered' /\ OneWinner'
  <2>1. UNCHANGED <<modules, hooks, services, providers, configured>>
    BY <1>5 DEF ConfigureEnter, registry, flags
  <2>2. Taken(FirstId) => Taken(FirstId)'
    BY <2>1, TakenStays
  <2>3. CASE configured
    <3>1. PICK s \in {"idle", "start"} : pc' = [pc EXCEPT ![g] = s]
      BY <1>5, <2>3 DEF ConfigureEnter, ConfigureReturns
    <3>2. UNCHANGED <<todo, pos>>
      BY <1>5, <2>3 DEF ConfigureEnter
    <3>3. pc'[g] = s /\ \A f \in Goroutines \ {g} : pc'[f] = pc[f]
      BY <3>1 DEF TypeOK
    <3>4. g \notin Configuring'
      BY <3>3 DEF Configuring
    <3> QED
      BY <1>1, <2>1, <2>2, <3>2, <3>3, <3>4, NoPassStep
  <2>4. CASE ~configured
    <3>1. /\ pc' = [pc EXCEPT ![g] = "autowire"] /\ todo' = [todo EXCEPT ![g] = modules]
          /\ pos' = [pos EXCEPT ![g] = 1]
      BY <1>5, <2>4 DEF ConfigureEnter
    <3>2. /\ pc'[g] = "autowire" /\ todo'[g] = modules /\ pos'[g] = 1
          /\ \A f \in Goroutines \ {g} : pc'[f] = pc[f] /\ todo'[f] = todo[f] /\ pos'[f] = pos[f]
      BY <3>1 DEF TypeOK
    <3>3. Fresh(g)'
      BY <3>2 DEF Fresh
    <3> QED
      BY <1>1, <2>1, <2>2, <3>2, <3>3, PassStep
  <2> QED
    BY <2>3, <2>4
<1>6. ASSUME StopNoop(g) PROVE Registered' /\ OneWinner'
  <2>1. UNCHANGED <<modules, hooks, services, providers, configured, pc, todo, pos>>
    BY <1>6 DEF StopNoop, registry, flags, locals
  <2> QED
    BY <1>1, <2>1, NoPassStep, TakenStays
<1>7. ASSUME StopEnter(g) PROVE Registered' /\ OneWinner'
  <2>1. UNCHANGED <<modules, hooks, services, providers, configured, todo, pos>> /\ pc' = [pc EXCEPT ![g] = "stopping"]
    BY <1>7 DEF StopEnter, registry
  <2>2. pc'[g] = "stopping" /\ \A f \in Goroutines \ {g} : pc'[f] = pc[f]
    BY <2>1 DEF TypeOK
  <2>3. g \notin Configuring'
    BY <2>2 DEF Configuring
  <2> QED
    BY <1>1, <2>1, <2>2, <2>3, NoPassStep, TakenStays
<1> QED
  BY <1>2, <1>3, <1>4, <1>5, <1>6, <1>7 DEF Call

\* Start and Stop do not touch the registry.
LEMMA OtherStepRegistered ==
  ASSUME TypeOK, Registered, OneWinner, NEW g \in Goroutines, StartStep(g) \/ StopStep(g)
  PROVE  Registered' /\ OneWinner'
<1>1. /\ UNCHANGED <<modules, hooks, services, providers, configured, todo, pos>>
      /\ UNCHANGED pc \/ \E s \in {"idle", "hooks", "rollback"} : pc' = [pc EXCEPT ![g] = s]
  <2>1. CASE StartStep(g)
    BY <2>1 DEF StartStep, StartNoop, StartEnter, StartHook, StartHookFault, StartDone, registry, flags
  <2>2. CASE StopStep(g)
    BY <2>2 DEF StopStep, StopHook, StopReturns, registry, flags
  <2> QED
    BY <2>1, <2>2
<1>2. CASE UNCHANGED pc
  <2>1. Rest(modules', 1)
    BY <1>1 DEF Registered
  <2> QED
    BY <1>1, <1>2, <2>1, NoPassStep, TakenStays
<1>3. ASSUME NEW s \in {"idle", "hooks", "rollback"}, pc' = [pc EXCEPT ![g] = s] PROVE Registered' /\ OneWinner'
  <2>1. pc'[g] = s /\ \A f \in Goroutines \ {g} : pc'[f] = pc[f]
    BY <1>3 DEF TypeOK
  <2>2. g \notin Configuring' /\ Rest(modules', 1)
    BY <1>1, <2>1 DEF Configuring, Registered
  <2> QED
    BY <1>1, <2>1, <2>2, NoPassStep, TakenStays
<1> QED
  BY <1>1, <1>2, <1>3

\* A Configure that fails is over.
LEMMA FailRegistered ==
  ASSUME TypeOK, Registered, OneWinner, NEW g \in Goroutines, ConfigureFails(g), UNCHANGED registry
  PROVE  Registered' /\ OneWinner'
<1>1. /\ UNCHANGED <<modules, hooks, services, providers, configured>>
      /\ pc' = [pc EXCEPT ![g] = "idle"] /\ todo' = [todo EXCEPT ![g] = <<>>] /\ pos' = [pos EXCEPT ![g] = 1]
  BY DEF ConfigureFails, registry, flags
<1>2. /\ pc'[g] = "idle"
      /\ \A f \in Goroutines \ {g} : pc'[f] = pc[f] /\ todo'[f] = todo[f] /\ pos'[f] = pos[f]
  BY <1>1 DEF TypeOK
<1>3. g \notin Configuring' /\ Rest(modules', 1)
  BY <1>1, <1>2 DEF Configuring, Registered
<1> QED
  BY <1>1, <1>2, <1>3, NoPassStep, TakenStays

\* The autowired constructors come first.
LEMMA AutowireRegistered ==
  ASSUME TypeOK, Registered, OneWinner, NEW g \in Goroutines, Autowire(g) \/ AutowireDone(g)
  PROVE  Registered' /\ OneWinner'
<1>1. /\ g \in Configuring /\ pc[g] = "autowire" /\ Rest(todo[g], 1) /\ (Fresh(g) \/ Past(g))
      /\ UNCHANGED <<modules, hooks, configured, todo>> /\ Rest(modules', 1)
  BY DEF Autowire, AutowireDone, Configuring, Registered, flags, registry
<1>2. pos[g] \in Nat \ {0} /\ Autowired \in Seq(Types) /\ 1 \in 1..(Size + 1)
  BY PlaceFacts, LifecycleAssumption DEF TypeOK, LifecycleAssumption
<1>3. ~Fresh(g) \/ Places = {} \/ ~Claimed => Lists(hooks, 1, 1)
  <2>1. CASE ~Fresh(g)
    BY <1>1, <2>1 DEF Past
  <2>2. CASE Places = {}
    BY <2>2, NoPlaces
  <2>3. CASE Places # {} /\ ~Claimed
    BY <2>3 DEF OneWinner
  <2> QED
    BY <2>1, <2>2, <2>3
<1>4. CASE Autowire(g)
  <2> DEFINE id == Autowired[pos[g]]
  <2>1. /\ pc' = pc /\ pos' = [pos EXCEPT ![g] = @ + 1] /\ ~Taken(id) /\ AddId(id)
        /\ pos[g] <= Len(Autowired) /\ id \in Types
    BY <1>2, <1>4 DEF Autowire
  <2>2. services \subseteq services' /\ providers \subseteq providers' /\ id \in providers'
    BY <2>1 DEF AddId
  <2>3. \A f \in Goroutines \ {g} : pc'[f] = pc[f] /\ todo'[f] = todo[f] /\ pos'[f] = pos[f]
    BY <1>1, <2>1 DEF TypeOK
  <2>4. Fresh(g) => ~Claimed /\ Claimed'
    <3> SUFFICES ASSUME Fresh(g) PROVE ~Claimed /\ Claimed'
      OBVIOUS
    <3>1. pos[g] = 1 /\ Autowired # <<>>
      BY <1>2, <2>1 DEF Fresh
    <3>2. FirstId = id
      BY <3>1 DEF FirstId
    <3> QED
      BY <2>1, <2>2, <3>1, <3>2 DEF Claimed, Taken
  <2>5. Past(g)'
    <3>1. Lists(hooks', 1, 1)
      BY <1>1, <1>3, <2>4
    <3>2. pc'[g] = "autowire" /\ Rest(todo'[g], 1)
      BY <1>1, <2>1
    <3>3. \A y \in 1..(1 - 1) : InitialModules[y] # NilModule
      OBVIOUS
    <3> QED
      BY <1>2, <3>1, <3>2, <3>3 DEF Past
  <2>6. Taken(FirstId) => Taken(FirstId)'
    BY <2>2, TakenStays
  <2>7. pc'[g] = "autowire" => Rest(todo'[g], 1)
    BY <1>1
  <2> QED
    BY <1>1, <2>3, <2>4, <2>5, <2>6, <2>7, PassStep
<1>5. CASE AutowireDone(g)
  <2>1. /\ pc' = [pc EXCEPT ![g] = "module"] /\ pos' = [pos EXCEPT ![g] = 1] /\ pos[g] > Len(Autowired)
        /\ UNCHANGED <<services, providers>>
    BY <1>5 DEF AutowireDone, registry
  <2>2. /\ pc'[g] = "module" /\ pos'[g] = 1
        /\ \A f \in Goroutines \ {g} : pc'[f] = pc[f] /\ todo'[f] = todo[f] /\ pos'[f] = pos[f]
    BY <1>1, <2>1 DEF TypeOK
  <2>3. Rest(todo'[g], 1) /\ \A y \in 1..(1 - 1) : Silent(y) /\ InitialModules[y] # NilModule
    BY <1>1
  <2>4. CASE Fresh(g)
    <3>1. Autowired = <<>>
      BY <1>2, <2>1, <2>4 DEF Fresh
    <3>2. Fresh(g)'
      BY <1>2, <2>2, <2>3, <3>1 DEF Fresh
    <3> QED
      BY <1>1, <2>1, <2>2, <3>2, PassStep, TakenStays
  <2>5. CASE ~Fresh(g)
    <3>1. Lists(hooks', 1, pos'[g])
      BY <1>1, <1>3, <2>2, <2>5
    <3>2. Past(g)'
      BY <1>2, <2>2, <2>3, <3>1 DEF Past
    <3> QED
      BY <1>1, <2>1, <2>2, <2>5, <3>2, PassStep, TakenStays
  <2> QED
    BY <2>4, <2>5
<1> QED
  BY <1>4, <1>5

\* The place a pass has come to, whether it has registered something or not.
LEMMA ModulePlace ==
  ASSUME TypeOK, Registered, NEW g \in Goroutines, pc[g] = "module"
  PROVE  \E x \in 1..(Size + 1) :
           /\ Rest(todo[g], x) /\ \A y \in 1..(x - 1) : InitialModules[y] # NilModule
           /\ \/ Fresh(g) /\ pos[g] = 1 /\ Autowired = <<>> /\ \A y \in 1..(x - 1) : Silent(y)
              \/ ~Fresh(g) /\ Lists(hooks, x, pos[g])
<1>1. Fresh(g) \/ Past(g)
  BY DEF Registered, Configuring
<1>2. CASE Fresh(g)
  <2>1. PICK x \in 1..(Size + 1) : Rest(todo[g], x) /\ \A y \in 1..(x - 1) : Silent(y)
    BY <1>2 DEF Fresh
  <2>2. \A y \in 1..(x - 1) : InitialModules[y] # NilModule
    BY <2>1 DEF Silent
  <2> QED
    BY <1>2, <2>1, <2>2 DEF Fresh
<1>3. CASE ~Fresh(g)
  BY <1>1, <1>3 DEF Past
<1> QED
  BY <1>2, <1>3

\* A module returns: the pass goes to the next.
LEMMA ReturnRegistered ==
  ASSUME TypeOK, Registered, OneWinner, NEW g \in Goroutines, ModuleReturns(g)
  PROVE  Registered' /\ OneWinner'
<1> DEFINE t == todo[g]
<1>1. /\ g \in Configuring /\ pc[g] = "module" /\ t # <<>> /\ Head(t) # NilModule /\ pos[g] > Len(Script[Head(t)])
      /\ UNCHANGED <<modules, hooks, services, providers, configured, pc>> /\ Rest(modules', 1)
      /\ todo' = [todo EXCEPT ![g] = Tail(t)] /\ pos' = [pos EXCEPT ![g] = 1]
  BY DEF ModuleReturns, InModule, Configuring, Registered, flags, registry
<1>2. /\ t \in Seq(Modules \cup {NilModule}) /\ todo'[g] = Tail(t) /\ pos'[g] = 1 /\ pos[g] \in Nat \ {0}
      /\ \A f \in Goroutines \ {g} : pc'[f] = pc[f] /\ todo'[f] = todo[f] /\ pos'[f] = pos[f]
  BY <1>1 DEF TypeOK
<1>3. PICK x \in 1..(Size + 1) :
        /\ Rest(t, x) /\ \A y \in 1..(x - 1) : InitialModules[y] # NilModule
        /\ \/ Fresh(g) /\ pos[g] = 1 /\ Autowired = <<>> /\ \A y \in 1..(x - 1) : Silent(y)
           \/ ~Fresh(g) /\ Lists(hooks, x, pos[g])
  BY <1>1, ModulePlace
<1> DEFINE z == IF x \in 1..Size THEN x + 1 ELSE x
<1>4. z \in 1..(Size + 1) /\ Rest(todo'[g], z) /\ (x \in 1..Size => Head(t) = InitialModules[x])
      /\ \A y \in 1..(z - 1) : y \in 1..(x - 1) \/ (y = x /\ x \in 1..Size)
  <2>1. Size \in Nat
    BY PlaceFacts
  <2>2. \/ x \in 1..Size /\ Head(t) = InitialModules[x] /\ Rest(Tail(t), x + 1)
        \/ x = Size + 1 /\ Head(t) \in LateModules /\ Rest(Tail(t), x)
    BY <1>1, <1>2, <1>3, RestHead
  <2> QED
    BY <1>2, <2>1, <2>2
<1>5. \A y \in 1..(z - 1) : InitialModules[y] # NilModule
  BY <1>1, <1>3, <1>4
<1>6. Head(t) \in Modules /\ Script[Head(t)] \in Seq(Effect)
  BY <1>1, <1>2, PlaceFacts
<1> HIDE DEF z
<1>7. CASE Fresh(g) /\ pos[g] = 1 /\ Autowired = <<>> /\ \A y \in 1..(x - 1) : Silent(y)
  <2>1. Script[Head(t)] = <<>>
    BY <1>1, <1>6, <1>7
  <2>2. \A y \in 1..(z - 1) : Silent(y)
    BY <1>1, <1>4, <1>7, <2>1 DEF Silent
  <2>3. Fresh(g)'
    BY <1>2, <1>4, <1>7, <2>2 DEF Fresh
  <2> QED
    BY <1>1, <1>2, <2>3, PassStep, TakenStays
<1>8. CASE ~Fresh(g) /\ Lists(hooks, x, pos[g])
  <2>1. \A p \in Places : Earlier(p, x, pos[g]) <=> Earlier(p, z, 1)
    <3> SUFFICES ASSUME NEW p \in Places PROVE Earlier(p, x, pos[g]) <=> Earlier(p, z, 1)
      OBVIOUS
    <3>1. p[1] \in 1..Size /\ p[2] \in 1..Len(Script[InitialModules[p[1]]]) /\ Size \in Nat
      BY PlaceFacts
    <3>2. CASE x \in 1..Size
      <4>1. z = x + 1
        BY <3>2 DEF z
      <4>2. p[1] = x => p[2] < pos[g]
        BY <1>1, <1>2, <1>4, <1>6, <3>1, <3>2
      <4> QED
        BY <1>2, <3>1, <3>2, <4>1, <4>2 DEF Earlier
    <3>3. CASE x = Size + 1
      <4>1. z = x
        BY <3>1, <3>3 DEF z
      <4> QED
        BY <3>1, <3>3, <4>1 DEF Earlier
    <3> QED
      BY <3>1, <3>2, <3>3
  <2>2. Lists(hooks', z, pos'[g])
    BY <1>1, <1>2, <1>8, <2>1, ListsSame
  <2>3. pc'[g] = "module"
    BY <1>1
  <2>4. Past(g)'
    BY <1>4, <1>5, <2>2, <2>3 DEF Past
  <2> QED
    BY <1>1, <1>2, <1>8, <2>3, <2>4, PassStep, TakenStays
<1> QED
  BY <1>3, <1>7, <1>8

\* The steps of a module that a pass is in.
LEMMA EffectFacts ==
  ASSUME TypeOK, Registered, NEW g \in Goroutines, MoreEffects(g)
  PROVE  /\ pc[g] = "module" /\ g \in Configuring /\ todo[g] \in Seq(Modules \cup {NilModule}) /\ todo[g] # <<>>
         /\ Head(todo[g]) \in Modules /\ Script[Head(todo[g])] \in Seq(Effect)
         /\ pos[g] \in 1..Len(Script[Head(todo[g])]) /\ NextEffect(g) \in Effect
         /\ NextEffect(g) = Script[Head(todo[g])][pos[g]]
         /\ NextEffect(g).op = "hook" => pos[g] \in HookSteps(Head(todo[g]))
<1>1. /\ pc[g] = "module" /\ todo[g] # <<>> /\ Head(todo[g]) # NilModule
      /\ todo[g] \in Seq(Modules \cup {NilModule}) /\ pos[g] \in Nat \ {0}
  BY DEF MoreEffects, InModule, TypeOK
<1>2. Head(todo[g]) \in Modules
  BY <1>1
<1>3. Script[Head(todo[g])] \in Seq(Effect)
  BY <1>2, PlaceFacts
<1>4. pos[g] <= Len(Script[Head(todo[g])]) /\ NextEffect(g) = Script[Head(todo[g])][pos[g]]
  BY DEF MoreEffects, NextEffect
<1>5. pos[g] \in 1..Len(Script[Head(todo[g])]) /\ NextEffect(g) \in Effect
  BY <1>1, <1>3, <1>4
<1>6. NextEffect(g).op = "hook" => pos[g] \in HookSteps(Head(todo[g]))
  BY <1>3, <1>4, <1>5 DEF HookSteps
<1> QED
  BY <1>1, <1>2, <1>3, <1>4, <1>5, <1>6 DEF Configuring

LEMMA EffectId ==
  ASSUME NEW e \in Effect, e.op # "hook"
  PROVE  e.id \in Names \cup Types
  BY DEF Effect

\* A module registers a name.  A pass that has registered nothing yet does so
\* with the first name of the App.
LEMMA NameRegistered ==
  ASSUME TypeOK, Registered, OneWinner, NEW g \in Goroutines, MoreEffects(g),
         NextEffect(g).op # "hook", ~Taken(NextEffect(g).id), AddId(NextEffect(g).id),
         UNCHANGED <<modules, hooks, configured, pc, todo>>, pos' = [pos EXCEPT ![g] = @ + 1]
  PROVE  Registered' /\ OneWinner'
<1> DEFINE t == todo[g]
           e == NextEffect(g)
<1>1. /\ pc[g] = "module" /\ g \in Configuring /\ t \in Seq(Modules \cup {NilModule}) /\ t # <<>>
      /\ Head(t) \in Modules /\ Script[Head(t)] \in Seq(Effect) /\ pos[g] \in 1..Len(Script[Head(t)])
      /\ e \in Effect /\ e = Script[Head(t)][pos[g]] /\ e.op # "hook"
  BY EffectFacts
<1>a. ~Taken(e.id) /\ AddId(e.id)
  OBVIOUS
<1>2. /\ pos'[g] = pos[g] + 1 /\ pc'[g] = "module" /\ todo'[g] = t /\ Rest(modules', 1)
      /\ \A f \in Goroutines \ {g} : pc'[f] = pc[f] /\ todo'[f] = todo[f] /\ pos'[f] = pos[f]
  BY <1>1 DEF TypeOK, Registered
<1>3. PICK x \in 1..(Size + 1) :
        /\ Rest(t, x) /\ \A y \in 1..(x - 1) : InitialModules[y] # NilModule
        /\ \/ Fresh(g) /\ pos[g] = 1 /\ Autowired = <<>> /\ \A y \in 1..(x - 1) : Silent(y)
           \/ ~Fresh(g) /\ Lists(hooks, x, pos[g])
  BY <1>1, ModulePlace
<1>4. services \subseteq services' /\ providers \subseteq providers' /\ (e.id \in services' \/ e.id \in providers')
  <2>1. e.id \in Names \cup Types
    BY <1>1, EffectId
  <2> HIDE DEF e
  <2> QED
    BY <1>a, <2>1 DEF AddId, Taken
<1>5. Taken(FirstId) => Taken(FirstId)'
  BY <1>4, TakenStays
<1>6. (x \in 1..Size /\ Head(t) = InitialModules[x]) \/ x = Size + 1
  BY <1>1, <1>3, RestHead
<1>7. ASSUME NEW p \in Places PROVE p[1] \in 1..Size /\ p[2] \in Nat /\ ~(p[1] = x /\ p[2] = pos[g]) /\ Size \in Nat
  <2>1. p[1] \in 1..Size /\ p[2] \in Nat /\ p[2] \in HookSteps(InitialModules[p[1]]) /\ Size \in Nat
    BY PlaceFacts DEF HookSteps
  <2>2. ASSUME p[1] = x, p[2] = pos[g] PROVE FALSE
    <3>1. Head(t) = InitialModules[x]
      BY <1>6, <2>1, <2>2
    <3>2. Script[Head(t)][pos[g]].op = "hook"
      BY <2>1, <2>2, <3>1 DEF HookSteps
    <3> QED
      BY <1>1, <3>2
  <2> QED
    BY <2>1, <2>2
<1>8. CASE Places = {}
  <2>1. Lists(hooks', x, pos'[g])
    BY <1>8, NoPlaces
  <2>2. Past(g)'
    BY <1>2, <1>3, <2>1 DEF Past
  <2> QED
    BY <1>1, <1>2, <1>5, <1>8, <2>2, PassStep
<1>9. CASE Places # {} /\ Fresh(g) /\ pos[g] = 1 /\ Autowired = <<>> /\ \A y \in 1..(x - 1) : Silent(y)
  <2>1. x \in 1..Size
    BY <1>6, <1>9, AllSilent, PlaceFacts
  <2>2. Loud(x)
    <3>1. Script[InitialModules[x]] # <<>> /\ InitialModules[x] # NilModule
      <4>1. Head(t) = InitialModules[x] /\ Script[Head(t)] # <<>>
        BY <1>1, <1>6, <2>1, PlaceFacts
      <4>2. Head(t) # NilModule
        BY <1>1, LifecycleAssumption DEF LifecycleAssumption
      <4> QED
        BY <4>1, <4>2
    <3>2. x \in DOMAIN InitialModules
      BY <2>1, PlaceFacts DEF Size
    <3> QED
      BY <1>9, <3>1, <3>2 DEF Loud
  <2>3. FirstId = e.id
    <3>1. x = CHOOSE y \in DOMAIN InitialModules : Loud(y)
      BY <2>2, LoudOnce
    <3>2. FirstId = IdAt(x, 1)
      BY <1>9, <3>1 DEF FirstId
    <3>3. Head(t) = InitialModules[x] /\ e = Script[Head(t)][1]
      BY <1>1, <1>6, <1>9, <2>1, PlaceFacts
    <3> QED
      BY <3>2, <3>3 DEF IdAt
  <2>4. ~Claimed /\ Claimed'
    <3>1. \E y \in DOMAIN InitialModules : Loud(y)
      BY <2>2 DEF Loud
    <3>2. ~Taken(FirstId) /\ Taken(FirstId)'
      <4>1. FirstId' = FirstId
        BY DEF FirstId
      <4>2. ~Taken(FirstId)
        BY <1>a, <2>3
      <4>3. (Taken(FirstId))' <=> FirstId \in services' \/ FirstId \in providers'
        BY <4>1 DEF Taken
      <4>4. e.id \in services' \/ e.id \in providers'
        BY <1>4
      <4> QED
        BY <2>3, <4>2, <4>3, <4>4
    <3> QED
      BY <3>1, <3>2 DEF Claimed
  <2>5. Lists(hooks, 1, 1)
    BY <1>9, <2>4 DEF OneWinner
  <2>6. \A p \in Places : Earlier(p, 1, 1) <=> Earlier(p, x, 2)
    <3> SUFFICES ASSUME NEW p \in Places PROVE Earlier(p, 1, 1) <=> Earlier(p, x, 2)
      OBVIOUS
    <3>1. p[1] \in 1..Size /\ p[2] \in 1..Len(Script[InitialModules[p[1]]]) /\ InitialModules[p[1]] \in Modules
      BY PlaceFacts
    <3>2. p[1] \notin 1..(x - 1)
      BY <1>9, <3>1 DEF Silent
    <3> QED
      BY <1>7, <1>9, <2>1, <3>1, <3>2 DEF Earlier
  <2>7. Lists(hooks', x, pos'[g])
    <3>1. pos'[g] = 2
      BY <1>2, <1>9
    <3>2. Lists(hooks, x, 2)
      BY <2>5, <2>6, ListsSame
    <3> QED
      BY <3>1, <3>2
  <2>8. Past(g)'
    BY <1>2, <1>3, <2>7 DEF Past
  <2> QED
    BY <1>1, <1>2, <1>5, <2>4, <2>8, PassStep
<1>10. CASE ~Fresh(g) /\ Lists(hooks, x, pos[g])
  <2>1. \A p \in Places : Earlier(p, x, pos[g]) <=> Earlier(p, x, pos[g] + 1)
    <3>1. pos[g] \in Nat
      BY <1>1
    <3> QED
      BY <1>7, <3>1 DEF Earlier
  <2>2. Lists(hooks', x, pos'[g])
    <3>1. Lists(hooks, x, pos[g] + 1)
      BY <1>10, <2>1, ListsSame
    <3> QED
      BY <1>2, <3>1
  <2>3. Past(g)'
    BY <1>2, <1>3, <2>2 DEF Past
  <2> QED
    BY <1>1, <1>2, <1>5, <1>10, <2>3, PassStep
<1> QED
  BY <1>3, <1>8, <1>9, <1>10

\* A module registers a hook.  Its pass is the one that is past the first name.
LEMMA HookRegistered ==
  ASSUME TypeOK, Registered, OneWinner, NEW g \in Goroutines, MoreEffects(g), NextEffect(g).op = "hook",
         hooks' = Append(hooks, NextEffect(g).id),
         UNCHANGED <<modules, services, providers, configured, pc, todo>>, pos' = [pos EXCEPT ![g] = @ + 1]
  PROVE  Registered' /\ OneWinner'
<1> DEFINE t == todo[g]
           e == NextEffect(g)
<1>1. /\ pc[g] = "module" /\ g \in Configuring /\ t \in Seq(Modules \cup {NilModule}) /\ t # <<>>
      /\ Head(t) \in Modules /\ Script[Head(t)] \in Seq(Effect) /\ pos[g] \in 1..Len(Script[Head(t)])
      /\ e \in Effect /\ e = Script[Head(t)][pos[g]] /\ pos[g] \in HookSteps(Head(t))
  BY EffectFacts
<1>2. /\ pos'[g] = pos[g] + 1 /\ pc'[g] = "module" /\ todo'[g] = t /\ hooks \in Seq(Hooks)
      /\ \A f \in Goroutines \ {g} : pc'[f] = pc[f] /\ todo'[f] = todo[f] /\ pos'[f] = pos[f]
  BY <1>1 DEF TypeOK
<1>3. PICK x \in 1..(Size + 1) :
        /\ Rest(t, x) /\ \A y \in 1..(x - 1) : InitialModules[y] # NilModule
        /\ \/ Fresh(g) /\ pos[g] = 1 /\ Autowired = <<>> /\ \A y \in 1..(x - 1) : Silent(y)
           \/ ~Fresh(g) /\ Lists(hooks, x, pos[g])
  BY <1>1, ModulePlace
<1>6. \/ x \in 1..Size /\ Head(t) = InitialModules[x]
      \/ x = Size + 1 /\ Head(t) \in LateModules
  BY <1>1, <1>3, RestHead
<1>4. ~Fresh(g) /\ Lists(hooks, x, pos[g])
  <2>1. ~(Autowired = <<>> /\ pos[g] = 1)
    BY <1>1, OwnHooks
  <2> QED
    BY <1>3, <2>1
<1>5. Taken(FirstId)' <=> Taken(FirstId)
  BY DEF Taken
<1>b. (Claimed' <=> Claimed) /\ \A f \in Goroutines \ {g} : (f \in Configuring' <=> f \in Configuring) /\ (Fresh(f)' <=> Fresh(f))
  BY <1>2, <1>5 DEF Claimed, Configuring, Fresh
<1>7. Lists(hooks', x, pos'[g])
  <2>1. x \in Nat /\ pos[g] \in Nat /\ pos[g] + 1 \in Nat /\ Size \in Nat
    <3>1. pos[g] \in Nat /\ Size \in Nat
      BY <1>1, PlaceFacts
    <3> QED
      BY <3>1
  <2>2. CASE x \in 1..Size
    <3>1. Head(t) = InitialModules[x]
      BY <1>6, <2>1, <2>2
    <3> DEFINE p == <<x, pos[g]>>
    <3>2. p \in Places
      <4>1. x \in DOMAIN InitialModules
        BY <2>2, PlaceFacts DEF Size
      <4>2. Head(t) # NilModule
        BY <1>1, LifecycleAssumption DEF LifecycleAssumption
      <4> QED
        BY <1>1, <3>1, <4>1, <4>2 DEF Places
    <3>3. HookOf(p) = e.id /\ p[1] = x /\ p[2] = pos[g]
      BY <1>1, <3>1 DEF HookOf, IdAt
    <3> HIDE DEF p
    <3>4. Lists(Append(hooks, HookOf(p)), p[1], p[2] + 1)
      BY <1>2, <1>4, <3>2, <3>3, ListsNext
    <3> QED
      BY <1>2, <3>3, <3>4
  <2>3. CASE x = Size + 1
    <3>1. Head(t) \in LateModules \ {NilModule}
      <4>1. Head(t) \in LateModules
        BY <1>6, <2>1, <2>3
      <4> QED
        BY <1>1, <4>1, LifecycleAssumption DEF LifecycleAssumption
    <3>2. ASSUME NEW p \in Places PROVE HookOf(p) # e.id
      <4>1. p[1] \in DOMAIN InitialModules /\ InitialModules[p[1]] # NilModule /\ p[2] \in HookSteps(InitialModules[p[1]])
        BY DEF Places
      <4>2. Script[Head(t)][pos[g]].id # IdAt(p[1], p[2])
        BY <1>1, <3>1, <4>1, OwnHooks
      <4> QED
        BY <1>1, <4>2 DEF HookOf
    <3>3. \A p \in Places : Earlier(p, x, pos[g]) <=> Earlier(p, x, pos[g] + 1)
      BY <2>1, <2>3, PlaceFacts DEF Earlier
    <3>4. Lists(hooks, x, pos[g] + 1)
      BY <1>4, <3>3, ListsSame
    <3>5. Lists(Append(hooks, e.id), x, pos[g] + 1)
      BY <1>2, <2>1, <3>2, <3>4, ListsOther
    <3> QED
      BY <1>2, <3>5
  <2> QED
    BY <2>1, <2>2, <2>3
<1>8. Past(g)'
  BY <1>2, <1>3, <1>7 DEF Past
<1>9. CASE Places = {}
  <2>1. OneWinner'
    BY <1>9 DEF OneWinner
  <2>2. ASSUME NEW f \in Goroutines \ {g}, Past(f) PROVE Past(f)'
    <3>1. \A s, y, n : Lists(s, y, n)
      BY <1>9, NoPlaces
    <3> QED
      BY <1>2, <2>2, <3>1 DEF Past
  <2>3. \A f \in Configuring' : (Fresh(f)' \/ Past(f)') /\ (pc'[f] = "autowire" => Rest(todo'[f], 1))
    <3> SUFFICES ASSUME NEW f \in Configuring'
                 PROVE  (Fresh(f)' \/ Past(f)') /\ (pc'[f] = "autowire" => Rest(todo'[f], 1))
      OBVIOUS
    <3>1. CASE f = g
      BY <1>2, <1>8, <3>1
    <3>2. CASE f # g
      <4>1. f \in Goroutines \ {g} /\ f \in Configuring
        BY <1>b, <3>2 DEF Configuring
      <4> QED
        BY <1>2, <1>b, <2>2, <4>1 DEF Registered
    <3> QED
      BY <3>1, <3>2
  <2>4. Complete(hooks')
    BY <1>9, NoPlaces DEF Complete
  <2> QED
    BY <2>1, <2>3, <2>4 DEF Registered
<1>10. CASE Places # {}
  <2>1. Claimed /\ ~configured /\ \A f \in Configuring : f = g \/ Fresh(f)
    BY <1>1, <1>4, <1>10 DEF OneWinner
  <2>2. \A f \in Configuring' : f = g \/ Fresh(f)'
    BY <1>b, <2>1 DEF Configuring
  <2>3. OneWinner'
    BY <1>b, <2>1, <2>2 DEF OneWinner
  <2>4. \A f \in Configuring' : (Fresh(f)' \/ Past(f)') /\ (pc'[f] = "autowire" => Rest(todo'[f], 1))
    <3> SUFFICES ASSUME NEW f \in Configuring'
                 PROVE  (Fresh(f)' \/ Past(f)') /\ (pc'[f] = "autowire" => Rest(todo'[f], 1))
      OBVIOUS
    <3>1. f \in Goroutines /\ (f # g => f \in Configuring)
      BY <1>b DEF Configuring
    <3> QED
      BY <1>2, <1>8, <2>2, <3>1 DEF Registered
  <2> QED
    BY <2>1, <2>3, <2>4 DEF Registered
<1> QED
  BY <1>9, <1>10

\* The pass that is past the first name has gone through all modules.
LEMMA DoneRegistered ==
  ASSUME TypeOK, Registered, OneWinner, NEW g \in Goroutines, ConfigureDone(g)
  PROVE  Registered' /\ OneWinner'
<1>1. /\ g \in Configuring /\ pc[g] = "module" /\ todo[g] = <<>> /\ configured' = TRUE
      /\ UNCHANGED <<modules, hooks, services, providers, todo, pos>>
      /\ \E s \in {"idle", "start"} : pc' = [pc EXCEPT ![g] = s]
  BY DEF ConfigureDone, ConfigureReturns, Configuring, registry
<1>2. /\ g \notin Configuring'
      /\ \A f \in Goroutines \ {g} : pc'[f] = pc[f] /\ (f \in Configuring' <=> f \in Configuring)
  BY <1>1 DEF TypeOK, Configuring
<1>3. \A f \in Configuring' : f \in Configuring /\ f # g /\ (Fresh(f)' <=> Fresh(f)) /\ (Past(f)' <=> Past(f)) /\ pc'[f] = pc[f]
  <2> SUFFICES ASSUME NEW f \in Configuring'
               PROVE  f \in Configuring /\ f # g /\ (Fresh(f)' <=> Fresh(f)) /\ (Past(f)' <=> Past(f)) /\ pc'[f] = pc[f]
    OBVIOUS
  <2>1. f \in Goroutines \ {g} /\ f \in Configuring /\ pc'[f] = pc[f]
    BY <1>2 DEF Configuring
  <2> QED
    BY <1>1, <2>1 DEF Fresh, Past
<1>4. PICK x \in 1..(Size + 1) :
        /\ Rest(todo[g], x) /\ \A y \in 1..(x - 1) : InitialModules[y] # NilModule
        /\ \/ Fresh(g) /\ pos[g] = 1 /\ Autowired = <<>> /\ \A y \in 1..(x - 1) : Silent(y)
           \/ ~Fresh(g) /\ Lists(hooks, x, pos[g])
  BY <1>1, ModulePlace
<1>5. x = Size + 1 /\ Size \in Nat
  BY <1>1, <1>4, RestOver, PlaceFacts
<1>6. \A y \in DOMAIN InitialModules : InitialModules[y] # NilModule
  BY <1>4, <1>5, PlaceFacts DEF Size
<1>7. Complete(hooks) /\ (Places # {} => ~Fresh(g))
  <2>1. CASE Fresh(g) /\ \A y \in 1..(x - 1) : Silent(y)
    <3>1. Places = {}
      BY <1>5, <2>1, AllSilent
    <3> QED
      BY <3>1, NoPlaces DEF Complete
  <2>2. CASE ~Fresh(g) /\ Lists(hooks, x, pos[g])
    <3>1. \A p \in Places : Earlier(p, x, pos[g]) <=> Earlier(p, Size + 1, 1)
      BY <1>5, PlaceFacts DEF Earlier
    <3>2. Lists(hooks, Size + 1, 1)
      BY <2>2, <3>1, ListsSame
    <3> QED
      BY <2>2, <3>2 DEF Complete
  <2> QED
    BY <1>4, <2>1, <2>2
<1>8. Registered'
  BY <1>1, <1>3, <1>6, <1>7 DEF Registered
<1>9. OneWinner'
  <2> SUFFICES ASSUME Places # {} PROVE OneWinner'
    BY DEF OneWinner
  <2>1. Claimed /\ \A f \in Configuring : f = g \/ Fresh(f)
    BY <1>1, <1>7 DEF OneWinner
  <2>2. Claimed'
    BY <1>1, <2>1 DEF Claimed, Taken
  <2> QED
    BY <1>3, <2>1, <2>2 DEF OneWinner
<1> QED
  BY <1>8, <1>9

LEMMA ConfigureRegistered ==
  ASSUME TypeOK, Registered, OneWinner, NEW g \in Goroutines, ConfigureStep(g)
  PROVE  Registered' /\ OneWinner'
<1>1. CASE ModuleEffect(g)
  <2>1. UNCHANGED <<modules, configured, pc, todo>> /\ pos' = [pos EXCEPT ![g] = @ + 1] /\ MoreEffects(g)
    BY <1>1 DEF ModuleEffect, flags
  <2>2. CASE NextEffect(g).op = "hook"
    <3>1. hooks' = Append(hooks, NextEffect(g).id) /\ UNCHANGED <<services, providers>>
      BY <1>1, <2>2 DEF ModuleEffect
    <3> QED
      BY <2>1, <2>2, <3>1, HookRegistered
  <2>3. CASE NextEffect(g).op # "hook"
    <3>1. ~Taken(NextEffect(g).id) /\ AddId(NextEffect(g).id) /\ UNCHANGED hooks
      BY <1>1, <2>3 DEF ModuleEffect
    <3> QED
      BY <2>1, <2>3, <3>1, NameRegistered
  <2> QED
    BY <2>2, <2>3
<1>2. CASE AutowireClash(g) \/ ModuleClash(g) \/ ModuleFault(g) \/ ModuleIsNil(g)
  BY <1>2, FailRegistered DEF AutowireClash, ModuleClash, ModuleFault, ModuleIsNil
<1> QED
  BY <1>1, <1>2, AutowireRegistered, ReturnRegistered, DoneRegistered DEF ConfigureStep

\* A step of goroutine g leaves what the others have started alone.
LEMMA StartsKept ==
  ASSUME TypeOK, Starts, NEW g \in Goroutines, configured => configured',
         \A f \in Goroutines \ {g} : pc'[f] = pc[f] /\ held'[f] = held[f] /\ snap'[f] = snap[f],
         pc'[g] \in {"start", "hooks"} => configured',
         pc'[g] = "hooks" => Complete(Line(g)'),
         \/ UNCHANGED <<started, startedHooks>>
         \/ started' => configured' /\ Complete(HooksOf(startedHooks'))
  PROVE  Starts'
<1>1. ASSUME NEW f \in Goroutines, pc'[f] \in {"start", "hooks"} PROVE configured'
  <2>1. CASE f = g
    BY <1>1, <2>1
  <2>2. CASE f # g
    BY <1>1, <2>2 DEF Starts
  <2> QED
    BY <2>1, <2>2
<1>2. ASSUME NEW f \in Starting' PROVE Complete(Line(f)')
  <2>1. f \in Goroutines /\ pc'[f] = "hooks"
    BY <1>2 DEF Starting
  <2>2. CASE f = g
    BY <2>1, <2>2
  <2>3. CASE f # g
    <3>1. pc[f] = "hooks" /\ held'[f] = held[f] /\ snap'[f] = snap[f]
      BY <2>1, <2>3
    <3>2. Complete(Line(f))
      BY <2>1, <3>1 DEF Starts, Starting
    <3>3. Line(f)' = Line(f)
      BY <3>1 DEF Line
    <3> QED
      BY <3>2, <3>3
  <2> QED
    BY <2>2, <2>3
<1>3. started' => configured' /\ Complete(HooksOf(startedHooks'))
  BY DEF Starts
<1>4. \A f \in Starting' : Complete(Line(f))'
  BY <1>2 DEF Complete, Lists
<1>5. started' => configured' /\ Complete(HooksOf(startedHooks))'
  BY <1>3 DEF Complete, Lists, HooksOf
<1> QED
  BY <1>1, <1>4, <1>5 DEF Starts

\* The line of a Start: the hooks of its snapshot, from its beginning to its end.
LEMMA LineFacts ==
  ASSUME TypeOK, NEW g \in Goroutines
  PROVE  /\ StartEnter(g) => Line(g)' = hooks
         /\ StartHook(g) => Line(g)' = Line(g)
         /\ StartDone(g) => HooksOf(startedHooks') = Line(g)
<1>1. /\ hooks \in Seq(Hooks) /\ held[g] \in Seq(Run) /\ snap[g] \in Seq(Hooks)
  BY DEF TypeOK
<1>2. ASSUME StartEnter(g) PROVE Line(g)' = hooks
  <2>1. held'[g] = <<>> /\ snap'[g] = hooks
    BY <1>2 DEF StartEnter, TypeOK
  <2>2. Line(g)' = [i \in 1..(0 + Len(hooks)) |-> IF i <= 0 THEN held'[g][i].hook ELSE hooks[i - 0]]
    BY <2>1 DEF Line
  <2>3. Len(hooks) \in Nat /\ hooks = [i \in 1..Len(hooks) |-> hooks[i]]
    BY <1>1
  <2>4. 0 + Len(hooks) = Len(hooks) /\ \A i \in 1..Len(hooks) : i - 0 = i /\ ~(i <= 0)
    BY <2>3
  <2> QED
    BY <2>2, <2>3, <2>4
<1>3. ASSUME StartHook(g) PROVE Line(g)' = Line(g)
  <2> DEFINE run == [hook |-> Head(snap[g]), pass |-> pass[g], at |-> Len(held[g]) + 1]
  <2>1. snap[g] # <<>> /\ held'[g] = Append(held[g], run) /\ snap'[g] = Tail(snap[g])
    BY <1>3 DEF StartHook, TypeOK
  <2>2. run.hook = Head(snap[g])
    OBVIOUS
  <2> HIDE DEF run
  <2> DEFINE n == Len(held[g])
             m == Len(snap[g])
  <2>3. /\ n \in Nat /\ m \in Nat \ {0} /\ Len(held'[g]) = n + 1 /\ Len(snap'[g]) = m - 1
        /\ \A i \in 1..n : held'[g][i] = held[g][i]
        /\ held'[g][n + 1] = run /\ run.hook = snap[g][1]
        /\ \A i \in 1..(m - 1) : snap'[g][i] = snap[g][i + 1]
    BY <1>1, <2>1, <2>2
  <2> HIDE DEF n, m
  <2>4. (n + 1) + (m - 1) = n + m
    BY <2>3
  <2>5. ASSUME NEW i \in 1..(n + m)
        PROVE  (IF i <= n + 1 THEN held'[g][i].hook ELSE snap'[g][i - (n + 1)]) =
               (IF i <= n THEN held[g][i].hook ELSE snap[g][i - n])
    <3>1. CASE i <= n
      BY <2>3, <3>1
    <3>2. CASE i = n + 1
      <4>1. i - n = 1 /\ ~(i <= n) /\ i <= n + 1
        BY <2>3, <3>2
      <4> QED
        BY <2>3, <3>2, <4>1
    <3>3. CASE i > n + 1
      <4>1. i - (n + 1) \in 1..(m - 1) /\ (i - (n + 1)) + 1 = i - n /\ ~(i <= n) /\ ~(i <= n + 1)
        BY <2>3, <3>3
      <4>2. snap'[g][i - (n + 1)] = snap[g][(i - (n + 1)) + 1]
        BY <2>3, <4>1
      <4> QED
        BY <4>1, <4>2
    <3> QED
      BY <2>3, <3>1, <3>2, <3>3
  <2>6. Line(g)' = [i \in 1..(n + m) |-> IF i <= n + 1 THEN held'[g][i].hook ELSE snap'[g][i - (n + 1)]]
    BY <2>3, <2>4 DEF Line
  <2>7. Line(g) = [i \in 1..(n + m) |-> IF i <= n THEN held[g][i].hook ELSE snap[g][i - n]]
    BY DEF Line, n, m
  <2> QED
    BY <2>5, <2>6, <2>7
<1>4. ASSUME StartDone(g) PROVE HooksOf(startedHooks') = Line(g)
  <2>1. startedHooks' = held[g] /\ snap[g] = <<>>
    BY <1>4 DEF StartDone
  <2>2. Len(held[g]) \in Nat /\ Len(snap[g]) = 0 /\ DOMAIN held[g] = 1..Len(held[g])
    BY <1>1, <2>1
  <2>3. Line(g) = [i \in 1..Len(held[g]) |-> held[g][i].hook]
    <3>1. Len(held[g]) + Len(snap[g]) = Len(held[g])
      BY <2>2
    <3> QED
      BY <2>2, <3>1 DEF Line
  <2> QED
    BY <2>1, <2>2, <2>3 DEF HooksOf
<1> QED
  BY <1>2, <1>3, <1>4

LEMMA StartsNext ==
  ASSUME TypeOK, Registered, Starts, [Next]_vars
  PROVE  Starts'
<1>1. ASSUME NEW g \in Goroutines, Call(g) PROVE Starts'
  <2>1. ASSUME UNCHANGED <<flags, locals>> PROVE Starts'
    <3>1. UNCHANGED <<configured, started, startedHooks, pc, held, snap>>
      BY <2>1 DEF flags, locals
    <3>2. (pc[g] \in {"start", "hooks"} => configured) /\ (pc[g] = "hooks" => Complete(Line(g)))
      BY DEF Starts, Starting
    <3>3. Line(g)' = Line(g)
      BY <3>1 DEF Line
    <3> QED
      BY <3>1, <3>2, <3>3, StartsKept
  <2>2. ASSUME NEW c \in {"configure", "start"}, ConfigureEnter(g, c) PROVE Starts'
    <3>1. UNCHANGED <<configured, started, startedHooks, held, snap>>
      BY <2>2 DEF ConfigureEnter, flags
    <3>2. \/ configured /\ \E s \in {"idle", "start"} : pc' = [pc EXCEPT ![g] = s]
          \/ pc' = [pc EXCEPT ![g] = "autowire"]
      BY <2>2 DEF ConfigureEnter, ConfigureReturns
    <3>3. /\ pc'[g] \in {"idle", "start", "autowire"} /\ (pc'[g] = "start" => configured)
          /\ \A f \in Goroutines \ {g} : pc'[f] = pc[f]
      BY <3>2 DEF TypeOK
    <3> QED
      BY <3>1, <3>3, StartsKept
  <2>3. ASSUME StopEnter(g) PROVE Starts'
    <3>1. /\ UNCHANGED <<configured, snap>> /\ started' = FALSE
          /\ pc' = [pc EXCEPT ![g] = "stopping"] /\ held' = [held EXCEPT ![g] = startedHooks]
      BY <2>3 DEF StopEnter
    <3>2. /\ pc'[g] = "stopping"
          /\ \A f \in Goroutines \ {g} : pc'[f] = pc[f] /\ held'[f] = held[f]
      BY <3>1 DEF TypeOK
    <3> QED
      BY <3>1, <3>2, StartsKept
  <2> QED
    BY <1>1, <2>1, <2>2, <2>3 DEF Call, Use, RegisterHook, RegisterDirect, Override, StopNoop
<1>2. ASSUME NEW g \in Goroutines, ConfigureStep(g) PROVE Starts'
  <2>1. UNCHANGED <<started, startedHooks, held, snap>> /\ (configured => configured') /\ g \notin Starting
    BY <1>2 DEF ConfigureStep, Autowire, AutowireClash, AutowireDone, ModuleEffect, ModuleClash, ModuleFault,
                ModuleIsNil, ModuleReturns, ConfigureDone, ConfigureFails, MoreEffects, InModule, flags, Starting
  <2>2. \/ UNCHANGED pc /\ pc[g] \in {"autowire", "module"}
        \/ \E s \in {"idle", "module"} : pc' = [pc EXCEPT ![g] = s]
        \/ configured' /\ \E s \in {"idle", "start"} : pc' = [pc EXCEPT ![g] = s]
    BY <1>2 DEF ConfigureStep, Autowire, AutowireClash, AutowireDone, ModuleEffect, ModuleClash, ModuleFault,
                ModuleIsNil, ModuleReturns, ConfigureDone, ConfigureFails, ConfigureReturns, MoreEffects, InModule
  <2>3. /\ pc'[g] \in {"idle", "autowire", "module", "start"} /\ (pc'[g] = "start" => configured')
        /\ \A f \in Goroutines \ {g} : pc'[f] = pc[f]
    BY <2>2 DEF TypeOK
  <2> QED
    BY <2>1, <2>3, StartsKept
<1>3. ASSUME NEW g \in Goroutines, StartNoop(g) \/ StartHookFault(g) PROVE Starts'
  <2>1. /\ UNCHANGED <<configured, started, startedHooks, held>>
        /\ \E s \in {"idle", "rollback"} : pc' = [pc EXCEPT ![g] = s]
        /\ UNCHANGED snap \/ snap' = [snap EXCEPT ![g] = <<>>]
    BY <1>3 DEF StartNoop, StartHookFault, flags
  <2>2. /\ pc'[g] \in {"idle", "rollback"}
        /\ \A f \in Goroutines \ {g} : pc'[f] = pc[f] /\ snap'[f] = snap[f]
    BY <2>1 DEF TypeOK
  <2> QED
    BY <2>1, <2>2, StartsKept
<1>4. ASSUME NEW g \in Goroutines, StartEnter(g) PROVE Starts'
  <2>1. /\ UNCHANGED <<configured, started, startedHooks>> /\ pc[g] = "start"
        /\ pc' = [pc EXCEPT ![g] = "hooks"] /\ held' = [held EXCEPT ![g] = <<>>] /\ snap' = [snap EXCEPT ![g] = hooks]
    BY <1>4 DEF StartEnter, flags
  <2>2. \A f \in Goroutines \ {g} : pc'[f] = pc[f] /\ held'[f] = held[f] /\ snap'[f] = snap[f]
    BY <2>1 DEF TypeOK
  <2>3. configured /\ Complete(hooks)
    BY <2>1 DEF Starts, Registered
  <2>4. Line(g)' = hooks
    BY <1>4, LineFacts
  <2> QED
    BY <2>1, <2>2, <2>3, <2>4, StartsKept
<1>5. ASSUME NEW g \in Goroutines, StartHook(g) PROVE Starts'
  <2>1. /\ UNCHANGED <<configured, started, startedHooks, pc>> /\ pc[g] = "hooks"
        /\ snap' = [snap EXCEPT ![g] = Tail(@)] /\ \E r : held' = [held EXCEPT ![g] = Append(@, r)]
    BY <1>5 DEF StartHook, flags
  <2>2. \A f \in Goroutines \ {g} : held'[f] = held[f] /\ snap'[f] = snap[f]
    BY <2>1 DEF TypeOK
  <2>3. configured /\ Complete(Line(g))
    BY <2>1 DEF Starts, Starting
  <2>4. Line(g)' = Line(g)
    BY <1>5, LineFacts
  <2> QED
    BY <2>1, <2>2, <2>3, <2>4, StartsKept
<1>6. ASSUME NEW g \in Goroutines, StartDone(g) PROVE Starts'
  <2>1. /\ UNCHANGED <<configured, snap>> /\ pc[g] = "hooks"
        /\ pc' = [pc EXCEPT ![g] = "idle"] /\ held' = [held EXCEPT ![g] = <<>>]
    BY <1>6 DEF StartDone
  <2>2. pc'[g] = "idle" /\ \A f \in Goroutines \ {g} : pc'[f] = pc[f] /\ held'[f] = held[f] /\ snap'[f] = snap[f]
    BY <2>1 DEF TypeOK
  <2>3. configured /\ Complete(Line(g))
    BY <2>1 DEF Starts, Starting
  <2>4. HooksOf(startedHooks') = Line(g)
    BY <1>6, LineFacts
  <2> QED
    BY <2>1, <2>2, <2>3, <2>4, StartsKept
<1>7. ASSUME NEW g \in Goroutines, StopStep(g) PROVE Starts'
  <2>1. /\ UNCHANGED <<configured, started, startedHooks, snap>> /\ pc[g] \in {"rollback", "stopping"}
        /\ UNCHANGED pc \/ pc' = [pc EXCEPT ![g] = "idle"]
        /\ UNCHANGED held \/ \E s : held' = [held EXCEPT ![g] = s]
    BY <1>7 DEF StopStep, StopHook, StopReturns, flags, Stopping
  <2>2. /\ pc'[g] \in {"idle", "rollback", "stopping"}
        /\ \A f \in Goroutines \ {g} : pc'[f] = pc[f] /\ held'[f] = held[f]
    BY <2>1 DEF TypeOK
  <2> QED
    BY <2>1, <2>2, StartsKept
<1>8. CASE UNCHANGED vars
  <2>1. UNCHANGED <<configured, started, startedHooks, pc, held, snap>>
    BY <1>8 DEF vars, flags, locals
  <2>2. Starting' = Starting /\ HooksOf(startedHooks)' = HooksOf(startedHooks) /\ \A g \in Goroutines : Line(g)' = Line(g)
    BY <2>1 DEF Starting, HooksOf, Line
  <2>3. \A g \in Starting' : Complete(Line(g))'
    BY <2>2 DEF Starts, Starting, Complete, Lists
  <2>4. started' => configured' /\ Complete(HooksOf(startedHooks))'
    BY <2>1, <2>2 DEF Starts, Complete, Lists
  <2> QED
    BY <2>1, <2>3, <2>4 DEF Starts
<1> QED
  BY <1>1, <1>2, <1>3, <1>4, <1>5, <1>6, <1>7, <1>8 DEF Next, Step, StartStep

LEMMA CompleteNext ==
  ASSUME TypeOK, CompleteInv, [Next]_vars
  PROVE  CompleteInv'
<1>1. Registered' /\ OneWinner'
  <2>1. CASE UNCHANGED vars
    <3>1. UNCHANGED <<modules, hooks, services, providers, configured, pc, todo, pos>>
      BY <2>1 DEF vars, registry, flags, locals
    <3> QED
      BY <3>1 DEF CompleteInv, Registered, OneWinner, Fresh, Past, Configuring, Claimed, Taken
  <2>2. ASSUME NEW g \in Goroutines, Call(g) \/ Step(g) PROVE Registered' /\ OneWinner'
    BY <2>2, CallRegistered, ConfigureRegistered, OtherStepRegistered DEF CompleteInv, Step
  <2> QED
    BY <2>1, <2>2 DEF Next
<1>2. Starts'
  BY StartsNext DEF CompleteInv
<1> QED
  BY <1>1, <1>2 DEF CompleteInv

LEMMA InitComplete == Init => CompleteInv
<1> SUFFICES ASSUME Init PROVE CompleteInv
  OBVIOUS
<1>1. modules = InitialModules /\ hooks = <<>> /\ configured = FALSE /\ started = FALSE /\ pc = [g \in Goroutines |-> "idle"]
  BY DEF Init
<1>2. Configuring = {} /\ Starting = {} /\ \A g \in Goroutines : pc[g] \notin {"start", "hooks"}
  BY <1>1 DEF Configuring, Starting
<1>3. Lists(hooks, 1, 1)
  <2>1. \A p \in Places : ~Earlier(p, 1, 1)
    BY PlaceFacts DEF Earlier
  <2>2. DOMAIN hooks = {}
    BY <1>1
  <2> QED
    BY <2>1, <2>2 DEF Lists
<1>4. Rest(modules, 1)
  <2>1. /\ Size \in Nat /\ Len(modules) = Size /\ DOMAIN modules = 1..Size /\ 1 \in 1..(Size + 1)
        /\ Size + 1 - 1 = Size /\ \A i \in 1..Size : 1 + i - 1 = i
    BY <1>1, PlaceFacts DEF Size
  <2> QED
    BY <1>1, <2>1 DEF Rest
<1> QED
  BY <1>1, <1>2, <1>3, <1>4 DEF CompleteInv, Registered, OneWinner, Starts

LEMMA CompleteStarted ==
  ASSUME TypeOK, CompleteInv
  PROVE  StartedComplete
<1> SUFFICES ASSUME started,
                    NEW x \in DOMAIN InitialModules, NEW k \in HookSteps(InitialModules[x])
             PROVE  /\ Cardinality(HookPlace(x, k)) = 1
                    /\ \A y \in DOMAIN InitialModules : \A l \in HookSteps(InitialModules[y]) :
                         x < y \/ (x = y /\ k < l) =>
                           \A i \in HookPlace(x, k), j \in HookPlace(y, l) : i < j
  BY DEF StartedComplete
<1> DEFINE s == HooksOf(startedHooks)
<1>1. Lists(s, Size + 1, 1) /\ \A y \in DOMAIN InitialModules : InitialModules[y] # NilModule
  BY DEF CompleteInv, Starts, Registered, Complete
<1>2. DOMAIN s = DOMAIN startedHooks /\ \A i \in DOMAIN s : s[i] = startedHooks[i].hook
  BY DEF HooksOf
<1> HIDE DEF s
<1>3. ASSUME NEW y \in DOMAIN InitialModules, NEW l \in HookSteps(InitialModules[y])
      PROVE  /\ <<y, l>> \in Places /\ HookOf(<<y, l>>) = IdAt(y, l) /\ y \in 1..Size
             /\ HookPlace(y, l) = {i \in DOMAIN s : s[i] = HookOf(<<y, l>>)}
  <2>1. y \in 1..Size /\ InitialModules[y] \in Modules
    BY <1>1, PlaceFacts DEF Size
  <2>2. l \in Nat \ {0}
    <3>1. Script[InitialModules[y]] \in Seq(Effect) /\ l \in DOMAIN Script[InitialModules[y]]
      BY <2>1, PlaceFacts DEF HookSteps
    <3> QED
      BY <3>1
  <2>3. InitialModules[y] # NilModule /\ <<y, l>>[1] = y /\ <<y, l>>[2] = l
    BY <1>1
  <2>4. <<y, l>> \in Places
    BY <2>2, <2>3 DEF Places
  <2>5. HookOf(<<y, l>>) = IdAt(y, l)
    BY <2>3 DEF HookOf
  <2>6. HookPlace(y, l) = {i \in DOMAIN s : s[i] = HookOf(<<y, l>>)}
    BY <1>2, <2>5 DEF HookPlace
  <2> QED
    BY <2>1, <2>4, <2>5, <2>6
<1>4. Cardinality(HookPlace(x, k)) = 1
  <2>1. Earlier(<<x, k>>, Size + 1, 1)
    <3>1. x \in 1..Size /\ Size \in Nat /\ <<x, k>>[1] = x
      BY <1>3, PlaceFacts
    <3>2. x < Size + 1
      BY <3>1
    <3> QED
      BY <3>1, <3>2 DEF Earlier
  <2>2. PICK i \in DOMAIN s : /\ s[i] = HookOf(<<x, k>>)
                              /\ \A j \in DOMAIN s : s[j] = HookOf(<<x, k>>) => j = i
    BY <1>1, <1>3, <2>1 DEF Lists
  <2>3. HookPlace(x, k) = {i}
    BY <1>3, <2>2
  <2> QED
    BY <2>3, FS_Singleton
<1>5. ASSUME NEW y \in DOMAIN InitialModules, NEW l \in HookSteps(InitialModules[y]), x < y \/ (x = y /\ k < l),
             NEW i \in HookPlace(x, k), NEW j \in HookPlace(y, l)
      PROVE  i < j
  <2>1. Earlier(<<x, k>>, <<y, l>>[1], <<y, l>>[2])
    BY <1>5 DEF Earlier
  <2>2. <<x, k>> \in Places /\ <<y, l>> \in Places
    BY <1>3
  <2>3. i \in DOMAIN s /\ j \in DOMAIN s /\ s[i] = HookOf(<<x, k>>) /\ s[j] = HookOf(<<y, l>>)
    BY <1>3
  <2> QED
    BY <1>1, <2>1, <2>2, <2>3 DEF Lists
<1> QED
  BY <1>4, <1>5

\* However calls to Configure and Start overlap, fail and are repeated, a started
\* App runs every hook of its modules once and in their order.
THEOREM StartsAreComplete == Spec => []StartedComplete
<1>1. TypeOK /\ CompleteInv /\ [Next]_vars => CompleteInv'
  BY CompleteNext
<1>2. TypeOK /\ CompleteInv => StartedComplete
  BY CompleteStarted
<1> QED
  BY InitComplete, TypeCorrect, <1>1, <1>2, PTL DEF Spec
=============================================================================
