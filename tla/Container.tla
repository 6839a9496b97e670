------------------------------ MODULE Container ------------------------------
(***************************************************************************)
(* core.Container (src/core/container.go): constructors are registered by  *)
(* the type they return, and resolve builds a type's instance with the     *)
(* instances of its parameters and of its `inject` fields, once.           *)
(*                                                                         *)
(* resolve holds Container.mu for single reads and writes and releases it  *)
(* around the recursive calls and the constructor, so several goroutines   *)
(* are inside it at once.  A goroutine's recursion is a stack of frames,   *)
(* the innermost first; each critical section, each constructor call and   *)
(* each deferred clean-up is one action.                                   *)
(***************************************************************************)
EXTENDS Integers, Sequences, FiniteSets

CONSTANTS
  Goroutines,
  Types,            \* types that are resolved
  Providers,        \* constructors
  Out,              \* the type each constructor returns
  Params,           \* the types of its parameters, in order
  Fields,           \* the types of the `inject` fields of what it returns, in order,
                    \* up to the first unexported one
  Unexported,       \* constructors of a struct that tags an unexported field
  Flaky,            \* constructors that may return an error
  Implementers,     \* for each type, the named services that have or implement it
  Services,         \* named services of the App
  Programs,         \* sets of constructors: one is registered before the goroutines start
  Overrides,        \* constructors given to OverrideProvider
  LateProviders,    \* constructors given to Provide
  MaxCalls,         \* bound: number of calls of Resolve, Provide and OverrideProvider
  None              \* no provider, no instance, no result

\* An instance is a named service or what the n-th constructor call returned.
Instance == [from : Providers, n : Nat] \cup [from : Services, n : {0}]

ASSUME ContainerAssumption ==
  /\ Out \in [Providers -> Types]
  /\ Params \in [Providers -> Seq(Types)]
  /\ Fields \in [Providers -> Seq(Types)]
  /\ Implementers \in [Types -> SUBSET Services]
  /\ Programs \subseteq SUBSET Providers
  /\ \A P \in Programs : \A p, q \in P : Out[p] = Out[q] => p = q
  /\ Overrides \subseteq Providers
  /\ LateProviders \subseteq Providers
  /\ MaxCalls \in Nat
  /\ None \notin Providers \cup Instance
  /\ Providers \cap Services = {}

VARIABLES
  providers,  \* Container.providers
  resolved,   \* Container.resolved
  resolving,  \* Container.resolving
  stack,      \* the frames of resolve each goroutine is in, innermost first
  target,     \* the type of the Resolve call of a goroutine
  result,     \* what its last Resolve returned
  calls,      \* number of calls so far
  built,      \* number of constructor calls that returned an instance
  \* history
  handed,     \* for each type, the instances resolve returned since its last override
  overlapped, \* types two frames were open for at once, or overridden while one was
  alone,      \* goroutines whose call nobody else's call or override overlapped
  changed     \* a constructor was replaced, or came late

container == <<providers, resolved, resolving>>
history   == <<handed, overlapped, alone, changed>>
vars      == <<container, stack, target, result, calls, built, history>>

Ok(i)  == [kind |-> "ok", instance |-> i]
Err(k) == [kind |-> k, instance |-> None]
Failure == {"cycle", "missing", "unexported", "constructor"}
Result == [kind : {"ok"}, instance : Instance] \cup [kind : Failure, instance : {None}]

\* A frame of resolve past its first critical section.  phase is the statement
\* it is at, next the index of the parameter or field it resolves next.
Frame == [type : Types, prov : Providers,
          phase : {"mark", "params", "fields", "unwind"}, next : Nat \ {0},
          instance : Instance \cup {None}, result : Result \cup {None}]

Idle(g)         == stack[g] = <<>>
Top(g)          == Head(stack[g])
InPhase(g, ph)  == ~Idle(g) /\ Top(g).phase = ph
SetTop(g, f)    == stack' = [stack EXCEPT ![g] = <<f>> \o Tail(@)]
Entries(s)      == {s[i] : i \in DOMAIN s}
OpenTypes       == {f.type : f \in UNION {Entries(stack[g]) : g \in Goroutines}}

Init ==
  /\ \E P \in Programs :
       providers = [t \in Types |->
         IF \E p \in P : Out[p] = t THEN CHOOSE p \in P : Out[p] = t ELSE None]
  /\ resolved = [t \in Types |-> None]
  /\ resolving = {}
  /\ stack = [g \in Goroutines |-> <<>>]
  /\ target = [g \in Goroutines |-> None]
  /\ result = [g \in Goroutines |-> None]
  /\ calls = 0
  /\ built = 0
  /\ handed = [t \in Types |-> {}]
  /\ overlapped = {}
  /\ alone = {}
  /\ changed = FALSE

-----------------------------------------------------------------------------
(* One resolve.                                                            *)

\* Broken variant: a frame goes on when a dependency returns an error.
DeliverIgnoresErrors(g, t, r, below) ==
  /\ IF below = <<>>
       THEN /\ stack' = [stack EXCEPT ![g] = <<>>]
            /\ result' = [result EXCEPT ![g] = r]
       ELSE /\ stack' = [stack EXCEPT ![g] = <<[Head(below) EXCEPT !.next = @ + 1]>> \o Tail(below)]
            /\ UNCHANGED result
  /\ handed' = IF r.kind = "ok" THEN [handed EXCEPT ![t] = @ \cup {r.instance}] ELSE handed

\* resolve(t) returns r to the frame below it, or to the caller of Resolve: a
\* frame goes on with its next dependency, or returns the error itself.
Deliver(g, t, r, below) ==
  /\ IF below = <<>>
       THEN /\ stack' = [stack EXCEPT ![g] = <<>>]
            /\ result' = [result EXCEPT ![g] = r]
       ELSE /\ stack' = [stack EXCEPT ![g] =
                 <<IF r.kind = "ok" THEN [Head(below) EXCEPT !.next = @ + 1]
                                    ELSE [Head(below) EXCEPT !.phase = "unwind", !.result = r]>>
                 \o Tail(below)]
            /\ UNCHANGED result
  /\ handed' = IF r.kind = "ok" THEN [handed EXCEPT ![t] = @ \cup {r.instance}] ELSE handed

\* The first critical section of resolve(t), called from the top frame of g or
\* by Resolve: the cache, then the marks, then the provider, then the services.
LookupCached(g, t) ==
  /\ resolved[t] # None
  /\ Deliver(g, t, Ok(resolved[t]), stack[g])
  /\ UNCHANGED overlapped

\* Broken variant: a frame that finds a mark waits until it is gone.
LookupMarkedWaits(g, t) ==
  /\ resolved[t] = None /\ t \in resolving /\ Idle(g)
  /\ Deliver(g, t, Err("cycle"), stack[g])
  /\ UNCHANGED overlapped

LookupMarked(g, t) ==
  /\ resolved[t] = None /\ t \in resolving
  /\ Deliver(g, t, Err("cycle"), stack[g])
  /\ UNCHANGED overlapped

LookupService(g, t) ==
  /\ resolved[t] = None /\ t \notin resolving /\ providers[t] = None
  /\ \E s \in Implementers[t] : Deliver(g, t, Ok([from |-> s, n |-> 0]), stack[g])
  /\ UNCHANGED overlapped

LookupMissing(g, t) ==
  /\ resolved[t] = None /\ t \notin resolving /\ providers[t] = None /\ Implementers[t] = {}
  /\ Deliver(g, t, Err("missing"), stack[g])
  /\ UNCHANGED overlapped

LookupProvider(g, t) ==
  /\ resolved[t] = None /\ t \notin resolving /\ providers[t] # None
  /\ stack' = [stack EXCEPT ![g] =
       <<[type |-> t, prov |-> providers[t], phase |-> "mark", next |-> 1,
          instance |-> None, result |-> None]>> \o @]
  /\ overlapped' = IF t \in OpenTypes THEN overlapped \cup {t} ELSE overlapped
  /\ UNCHANGED <<result, handed>>

Lookup(g, t) ==
  \/ LookupCached(g, t) \/ LookupMarked(g, t) \/ LookupService(g, t)
  \/ LookupMissing(g, t) \/ LookupProvider(g, t)

Mark(g) ==
  /\ InPhase(g, "mark")
  /\ resolving' = resolving \cup {Top(g).type}
  /\ SetTop(g, [Top(g) EXCEPT !.phase = "params"])
  /\ UNCHANGED <<providers, resolved, target, result, calls, built, history>>

ResolveParam(g) ==
  /\ InPhase(g, "params") /\ Top(g).next <= Len(Params[Top(g).prov])
  /\ Lookup(g, Params[Top(g).prov][Top(g).next])
  /\ UNCHANGED <<container, target, calls, built, alone, changed>>

\* prov.fn.Call returns an instance.
Construct(g) ==
  /\ InPhase(g, "params") /\ Top(g).next > Len(Params[Top(g).prov])
  /\ built' = built + 1
  /\ SetTop(g, [Top(g) EXCEPT !.phase = "fields", !.next = 1,
                              !.instance = [from |-> Top(g).prov, n |-> built + 1]])
  /\ UNCHANGED <<container, target, result, calls, history>>

ConstructFails(g) ==
  /\ InPhase(g, "params") /\ Top(g).next > Len(Params[Top(g).prov])
  /\ Top(g).prov \in Flaky
  /\ SetTop(g, [Top(g) EXCEPT !.phase = "unwind", !.result = Err("constructor")])
  /\ UNCHANGED <<container, target, result, calls, built, history>>

\* injectFields.
InjectField(g) ==
  /\ InPhase(g, "fields") /\ Top(g).next <= Len(Fields[Top(g).prov])
  /\ Lookup(g, Fields[Top(g).prov][Top(g).next])
  /\ UNCHANGED <<container, target, calls, built, alone, changed>>

InjectFails(g) ==
  /\ InPhase(g, "fields") /\ Top(g).next > Len(Fields[Top(g).prov])
  /\ Top(g).prov \in Unexported
  /\ SetTop(g, [Top(g) EXCEPT !.phase = "unwind", !.result = Err("unexported")])
  /\ UNCHANGED <<container, target, result, calls, built, history>>

\* Broken variants: the result is not set, or the instance is not cached.
StoreWithoutResult(g) ==
  /\ InPhase(g, "fields") /\ Top(g).next > Len(Fields[Top(g).prov])
  /\ Top(g).prov \notin Unexported
  /\ resolved' = [resolved EXCEPT ![Top(g).type] = Top(g).instance]
  /\ SetTop(g, [Top(g) EXCEPT !.phase = "unwind"])
  /\ UNCHANGED <<providers, resolving, target, result, calls, built, history>>

StoreUncached(g) ==
  /\ InPhase(g, "fields") /\ Top(g).next > Len(Fields[Top(g).prov])
  /\ Top(g).prov \notin Unexported
  /\ SetTop(g, [Top(g) EXCEPT !.phase = "unwind", !.result = Ok(Top(g).instance)])
  /\ UNCHANGED <<container, target, result, calls, built, history>>

Store(g) ==
  /\ InPhase(g, "fields") /\ Top(g).next > Len(Fields[Top(g).prov])
  /\ Top(g).prov \notin Unexported
  /\ resolved' = [resolved EXCEPT ![Top(g).type] = Top(g).instance]
  /\ SetTop(g, [Top(g) EXCEPT !.phase = "unwind", !.result = Ok(Top(g).instance)])
  /\ UNCHANGED <<providers, resolving, target, result, calls, built, history>>

\* Broken variant: the mark is deleted on the way out of a success only.
UnwindOnSuccess(g) ==
  /\ InPhase(g, "unwind")
  /\ resolving' = IF Top(g).result.kind = "ok" THEN resolving \ {Top(g).type} ELSE resolving
  /\ Deliver(g, Top(g).type, Top(g).result, Tail(stack[g]))
  /\ UNCHANGED <<providers, resolved, target, calls, built, overlapped, alone, changed>>

\* The deferred delete of the mark, whoever made it, and the return.
Unwind(g) ==
  /\ InPhase(g, "unwind")
  /\ resolving' = resolving \ {Top(g).type}
  /\ Deliver(g, Top(g).type, Top(g).result, Tail(stack[g]))
  /\ UNCHANGED <<providers, resolved, target, calls, built, overlapped, alone, changed>>

-----------------------------------------------------------------------------
(* Calls.                                                                  *)

Enter == calls < MaxCalls /\ calls' = calls + 1
Busy == {h \in Goroutines : ~Idle(h)}

\* Resolve, ResolveType and Wire.Get.
Resolve(g, t) ==
  /\ Idle(g) /\ Enter
  /\ target' = [target EXCEPT ![g] = t]
  /\ Lookup(g, t)
  /\ alone' = IF Busy = {} THEN alone \cup {g} ELSE alone \ (Busy \cup {g})
  /\ UNCHANGED <<container, built, changed>>

\* Broken variant: the instance of the replaced provider stays cached.
OverrideKeepsInstance(p) ==
  /\ Enter
  /\ providers' = [providers EXCEPT ![Out[p]] = p]
  /\ handed' = [handed EXCEPT ![Out[p]] = {}]
  /\ overlapped' = IF Out[p] \in OpenTypes THEN overlapped \cup {Out[p]} ELSE overlapped
  /\ alone' = {} /\ changed' = TRUE
  /\ UNCHANGED <<resolved, resolving, stack, target, result, built>>

\* OverrideProvider replaces the provider of a type and drops its instance.
Override(p) ==
  /\ Enter
  /\ resolved' = [resolved EXCEPT ![Out[p]] = None]
  /\ providers' = [providers EXCEPT ![Out[p]] = p]
  /\ handed' = [handed EXCEPT ![Out[p]] = {}]
  /\ overlapped' = IF Out[p] \in OpenTypes THEN overlapped \cup {Out[p]} ELSE overlapped
  /\ alone' = {} /\ changed' = TRUE
  /\ UNCHANGED <<resolving, stack, target, result, built>>

\* Provide and ProvideNamed reject a type that has a provider.
Provide(p) ==
  /\ Enter
  /\ IF providers[Out[p]] = None
       THEN /\ providers' = [providers EXCEPT ![Out[p]] = p]
            /\ alone' = {} /\ changed' = TRUE
       ELSE UNCHANGED <<providers, alone, changed>>
  /\ UNCHANGED <<resolved, resolving, stack, target, result, built, handed, overlapped>>

Step(g) ==
  \/ Mark(g) \/ ResolveParam(g) \/ Construct(g) \/ ConstructFails(g)
  \/ InjectField(g) \/ InjectFails(g) \/ Store(g) \/ Unwind(g)

Next ==
  \/ \E g \in Goroutines : Step(g) \/ \E t \in Types : Resolve(g, t)
  \/ \E p \in Overrides : Override(p)
  \/ \E p \in LateProviders : Provide(p)

\* A Resolve that has begun runs to its end: constructors return, and the
\* scheduler runs every goroutine that can run.
Fairness == \A g \in Goroutines : WF_vars(Step(g))

Spec == Init /\ [][Next]_vars
FairSpec == Spec /\ Fairness

-----------------------------------------------------------------------------
(* Properties.                                                             *)

\* Every variable keeps its type; a frame that returns has a result and one
\* that is past its constructor has an instance.
TypeOK ==
  /\ providers \in [Types -> Providers \cup {None}]
  /\ resolved \in [Types -> Instance \cup {None}]
  /\ resolving \subseteq Types
  /\ stack \in [Goroutines -> Seq(Frame)]
  /\ target \in [Goroutines -> Types \cup {None}]
  /\ result \in [Goroutines -> Result \cup {None}]
  /\ calls \in Nat /\ built \in Nat
  /\ handed \in [Types -> SUBSET Instance]
  /\ overlapped \subseteq Types /\ alone \subseteq Goroutines /\ changed \in BOOLEAN
  /\ \A t \in Types : providers[t] # None => Out[providers[t]] = t
  /\ \A g \in Goroutines : \A f \in Entries(stack[g]) :
       /\ Out[f.prov] = f.type
       /\ f.phase = "unwind" => f.result \in Result
       /\ f.phase = "fields" => f.instance \in Instance

\* A type is marked only while a frame of it is open: however a resolve fails,
\* on an error deep below it too, and whatever runs beside it, no mark stays
\* behind that would make every later resolve of the type a cycle error.
MarksHaveFrames == resolving \subseteq OpenTypes

\* All callers, whether they ask for a type or depend on it, get one instance
\* of it, unless two goroutines were building it at once.
Singleton ==
  \A t \in Types \ overlapped :
    Cardinality({i \in handed[t] : i.from \in Providers}) <= 1

\* The cached instance of a type comes from the provider it has now: after an
\* override nobody gets what the overridden constructor built, unless the
\* override came while the type was being built.
CacheFresh ==
  \A t \in Types \ overlapped : resolved[t] # None => resolved[t].from = providers[t]

\* What the constructor of t needs, and what it needs through others: all that
\* is in every set that has the former and, with a type, what that needs.
DepsOf(t) ==
  IF providers[t] = None THEN {} ELSE Entries(Params[providers[t]]) \cup Entries(Fields[providers[t]])
Closed(S) == \A u \in S : DepsOf(u) \subseteq S
Needs(t)  == {u \in Types : \A S \in SUBSET Types : DepsOf(t) \subseteq S /\ Closed(S) => u \in S}
OnCycle(t)      == t \in Needs(t)
ReachesCycle(t) == \E u \in {t} \cup Needs(t) : OnCycle(u)

\* An error is the graph's fault: a Resolve that nothing overlapped reports a
\* cycle only if its type leads into one, and a missing provider only if a type
\* it needs has neither provider nor service.
ErrorsAreReal ==
  \A g \in alone : Idle(g) /\ result[g] # None =>
    /\ result[g].kind = "cycle" => ReachesCycle(target[g])
    /\ result[g].kind = "missing" =>
         \E u \in {target[g]} \cup Needs(target[g]) : providers[u] = None /\ Implementers[u] = {}

\* Until a constructor is replaced or added, nothing that leads into a cycle is
\* ever cached or handed out, whoever asks and however the goroutines interleave.
CyclesAreRefused ==
  ~changed => \A t \in Types : resolved[t] # None \/ handed[t] # {} => ~ReachesCycle(t)

\* Every Resolve returns, on a cyclic graph too.
ResolvesReturn == \A g \in Goroutines : ~Idle(g) ~> Idle(g)

\* docs/architecture.md:49: "Resolved instances are cached as singletons."  Two
\* goroutines that both miss the cache and the mark build one instance each.
SingletonAlways ==
  \A t \in Types : Cardinality({i \in handed[t] : i.from \in Providers}) <= 1

\* core/container.go:117 reports "type %s depends on itself".  The marks are
\* shared, so a goroutine reports that of a type another one is building.
CycleErrorsAreCycles ==
  \A g \in Goroutines : Idle(g) /\ result[g] # None /\ result[g].kind = "cycle"
    => ReachesCycle(target[g])
=============================================================================
