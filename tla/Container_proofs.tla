--------------------------- MODULE Container_proofs ---------------------------
(* Theorems about Container, for any dependency graph and any goroutines.     *)
EXTENDS Container, TLAPS, FiniteSetTheorems

-----------------------------------------------------------------------------
(* Stacks: the innermost frame is the first element.                         *)

LEMMA PushFrame ==
  ASSUME NEW S, NEW s \in Seq(S), NEW f \in S
  PROVE  /\ <<f>> \o s \in Seq(S)
         /\ Len(<<f>> \o s) = Len(s) + 1
         /\ (<<f>> \o s)[1] = f
         /\ \A i \in 1..Len(s) : (<<f>> \o s)[i + 1] = s[i]
  OBVIOUS

LEMMA PopFrame ==
  ASSUME NEW S, NEW s \in Seq(S), s # <<>>
  PROVE  /\ Tail(s) \in Seq(S)
         /\ Len(Tail(s)) = Len(s) - 1 /\ Len(s) >= 1
         /\ \A i \in 1..(Len(s) - 1) : Tail(s)[i] = s[i + 1]
         /\ Head(s) \in S /\ Head(s) = s[1]
  OBVIOUS

LEMMA ReplaceFrame ==
  ASSUME NEW S, NEW s \in Seq(S), s # <<>>, NEW f \in S
  PROVE  /\ <<f>> \o Tail(s) \in Seq(S)
         /\ Len(<<f>> \o Tail(s)) = Len(s)
         /\ (<<f>> \o Tail(s))[1] = f
         /\ \A i \in 2..Len(s) : (<<f>> \o Tail(s))[i] = s[i]
  <1>1. /\ Tail(s) \in Seq(S) /\ Len(Tail(s)) = Len(s) - 1 /\ Len(s) \in Nat /\ Len(s) >= 1
        /\ \A i \in 1..(Len(s) - 1) : Tail(s)[i] = s[i + 1]
    BY PopFrame
  <1>2. /\ <<f>> \o Tail(s) \in Seq(S)
        /\ Len(<<f>> \o Tail(s)) = Len(Tail(s)) + 1
        /\ (<<f>> \o Tail(s))[1] = f
        /\ \A i \in 1..Len(Tail(s)) : (<<f>> \o Tail(s))[i + 1] = Tail(s)[i]
    BY <1>1, PushFrame
  <1>3. ASSUME NEW i \in 2..Len(s) PROVE (<<f>> \o Tail(s))[i] = s[i]
    <2>1. i - 1 \in 1..Len(Tail(s)) /\ i - 1 \in 1..(Len(s) - 1)
      BY <1>1
    <2>2. (<<f>> \o Tail(s))[(i - 1) + 1] = Tail(s)[i - 1] /\ Tail(s)[i - 1] = s[(i - 1) + 1]
      BY <1>1, <1>2, <2>1
    <2> QED BY <2>2
  <1> QED BY <1>1, <1>2, <1>3

-----------------------------------------------------------------------------
(* Type correctness.  A frame is sound when its provider returns its type and *)
(* it carries the result or the instance that its phase needs.               *)

Sound(f) ==
  /\ f \in Frame
  /\ Out[f.prov] = f.type
  /\ f.phase = "unwind" => f.result \in Result
  /\ f.phase = "fields" => f.instance \in Instance

\* What a stack of sound frames is, with and without the sets of frames.
SoundStack(s) == s \in Seq(Frame) /\ \A i \in 1..Len(s) : Sound(s[i])

LEMMA StacksAreSound ==
  ASSUME TypeOK, NEW g \in Goroutines PROVE SoundStack(stack[g])
  BY DEF TypeOK, SoundStack, Sound, Entries

\* The conjuncts of TypeOK that speak of stacks, from the stack that changed.
LEMMA SoundStacks ==
  ASSUME TypeOK, NEW g \in Goroutines, NEW s, SoundStack(s), stack' = [stack EXCEPT ![g] = s]
  PROVE  /\ stack' \in [Goroutines -> Seq(Frame)]
         /\ \A h \in Goroutines : \A f \in Entries(stack'[h]) :
              /\ Out[f.prov] = f.type
              /\ f.phase = "unwind" => f.result \in Result
              /\ f.phase = "fields" => f.instance \in Instance
  <1>1. stack \in [Goroutines -> Seq(Frame)]
    BY DEF TypeOK
  <1>2. s \in Seq(Frame)
    BY DEF SoundStack
  <1>3. stack' \in [Goroutines -> Seq(Frame)]
    BY <1>1, <1>2
  <1>4. ASSUME NEW h \in Goroutines, NEW f \in Entries(stack'[h]) PROVE Sound(f)
    <2>1. SoundStack(stack'[h])
      BY <1>1, StacksAreSound
    <2>2. PICK i \in DOMAIN stack'[h] : stack'[h][i] = f
      BY DEF Entries
    <2> QED BY <1>3, <2>1, <2>2 DEF SoundStack
  <1> QED BY <1>3, <1>4 DEF Sound

LEMMA TopIsSound ==
  ASSUME TypeOK, NEW g \in Goroutines, ~Idle(g)
  PROVE  Sound(Top(g)) /\ SoundStack(Tail(stack[g])) /\ stack[g] \in Seq(Frame)
  <1>1. SoundStack(stack[g]) /\ stack[g] # <<>>
    BY StacksAreSound DEF Idle
  <1>2. /\ Tail(stack[g]) \in Seq(Frame) /\ Len(Tail(stack[g])) = Len(stack[g]) - 1
        /\ \A i \in 1..(Len(stack[g]) - 1) : Tail(stack[g])[i] = stack[g][i + 1]
        /\ Head(stack[g]) = stack[g][1] /\ Len(stack[g]) >= 1 /\ Len(stack[g]) \in Nat
    BY <1>1, PopFrame DEF SoundStack
  <1>3. ASSUME NEW i \in 1..Len(Tail(stack[g])) PROVE Sound(Tail(stack[g])[i])
    <2>1. i + 1 \in 1..Len(stack[g]) /\ Tail(stack[g])[i] = stack[g][i + 1]
      BY <1>2
    <2> QED BY <1>1, <2>1 DEF SoundStack
  <1> QED BY <1>1, <1>2, <1>3 DEF SoundStack, Top

LEMMA PushSound ==
  ASSUME NEW s, SoundStack(s), NEW f, Sound(f) PROVE SoundStack(<<f>> \o s)
  <1>1. /\ <<f>> \o s \in Seq(Frame) /\ Len(<<f>> \o s) = Len(s) + 1 /\ (<<f>> \o s)[1] = f
        /\ \A i \in 1..Len(s) : (<<f>> \o s)[i + 1] = s[i]
        /\ Len(s) \in Nat
    BY PushFrame DEF SoundStack, Sound
  <1>2. ASSUME NEW i \in 1..Len(<<f>> \o s), i # 1 PROVE Sound((<<f>> \o s)[i])
    <2>1. i - 1 \in 1..Len(s)
      BY <1>1, <1>2
    <2>2. (<<f>> \o s)[(i - 1) + 1] = s[i - 1]
      BY <1>1, <2>1
    <2>3. (i - 1) + 1 = i
      BY <1>1
    <2> QED BY <2>1, <2>2, <2>3 DEF SoundStack
  <1> QED BY <1>1, <1>2 DEF SoundStack

\* What Deliver does to the stack of its goroutine.
DeliverStack(r, below) ==
  IF below = <<>> THEN <<>>
  ELSE <<IF r.kind = "ok" THEN [Head(below) EXCEPT !.next = @ + 1]
                          ELSE [Head(below) EXCEPT !.phase = "unwind", !.result = r]>> \o Tail(below)

LEMMA DeliverStackSound ==
  ASSUME NEW r \in Result, NEW below, SoundStack(below)
  PROVE  SoundStack(DeliverStack(r, below))
  <1>1. CASE below = <<>>
    BY <1>1 DEF DeliverStack, SoundStack
  <1>2. CASE below # <<>>
    <2>1. /\ Tail(below) \in Seq(Frame) /\ Len(Tail(below)) = Len(below) - 1 /\ Len(below) \in Nat
          /\ \A i \in 1..(Len(below) - 1) : Tail(below)[i] = below[i + 1]
          /\ Head(below) = below[1] /\ Len(below) >= 1
      BY <1>2, PopFrame DEF SoundStack
    <2>2. SoundStack(Tail(below)) /\ Sound(Head(below))
      <3>1. ASSUME NEW i \in 1..Len(Tail(below)) PROVE Sound(Tail(below)[i])
        <4>1. i + 1 \in 1..Len(below) /\ Tail(below)[i] = below[i + 1]
          BY <2>1
        <4> QED BY <4>1 DEF SoundStack
      <3> QED BY <2>1, <3>1 DEF SoundStack
    <2>3. Sound([Head(below) EXCEPT !.next = @ + 1])
      BY <2>2 DEF Sound, Frame
    <2>4. Sound([Head(below) EXCEPT !.phase = "unwind", !.result = r])
      BY <2>2 DEF Sound, Frame
    <2> QED BY <1>2, <2>2, <2>3, <2>4, PushSound DEF DeliverStack
  <1> QED BY <1>1, <1>2

\* The conjuncts of TypeOK that a step on one stack can disturb.
StacksTypeOK ==
  /\ stack \in [Goroutines -> Seq(Frame)]
  /\ \A h \in Goroutines : \A f \in Entries(stack[h]) :
       /\ Out[f.prov] = f.type
       /\ f.phase = "unwind" => f.result \in Result
       /\ f.phase = "fields" => f.instance \in Instance

LEMMA DeliverTyped ==
  ASSUME TypeOK, NEW g \in Goroutines, NEW t \in Types, NEW r \in Result,
         NEW below, SoundStack(below), Deliver(g, t, r, below)
  PROVE  /\ StacksTypeOK'
         /\ result' \in [Goroutines -> Result \cup {None}]
         /\ handed' \in [Types -> SUBSET Instance]
  <1>1. stack' = [stack EXCEPT ![g] = DeliverStack(r, below)]
    BY DEF Deliver, DeliverStack
  <1>2. StacksTypeOK'
    BY <1>1, DeliverStackSound, SoundStacks DEF StacksTypeOK
  <1>3. result' = [result EXCEPT ![g] = r] \/ result' = result
    BY DEF Deliver
  <1>4. result' \in [Goroutines -> Result \cup {None}]
    BY <1>3 DEF TypeOK
  <1>5. r.kind = "ok" => r.instance \in Instance
    BY DEF Result, Failure
  <1>6. handed \in [Types -> SUBSET Instance]
    BY DEF TypeOK
  <1>7. handed' \in [Types -> SUBSET Instance]
    BY <1>5, <1>6 DEF Deliver
  <1> QED BY <1>2, <1>4, <1>7

\* What a lookup returns is a result.
LEMMA OkIsResult == \A i \in Instance : Ok(i) \in Result
  BY DEF Ok, Result

LEMMA ErrIsResult == \A k \in Failure : Err(k) \in Result
  BY DEF Err, Result

LEMMA LookupTyped ==
  ASSUME TypeOK, NEW g \in Goroutines, NEW t \in Types, Lookup(g, t)
  PROVE  /\ StacksTypeOK'
         /\ result' \in [Goroutines -> Result \cup {None}]
         /\ handed' \in [Types -> SUBSET Instance]
         /\ overlapped' \subseteq Types
  <1>0. SoundStack(stack[g]) /\ overlapped \subseteq Types
    BY StacksAreSound DEF TypeOK
  <1>1. CASE LookupCached(g, t)
    <2>1. Ok(resolved[t]) \in Result
      BY <1>1, OkIsResult DEF TypeOK, LookupCached
    <2> QED BY <1>0, <1>1, <2>1, DeliverTyped DEF LookupCached
  <1>2. CASE LookupMarked(g, t)
    BY <1>0, <1>2, ErrIsResult, DeliverTyped DEF LookupMarked, Failure
  <1>3. CASE LookupService(g, t)
    <2>1. PICK s \in Implementers[t] : Deliver(g, t, Ok([from |-> s, n |-> 0]), stack[g])
      BY <1>3 DEF LookupService
    <2>2. s \in Services
      BY <2>1, ContainerAssumption DEF ContainerAssumption
    <2>3. Ok([from |-> s, n |-> 0]) \in Result
      BY <2>2, OkIsResult DEF Instance
    <2> QED BY <1>0, <1>3, <2>1, <2>3, DeliverTyped DEF LookupService
  <1>4. CASE LookupMissing(g, t)
    BY <1>0, <1>4, ErrIsResult, DeliverTyped DEF LookupMissing, Failure
  <1>5. CASE LookupProvider(g, t)
    <2> DEFINE f == [type |-> t, prov |-> providers[t], phase |-> "mark", next |-> 1,
                     instance |-> None, result |-> None]
    <2>1. Sound(f)
      <3>1. providers[t] \in Providers /\ Out[providers[t]] = t
        BY <1>5 DEF TypeOK, LookupProvider
      <3> QED BY <3>1 DEF Sound, Frame
    <2>2. stack' = [stack EXCEPT ![g] = <<f>> \o stack[g]]
      BY <1>5 DEF LookupProvider
    <2> HIDE DEF f
    <2>3. SoundStack(<<f>> \o stack[g])
      BY <1>0, <2>1, PushSound
    <2>4. StacksTypeOK'
      BY <2>2, <2>3, SoundStacks DEF StacksTypeOK
    <2> QED BY <1>0, <1>5, <2>4 DEF LookupProvider, TypeOK
  <1> QED BY <1>1, <1>2, <1>3, <1>4, <1>5 DEF Lookup

\* Replacing the top frame by a sound one.
LEMMA SetTopTyped ==
  ASSUME TypeOK, NEW g \in Goroutines, ~Idle(g), NEW f, Sound(f), SetTop(g, f)
  PROVE  StacksTypeOK'
  <1>1. SoundStack(<<f>> \o Tail(stack[g]))
    BY TopIsSound, PushSound
  <1>2. stack' = [stack EXCEPT ![g] = <<f>> \o Tail(stack[g])]
    BY DEF SetTop, TypeOK
  <1> QED BY <1>1, <1>2, SoundStacks DEF StacksTypeOK

LEMMA InitTypeOK == Init => TypeOK
  <1> SUFFICES ASSUME Init PROVE TypeOK
    OBVIOUS
  <1>0. PICK P \in Programs :
          providers = [t \in Types |->
            IF \E p \in P : Out[p] = t THEN CHOOSE p \in P : Out[p] = t ELSE None]
    BY DEF Init
  <1>1. ASSUME NEW t \in Types
        PROVE  /\ providers[t] \in Providers \cup {None}
               /\ providers[t] # None => Out[providers[t]] = t
    <2>1. P \subseteq Providers
      BY ContainerAssumption DEF ContainerAssumption
    <2> QED BY <1>0, <2>1
  <1>2. providers \in [Types -> Providers \cup {None}]
    BY <1>0, <1>1
  <1>3. \A g \in Goroutines : Entries(stack[g]) = {}
    BY DEF Init, Entries
  <1>4. /\ resolved \in [Types -> Instance \cup {None}]
        /\ stack \in [Goroutines -> Seq(Frame)]
        /\ target \in [Goroutines -> Types \cup {None}]
        /\ result \in [Goroutines -> Result \cup {None}]
        /\ handed \in [Types -> SUBSET Instance]
    BY DEF Init
  <1>5. resolving = {} /\ calls = 0 /\ built = 0 /\ overlapped = {} /\ alone = {} /\ changed = FALSE
    BY DEF Init
  <1> QED BY <1>1, <1>2, <1>3, <1>4, <1>5 DEF TypeOK

LEMMA StepTypeOK ==
  ASSUME TypeOK, NEW g \in Goroutines, Step(g)
  PROVE  TypeOK'
  <1>1. ASSUME StacksTypeOK',
               result' \in [Goroutines -> Result \cup {None}],
               handed' \in [Types -> SUBSET Instance],
               overlapped' \subseteq Types,
               resolved' \in [Types -> Instance \cup {None}],
               resolving' \subseteq Types, built' \in Nat,
               UNCHANGED <<providers, target, calls, alone, changed>>
        PROVE  TypeOK'
    BY <1>1 DEF TypeOK, StacksTypeOK
  <1>2. /\ result \in [Goroutines -> Result \cup {None}]
        /\ handed \in [Types -> SUBSET Instance]
        /\ overlapped \subseteq Types
        /\ resolved \in [Types -> Instance \cup {None}]
        /\ resolving \subseteq Types /\ built \in Nat
    BY DEF TypeOK
  <1>3. ~Idle(g) => Sound(Top(g)) /\ SoundStack(Tail(stack[g]))
    BY TopIsSound
  <1>4. CASE Mark(g)
    <2>1. Sound([Top(g) EXCEPT !.phase = "params"]) /\ ~Idle(g) /\ Top(g).type \in Types
      BY <1>3, <1>4 DEF Mark, InPhase, Sound, Frame
    <2>2. StacksTypeOK'
      BY <1>4, <2>1, SetTopTyped DEF Mark
    <2> QED BY <1>1, <1>2, <1>4, <2>1, <2>2 DEF Mark, history
  <1>5. CASE ResolveParam(g)
    <2>1. Params[Top(g).prov] \in Seq(Types) /\ Top(g).next \in Nat \ {0}
      BY <1>3, <1>5, ContainerAssumption DEF ContainerAssumption, ResolveParam, InPhase, Sound, Frame
    <2>2. Params[Top(g).prov][Top(g).next] \in Types
      BY <1>5, <2>1 DEF ResolveParam
    <2>3. Lookup(g, Params[Top(g).prov][Top(g).next])
      BY <1>5 DEF ResolveParam
    <2> QED BY <1>1, <1>2, <1>5, <2>2, <2>3, LookupTyped DEF ResolveParam, container
  <1>6. CASE InjectField(g)
    <2>1. Fields[Top(g).prov] \in Seq(Types) /\ Top(g).next \in Nat \ {0}
      BY <1>3, <1>6, ContainerAssumption DEF ContainerAssumption, InjectField, InPhase, Sound, Frame
    <2>2. Fields[Top(g).prov][Top(g).next] \in Types
      BY <1>6, <2>1 DEF InjectField
    <2>3. Lookup(g, Fields[Top(g).prov][Top(g).next])
      BY <1>6 DEF InjectField
    <2> QED BY <1>1, <1>2, <1>6, <2>2, <2>3, LookupTyped DEF InjectField, container
  <1>7. CASE Construct(g)
    <2> DEFINE i == [from |-> Top(g).prov, n |-> built + 1]
               f == [Top(g) EXCEPT !.phase = "fields", !.next = 1, !.instance = i]
    <2>1. i \in Instance
      BY <1>2, <1>3, <1>7 DEF Construct, InPhase, Sound, Frame, Instance
    <2> HIDE DEF i
    <2>2. Sound(f) /\ ~Idle(g)
      <3>1. ~Idle(g) /\ Sound(Top(g))
        BY <1>3, <1>7 DEF Construct, InPhase
      <3>2. ASSUME NEW x, Sound(x)
            PROVE  Sound([x EXCEPT !.phase = "fields", !.next = 1, !.instance = i])
        <4> DEFINE y == [x EXCEPT !.phase = "fields", !.next = 1, !.instance = i]
        <4>1. x \in Frame /\ Out[x.prov] = x.type
          BY <3>2 DEF Sound
        <4>2. [x EXCEPT !.next = 1] \in Frame
          BY <4>1 DEF Frame
        <4>3. y \in Frame
          <5>1. y = [[[x EXCEPT !.next = 1] EXCEPT !.instance = i] EXCEPT !.phase = "fields"]
            BY <4>1 DEF Frame
          <5>2. [[x EXCEPT !.next = 1] EXCEPT !.instance = i] \in Frame
            BY <2>1, <4>2 DEF Frame
          <5> QED BY <5>1, <5>2 DEF Frame
        <4>4. y.phase = "fields" /\ y.instance = i /\ y.prov = x.prov /\ y.type = x.type
          BY <4>1 DEF Frame
        <4> QED BY <2>1, <4>1, <4>3, <4>4 DEF Sound
      <3> QED BY <3>1, <3>2
    <2>3. SetTop(g, f)
      BY <1>7 DEF Construct, i
    <2>4. StacksTypeOK'
      BY <2>2, <2>3, SetTopTyped
    <2> QED BY <1>1, <1>2, <1>7, <2>4 DEF Construct, container, history
  <1>8. CASE ConstructFails(g)
    <2>1. Sound([Top(g) EXCEPT !.phase = "unwind", !.result = Err("constructor")]) /\ ~Idle(g)
      BY <1>3, <1>8, ErrIsResult DEF ConstructFails, InPhase, Sound, Frame, Failure
    <2>2. StacksTypeOK'
      BY <1>8, <2>1, SetTopTyped DEF ConstructFails
    <2> QED BY <1>1, <1>2, <1>8, <2>2 DEF ConstructFails, container, history
  <1>9. CASE InjectFails(g)
    <2>1. Sound([Top(g) EXCEPT !.phase = "unwind", !.result = Err("unexported")]) /\ ~Idle(g)
      BY <1>3, <1>9, ErrIsResult DEF InjectFails, InPhase, Sound, Frame, Failure
    <2>2. StacksTypeOK'
      BY <1>9, <2>1, SetTopTyped DEF InjectFails
    <2> QED BY <1>1, <1>2, <1>9, <2>2 DEF InjectFails, container, history
  <1>10. CASE Store(g)
    <2>1. Top(g).instance \in Instance /\ Top(g).type \in Types /\ ~Idle(g)
      BY <1>3, <1>10 DEF Store, InPhase, Sound, Frame
    <2>2. Sound([Top(g) EXCEPT !.phase = "unwind", !.result = Ok(Top(g).instance)])
      BY <1>3, <2>1, OkIsResult DEF Sound, Frame
    <2>3. StacksTypeOK'
      BY <1>10, <2>1, <2>2, SetTopTyped DEF Store
    <2> QED BY <1>1, <1>2, <1>10, <2>1, <2>3 DEF Store, history
  <1>11. CASE Unwind(g)
    <2>1. Top(g).result \in Result /\ Top(g).type \in Types
      BY <1>3, <1>11 DEF Unwind, InPhase, Sound, Frame
    <2>2. Deliver(g, Top(g).type, Top(g).result, Tail(stack[g])) /\ SoundStack(Tail(stack[g]))
      BY <1>3, <1>11 DEF Unwind, InPhase
    <2> QED BY <1>1, <1>2, <1>11, <2>1, <2>2, DeliverTyped DEF Unwind
  <1> QED BY <1>4, <1>5, <1>6, <1>7, <1>8, <1>9, <1>10, <1>11 DEF Step

LEMMA CallTypeOK ==
  ASSUME TypeOK,
         \/ \E g \in Goroutines : \E t \in Types : Resolve(g, t)
         \/ \E p \in Overrides : Override(p)
         \/ \E p \in LateProviders : Provide(p)
  PROVE  TypeOK'
  <1>1. ASSUME NEW g \in Goroutines, NEW t \in Types, Resolve(g, t) PROVE TypeOK'
    <2>1. /\ StacksTypeOK'
          /\ result' \in [Goroutines -> Result \cup {None}]
          /\ handed' \in [Types -> SUBSET Instance]
          /\ overlapped' \subseteq Types
      BY <1>1, LookupTyped DEF Resolve
    <2>2. target' \in [Goroutines -> Types \cup {None}] /\ calls' \in Nat /\ alone' \subseteq Goroutines
      BY <1>1 DEF TypeOK, Resolve, Enter
    <2> QED BY <1>1, <2>1, <2>2 DEF TypeOK, StacksTypeOK, Resolve, container
  <1>2. ASSUME NEW p \in Overrides, Override(p) PROVE TypeOK'
    <2>1. p \in Providers /\ Out[p] \in Types
      BY ContainerAssumption DEF ContainerAssumption
    <2>2. /\ providers' \in [Types -> Providers \cup {None}]
          /\ \A t \in Types : providers'[t] # None => Out[providers'[t]] = t
      BY <1>2, <2>1 DEF TypeOK, Override
    <2>3. /\ resolved' \in [Types -> Instance \cup {None}]
          /\ handed' \in [Types -> SUBSET Instance]
          /\ overlapped' \subseteq Types /\ alone' \subseteq Goroutines
      BY <1>2, <2>1 DEF TypeOK, Override
    <2>4. calls' \in Nat
      BY <1>2 DEF TypeOK, Override, Enter
    <2> QED BY <1>2, <2>2, <2>3, <2>4 DEF TypeOK, Override
  <1>3. ASSUME NEW p \in LateProviders, Provide(p) PROVE TypeOK'
    <2>1. p \in Providers /\ Out[p] \in Types
      BY ContainerAssumption DEF ContainerAssumption
    <2>2. /\ providers' \in [Types -> Providers \cup {None}]
          /\ \A t \in Types : providers'[t] # None => Out[providers'[t]] = t
      <3>1. providers' = [providers EXCEPT ![Out[p]] = p] \/ providers' = providers
        BY <1>3 DEF Provide
      <3>2. /\ providers \in [Types -> Providers \cup {None}]
            /\ \A t \in Types : providers[t] # None => Out[providers[t]] = t
        BY DEF TypeOK
      <3> QED BY <2>1, <3>1, <3>2
    <2>3. alone' \subseteq Goroutines /\ calls' \in Nat
      BY <1>3 DEF TypeOK, Provide, Enter
    <2> QED BY <1>3, <2>2, <2>3 DEF TypeOK, Provide
  <1> QED BY <1>1, <1>2, <1>3

LEMMA NextTypeOK == ASSUME TypeOK, [Next]_vars PROVE TypeOK'
  <1>1. CASE UNCHANGED vars
    BY <1>1 DEF TypeOK, vars, container, history
  <1> QED BY <1>1, StepTypeOK, CallTypeOK DEF Next

\* In every reachable state every variable has its type.
THEOREM TypeCorrect == Spec => []TypeOK
  BY InitTypeOK, NextTypeOK, PTL DEF Spec

-----------------------------------------------------------------------------
(* Marks, freshness and single instances.                                    *)
(*                                                                           *)
(* For a type that was not overlapped, the one open frame holds the provider *)
(* the type has now, and the cache is empty until that frame stores.         *)

GoodFor(f, provs, cache, over) ==
  /\ provs[f.type] # None
  /\ f.instance # None => f.instance.from = f.prov
  /\ f.type \notin over =>
       /\ f.prov = provs[f.type]
       /\ f.phase # "unwind" => cache[f.type] = None
       /\ f.phase = "unwind" /\ f.result.kind = "ok" => cache[f.type] = f.result.instance

GoodFrame(f) == GoodFor(f, providers, resolved, overlapped)

GoodFrames == \A g \in Goroutines : \A i \in 1..Len(stack[g]) : GoodFrame(stack[g][i])

OneFrame ==
  \A g, h \in Goroutines : \A i \in 1..Len(stack[g]), j \in 1..Len(stack[h]) :
    stack[g][i].type = stack[h][j].type /\ stack[g][i].type \notin overlapped => g = h /\ i = j

CacheInv ==
  \A t \in Types :
    /\ resolved[t] # None => providers[t] # None
    /\ t \notin overlapped /\ resolved[t] # None => resolved[t].from = providers[t]

HandedInv ==
  \A t \in Types \ overlapped : \A i \in handed[t] : i.from \in Providers => i = resolved[t]

MarksInv ==
  \A t \in resolving : \E g \in Goroutines : \E i \in 1..Len(stack[g]) : stack[g][i].type = t

CacheSafe == TypeOK /\ GoodFrames /\ OneFrame /\ CacheInv /\ HandedInv /\ MarksInv

\* The frames that Deliver leaves on the stack are the ones below, but for the
\* innermost, which goes on or gets the error.
LEMMA DeliverKeeps ==
  ASSUME NEW r \in Result, NEW below, SoundStack(below)
  PROVE  /\ Len(DeliverStack(r, below)) = Len(below)
         /\ \A i \in 1..Len(below) : LET f == DeliverStack(r, below)[i] IN
              /\ f.type = below[i].type /\ f.prov = below[i].prov /\ f.instance = below[i].instance
              /\ \/ f.phase = below[i].phase /\ f.result = below[i].result
                 \/ f.phase = "unwind" /\ f.result.kind # "ok"
  <1>1. CASE below = <<>>
    BY <1>1 DEF DeliverStack
  <1>2. CASE below # <<>>
    <2> DEFINE top == IF r.kind = "ok" THEN [Head(below) EXCEPT !.next = @ + 1]
                      ELSE [Head(below) EXCEPT !.phase = "unwind", !.result = r]
    <2>1. Head(below) = below[1] /\ Len(below) >= 1 /\ Len(below) \in Nat /\ Head(below) \in Frame
      BY <1>2, PopFrame DEF SoundStack
    <2>2. /\ top.type = below[1].type /\ top.prov = below[1].prov /\ top.instance = below[1].instance
          /\ \/ top.phase = below[1].phase /\ top.result = below[1].result
             \/ top.phase = "unwind" /\ top.result.kind # "ok"
      <3>1. CASE r.kind = "ok"
        <4>1. top = [Head(below) EXCEPT !.next = @ + 1]
          BY <3>1
        <4> QED BY <2>1, <4>1 DEF Frame
      <3>2. CASE r.kind # "ok"
        <4>1. top = [Head(below) EXCEPT !.phase = "unwind", !.result = r]
          BY <3>2
        <4>2. top.result = r /\ top.phase = "unwind"
          BY <2>1, <4>1 DEF Frame
        <4>3. top.type = Head(below).type /\ top.prov = Head(below).prov /\ top.instance = Head(below).instance
          BY <2>1, <4>1 DEF Frame
        <4> QED BY <2>1, <3>2, <4>2, <4>3
      <3> QED BY <3>1, <3>2
    <2>3. top \in Frame
      <3>1. [Head(below) EXCEPT !.next = @ + 1] \in Frame
        BY <2>1 DEF Frame
      <3>2. [Head(below) EXCEPT !.phase = "unwind", !.result = r] \in Frame
        BY <2>1 DEF Frame
      <3> QED BY <3>1, <3>2
    <2>4. DeliverStack(r, below) = <<top>> \o Tail(below)
      BY <1>2 DEF DeliverStack
    <2> HIDE DEF top
    <2>5. /\ Len(DeliverStack(r, below)) = Len(below)
          /\ DeliverStack(r, below)[1] = top
          /\ \A i \in 2..Len(below) : DeliverStack(r, below)[i] = below[i]
      BY <1>2, <2>3, <2>4, ReplaceFrame DEF SoundStack
    <2> QED BY <2>1, <2>2, <2>5
  <1> QED BY <1>1, <1>2

\* A step that only advances or pops frames of one goroutine, d of them, and
\* leaves good ones, keeps the invariant.
LEMMA KeepsCacheSafe ==
  ASSUME CacheSafe, TypeOK', NEW g \in Goroutines, NEW d \in {0, 1},
         \A h \in Goroutines : h # g => stack'[h] = stack[h],
         Len(stack'[g]) + d = Len(stack[g]),
         \A i \in 1..Len(stack'[g]) :
           stack'[g][i].type = stack[g][i + d].type /\ GoodFrame(stack'[g][i]),
         UNCHANGED <<providers, resolved, overlapped>>,
         \A t \in resolving' : \/ t \in resolving /\ (d = 1 => t # stack[g][1].type)
                               \/ d = 0 /\ stack[g] # <<>> /\ t = stack[g][1].type,
         HandedInv'
  PROVE  CacheSafe'
  <1>1. /\ \A h \in Goroutines : Len(stack[h]) \in Nat /\ Len(stack'[h]) \in Nat
        /\ \A i \in 1..Len(stack'[g]) : i + d \in 1..Len(stack[g])
    BY DEF CacheSafe, TypeOK
  <1>2. GoodFrames'
    BY DEF CacheSafe, GoodFrames, GoodFrame
  <1>3. OneFrame'
    <2> SUFFICES ASSUME NEW k \in Goroutines, NEW h \in Goroutines,
                        NEW i \in 1..Len(stack'[k]), NEW j \in 1..Len(stack'[h]),
                        stack'[k][i].type = stack'[h][j].type, stack'[k][i].type \notin overlapped'
                 PROVE  k = h /\ i = j
      BY DEF OneFrame
    <2> DEFINE di == IF k = g THEN i + d ELSE i
               dj == IF h = g THEN j + d ELSE j
    <2>1. /\ di \in 1..Len(stack[k]) /\ stack[k][di].type = stack'[k][i].type
          /\ dj \in 1..Len(stack[h]) /\ stack[h][dj].type = stack'[h][j].type
      BY <1>1
    <2> HIDE DEF di, dj
    <2>2. k = h /\ di = dj
      <3>1. stack[k][di].type = stack[h][dj].type /\ stack[k][di].type \notin overlapped
        BY <2>1
      <3>2. OneFrame
        BY DEF CacheSafe
      <3>3. \A x \in 1..Len(stack[k]), y \in 1..Len(stack[h]) :
              stack[k][x].type = stack[h][y].type /\ stack[k][x].type \notin overlapped => k = h /\ x = y
        BY <3>2 DEF OneFrame
      <3> QED BY ONLY <2>1, <3>1, <3>3
    <2>3. i \in Int /\ j \in Int /\ d \in Int
      OBVIOUS
    <2> QED BY <2>2, <2>3 DEF di, dj
  <1>4. CacheInv'
    BY DEF CacheSafe, CacheInv
  <1>5. MarksInv'
    <2> SUFFICES ASSUME NEW t \in resolving'
                 PROVE  \E h \in Goroutines : \E i \in 1..Len(stack'[h]) : stack'[h][i].type = t
      BY DEF MarksInv
    <2>1. CASE t \in resolving /\ (d = 1 => t # stack[g][1].type)
      <3>1. PICK h \in Goroutines : \E i \in 1..Len(stack[h]) : stack[h][i].type = t
        BY <2>1 DEF CacheSafe, MarksInv
      <3>2. PICK i \in 1..Len(stack[h]) : stack[h][i].type = t
        BY <3>1
      <3>3. CASE h # g
        BY <3>2, <3>3
      <3>4. CASE h = g
        <4>1. i - d \in 1..Len(stack'[g])
          BY <1>1, <2>1, <3>2, <3>4
        <4>2. stack'[g][i - d].type = stack[g][(i - d) + d].type /\ (i - d) + d = i
          BY <1>1, <3>2, <4>1
        <4>3. stack'[h][i - d].type = t /\ i - d \in 1..Len(stack'[h])
          BY <3>2, <3>4, <4>1, <4>2
        <4> QED BY <4>3
      <3> QED BY <3>3, <3>4
    <2>2. CASE d = 0 /\ stack[g] # <<>> /\ t = stack[g][1].type
      <3>1. stack[g] \in Seq(Frame)
        BY DEF CacheSafe, TypeOK
      <3>2. 1 \in 1..Len(stack'[g])
        BY <2>2, <3>1
      <3>3. stack'[g][1].type = stack[g][1 + 0].type
        BY <2>2, <3>2
      <3> QED BY <2>2, <3>2, <3>3
    <2> QED BY <2>1, <2>2
  <1> QED BY <1>2, <1>3, <1>4, <1>5 DEF CacheSafe

\* The outcomes of a lookup that deliver a result at once.
LEMMA DeliverCacheSafe ==
  ASSUME CacheSafe, TypeOK', NEW g \in Goroutines, NEW t \in Types, NEW r \in Result,
         Deliver(g, t, r, stack[g]),
         r.kind = "ok" /\ t \notin overlapped /\ r.instance.from \in Providers
           => r.instance = resolved[t],
         UNCHANGED <<providers, resolved, overlapped, resolving>>
  PROVE  CacheSafe'
  <1>1. SoundStack(stack[g])
    BY StacksAreSound DEF CacheSafe
  <1>2. stack' = [stack EXCEPT ![g] = DeliverStack(r, stack[g])]
    BY DEF Deliver, DeliverStack
  <1>3. stack'[g] = DeliverStack(r, stack[g]) /\ \A h \in Goroutines : h # g => stack'[h] = stack[h]
    BY <1>2 DEF CacheSafe, TypeOK
  <1>4. Len(stack[g]) \in Nat
    BY <1>1 DEF SoundStack
  <1>5. ASSUME NEW i \in 1..Len(stack'[g])
        PROVE  stack'[g][i].type = stack[g][i].type /\ GoodFrame(stack'[g][i])
    <2>1. /\ i \in 1..Len(stack[g])
          /\ LET f == stack'[g][i] IN
               /\ f.type = stack[g][i].type /\ f.prov = stack[g][i].prov
               /\ f.instance = stack[g][i].instance
               /\ \/ f.phase = stack[g][i].phase /\ f.result = stack[g][i].result
                  \/ f.phase = "unwind" /\ f.result.kind # "ok"
      BY <1>1, <1>3, DeliverKeeps
    <2>2. GoodFrame(stack[g][i])
      BY <2>1 DEF CacheSafe, GoodFrames
    <2> QED BY <2>1, <2>2 DEF GoodFrame, GoodFor
  <1>6. HandedInv'
    <2>1. handed \in [Types -> SUBSET Instance]
      BY DEF CacheSafe, TypeOK
    <2>2. \A u \in Types : \A i \in handed'[u] :
            i \in handed[u] \/ (u = t /\ r.kind = "ok" /\ i = r.instance)
      BY <2>1 DEF Deliver
    <2> QED BY <2>2 DEF CacheSafe, HandedInv
  <1>7. Len(stack'[g]) = Len(stack[g])
    BY <1>1, <1>3, DeliverKeeps
  <1> QED
    <2>1. /\ Len(stack'[g]) + 0 = Len(stack[g])
          /\ \A i \in 1..Len(stack'[g]) :
               stack'[g][i].type = stack[g][i + 0].type /\ GoodFrame(stack'[g][i])
      BY <1>4, <1>5, <1>7
    <2> QED BY <1>3, <1>6, <2>1, KeepsCacheSafe

\* The steps that replace the top frame and leave the cache alone.
LEMMA SetTopCacheSafe ==
  ASSUME CacheSafe, TypeOK', NEW g \in Goroutines, ~Idle(g), NEW f \in Frame, SetTop(g, f),
         f.type = Top(g).type, GoodFrame(f),
         \A t \in resolving' : t \in resolving \/ t = Top(g).type,
         UNCHANGED <<providers, resolved, overlapped, handed>>
  PROVE  CacheSafe'
  <1>1. stack[g] \in Seq(Frame) /\ stack[g] # <<>> /\ stack \in [Goroutines -> Seq(Frame)]
    BY DEF CacheSafe, TypeOK, Idle
  <1>2. stack'[g] = <<f>> \o Tail(stack[g]) /\ \A h \in Goroutines : h # g => stack'[h] = stack[h]
    BY <1>1 DEF SetTop
  <1>3. /\ Len(stack'[g]) = Len(stack[g]) /\ Len(stack[g]) \in Nat /\ stack'[g][1] = f
        /\ \A i \in 2..Len(stack[g]) : stack'[g][i] = stack[g][i]
    BY <1>1, <1>2, ReplaceFrame
  <1>4. Top(g) = stack[g][1]
    BY <1>1 DEF Top
  <1>5. ASSUME NEW i \in 1..Len(stack'[g])
        PROVE  stack'[g][i].type = stack[g][i + 0].type /\ GoodFrame(stack'[g][i])
    <2>1. CASE i = 1
      BY <1>3, <1>4, <2>1
    <2>2. CASE i # 1
      <3>1. stack'[g][i] = stack[g][i] /\ i \in 1..Len(stack[g]) /\ i + 0 = i
        BY <1>3, <2>2
      <3> QED BY <3>1 DEF CacheSafe, GoodFrames
    <2> QED BY <2>1, <2>2
  <1>6. HandedInv'
    BY DEF CacheSafe, HandedInv
  <1>7. Len(stack'[g]) + 0 = Len(stack[g])
    BY <1>3
  <1>8. \A t \in resolving' : \/ t \in resolving /\ (0 = 1 => t # stack[g][1].type)
                              \/ 0 = 0 /\ stack[g] # <<>> /\ t = stack[g][1].type
    BY <1>1, <1>4
  <1> QED BY <1>2, <1>5, <1>6, <1>7, <1>8, KeepsCacheSafe

\* The return of a frame: its result is what the cache holds, or an error.
LEMMA UnwindCacheSafe ==
  ASSUME CacheSafe, TypeOK', NEW g \in Goroutines, Unwind(g)
  PROVE  CacheSafe'
  <1> DEFINE t == Top(g).type
             r == Top(g).result
             b == Tail(stack[g])
  <1>1. ~Idle(g) /\ Top(g).phase = "unwind"
    BY DEF Unwind, InPhase
  <1>2. Sound(Top(g)) /\ SoundStack(b) /\ stack[g] \in Seq(Frame) /\ stack[g] # <<>>
    BY <1>1, TopIsSound DEF CacheSafe, Idle
  <1>3. r \in Result /\ t \in Types
    BY <1>1, <1>2 DEF Sound, Frame
  <1>4. stack' = [stack EXCEPT ![g] = DeliverStack(r, b)]
    BY DEF Unwind, Deliver, DeliverStack
  <1>5. /\ Len(b) = Len(stack[g]) - 1 /\ Len(stack[g]) \in Nat /\ Len(stack[g]) >= 1
        /\ \A i \in 1..Len(b) : b[i] = stack[g][i + 1]
        /\ Top(g) = stack[g][1]
    BY <1>2, PopFrame DEF Top
  <1>6. stack'[g] = DeliverStack(r, b) /\ \A h \in Goroutines : h # g => stack'[h] = stack[h]
    BY <1>4 DEF CacheSafe, TypeOK
  <1>7. UNCHANGED <<providers, resolved, overlapped>> /\ resolving' = resolving \ {t}
    BY DEF Unwind
  <1>8. GoodFrame(Top(g))
    <2>1. 1 \in 1..Len(stack[g])
      BY <1>5
    <2> QED BY <1>5, <2>1 DEF CacheSafe, GoodFrames
  <1>9. HandedInv'
    <2>1. handed \in [Types -> SUBSET Instance]
      BY DEF CacheSafe, TypeOK
    <2>2. handed' = IF r.kind = "ok" THEN [handed EXCEPT ![t] = @ \cup {r.instance}] ELSE handed
      BY DEF Unwind, Deliver
    <2>3. \A u \in Types : \A i \in handed'[u] :
            i \in handed[u] \/ (u = t /\ r.kind = "ok" /\ i = r.instance)
      BY <1>3, <2>1, <2>2
    <2>4. r.kind = "ok" /\ t \notin overlapped => resolved[t] = r.instance
      BY <1>1, <1>8 DEF GoodFrame, GoodFor
    <2> HIDE DEF t, r
    <2> QED BY <1>7, <2>3, <2>4 DEF CacheSafe, HandedInv
  <1> HIDE DEF r, b
  <1>10. ASSUME NEW i \in 1..Len(stack'[g])
         PROVE  stack'[g][i].type = stack[g][i + 1].type /\ GoodFrame(stack'[g][i])
    <2>1. /\ i \in 1..Len(b)
          /\ LET f == stack'[g][i] IN
               /\ f.type = b[i].type /\ f.prov = b[i].prov /\ f.instance = b[i].instance
               /\ \/ f.phase = b[i].phase /\ f.result = b[i].result
                  \/ f.phase = "unwind" /\ f.result.kind # "ok"
      BY <1>2, <1>3, <1>6, DeliverKeeps
    <2>2. b[i] = stack[g][i + 1] /\ i + 1 \in 1..Len(stack[g])
      BY <1>5, <2>1
    <2>3. GoodFrame(b[i])
      BY <2>2 DEF CacheSafe, GoodFrames
    <2> QED BY <2>1, <2>2, <2>3 DEF GoodFrame, GoodFor
  <1>11. Len(stack'[g]) + 1 = Len(stack[g])
    BY <1>2, <1>3, <1>5, <1>6, DeliverKeeps
  <1>12. \A u \in resolving' : \/ u \in resolving /\ (1 = 1 => u # stack[g][1].type)
                               \/ 1 = 0 /\ stack[g] # <<>> /\ u = stack[g][1].type
    BY <1>5, <1>7
  <1> QED BY <1>6, <1>7, <1>9, <1>10, <1>11, <1>12, KeepsCacheSafe

\* A new frame: the first of its type, or the type becomes overlapped.
LEMMA LookupProviderCacheSafe ==
  ASSUME CacheSafe, TypeOK', NEW g \in Goroutines, NEW t \in Types, LookupProvider(g, t),
         UNCHANGED container
  PROVE  CacheSafe'
  <1> DEFINE new == [type |-> t, prov |-> providers[t], phase |-> "mark", next |-> 1,
                     instance |-> None, result |-> None]
  <1>1. stack[g] \in Seq(Frame) /\ stack \in [Goroutines -> Seq(Frame)]
    BY DEF CacheSafe, TypeOK
  <1>2. providers[t] \in Providers /\ resolved[t] = None
    BY DEF LookupProvider, CacheSafe, TypeOK
  <1>3. new \in Frame
    BY <1>2 DEF Frame
  <1>4. new.type = t /\ new.prov = providers[t] /\ new.phase = "mark" /\ new.instance = None
    OBVIOUS
  <1>5. /\ stack' = [stack EXCEPT ![g] = <<new>> \o stack[g]]
        /\ overlapped' = IF t \in OpenTypes THEN overlapped \cup {t} ELSE overlapped
        /\ UNCHANGED <<providers, resolved, resolving, handed>>
    BY DEF LookupProvider, container
  <1> HIDE DEF new
  <1>6. /\ Len(stack'[g]) = Len(stack[g]) + 1 /\ stack'[g][1] = new /\ Len(stack[g]) \in Nat
        /\ \A i \in 1..Len(stack[g]) : stack'[g][i + 1] = stack[g][i]
        /\ \A h \in Goroutines : h # g => stack'[h] = stack[h]
    BY <1>1, <1>3, <1>5, PushFrame
  <1>7. \A h \in Goroutines : \A i \in 1..Len(stack[h]) :
          t \notin overlapped' => stack[h][i].type # t
    <2> SUFFICES ASSUME NEW h \in Goroutines, NEW i \in 1..Len(stack[h]), t \notin overlapped'
                 PROVE  stack[h][i].type # t
      OBVIOUS
    <2>1. t \notin OpenTypes
      BY <1>5
    <2>2. stack[h][i] \in Entries(stack[h])
      BY DEF CacheSafe, TypeOK, Entries
    <2> QED BY <2>1, <2>2 DEF OpenTypes
  <1>8. /\ stack'[g][1] = new
        /\ \A i \in 1..Len(stack'[g]) : i # 1 =>
             i - 1 \in 1..Len(stack[g]) /\ stack'[g][i] = stack[g][i - 1]
    <2> SUFFICES ASSUME NEW i \in 1..Len(stack'[g]), i # 1
                 PROVE  i - 1 \in 1..Len(stack[g]) /\ stack'[g][i] = stack[g][i - 1]
      BY <1>6
    <2>1. i - 1 \in 1..Len(stack[g]) /\ (i - 1) + 1 = i
      BY <1>6
    <2> QED BY <1>6, <2>1
  <1>9. GoodFrames'
    <2> SUFFICES ASSUME NEW h \in Goroutines, NEW i \in 1..Len(stack'[h])
                 PROVE  GoodFor(stack'[h][i], providers, resolved, overlapped')
      BY <1>5 DEF GoodFrames, GoodFrame
    <2>1. ASSUME NEW f, GoodFrame(f) PROVE GoodFor(f, providers, resolved, overlapped')
      BY <1>5, <2>1 DEF GoodFrame, GoodFor
    <2>2. GoodFor(new, providers, resolved, overlapped')
      BY <1>2, <1>4, ContainerAssumption DEF GoodFor, ContainerAssumption
    <2>3. stack'[h][i] = new \/ \E j \in 1..Len(stack[h]) : stack'[h][i] = stack[h][j]
      <3>1. CASE h = g /\ i = 1
        BY <1>6, <3>1
      <3>2. CASE h = g /\ i # 1
        BY <1>8, <3>2
      <3>3. CASE h # g
        <4>1. stack'[h] = stack[h]
          BY <1>6, <3>3
        <4> QED BY <4>1
      <3> QED BY <3>1, <3>2, <3>3
    <2>4. CASE \E j \in 1..Len(stack[h]) : stack'[h][i] = stack[h][j]
      <3>1. GoodFrame(stack'[h][i])
        BY <2>4 DEF CacheSafe, GoodFrames
      <3> QED BY <2>1, <3>1
    <2> QED BY <2>2, <2>3, <2>4
  <1>10. OneFrame'
    <2> SUFFICES ASSUME NEW k \in Goroutines, NEW h \in Goroutines,
                        NEW i \in 1..Len(stack'[k]), NEW j \in 1..Len(stack'[h]),
                        stack'[k][i].type = stack'[h][j].type, stack'[k][i].type \notin overlapped'
                 PROVE  k = h /\ i = j
      BY DEF OneFrame
    <2> DEFINE oldk == ~(k = g /\ i = 1)
               oldh == ~(h = g /\ j = 1)
               x == IF k = g THEN i - 1 ELSE i
               y == IF h = g THEN j - 1 ELSE j
    <2>1. oldk => x \in 1..Len(stack[k]) /\ stack'[k][i] = stack[k][x]
      BY <1>6, <1>8
    <2>2. oldh => y \in 1..Len(stack[h]) /\ stack'[h][j] = stack[h][y]
      BY <1>6, <1>8
    <2>3. ~oldk => stack'[k][i].type = t
      BY <1>4, <1>6
    <2>4. ~oldh => stack'[h][j].type = t
      BY <1>4, <1>6
    <2>5. CASE oldk /\ oldh
      <3> HIDE DEF x, y
      <3>1. stack[k][x].type = stack[h][y].type /\ stack[k][x].type \notin overlapped
        <4>1. stack'[k][i] = stack[k][x] /\ stack'[h][j] = stack[h][y]
          BY <2>1, <2>2, <2>5
        <4>2. overlapped \subseteq overlapped'
          BY <1>5
        <4> QED BY <4>1, <4>2
      <3>2. \A u \in 1..Len(stack[k]), v \in 1..Len(stack[h]) :
              stack[k][u].type = stack[h][v].type /\ stack[k][u].type \notin overlapped => k = h /\ u = v
        BY DEF CacheSafe, OneFrame
      <3>3. k = h /\ x = y
        BY ONLY <2>1, <2>2, <2>5, <3>1, <3>2
      <3>4. i \in Int /\ j \in Int
        OBVIOUS
      <3> QED BY <3>3, <3>4 DEF x, y
    <2>6. CASE ~oldk /\ oldh
      BY <1>7, <2>2, <2>3, <2>6
    <2>7. CASE oldk /\ ~oldh
      BY <1>7, <2>1, <2>4, <2>7
    <2>8. CASE ~oldk /\ ~oldh
      BY <2>8
    <2> QED BY <2>5, <2>6, <2>7, <2>8
  <1>11. CacheInv' /\ HandedInv'
    BY <1>5 DEF CacheSafe, CacheInv, HandedInv
  <1>12. MarksInv'
    <2> SUFFICES ASSUME NEW u \in resolving
                 PROVE  \E h \in Goroutines : \E i \in 1..Len(stack'[h]) : stack'[h][i].type = u
      BY <1>5 DEF MarksInv
    <2>1. PICK h \in Goroutines : \E i \in 1..Len(stack[h]) : stack[h][i].type = u
      BY DEF CacheSafe, MarksInv
    <2>2. PICK i \in 1..Len(stack[h]) : stack[h][i].type = u
      BY <2>1
    <2>3. CASE h # g
      BY <1>6, <2>2, <2>3
    <2>4. CASE h = g
      <3>1. i + 1 \in 1..Len(stack'[g]) /\ stack'[g][i + 1] = stack[g][i]
        BY <1>6, <2>4
      <3> QED BY <2>2, <2>4, <3>1
    <2> QED BY <2>3, <2>4
  <1> QED BY <1>9, <1>10, <1>11, <1>12 DEF CacheSafe

LEMMA LookupCacheSafe ==
  ASSUME CacheSafe, TypeOK', NEW g \in Goroutines, NEW t \in Types, Lookup(g, t),
         UNCHANGED container
  PROVE  CacheSafe'
  <1>1. UNCHANGED <<providers, resolved, resolving>>
    BY DEF container
  <1>2. ASSUME NEW r \in Result, Deliver(g, t, r, stack[g]), UNCHANGED overlapped,
               r.kind = "ok" => r.instance = resolved[t] \/ r.instance.from \notin Providers
        PROVE  CacheSafe'
    BY <1>1, <1>2, DeliverCacheSafe
  <1>3. CASE LookupCached(g, t)
    <2>1. Ok(resolved[t]) \in Result /\ Ok(resolved[t]).instance = resolved[t]
      BY <1>3, OkIsResult DEF CacheSafe, TypeOK, LookupCached, Ok
    <2> QED BY <1>2, <1>3, <2>1 DEF LookupCached
  <1>4. CASE LookupMarked(g, t)
    BY <1>2, <1>4, ErrIsResult DEF LookupMarked, Err, Failure
  <1>5. CASE LookupService(g, t)
    <2>1. PICK s \in Implementers[t] : Deliver(g, t, Ok([from |-> s, n |-> 0]), stack[g])
      BY <1>5 DEF LookupService
    <2>2. s \in Services /\ s \notin Providers
      BY <2>1, ContainerAssumption DEF ContainerAssumption
    <2>3. /\ Ok([from |-> s, n |-> 0]) \in Result
          /\ Ok([from |-> s, n |-> 0]).instance.from = s
      BY <2>2, OkIsResult DEF Instance, Ok
    <2> QED BY <1>2, <1>5, <2>1, <2>2, <2>3 DEF LookupService
  <1>6. CASE LookupMissing(g, t)
    BY <1>2, <1>6, ErrIsResult DEF LookupMissing, Err, Failure
  <1>7. CASE LookupProvider(g, t)
    BY <1>7, LookupProviderCacheSafe
  <1> QED BY <1>3, <1>4, <1>5, <1>6, <1>7 DEF Lookup

\* The steps that mark, construct or fail.
LEMMA TopFrameCacheSafe ==
  ASSUME CacheSafe, TypeOK', NEW g \in Goroutines,
         Mark(g) \/ Construct(g) \/ ConstructFails(g) \/ InjectFails(g)
  PROVE  CacheSafe'
  <1>1. ~Idle(g) /\ Top(g).phase # "unwind"
    BY DEF Mark, Construct, ConstructFails, InjectFails, InPhase
  <1>2. Sound(Top(g)) /\ built \in Nat
    BY <1>1, TopIsSound DEF CacheSafe, TypeOK
  <1>3. GoodFrame(Top(g))
    <2>1. stack[g] \in Seq(Frame) /\ stack[g] # <<>>
      BY <1>1 DEF CacheSafe, TypeOK, Idle
    <2>2. 1 \in 1..Len(stack[g]) /\ Top(g) = stack[g][1]
      BY <2>1 DEF Top
    <2> QED BY <2>2 DEF CacheSafe, GoodFrames
  <1>4. Top(g) \in Frame
    BY <1>2 DEF Sound
  <1>5. CASE Mark(g)
    <2> DEFINE f == [Top(g) EXCEPT !.phase = "params"]
    <2>1. /\ f \in Frame /\ f.type = Top(g).type /\ f.prov = Top(g).prov
          /\ f.instance = Top(g).instance /\ f.phase = "params"
      BY <1>4 DEF Frame
    <2>2. SetTop(g, f) /\ resolving' = resolving \cup {Top(g).type}
          /\ UNCHANGED <<providers, resolved, overlapped, handed>>
      BY <1>5 DEF Mark, history
    <2> HIDE DEF f
    <2>3. GoodFrame(f)
      BY <1>1, <1>3, <2>1 DEF GoodFrame, GoodFor
    <2> QED BY <1>1, <2>1, <2>2, <2>3, SetTopCacheSafe
  <1>6. CASE Construct(g)
    <2> DEFINE i == [from |-> Top(g).prov, n |-> built + 1]
               f == [Top(g) EXCEPT !.phase = "fields", !.next = 1, !.instance = i]
    <2>1. i.from = Top(g).prov /\ i \in Instance
      BY <1>2, <1>4 DEF Instance, Frame
    <2>2. SetTop(g, f) /\ UNCHANGED <<providers, resolved, resolving, overlapped, handed>>
      BY <1>6 DEF Construct, container, history
    <2> HIDE DEF i
    <2>3. /\ f.type = Top(g).type /\ f.prov = Top(g).prov
          /\ f.instance = i /\ f.phase = "fields"
      BY <1>4 DEF Frame
    <2>4. f \in Frame
      <3>1. f = [[[Top(g) EXCEPT !.next = 1] EXCEPT !.instance = i] EXCEPT !.phase = "fields"]
        BY <1>4 DEF Frame
      <3>2. [Top(g) EXCEPT !.next = 1] \in Frame
        BY <1>4 DEF Frame
      <3>3. [[Top(g) EXCEPT !.next = 1] EXCEPT !.instance = i] \in Frame
        BY <2>1, <3>2 DEF Frame
      <3> QED BY <3>1, <3>3 DEF Frame
    <2> HIDE DEF f
    <2>5. GoodFrame(f)
      BY <1>1, <1>3, <2>1, <2>3 DEF GoodFrame, GoodFor
    <2> QED BY <1>1, <2>2, <2>3, <2>4, <2>5, SetTopCacheSafe
  <1>7. ASSUME ConstructFails(g) \/ InjectFails(g) PROVE CacheSafe'
    <2> PICK k \in Failure : SetTop(g, [Top(g) EXCEPT !.phase = "unwind", !.result = Err(k)])
      BY <1>7 DEF ConstructFails, InjectFails, Failure
    <2> DEFINE f == [Top(g) EXCEPT !.phase = "unwind", !.result = Err(k)]
    <2>1. Err(k) \in Result /\ Err(k).kind # "ok"
      BY ErrIsResult DEF Err, Failure
    <2>2. /\ f \in Frame /\ f.type = Top(g).type /\ f.prov = Top(g).prov
          /\ f.instance = Top(g).instance /\ f.phase = "unwind" /\ f.result = Err(k)
      BY <1>4, <2>1 DEF Frame
    <2>3. SetTop(g, f) /\ UNCHANGED <<providers, resolved, resolving, overlapped, handed>>
      BY <1>7 DEF ConstructFails, InjectFails, container, history
    <2> HIDE DEF f
    <2>4. GoodFrame(f)
      BY <1>1, <1>3, <2>1, <2>2 DEF GoodFrame, GoodFor
    <2> QED BY <1>1, <2>2, <2>3, <2>4, SetTopCacheSafe
  <1> QED BY <1>5, <1>6, <1>7

\* Storing an instance: no other frame of its type is open, unless overlapped,
\* and nobody was given one before, since the cache was empty.
LEMMA StoreCacheSafe ==
  ASSUME CacheSafe, TypeOK', NEW g \in Goroutines, Store(g)
  PROVE  CacheSafe'
  <1> DEFINE t == Top(g).type
             new == [Top(g) EXCEPT !.phase = "unwind", !.result = Ok(Top(g).instance)]
  <1>1. ~Idle(g) /\ Top(g).phase = "fields"
    BY DEF Store, InPhase
  <1>2. /\ stack[g] \in Seq(Frame) /\ stack[g] # <<>> /\ stack \in [Goroutines -> Seq(Frame)]
        /\ resolved \in [Types -> Instance \cup {None}]
    BY <1>1 DEF CacheSafe, TypeOK, Idle
  <1>3. Top(g) = stack[g][1] /\ 1 \in 1..Len(stack[g])
    BY <1>2 DEF Top
  <1>4. Sound(Top(g)) /\ GoodFrame(Top(g))
    BY <1>1, <1>3, TopIsSound DEF CacheSafe, GoodFrames
  <1>5. Top(g).instance \in Instance /\ Top(g).instance # None /\ t \in Types /\ Top(g) \in Frame
    BY <1>1, <1>4, ContainerAssumption DEF Sound, Frame, ContainerAssumption
  <1>6. /\ new \in Frame /\ new.type = t /\ new.prov = Top(g).prov /\ new.instance = Top(g).instance
        /\ new.phase = "unwind" /\ new.result.instance = Top(g).instance
    BY <1>5, OkIsResult DEF Frame, Ok
  <1>7. /\ stack' = [stack EXCEPT ![g] = <<new>> \o Tail(stack[g])]
        /\ resolved' = [resolved EXCEPT ![t] = Top(g).instance]
        /\ UNCHANGED <<providers, resolving, overlapped, handed>>
    BY DEF Store, SetTop, history
  <1>8. /\ providers[t] # None
        /\ Top(g).instance.from = Top(g).prov
        /\ t \notin overlapped => Top(g).prov = providers[t] /\ resolved[t] = None
    BY <1>1, <1>4, <1>5 DEF GoodFrame, GoodFor
  <1> HIDE DEF new
  <1>9. /\ Len(stack'[g]) = Len(stack[g]) /\ Len(stack[g]) \in Nat /\ stack'[g][1] = new
        /\ \A i \in 2..Len(stack[g]) : stack'[g][i] = stack[g][i]
        /\ \A h \in Goroutines : h # g => stack'[h] = stack[h]
    BY <1>2, <1>6, <1>7, ReplaceFrame
  <1>10. \A h \in Goroutines : Len(stack'[h]) = Len(stack[h])
    BY <1>9
  <1>11. \A h \in Goroutines : \A i \in 1..Len(stack[h]) :
           /\ stack'[h][i].type = stack[h][i].type
           /\ ~(h = g /\ i = 1) => stack'[h][i] = stack[h][i]
    <2> SUFFICES ASSUME NEW h \in Goroutines, NEW i \in 1..Len(stack[h])
                 PROVE  /\ stack'[h][i].type = stack[h][i].type
                        /\ ~(h = g /\ i = 1) => stack'[h][i] = stack[h][i]
      OBVIOUS
    <2>1. CASE h = g /\ i = 1
      BY <1>3, <1>6, <1>9, <2>1
    <2>2. CASE h = g /\ i # 1
      <3>1. i \in 2..Len(stack[g])
        BY <1>9, <2>2
      <3> QED BY <1>9, <2>2, <3>1
    <2>3. CASE h # g
      BY <1>9, <2>3
    <2> QED BY <2>1, <2>2, <2>3
  <1> HIDE DEF t
  <1>12. GoodFrames'
    <2> SUFFICES ASSUME NEW h \in Goroutines, NEW i \in 1..Len(stack[h])
                 PROVE  GoodFor(stack'[h][i], providers, resolved', overlapped)
      BY <1>7, <1>10 DEF GoodFrames, GoodFrame
    <2>1. CASE h = g /\ i = 1
      <3>1. stack'[h][i] = new
        BY <1>9, <2>1
      <3>2. resolved'[t] = Top(g).instance
        BY <1>2, <1>5, <1>7
      <3> QED BY <1>6, <1>8, <3>1, <3>2 DEF GoodFor
    <2>2. CASE ~(h = g /\ i = 1)
      <3>1. stack'[h][i] = stack[h][i] /\ GoodFrame(stack[h][i])
        BY <1>11, <2>2 DEF CacheSafe, GoodFrames
      <3>2. stack[h][i].type \notin overlapped => stack[h][i].type # t
        <4>1. stack[g][1].type = t
          BY <1>3 DEF t
        <4>2. \A x \in 1..Len(stack[h]), y \in 1..Len(stack[g]) :
                stack[h][x].type = stack[g][y].type /\ stack[h][x].type \notin overlapped
                  => h = g /\ x = y
          BY DEF CacheSafe, OneFrame
        <4> QED BY ONLY <1>3, <2>2, <4>1, <4>2, i \in 1..Len(stack[h])
      <3>3. \A u : u # t => resolved'[u] = resolved[u]
        BY <1>2, <1>7
      <3> QED BY <3>1, <3>2, <3>3 DEF GoodFrame, GoodFor
    <2> QED BY <2>1, <2>2
  <1>13. OneFrame'
    <2> SUFFICES ASSUME NEW k \in Goroutines, NEW h \in Goroutines,
                        NEW i \in 1..Len(stack[k]), NEW j \in 1..Len(stack[h]),
                        stack'[k][i].type = stack'[h][j].type, stack'[k][i].type \notin overlapped
                 PROVE  k = h /\ i = j
      BY <1>7, <1>10 DEF OneFrame
    <2>1. stack[k][i].type = stack[h][j].type /\ stack[k][i].type \notin overlapped
      BY <1>11
    <2> QED BY <2>1 DEF CacheSafe, OneFrame
  <1>14. CacheInv'
    BY <1>2, <1>5, <1>7, <1>8 DEF CacheSafe, CacheInv
  <1>15. HandedInv'
    <2> SUFFICES ASSUME NEW u \in Types, u \notin overlapped, NEW i \in handed[u], i.from \in Providers
                 PROVE  i = resolved'[u]
      BY <1>7 DEF HandedInv
    <2>1. i = resolved[u] /\ i \in Instance
      BY DEF CacheSafe, HandedInv, TypeOK
    <2>2. resolved[u] # None
      BY <2>1, ContainerAssumption DEF ContainerAssumption
    <2>3. u # t
      BY <1>8, <2>2
    <2> QED BY <1>2, <1>7, <2>1, <2>3
  <1>16. MarksInv'
    <2> SUFFICES ASSUME NEW u \in resolving
                 PROVE  \E h \in Goroutines : \E i \in 1..Len(stack'[h]) : stack'[h][i].type = u
      BY <1>7 DEF MarksInv
    <2>1. PICK h \in Goroutines : \E i \in 1..Len(stack[h]) : stack[h][i].type = u
      BY DEF CacheSafe, MarksInv
    <2>2. PICK i \in 1..Len(stack[h]) : stack[h][i].type = u
      BY <2>1
    <2>3. i \in 1..Len(stack'[h]) /\ stack'[h][i].type = u
      BY <1>10, <1>11, <2>2
    <2> QED BY <2>3
  <1> QED BY <1>12, <1>13, <1>14, <1>15, <1>16 DEF CacheSafe

\* Replacing a provider: a type with an open frame becomes overlapped.
LEMMA OverrideCacheSafe ==
  ASSUME CacheSafe, TypeOK', NEW p \in Overrides, Override(p)
  PROVE  CacheSafe'
  <1> DEFINE t == Out[p]
  <1>1. p \in Providers /\ t \in Types /\ p # None
    BY ContainerAssumption DEF ContainerAssumption
  <1>2. /\ providers' = [providers EXCEPT ![t] = p]
        /\ resolved' = [resolved EXCEPT ![t] = None]
        /\ handed' = [handed EXCEPT ![t] = {}]
        /\ overlapped' = IF t \in OpenTypes THEN overlapped \cup {t} ELSE overlapped
        /\ UNCHANGED <<stack, resolving>>
    BY DEF Override
  <1>3. /\ providers \in [Types -> Providers \cup {None}]
        /\ resolved \in [Types -> Instance \cup {None}]
        /\ handed \in [Types -> SUBSET Instance]
        /\ stack \in [Goroutines -> Seq(Frame)]
    BY DEF CacheSafe, TypeOK
  <1> HIDE DEF t
  <1>4. /\ providers'[t] = p /\ resolved'[t] = None /\ handed'[t] = {}
        /\ \A u \in Types : u # t =>
             providers'[u] = providers[u] /\ resolved'[u] = resolved[u] /\ handed'[u] = handed[u]
        /\ overlapped \subseteq overlapped'
    BY <1>1, <1>2, <1>3
  <1>5. ASSUME NEW h \in Goroutines, NEW i \in 1..Len(stack[h]), stack[h][i].type = t
        PROVE  t \in overlapped'
    <2>1. stack[h][i] \in Entries(stack[h])
      BY <1>3 DEF Entries
    <2>2. t \in OpenTypes
      BY <1>5, <2>1 DEF OpenTypes
    <2> QED BY <1>2, <2>2
  <1>6. GoodFrames'
    <2> SUFFICES ASSUME NEW h \in Goroutines, NEW i \in 1..Len(stack[h])
                 PROVE  GoodFor(stack[h][i], providers', resolved', overlapped')
      BY <1>2 DEF GoodFrames, GoodFrame
    <2>1. GoodFrame(stack[h][i])
      BY DEF CacheSafe, GoodFrames
    <2>2. stack[h][i].type \in Types
      <3>1. stack[h][i] \in Frame
        BY <1>3
      <3> QED BY <3>1 DEF Frame
    <2>3. CASE stack[h][i].type = t
      BY <1>1, <1>4, <1>5, <2>1, <2>3 DEF GoodFrame, GoodFor
    <2>4. CASE stack[h][i].type # t
      BY <1>4, <2>1, <2>2, <2>4 DEF GoodFrame, GoodFor
    <2> QED BY <2>3, <2>4
  <1>7. OneFrame'
    BY <1>2, <1>4 DEF CacheSafe, OneFrame
  <1>8. CacheInv'
    <2> SUFFICES ASSUME NEW u \in Types
                 PROVE  /\ resolved'[u] # None => providers'[u] # None
                        /\ u \notin overlapped' /\ resolved'[u] # None => resolved'[u].from = providers'[u]
      BY DEF CacheInv
    <2>1. CASE u = t
      BY <1>4, <2>1
    <2>2. CASE u # t
      BY <1>4, <2>2 DEF CacheSafe, CacheInv
    <2> QED BY <2>1, <2>2
  <1>9. HandedInv'
    <2> SUFFICES ASSUME NEW u \in Types, u \notin overlapped', NEW i \in handed'[u], i.from \in Providers
                 PROVE  i = resolved'[u]
      BY DEF HandedInv
    <2>1. u # t /\ i \in handed[u] /\ resolved'[u] = resolved[u] /\ u \notin overlapped
      BY <1>4
    <2> QED BY <2>1 DEF CacheSafe, HandedInv
  <1>10. MarksInv'
    BY <1>2 DEF CacheSafe, MarksInv
  <1> QED BY <1>6, <1>7, <1>8, <1>9, <1>10 DEF CacheSafe

\* Registering the first provider of a type: no frame of the type is open and
\* nothing is cached, for both need a provider.
LEMMA ProvideCacheSafe ==
  ASSUME CacheSafe, TypeOK', NEW p \in LateProviders, Provide(p)
  PROVE  CacheSafe'
  <1> DEFINE t == Out[p]
  <1>1. p \in Providers /\ t \in Types /\ p # None
    BY ContainerAssumption DEF ContainerAssumption
  <1>2. /\ providers' = providers \/ (providers[t] = None /\ providers' = [providers EXCEPT ![t] = p])
        /\ UNCHANGED <<resolved, handed, overlapped, stack, resolving>>
    BY DEF Provide
  <1>3. /\ providers \in [Types -> Providers \cup {None}]
        /\ stack \in [Goroutines -> Seq(Frame)]
    BY DEF CacheSafe, TypeOK
  <1> HIDE DEF t
  <1>4. /\ \A u \in Types : providers'[u] = providers[u] \/ (u = t /\ providers[u] = None)
        /\ \A u \in Types : providers[u] # None => providers'[u] = providers[u]
    BY <1>1, <1>2, <1>3
  <1>5. GoodFrames'
    <2> SUFFICES ASSUME NEW h \in Goroutines, NEW i \in 1..Len(stack[h])
                 PROVE  GoodFor(stack[h][i], providers', resolved, overlapped)
      BY <1>2 DEF GoodFrames, GoodFrame
    <2>1. GoodFrame(stack[h][i]) /\ stack[h][i].type \in Types
      <3>1. stack[h][i] \in Frame
        BY <1>3
      <3>2. stack[h][i].type \in Types
        BY <3>1 DEF Frame
      <3> QED BY <3>2 DEF CacheSafe, GoodFrames
    <2>2. providers[stack[h][i].type] # None
      BY <2>1 DEF GoodFrame, GoodFor
    <2>3. providers'[stack[h][i].type] = providers[stack[h][i].type]
      BY <1>4, <2>1, <2>2
    <2> QED BY <2>1, <2>3 DEF GoodFrame, GoodFor
  <1>6. CacheInv'
    <2> SUFFICES ASSUME NEW u \in Types, resolved[u] # None
                 PROVE  /\ providers'[u] # None
                        /\ u \notin overlapped => resolved[u].from = providers'[u]
      BY <1>2 DEF CacheInv
    <2>1. providers[u] # None /\ (u \notin overlapped => resolved[u].from = providers[u])
      BY DEF CacheSafe, CacheInv
    <2> QED BY <1>4, <2>1
  <1>7. OneFrame' /\ HandedInv' /\ MarksInv'
    BY <1>2 DEF CacheSafe, OneFrame, HandedInv, MarksInv
  <1> QED BY <1>5, <1>6, <1>7 DEF CacheSafe

LEMMA InitCacheSafe == Init => CacheSafe
  <1> SUFFICES ASSUME Init PROVE CacheSafe
    OBVIOUS
  <1>1. TypeOK
    BY InitTypeOK
  <1>2. \A g \in Goroutines : stack[g] = <<>>
    BY DEF Init
  <1>3. \A t \in Types : resolved[t] = None /\ handed[t] = {}
    BY DEF Init
  <1>4. resolving = {}
    BY DEF Init
  <1>5. GoodFrames /\ OneFrame
    BY <1>2 DEF GoodFrames, OneFrame
  <1>6. CacheInv /\ HandedInv /\ MarksInv
    BY <1>3, <1>4 DEF CacheInv, HandedInv, MarksInv
  <1> QED BY <1>1, <1>5, <1>6 DEF CacheSafe

LEMMA StepCacheSafe ==
  ASSUME CacheSafe, NEW g \in Goroutines, Step(g)
  PROVE  CacheSafe'
  <1>0. TypeOK /\ TypeOK'
    BY StepTypeOK DEF CacheSafe
  <1>1. CASE Mark(g) \/ Construct(g) \/ ConstructFails(g) \/ InjectFails(g)
    BY <1>0, <1>1, TopFrameCacheSafe
  <1>2. CASE Store(g)
    BY <1>0, <1>2, StoreCacheSafe
  <1>3. CASE Unwind(g)
    BY <1>0, <1>3, UnwindCacheSafe
  <1>4. CASE ResolveParam(g)
    <2>1. Sound(Top(g))
      BY <1>0, <1>4, TopIsSound DEF ResolveParam, InPhase
    <2>2. Params[Top(g).prov] \in Seq(Types) /\ Top(g).next \in Nat \ {0}
      BY <2>1, ContainerAssumption DEF ContainerAssumption, Sound, Frame
    <2>3. Params[Top(g).prov][Top(g).next] \in Types
      BY <1>4, <2>2 DEF ResolveParam
    <2> QED BY <1>0, <1>4, <2>3, LookupCacheSafe DEF ResolveParam
  <1>5. CASE InjectField(g)
    <2>1. Sound(Top(g))
      BY <1>0, <1>5, TopIsSound DEF InjectField, InPhase
    <2>2. Fields[Top(g).prov] \in Seq(Types) /\ Top(g).next \in Nat \ {0}
      BY <2>1, ContainerAssumption DEF ContainerAssumption, Sound, Frame
    <2>3. Fields[Top(g).prov][Top(g).next] \in Types
      BY <1>5, <2>2 DEF InjectField
    <2> QED BY <1>0, <1>5, <2>3, LookupCacheSafe DEF InjectField
  <1> QED BY <1>1, <1>2, <1>3, <1>4, <1>5 DEF Step

LEMMA NextCacheSafe == ASSUME CacheSafe, [Next]_vars PROVE CacheSafe'
  <1>0. TypeOK'
    BY NextTypeOK DEF CacheSafe
  <1>1. CASE UNCHANGED vars
    <2>1. UNCHANGED <<providers, resolved, resolving, stack, handed, overlapped>>
      BY <1>1 DEF vars, container, history
    <2> QED BY <1>0, <2>1 DEF CacheSafe, GoodFrames, GoodFrame, OneFrame, CacheInv, HandedInv, MarksInv
  <1>2. ASSUME NEW g \in Goroutines, Step(g) PROVE CacheSafe'
    BY <1>2, StepCacheSafe
  <1>3. ASSUME NEW g \in Goroutines, NEW t \in Types, Resolve(g, t) PROVE CacheSafe'
    <2>1. Lookup(g, t) /\ UNCHANGED container
      BY <1>3 DEF Resolve
    <2> QED BY <1>0, <2>1, LookupCacheSafe
  <1>4. ASSUME NEW p \in Overrides, Override(p) PROVE CacheSafe'
    BY <1>0, <1>4, OverrideCacheSafe
  <1>5. ASSUME NEW p \in LateProviders, Provide(p) PROVE CacheSafe'
    BY <1>0, <1>5, ProvideCacheSafe
  <1> QED BY <1>1, <1>2, <1>3, <1>4, <1>5 DEF Next

\* The inductive invariant of the cache holds in every reachable state.
THEOREM CacheSafeHolds == Spec => []CacheSafe
  BY InitCacheSafe, NextCacheSafe, PTL DEF Spec

\* A mark never outlives the last frame of its type, however resolve fails.
THEOREM MarksAreReleased == Spec => []MarksHaveFrames
  <1>1. CacheSafe => MarksHaveFrames
    <2> SUFFICES ASSUME CacheSafe, NEW t \in resolving PROVE t \in OpenTypes
      BY DEF MarksHaveFrames
    <2>1. PICK g \in Goroutines : \E i \in 1..Len(stack[g]) : stack[g][i].type = t
      BY DEF CacheSafe, MarksInv
    <2>2. PICK i \in 1..Len(stack[g]) : stack[g][i].type = t
      BY <2>1
    <2>3. stack[g][i] \in Entries(stack[g])
      BY DEF CacheSafe, TypeOK, Entries
    <2> QED BY <2>2, <2>3 DEF OpenTypes
  <1> QED BY <1>1, CacheSafeHolds, PTL

\* The cached instance of a type that was not overlapped is its provider's.
THEOREM CacheIsFresh == Spec => []CacheFresh
  <1>1. CacheSafe => CacheFresh
    BY DEF CacheSafe, CacheInv, CacheFresh
  <1> QED BY <1>1, CacheSafeHolds, PTL

\* Nobody gets a second instance of a type that was not overlapped.
THEOREM InstancesAreSingle == Spec => []Singleton
  <1>1. CacheSafe => Singleton
    <2> SUFFICES ASSUME CacheSafe, NEW t \in Types \ overlapped
                 PROVE  Cardinality({i \in handed[t] : i.from \in Providers}) <= 1
      BY DEF Singleton
    <2>1. {i \in handed[t] : i.from \in Providers} \subseteq {resolved[t]}
      BY DEF CacheSafe, HandedInv
    <2>2. IsFiniteSet({resolved[t]}) /\ Cardinality({resolved[t]}) = 1
      BY FS_Singleton
    <2>3. Cardinality({i \in handed[t] : i.from \in Providers}) <= Cardinality({resolved[t]})
      BY <2>1, <2>2, FS_Subset
    <2> QED BY <2>2, <2>3
  <1> QED BY <1>1, CacheSafeHolds, PTL

-----------------------------------------------------------------------------
(* Errors and cycles.  A frame is above the one that waits for its type, so a *)
(* stack is a path in the dependency graph.                                   *)

\* The frame f resolves its next dependency, of type t.
Awaits(f, t) ==
  \/ f.phase = "params" /\ f.next \in DOMAIN Params[f.prov] /\ Params[f.prov][f.next] = t
  \/ f.phase = "fields" /\ f.next \in DOMAIN Fields[f.prov] /\ Fields[f.prov][f.next] = t

Linked(s) == \A i \in 1..(Len(s) - 1) : Awaits(s[i + 1], s[i].type)
AllLinked == \A g \in Goroutines : Linked(stack[g])

\* The frames of a stack use the constructors their types have now.
Current(s) == \A i \in 1..Len(s) : s[i].prov = providers[s[i].type]

\* What the frame f has resolved so far is in B.
Supplied(f, B) ==
  /\ f.phase \in {"mark", "params"} => \A n \in DOMAIN Params[f.prov] : n < f.next => Params[f.prov][n] \in B
  /\ f.phase = "fields" => /\ \A n \in DOMAIN Params[f.prov] : Params[f.prov][n] \in B
                           /\ \A n \in DOMAIN Fields[f.prov] : n < f.next => Fields[f.prov][n] \in B
  /\ f.phase = "unwind" /\ f.result.kind = "ok" => f.type \in B
AllSupplied(s, B) == \A i \in 1..Len(s) : Supplied(s[i], B)

\* All that was ever built is in B: what it needs is there too, and no cycle is.
Acyclic(B) == B \subseteq Types /\ Closed(B) /\ \A t \in B : ~OnCycle(t)
Covers(B)  ==
  /\ \A t \in Types : resolved[t] # None \/ handed[t] # {} => t \in B
  /\ \A g \in Goroutines : Current(stack[g]) /\ AllSupplied(stack[g], B)
BuiltInv == \E B \in SUBSET Types : Acyclic(B) /\ Covers(B)

\* The error that r is, if it is one, is the fault of the graph below t.
Real(r, t) ==
  /\ r.kind = "cycle" => ReachesCycle(t)
  /\ r.kind = "missing" => \E u \in {t} \cup Needs(t) : providers[u] = None /\ Implementers[u] = {}

\* The stack s is a path down from t, and the errors on their way through it are real.
Path(s, t) ==
  /\ \A i \in 1..Len(s) : s[i].type \in {t} \cup Needs(t)
  /\ \A i, j \in 1..Len(s) : i < j => s[i].type \in Needs(s[j].type)
AllReal(s, t) == \A i \in 1..Len(s) : s[i].phase = "unwind" => Real(s[i].result, t)

AloneInv ==
  \A g \in alone :
    IF Idle(g) THEN result[g] # None => Real(result[g], target[g])
    ELSE /\ Busy = {g} /\ target[g] \in Types
         /\ Current(stack[g]) /\ Path(stack[g], target[g]) /\ AllReal(stack[g], target[g])

\* What t needs is the least set that has its dependencies and theirs.
LEMMA NeedsFacts ==
  ASSUME TypeOK, NEW t \in Types
  PROVE  /\ DepsOf(t) \subseteq Types /\ Needs(t) \subseteq Types
         /\ DepsOf(t) \subseteq Needs(t) /\ Closed(Needs(t))
         /\ \A S \in SUBSET Types : DepsOf(t) \subseteq S /\ Closed(S) => Needs(t) \subseteq S
  <1>1. ASSUME NEW u \in Types PROVE DepsOf(u) \subseteq Types
    <2>1. CASE providers[u] = None
      BY <2>1 DEF DepsOf
    <2>2. CASE providers[u] # None
      <3>1. providers[u] \in Providers
        BY <2>2 DEF TypeOK
      <3>2. Params[providers[u]] \in Seq(Types) /\ Fields[providers[u]] \in Seq(Types)
        BY <3>1, ContainerAssumption DEF ContainerAssumption
      <3> QED BY <2>2, <3>2 DEF DepsOf, Entries
    <2> QED BY <2>1, <2>2
  <1>2. DepsOf(t) \subseteq Needs(t)
    BY <1>1 DEF Needs
  <1>3. ASSUME NEW u \in Needs(t), NEW v \in DepsOf(u) PROVE v \in Needs(t)
    <2>1. u \in Types /\ v \in Types
      BY <1>1, <1>3 DEF Needs
    <2>2. ASSUME NEW S \in SUBSET Types, DepsOf(t) \subseteq S, Closed(S) PROVE v \in S
      BY <1>3, <2>2 DEF Needs, Closed
    <2> QED BY <2>1, <2>2 DEF Needs
  <1> QED BY <1>1, <1>2, <1>3 DEF Closed, Needs

\* A type whose dependencies are built is on no cycle.
LEMMA AcyclicGrows ==
  ASSUME TypeOK, NEW B, Acyclic(B), NEW t \in Types, DepsOf(t) \subseteq B
  PROVE  Acyclic(B \cup {t})
  <1>1. B \in SUBSET Types /\ Closed(B)
    BY DEF Acyclic
  <1>2. Needs(t) \subseteq B
    BY <1>1, NeedsFacts
  <1>3. Closed(B \cup {t})
    BY <1>1 DEF Closed
  <1>4. t \in B \/ ~OnCycle(t)
    BY <1>2 DEF OnCycle
  <1> QED BY <1>1, <1>3, <1>4 DEF Acyclic

\* The type that a frame waits for is a dependency of its type.
LEMMA AwaitedIsDep ==
  ASSUME TypeOK, NEW f, Sound(f), NEW t, Awaits(f, t)
  PROVE  t \in Types /\ f.type \in Types /\ (f.prov = providers[f.type] => t \in DepsOf(f.type))
  <1>1. f.prov \in Providers /\ f.prov # None /\ f.type \in Types
    BY ContainerAssumption DEF ContainerAssumption, Sound, Frame
  <1>2. Params[f.prov] \in Seq(Types) /\ Fields[f.prov] \in Seq(Types)
    BY <1>1, ContainerAssumption DEF ContainerAssumption
  <1>3. t \in Entries(Params[f.prov]) \cup Entries(Fields[f.prov])
    BY DEF Awaits, Entries
  <1>4. t \in Types
    BY <1>2, <1>3 DEF Entries
  <1> QED BY <1>1, <1>3, <1>4 DEF DepsOf

\* So every frame of a path needs what the top frame waits for.
LEMMA DependsOnAll ==
  ASSUME TypeOK, NEW s, SoundStack(s), s # <<>>, Current(s), NEW t \in Types, Path(s, t), NEW u, Awaits(s[1], u)
  PROVE  u \in Types /\ u \in Needs(t) /\ \A j \in 1..Len(s) : u \in Needs(s[j].type)
  <1>1. Len(s) \in Nat /\ 1 \in 1..Len(s)
    BY DEF SoundStack
  <1>2. u \in DepsOf(s[1].type) /\ s[1].type \in Types /\ u \in Types
    <2>1. Sound(s[1])
      BY <1>1 DEF SoundStack
    <2>2. s[1].prov = providers[s[1].type]
      BY <1>1 DEF Current
    <2> QED BY <2>1, <2>2, AwaitedIsDep
  <1>3. \A v \in Types : s[1].type = v \/ s[1].type \in Needs(v) => u \in Needs(v)
    BY <1>2, NeedsFacts DEF Closed
  <1>4. u \in Needs(t)
    BY <1>1, <1>3 DEF Path
  <1>5. ASSUME NEW j \in 1..Len(s) PROVE u \in Needs(s[j].type)
    <2>1. s[j].type \in Types
      BY DEF SoundStack, Sound, Frame
    <2>2. j = 1 \/ 1 < j
      BY <1>1
    <2> QED BY <1>1, <1>3, <2>1, <2>2 DEF Path
  <1> QED BY <1>2, <1>4, <1>5

\* What the three changes of a stack keep: a new top frame of the same type,
LEMMA SetGraph ==
  ASSUME NEW s, SoundStack(s), s # <<>>, NEW f \in Frame, f.type = s[1].type, f.prov = s[1].prov
  PROVE  LET z == <<f>> \o Tail(s) IN
         /\ Len(z) = Len(s) /\ z[1] = f
         /\ Linked(s) => Linked(z)
         /\ Current(s) => Current(z)
         /\ \A B : AllSupplied(s, B) /\ Supplied(f, B) => AllSupplied(z, B)
         /\ \A t : Path(s, t) => Path(z, t)
         /\ \A t : AllReal(s, t) /\ (f.phase = "unwind" => Real(f.result, t)) => AllReal(z, t)
  <1> DEFINE z == <<f>> \o Tail(s)
  <1>1. /\ Len(z) = Len(s) /\ z[1] = f /\ Len(s) \in Nat /\ Len(s) >= 1
        /\ \A i \in 2..Len(s) : z[i] = s[i]
    BY ReplaceFrame, PopFrame DEF SoundStack
  <1> HIDE DEF z
  <1>2. \A i \in 1..Len(z) : /\ i \in 1..Len(s) /\ z[i].type = s[i].type /\ z[i].prov = s[i].prov
                             /\ z[i] = f \/ z[i] = s[i]
    BY <1>1
  <1>3. ASSUME Linked(s) PROVE Linked(z)
    <2> SUFFICES ASSUME NEW i \in 1..(Len(z) - 1) PROVE Awaits(z[i + 1], z[i].type)
      BY DEF Linked
    <2>1. i \in 1..(Len(s) - 1) /\ i \in 1..Len(z) /\ i + 1 \in 2..Len(s)
      BY <1>1
    <2>2. Awaits(s[i + 1], s[i].type) /\ z[i + 1] = s[i + 1] /\ z[i].type = s[i].type
      BY <1>1, <1>2, <1>3, <2>1 DEF Linked
    <2> QED BY <2>2
  <1>4. Current(s) => Current(z)
    BY <1>2 DEF Current
  <1>5. \A B : AllSupplied(s, B) /\ Supplied(f, B) => AllSupplied(z, B)
    BY <1>2 DEF AllSupplied
  <1>6. ASSUME NEW t, Path(s, t) PROVE Path(z, t)
    BY <1>2, <1>6 DEF Path
  <1>7. \A t : AllReal(s, t) /\ (f.phase = "unwind" => Real(f.result, t)) => AllReal(z, t)
    BY <1>2 DEF AllReal
  <1> QED BY <1>1, <1>3, <1>4, <1>5, <1>6, <1>7 DEF z

\* the return of the top frame,
LEMMA TailGraph ==
  ASSUME NEW s, SoundStack(s), s # <<>>
  PROVE  LET z == Tail(s) IN
         /\ Linked(s) => Linked(z) /\ (z = <<>> \/ Awaits(z[1], s[1].type))
         /\ Current(s) => Current(z)
         /\ \A B : AllSupplied(s, B) => AllSupplied(z, B)
         /\ \A t : Path(s, t) => Path(z, t)
         /\ \A t : AllReal(s, t) => AllReal(z, t)
  <1> DEFINE z == Tail(s)
  <1>1. /\ Len(z) = Len(s) - 1 /\ Len(s) \in Nat /\ Len(s) >= 1 /\ z \in Seq(Frame)
        /\ \A i \in 1..(Len(s) - 1) : z[i] = s[i + 1]
    BY PopFrame DEF SoundStack
  <1> HIDE DEF z
  <1>2. \A i \in 1..Len(z) : i + 1 \in 1..Len(s) /\ z[i] = s[i + 1] /\ i \in Nat
    BY <1>1
  <1>3. ASSUME Linked(s) PROVE Linked(z) /\ (z = <<>> \/ Awaits(z[1], s[1].type))
    <2>1. ASSUME NEW i \in 1..(Len(z) - 1) PROVE Awaits(z[i + 1], z[i].type)
      <3>1. i + 1 \in 1..(Len(s) - 1) /\ i \in 1..Len(z) /\ i + 1 \in 1..Len(z)
        BY <1>1
      <3>2. Awaits(s[(i + 1) + 1], s[i + 1].type)
        BY <1>3, <3>1 DEF Linked
      <3> QED BY <1>2, <3>1, <3>2
    <2>2. ASSUME z # <<>> PROVE Awaits(z[1], s[1].type)
      <3>1. 1 \in 1..(Len(s) - 1) /\ 1 \in 1..Len(z)
        BY <1>1, <2>2
      <3>2. Awaits(s[1 + 1], s[1].type)
        BY <1>3, <3>1 DEF Linked
      <3> QED BY <1>2, <3>1, <3>2
    <2> QED BY <2>1, <2>2 DEF Linked
  <1>4. Current(s) => Current(z)
    BY <1>2 DEF Current
  <1>5. \A B : AllSupplied(s, B) => AllSupplied(z, B)
    BY <1>2 DEF AllSupplied
  <1>6. ASSUME NEW t, Path(s, t) PROVE Path(z, t)
    <2>1. \A i, j \in 1..Len(z) : i < j => i + 1 < j + 1
      BY <1>1
    <2> QED BY <1>2, <1>6, <2>1 DEF Path
  <1>7. \A t : AllReal(s, t) => AllReal(z, t)
    BY <1>2 DEF AllReal
  <1> QED BY <1>3, <1>4, <1>5, <1>6, <1>7 DEF z

\* and a new frame for the type that the top frame waits for.
LEMMA PushGraph ==
  ASSUME TypeOK, NEW s, SoundStack(s), NEW f, Sound(f), f.phase = "mark", f.next = 1, f.prov = providers[f.type],
         s = <<>> \/ Awaits(s[1], f.type)
  PROVE  LET z == <<f>> \o s IN
         /\ Linked(s) => Linked(z)
         /\ Current(s) => Current(z)
         /\ \A B : AllSupplied(s, B) => AllSupplied(z, B)
         /\ \A t \in Types : Current(s) /\ Path(s, t) /\ (s = <<>> => t = f.type) => Path(z, t)
         /\ \A t : AllReal(s, t) => AllReal(z, t)
  <1> DEFINE z == <<f>> \o s
  <1>1. /\ Len(z) = Len(s) + 1 /\ z[1] = f /\ Len(s) \in Nat /\ s \in Seq(Frame)
        /\ \A i \in 1..Len(s) : z[i + 1] = s[i]
    BY PushFrame DEF SoundStack, Sound
  <1> HIDE DEF z
  <1>2. \A i \in 1..Len(z) : i = 1 \/ (i - 1 \in 1..Len(s) /\ z[i] = s[i - 1] /\ i - 1 \in Nat)
    <2> SUFFICES ASSUME NEW i \in 1..Len(z), i # 1 PROVE i - 1 \in 1..Len(s) /\ z[i] = s[i - 1]
      OBVIOUS
    <2>1. i - 1 \in 1..Len(s) /\ (i - 1) + 1 = i
      BY <1>1
    <2> QED BY <1>1, <2>1
  <1>3. ASSUME Linked(s) PROVE Linked(z)
    <2> SUFFICES ASSUME NEW i \in 1..(Len(z) - 1) PROVE Awaits(z[i + 1], z[i].type)
      BY DEF Linked
    <2>1. i \in 1..Len(s) /\ z[i + 1] = s[i]
      BY <1>1
    <2>2. CASE i = 1
      BY <1>1, <2>1, <2>2
    <2>3. CASE i # 1
      <3>1. i - 1 \in 1..(Len(s) - 1) /\ (i - 1) + 1 = i /\ i \in 1..Len(z)
        BY <1>1, <2>3
      <3>2. Awaits(s[i], s[i - 1].type)
        BY <1>3, <3>1 DEF Linked
      <3>3. z[i] = s[i - 1]
        BY <1>2, <2>3, <3>1
      <3> QED BY <2>1, <3>2, <3>3
    <2> QED BY <2>2, <2>3
  <1>4. Current(s) => Current(z)
    BY <1>1, <1>2 DEF Current
  <1>5. ASSUME NEW B, AllSupplied(s, B) PROVE AllSupplied(z, B)
    <2>1. Supplied(f, B)
      <3>1. Params[f.prov] \in Seq(Types)
        BY ContainerAssumption DEF ContainerAssumption, Sound, Frame
      <3> QED BY <3>1 DEF Supplied
    <2> QED BY <1>1, <1>2, <1>5, <2>1 DEF AllSupplied
  <1>6. ASSUME NEW t \in Types, Current(s), Path(s, t), s = <<>> => t = f.type PROVE Path(z, t)
    <2>1. CASE s = <<>>
      BY <1>1, <1>6, <2>1 DEF Path
    <2>2. CASE s # <<>>
      <3>4. f.type \in Needs(t) /\ \A j \in 1..Len(s) : f.type \in Needs(s[j].type)
        BY <1>6, <2>2, DependsOnAll
      <3>6. \A i \in 1..Len(z) : z[i].type \in {t} \cup Needs(t)
        BY <1>1, <1>2, <1>6, <3>4 DEF Path
      <3>7. ASSUME NEW i \in 1..Len(z), NEW j \in 1..Len(z), i < j PROVE z[i].type \in Needs(z[j].type)
        <4>1. j - 1 \in 1..Len(s) /\ z[j] = s[j - 1]
          BY <1>1, <1>2, <3>7
        <4>2. CASE i = 1
          BY <1>1, <3>4, <4>1, <4>2
        <4>3. CASE i # 1
          <5>1. i - 1 \in 1..Len(s) /\ z[i] = s[i - 1] /\ i - 1 < j - 1
            BY <1>1, <1>2, <3>7, <4>3
          <5> QED BY <1>6, <4>1, <5>1 DEF Path
        <4> QED BY <4>2, <4>3
      <3> QED BY <3>6, <3>7 DEF Path
    <2> QED BY <2>1, <2>2
  <1>7. ASSUME NEW t, AllReal(s, t) PROVE AllReal(z, t)
    BY <1>1, <1>2, <1>7 DEF AllReal
  <1> QED BY <1>3, <1>4, <1>5, <1>6, <1>7 DEF z

\* A frame gets what it waits for, or the error.
LEMMA DeliverGraph ==
  ASSUME NEW s, SoundStack(s), NEW u, s = <<>> \/ Awaits(s[1], u), NEW r \in Result
  PROVE  LET z == DeliverStack(r, s) IN
         /\ Len(z) = Len(s) /\ (z = <<>> <=> s = <<>>)
         /\ Linked(s) => Linked(z)
         /\ Current(s) => Current(z)
         /\ \A B : AllSupplied(s, B) /\ (r.kind = "ok" => u \in B) => AllSupplied(z, B)
         /\ \A t : Path(s, t) => Path(z, t)
         /\ \A t : AllReal(s, t) /\ Real(r, t) => AllReal(z, t)
  <1>1. CASE s = <<>>
    BY <1>1 DEF DeliverStack, AllSupplied, AllReal
  <1>2. CASE s # <<>>
    <2>1. Head(s) = s[1] /\ Len(s) >= 1 /\ Len(s) \in Nat /\ s[1] \in Frame /\ 1 \in 1..Len(s)
      BY <1>2, PopFrame DEF SoundStack
    <2> DEFINE f == IF r.kind = "ok" THEN [s[1] EXCEPT !.next = @ + 1]
                                     ELSE [s[1] EXCEPT !.phase = "unwind", !.result = r]
    <2>2. DeliverStack(r, s) = <<f>> \o Tail(s)
      BY <1>2, <2>1 DEF DeliverStack
    <2>5. ASSUME f \in Frame, f.type = s[1].type, f.prov = s[1].prov
          PROVE  LET z == DeliverStack(r, s) IN
                 /\ Len(z) = Len(s) /\ z # <<>>
                 /\ Linked(s) => Linked(z)
                 /\ Current(s) => Current(z)
                 /\ \A B : AllSupplied(s, B) /\ Supplied(f, B) => AllSupplied(z, B)
                 /\ \A t : Path(s, t) => Path(z, t)
                 /\ \A t : AllReal(s, t) /\ (f.phase = "unwind" => Real(f.result, t)) => AllReal(z, t)
      <3> HIDE DEF f
      <3> DEFINE z == <<f>> \o Tail(s)
      <3>1. /\ Len(z) = Len(s)
            /\ Linked(s) => Linked(z)
            /\ Current(s) => Current(z)
            /\ \A B : AllSupplied(s, B) /\ Supplied(f, B) => AllSupplied(z, B)
            /\ \A t : Path(s, t) => Path(z, t)
            /\ \A t : AllReal(s, t) /\ (f.phase = "unwind" => Real(f.result, t)) => AllReal(z, t)
        BY <1>2, <2>5, SetGraph
      <3> HIDE DEF z
      <3>2. z # <<>>
        BY <2>1, <3>1
      <3> QED BY <2>2, <3>1, <3>2 DEF z
    <2>3. CASE r.kind = "ok"
      <3>1. f = [s[1] EXCEPT !.next = @ + 1]
        BY <2>3
      <3> HIDE DEF f
      <3>2. /\ f \in Frame /\ f.type = s[1].type /\ f.prov = s[1].prov /\ f.phase = s[1].phase
            /\ f.next = s[1].next + 1 /\ f.result = s[1].result /\ f.next \in Nat /\ s[1].next \in Nat
        BY <2>1, <3>1 DEF Frame
      <3>3. ASSUME NEW B, Supplied(s[1], B), u \in B PROVE Supplied(f, B)
        <4>0. Params[f.prov] \in Seq(Types) /\ Fields[f.prov] \in Seq(Types)
          BY <3>2, ContainerAssumption DEF ContainerAssumption, Frame
        <4>1. CASE s[1].phase = "params" /\ Params[s[1].prov][s[1].next] = u
          <5>1. ASSUME NEW n \in DOMAIN Params[f.prov], n < f.next PROVE Params[f.prov][n] \in B
            <6>1. n < s[1].next \/ n = s[1].next
              BY <3>2, <4>0, <5>1
            <6> QED BY <3>2, <3>3, <4>1, <6>1 DEF Supplied
          <5> QED BY <3>2, <4>1, <5>1 DEF Supplied
        <4>2. CASE s[1].phase = "fields" /\ Fields[s[1].prov][s[1].next] = u
          <5>1. ASSUME NEW n \in DOMAIN Fields[f.prov], n < f.next PROVE Fields[f.prov][n] \in B
            <6>1. n < s[1].next \/ n = s[1].next
              BY <3>2, <4>0, <5>1
            <6> QED BY <3>2, <3>3, <4>2, <6>1 DEF Supplied
          <5> QED BY <3>2, <3>3, <4>2, <5>1 DEF Supplied
        <4> QED BY <1>2, <4>1, <4>2 DEF Awaits
      <3>4. \A t : AllReal(s, t) => (f.phase = "unwind" => Real(f.result, t))
        BY <2>1, <3>2 DEF AllReal
      <3>5. \A B : AllSupplied(s, B) => Supplied(s[1], B)
        BY <2>1 DEF AllSupplied
      <3> QED BY <1>2, <2>2, <2>3, <2>5, <3>2, <3>3, <3>4, <3>5
    <2>4. CASE r.kind # "ok"
      <3>1. f = [s[1] EXCEPT !.phase = "unwind", !.result = r]
        BY <2>4
      <3> HIDE DEF f
      <3>2. f \in Frame /\ f.type = s[1].type /\ f.prov = s[1].prov /\ f.phase = "unwind" /\ f.result = r
        BY <2>1, <3>1 DEF Frame
      <3>3. \A B : Supplied(f, B)
        BY <2>4, <3>2 DEF Supplied
      <3> QED BY <1>2, <2>2, <2>4, <2>5, <3>2, <3>3
    <2> QED BY <2>3, <2>4
  <1> QED BY <1>1, <1>2

-----------------------------------------------------------------------------

\* A step that leaves the constructors alone leaves the graph alone.
LEMMA SameGraph ==
  ASSUME UNCHANGED providers
  PROVE  /\ \A C : Acyclic(C)' <=> Acyclic(C)
         /\ \A t : Needs(t)' = Needs(t)
         /\ \A t : ReachesCycle(t)' <=> ReachesCycle(t)
  <1>1. \A t : DepsOf(t)' = DepsOf(t)
    BY DEF DepsOf
  <1>2. \A S : Closed(S)' <=> Closed(S)
    BY <1>1 DEF Closed
  <1>3. \A t : Needs(t)' = Needs(t)
    BY <1>1, <1>2 DEF Needs
  <1>4. \A t : OnCycle(t)' <=> OnCycle(t)
    BY <1>3 DEF OnCycle
  <1>5. \A C : Acyclic(C)' <=> Acyclic(C)
    BY <1>2, <1>4 DEF Acyclic
  <1>6. \A t : ReachesCycle(t)' <=> ReachesCycle(t)
    BY <1>3, <1>4 DEF ReachesCycle
  <1> QED BY <1>3, <1>5, <1>6

\* What a lookup does: a new frame, or a result for whoever waits for the type.
LEMMA LookupShape ==
  ASSUME TypeOK, NEW g \in Goroutines, NEW t \in Types, Lookup(g, t), UNCHANGED container
  PROVE  \/ \E f \in Frame :
              /\ Sound(f) /\ f.phase = "mark" /\ f.next = 1 /\ f.type = t /\ f.prov = providers[t]
              /\ stack' = [stack EXCEPT ![g] = <<f>> \o stack[g]] /\ UNCHANGED <<handed, result>>
         \/ \E r \in Result :
              /\ Deliver(g, t, r, stack[g])
              /\ r.kind = "ok" => resolved[t] # None \/ DepsOf(t) = {}
              /\ r.kind = "cycle" => t \in resolving
              /\ r.kind = "missing" => providers[t] = None /\ Implementers[t] = {}
  <1>1. CASE LookupCached(g, t)
    <2>1. Ok(resolved[t]) \in Result /\ Ok(resolved[t]).kind = "ok"
      BY <1>1, OkIsResult DEF TypeOK, LookupCached, Ok
    <2> QED BY <1>1, <2>1 DEF LookupCached
  <1>2. CASE LookupMarked(g, t)
    <2>1. Err("cycle") \in Result /\ Err("cycle").kind = "cycle"
      BY ErrIsResult DEF Failure, Err
    <2> QED BY <1>2, <2>1 DEF LookupMarked
  <1>3. CASE LookupService(g, t)
    <2>1. PICK s \in Implementers[t] : Deliver(g, t, Ok([from |-> s, n |-> 0]), stack[g])
      BY <1>3 DEF LookupService
    <2>2. s \in Services
      BY <2>1, ContainerAssumption DEF ContainerAssumption
    <2>3. Ok([from |-> s, n |-> 0]) \in Result /\ Ok([from |-> s, n |-> 0]).kind = "ok"
      BY <2>2, OkIsResult DEF Instance, Ok
    <2>4. DepsOf(t) = {}
      BY <1>3 DEF LookupService, DepsOf
    <2> QED BY <2>1, <2>3, <2>4
  <1>4. CASE LookupMissing(g, t)
    <2>1. Err("missing") \in Result /\ Err("missing").kind = "missing"
      BY ErrIsResult DEF Failure, Err
    <2> QED BY <1>4, <2>1 DEF LookupMissing
  <1>5. CASE LookupProvider(g, t)
    <2> DEFINE f == [type |-> t, prov |-> providers[t], phase |-> "mark", next |-> 1,
                     instance |-> None, result |-> None]
    <2>1. providers[t] \in Providers /\ Out[providers[t]] = t
      BY <1>5 DEF TypeOK, LookupProvider
    <2>2. Sound(f) /\ f \in Frame
      BY <2>1 DEF Sound, Frame
    <2>3. f.phase = "mark" /\ f.next = 1 /\ f.type = t /\ f.prov = providers[t]
      OBVIOUS
    <2>4. stack' = [stack EXCEPT ![g] = <<f>> \o stack[g]] /\ UNCHANGED <<handed, result>>
      BY <1>5 DEF LookupProvider
    <2> HIDE DEF f
    <2> QED BY <2>2, <2>3, <2>4
  <1> QED BY <1>1, <1>2, <1>3, <1>4, <1>5 DEF Lookup

\* A lookup comes from the top frame of a stack, or begins one.
Asks(g, t) == Idle(g) \/ Awaits(Top(g), t)

LEMMA Asked ==
  ASSUME TypeOK, NEW g \in Goroutines, ResolveParam(g) \/ InjectField(g)
  PROVE  /\ ~Idle(g) /\ UNCHANGED <<container, target, alone>>
         /\ \E t \in Types : Asks(g, t) /\ Lookup(g, t)
  <1>1. ~Idle(g)
    BY DEF ResolveParam, InjectField, InPhase
  <1>2. Sound(Top(g))
    BY <1>1, TopIsSound
  <1>3. /\ Params[Top(g).prov] \in Seq(Types) /\ Fields[Top(g).prov] \in Seq(Types)
        /\ Top(g).next \in Nat \ {0}
    BY <1>2, ContainerAssumption DEF ContainerAssumption, Sound, Frame
  <1>4. CASE ResolveParam(g)
    <2>1. /\ Top(g).phase = "params" /\ Top(g).next \in DOMAIN Params[Top(g).prov]
          /\ Lookup(g, Params[Top(g).prov][Top(g).next]) /\ Params[Top(g).prov][Top(g).next] \in Types
      BY <1>3, <1>4 DEF ResolveParam, InPhase
    <2> QED BY <1>1, <1>4, <2>1 DEF Asks, Awaits, ResolveParam
  <1>5. CASE InjectField(g)
    <2>1. /\ Top(g).phase = "fields" /\ Top(g).next \in DOMAIN Fields[Top(g).prov]
          /\ Lookup(g, Fields[Top(g).prov][Top(g).next]) /\ Fields[Top(g).prov][Top(g).next] \in Types
      BY <1>3, <1>5 DEF InjectField, InPhase
    <2> QED BY <1>1, <1>5, <2>1 DEF Asks, Awaits, InjectField
  <1> QED BY <1>4, <1>5

\* The other steps replace the top frame.
TopStep(g) == Mark(g) \/ Construct(g) \/ ConstructFails(g) \/ InjectFails(g) \/ Store(g)

LEMMA TopShape ==
  ASSUME TypeOK, NEW g \in Goroutines, TopStep(g)
  PROVE  /\ ~Idle(g) /\ UNCHANGED <<providers, target, result, handed, alone>>
         /\ \E f \in Frame :
              /\ SetTop(g, f) /\ f.type = Top(g).type /\ f.prov = Top(g).prov
              /\ f.phase = "unwind" => f.result.kind \notin {"cycle", "missing"}
              /\ \A B : Supplied(Top(g), B) =>
                   \/ Supplied(f, B) /\ UNCHANGED resolved
                   \/ /\ Supplied(f, B \cup {Top(g).type})
                      /\ resolved' = [resolved EXCEPT ![Top(g).type] = Top(g).instance]
                      /\ Top(g).prov = providers[Top(g).type] => DepsOf(Top(g).type) \subseteq B
  <1>0. ~Idle(g) /\ UNCHANGED <<providers, target, result, handed, alone>>
    BY DEF TopStep, Mark, Construct, ConstructFails, InjectFails, Store, InPhase, container, history
  <1>1. Sound(Top(g)) /\ Top(g) \in Frame
    BY <1>0, TopIsSound DEF Sound
  <1>2. /\ Params[Top(g).prov] \in Seq(Types) /\ Fields[Top(g).prov] \in Seq(Types)
        /\ Top(g).next \in Nat \ {0} /\ Top(g).prov \in Providers /\ built \in Nat
    BY <1>1, ContainerAssumption DEF ContainerAssumption, Frame, TypeOK
  <1> DEFINE k == Top(g)
  <1>3. CASE Mark(g)
    <2> DEFINE f == [k EXCEPT !.phase = "params"]
    <2>1. k.phase = "mark" /\ SetTop(g, f) /\ UNCHANGED resolved
      BY <1>3 DEF Mark, InPhase, history
    <2>2. f \in Frame /\ f.type = k.type /\ f.prov = k.prov /\ f.phase = "params" /\ f.next = k.next
      BY <1>1 DEF Frame
    <2> HIDE DEF f
    <2>3. \A B : Supplied(k, B) => Supplied(f, B)
      BY <2>1, <2>2 DEF Supplied
    <2> QED BY <1>0, <2>1, <2>2, <2>3
  <1>4. CASE Construct(g)
    <2> DEFINE i == [from |-> k.prov, n |-> built + 1]
               f == [k EXCEPT !.phase = "fields", !.next = 1, !.instance = i]
    <2>1. k.phase = "params" /\ k.next > Len(Params[k.prov]) /\ SetTop(g, f) /\ UNCHANGED resolved
      BY <1>4 DEF Construct, InPhase, container
    <2>2. i \in Instance
      BY <1>2 DEF Instance
    <2> HIDE DEF i
    <2>3. f \in Frame /\ f.type = k.type /\ f.prov = k.prov /\ f.phase = "fields" /\ f.next = 1
      <3>0. k \in Frame
        BY <1>1
      <3> HIDE DEF k
      <3>1. [k EXCEPT !.next = 1] \in Frame
        BY <3>0 DEF Frame
      <3>2. [[k EXCEPT !.next = 1] EXCEPT !.instance = i] \in Frame
        BY <2>2, <3>1 DEF Frame
      <3>3. f = [[[k EXCEPT !.next = 1] EXCEPT !.instance = i] EXCEPT !.phase = "fields"]
        BY <3>0 DEF Frame
      <3>4. f \in Frame
        BY <3>2, <3>3 DEF Frame
      <3>5. f.type = k.type /\ f.prov = k.prov /\ f.phase = "fields" /\ f.next = 1
        BY <3>0 DEF Frame
      <3> QED BY <3>4, <3>5
    <2> HIDE DEF f
    <2>4. \A B : Supplied(k, B) => Supplied(f, B)
      BY <1>2, <2>1, <2>3 DEF Supplied
    <2> QED BY <1>0, <2>1, <2>3, <2>4
  <1>5. CASE ConstructFails(g) \/ InjectFails(g)
    <2>1. PICK e \in {"constructor", "unexported"} :
            SetTop(g, [k EXCEPT !.phase = "unwind", !.result = Err(e)]) /\ UNCHANGED resolved
      BY <1>5 DEF ConstructFails, InjectFails, container
    <2> DEFINE f == [k EXCEPT !.phase = "unwind", !.result = Err(e)]
    <2>2. Err(e) \in Result /\ Err(e).kind = e
      BY <2>1, ErrIsResult DEF Failure, Err
    <2>3. f \in Frame /\ f.type = k.type /\ f.prov = k.prov /\ f.phase = "unwind" /\ f.result.kind = e
      BY <1>1, <2>2 DEF Frame
    <2> HIDE DEF f
    <2>4. \A B : Supplied(f, B)
      BY <2>3 DEF Supplied
    <2> QED BY <1>0, <2>1, <2>3, <2>4 DEF f
  <1>6. CASE Store(g)
    <2> DEFINE f == [k EXCEPT !.phase = "unwind", !.result = Ok(k.instance)]
    <2>1. /\ k.phase = "fields" /\ k.next > Len(Fields[k.prov]) /\ SetTop(g, f)
          /\ resolved' = [resolved EXCEPT ![k.type] = k.instance]
      BY <1>6 DEF Store, InPhase
    <2>2. Ok(k.instance) \in Result /\ Ok(k.instance).kind = "ok"
      BY <1>1, <2>1, OkIsResult DEF Sound, Ok
    <2>3. f \in Frame /\ f.type = k.type /\ f.prov = k.prov /\ f.phase = "unwind" /\ f.result.kind = "ok"
      BY <1>1, <2>2 DEF Frame
    <2> HIDE DEF f
    <2>4. \A B : Supplied(f, B \cup {k.type})
      BY <2>3 DEF Supplied
    <2>5. ASSUME NEW B, Supplied(k, B), k.prov = providers[k.type] PROVE DepsOf(k.type) \subseteq B
      <3>1. \A n \in DOMAIN Params[k.prov] : Params[k.prov][n] \in B
        BY <2>1, <2>5 DEF Supplied
      <3>2. \A n \in DOMAIN Fields[k.prov] : Fields[k.prov][n] \in B
        BY <1>2, <2>1, <2>5 DEF Supplied
      <3> QED BY <2>5, <3>1, <3>2 DEF DepsOf, Entries
    <2> QED BY <1>0, <2>1, <2>3, <2>4, <2>5
  <1> QED BY <1>3, <1>4, <1>5, <1>6 DEF TopStep

\* A frame returns its result to the frame below.
LEMMA UnwindShape ==
  ASSUME TypeOK, NEW g \in Goroutines, Unwind(g)
  PROVE  /\ ~Idle(g) /\ UNCHANGED <<providers, resolved, target, alone>>
         /\ Top(g).result \in Result /\ Top(g).type \in Types /\ Top(g).phase = "unwind"
         /\ Deliver(g, Top(g).type, Top(g).result, Tail(stack[g]))
  <1>1. ~Idle(g) /\ Top(g).phase = "unwind"
    BY DEF Unwind, InPhase
  <1>2. Sound(Top(g))
    BY <1>1, TopIsSound
  <1> QED BY <1>1, <1>2 DEF Unwind, Sound, Frame

-----------------------------------------------------------------------------

\* Other goroutines' stacks do not change, so one has to be looked at.
LEMMA OneStackLinked ==
  ASSUME TypeOK, AllLinked, NEW g \in Goroutines, NEW z, stack' = [stack EXCEPT ![g] = z], Linked(z)
  PROVE  AllLinked'
  BY DEF TypeOK, AllLinked, Linked

LEMMA DeliverLinked ==
  ASSUME TypeOK, AllLinked, NEW g \in Goroutines, NEW t, NEW u, NEW r \in Result, NEW s, SoundStack(s), Linked(s),
         s = <<>> \/ Awaits(s[1], u), Deliver(g, t, r, s)
  PROVE  AllLinked'
  <1>1. stack' = [stack EXCEPT ![g] = DeliverStack(r, s)]
    BY DEF Deliver, DeliverStack
  <1>2. Linked(DeliverStack(r, s))
    BY DeliverGraph
  <1> QED BY <1>1, <1>2, OneStackLinked

LEMMA LookupLinked ==
  ASSUME TypeOK, AllLinked, NEW g \in Goroutines, NEW t \in Types, Asks(g, t), Lookup(g, t), UNCHANGED container
  PROVE  AllLinked'
  <1>1. SoundStack(stack[g]) /\ Linked(stack[g])
    BY StacksAreSound DEF AllLinked
  <1>2. stack[g] = <<>> \/ Awaits(stack[g][1], t)
    BY <1>1 DEF Asks, Idle, Top, SoundStack
  <1>3. ASSUME NEW f \in Frame, Sound(f), f.phase = "mark", f.next = 1, f.type = t, f.prov = providers[t],
               stack' = [stack EXCEPT ![g] = <<f>> \o stack[g]]
        PROVE  AllLinked'
    <2>1. Linked(<<f>> \o stack[g])
      BY <1>1, <1>2, <1>3, PushGraph
    <2> QED BY <1>3, <2>1, OneStackLinked
  <1>4. ASSUME NEW r \in Result, Deliver(g, t, r, stack[g]) PROVE AllLinked'
    BY <1>1, <1>2, <1>4, DeliverLinked
  <1> QED BY <1>3, <1>4, LookupShape

\* The stack below a frame that returns waits for its type.
LEMMA UnwindBelow ==
  ASSUME TypeOK, AllLinked, NEW g \in Goroutines, ~Idle(g)
  PROVE  LET s == Tail(stack[g]) IN
         /\ SoundStack(s) /\ SoundStack(stack[g]) /\ Linked(s) /\ (s = <<>> \/ Awaits(s[1], Top(g).type))
         /\ Top(g) = stack[g][1] /\ stack[g] # <<>> /\ 1 \in 1..Len(stack[g])
  <1>1. /\ SoundStack(stack[g]) /\ stack[g] # <<>> /\ Linked(stack[g]) /\ SoundStack(Tail(stack[g]))
        /\ stack[g] \in Seq(Frame)
    BY StacksAreSound, TopIsSound DEF AllLinked, Idle
  <1>2. Top(g) = stack[g][1] /\ 1 \in 1..Len(stack[g])
    BY <1>1 DEF Top
  <1> QED BY <1>1, <1>2, TailGraph

LEMMA StepLinked ==
  ASSUME TypeOK, AllLinked, NEW g \in Goroutines, Step(g)
  PROVE  AllLinked'
  <1>1. CASE ResolveParam(g) \/ InjectField(g)
    BY <1>1, Asked, LookupLinked
  <1>2. CASE TopStep(g)
    <2>1. ~Idle(g)
      BY <1>2, TopShape
    <2>2. PICK f \in Frame : SetTop(g, f) /\ f.type = Top(g).type /\ f.prov = Top(g).prov
      BY <1>2, TopShape
    <2>3. stack' = [stack EXCEPT ![g] = <<f>> \o Tail(stack[g])]
      BY <2>2 DEF SetTop
    <2>4. Linked(<<f>> \o Tail(stack[g]))
      BY <2>1, <2>2, UnwindBelow, SetGraph DEF AllLinked
    <2> QED BY <2>3, <2>4, OneStackLinked
  <1>3. CASE Unwind(g)
    BY <1>3, UnwindShape, UnwindBelow, DeliverLinked
  <1> QED BY <1>1, <1>2, <1>3 DEF Step, TopStep

LEMMA LinkedHolds == Spec => []AllLinked
  <1>1. Init => AllLinked
    BY DEF Init, AllLinked, Linked
  <1>2. TypeOK /\ AllLinked /\ [Next]_vars => AllLinked'
    <2> SUFFICES ASSUME TypeOK, AllLinked, [Next]_vars PROVE AllLinked'
      OBVIOUS
    <2>1. CASE UNCHANGED stack
      BY <2>1 DEF AllLinked, Linked
    <2>2. ASSUME NEW g \in Goroutines, Step(g) PROVE AllLinked'
      BY <2>2, StepLinked
    <2>3. ASSUME NEW g \in Goroutines, NEW t \in Types, Resolve(g, t) PROVE AllLinked'
      BY <2>3, LookupLinked DEF Resolve, Asks
    <2> QED BY <2>1, <2>2, <2>3 DEF Next, Override, Provide, vars
  <1> QED BY <1>1, <1>2, TypeCorrect, PTL DEF Spec

-----------------------------------------------------------------------------

\* What was built and what is built, when the step of one goroutine has added to it.
LEMMA BuiltGrows ==
  ASSUME TypeOK, TypeOK', NEW B \in SUBSET Types, Covers(B), NEW C, Acyclic(C), B \subseteq C, UNCHANGED providers,
         NEW g \in Goroutines, NEW z, stack' = [stack EXCEPT ![g] = z], Current(z), AllSupplied(z, C),
         \A t \in Types : resolved'[t] # None \/ handed'[t] # {} => resolved[t] # None \/ handed[t] # {} \/ t \in C
  PROVE  BuiltInv'
  <1>1. C \in SUBSET Types /\ Acyclic(C)'
    BY SameGraph DEF Acyclic
  <1>2. \A h \in Goroutines : stack'[h] = IF h = g THEN z ELSE stack[h]
    BY DEF TypeOK
  <1>3. ASSUME NEW s, AllSupplied(s, B) PROVE AllSupplied(s, C)
    BY <1>3 DEF AllSupplied, Supplied
  <1>4. \A h \in Goroutines : \A i \in 1..Len(stack'[h]) : stack'[h][i].prov = providers[stack'[h][i].type]
    BY <1>2 DEF Covers, Current
  <1>5. \A h \in Goroutines : AllSupplied(stack'[h], C)
    BY <1>2, <1>3 DEF Covers
  <1>6. Covers(C)'
    <2>1. \A t \in Types : resolved'[t] # None \/ handed'[t] # {} => t \in C
      BY DEF Covers
    <2>2. \A h \in Goroutines : \A i \in 1..Len(stack'[h]) : Supplied(stack'[h][i], C)
      BY <1>5 DEF AllSupplied
    <2>3. \A h \in Goroutines : Current(stack[h])'
      BY <1>4 DEF Current
    <2>4. \A h \in Goroutines : AllSupplied(stack[h], C)'
      BY <2>2 DEF AllSupplied, Supplied
    <2> QED BY <2>1, <2>3, <2>4 DEF Covers
  <1> QED BY <1>1, <1>6 DEF BuiltInv

LEMMA DeliverBuilt ==
  ASSUME TypeOK, TypeOK', NEW B \in SUBSET Types, Acyclic(B), Covers(B), UNCHANGED <<providers, resolved>>,
         NEW g \in Goroutines, NEW t \in Types, NEW r \in Result, r.kind = "ok" => DepsOf(t) \subseteq B,
         NEW s, SoundStack(s), Current(s), AllSupplied(s, B), s = <<>> \/ Awaits(s[1], t), Deliver(g, t, r, s)
  PROVE  BuiltInv'
  <1>1. stack' = [stack EXCEPT ![g] = DeliverStack(r, s)]
    BY DEF Deliver, DeliverStack
  <1>2. PICK C : /\ Acyclic(C) /\ B \subseteq C /\ (r.kind = "ok" => t \in C)
                 /\ C = B \/ C = B \cup {t}
    BY AcyclicGrows
  <1>3. AllSupplied(s, C)
    BY <1>2 DEF AllSupplied, Supplied
  <1>4. Current(DeliverStack(r, s)) /\ AllSupplied(DeliverStack(r, s), C)
    BY <1>2, <1>3, DeliverGraph
  <1>5. \A u \in Types : handed'[u] # {} => handed[u] # {} \/ u \in C
    BY <1>2 DEF Deliver, TypeOK
  <1> QED BY <1>1, <1>2, <1>4, <1>5, BuiltGrows

LEMMA LookupBuilt ==
  ASSUME TypeOK, TypeOK', BuiltInv, NEW g \in Goroutines, NEW t \in Types, Asks(g, t), Lookup(g, t), UNCHANGED container
  PROVE  BuiltInv'
  <1>0. PICK B \in SUBSET Types : Acyclic(B) /\ Covers(B)
    BY DEF BuiltInv
  <1>1. SoundStack(stack[g]) /\ Current(stack[g]) /\ AllSupplied(stack[g], B)
    BY <1>0, StacksAreSound DEF Covers
  <1>2. stack[g] = <<>> \/ Awaits(stack[g][1], t)
    BY <1>1 DEF Asks, Idle, Top, SoundStack
  <1>3. ASSUME NEW f \in Frame, Sound(f), f.phase = "mark", f.next = 1, f.type = t, f.prov = providers[t],
               stack' = [stack EXCEPT ![g] = <<f>> \o stack[g]], UNCHANGED handed
        PROVE  BuiltInv'
    <2>1. Current(<<f>> \o stack[g]) /\ AllSupplied(<<f>> \o stack[g], B)
      BY <1>1, <1>2, <1>3, PushGraph
    <2> QED BY <1>0, <1>3, <2>1, BuiltGrows DEF container
  <1>4. ASSUME NEW r \in Result, Deliver(g, t, r, stack[g]), r.kind = "ok" => resolved[t] # None \/ DepsOf(t) = {}
        PROVE  BuiltInv'
    <2>1. r.kind = "ok" => DepsOf(t) \subseteq B
      BY <1>0, <1>4 DEF Covers, Acyclic, Closed
    <2> QED BY <1>0, <1>1, <1>2, <1>4, <2>1, DeliverBuilt DEF container
  <1> QED BY <1>3, <1>4, LookupShape

LEMMA StepBuilt ==
  ASSUME TypeOK, TypeOK', AllLinked, BuiltInv, NEW g \in Goroutines, Step(g)
  PROVE  BuiltInv'
  <1>0. PICK B \in SUBSET Types : Acyclic(B) /\ Covers(B)
    BY DEF BuiltInv
  <1>1. CASE ResolveParam(g) \/ InjectField(g)
    BY <1>1, Asked, LookupBuilt
  <1>2. CASE TopStep(g)
    <2>0. /\ SoundStack(stack[g]) /\ stack[g] # <<>> /\ Top(g) = stack[g][1] /\ 1 \in 1..Len(stack[g])
          /\ Current(stack[g]) /\ AllSupplied(stack[g], B) /\ UNCHANGED <<providers, handed>>
      BY <1>0, <1>2, TopShape, UnwindBelow DEF Covers
    <2>1. Supplied(Top(g), B) /\ Top(g).prov = providers[Top(g).type] /\ Top(g).type \in Types
      BY <2>0 DEF AllSupplied, Current, SoundStack, Sound, Frame
    <2>2. PICK f \in Frame :
            /\ SetTop(g, f) /\ f.type = Top(g).type /\ f.prov = Top(g).prov
            /\ \/ Supplied(f, B) /\ UNCHANGED resolved
               \/ /\ Supplied(f, B \cup {Top(g).type})
                  /\ resolved' = [resolved EXCEPT ![Top(g).type] = Top(g).instance]
                  /\ DepsOf(Top(g).type) \subseteq B
      BY <1>2, <2>1, TopShape
    <2>3. PICK C : /\ Acyclic(C) /\ B \subseteq C /\ Supplied(f, C)
                   /\ \A t \in Types : resolved'[t] # None => resolved[t] # None \/ t \in C
      <3>1. CASE Supplied(f, B) /\ UNCHANGED resolved
        BY <1>0, <3>1
      <3>2. CASE /\ Supplied(f, B \cup {Top(g).type}) /\ DepsOf(Top(g).type) \subseteq B
                 /\ resolved' = [resolved EXCEPT ![Top(g).type] = Top(g).instance]
        <4>1. Acyclic(B \cup {Top(g).type})
          BY <1>0, <2>1, <3>2, AcyclicGrows
        <4>2. \A t \in Types : resolved'[t] # None => resolved[t] # None \/ t \in B \cup {Top(g).type}
          BY <3>2 DEF TypeOK
        <4> QED BY <3>2, <4>1, <4>2
      <3> QED BY <2>2, <3>1, <3>2
    <2>4. AllSupplied(stack[g], C)
      BY <2>0, <2>3 DEF AllSupplied, Supplied
    <2>5. Current(<<f>> \o Tail(stack[g])) /\ AllSupplied(<<f>> \o Tail(stack[g]), C)
      BY <2>0, <2>2, <2>3, <2>4, SetGraph
    <2>6. stack' = [stack EXCEPT ![g] = <<f>> \o Tail(stack[g])]
      BY <2>2 DEF SetTop
    <2> QED BY <1>0, <2>0, <2>3, <2>5, <2>6, BuiltGrows
  <1>3. CASE Unwind(g)
    <2> DEFINE s == Tail(stack[g])
    <2>1. /\ ~Idle(g) /\ UNCHANGED <<providers, resolved>> /\ Top(g).result \in Result /\ Top(g).type \in Types
          /\ Top(g).phase = "unwind" /\ Deliver(g, Top(g).type, Top(g).result, s)
      BY <1>3, UnwindShape
    <2>2. /\ SoundStack(s) /\ (s = <<>> \/ Awaits(s[1], Top(g).type)) /\ SoundStack(stack[g])
          /\ Top(g) = stack[g][1] /\ stack[g] # <<>> /\ 1 \in 1..Len(stack[g])
      BY <2>1, UnwindBelow
    <2>3. Current(stack[g]) /\ AllSupplied(stack[g], B)
      BY <1>0 DEF Covers
    <2>4. Current(s) /\ AllSupplied(s, B)
      BY <2>2, <2>3, TailGraph
    <2>5. Top(g).result.kind = "ok" => Top(g).type \in B
      BY <2>1, <2>2, <2>3 DEF AllSupplied, Supplied
    <2>6. Top(g).result.kind = "ok" => DepsOf(Top(g).type) \subseteq B
      BY <1>0, <2>5 DEF Acyclic, Closed
    <2> HIDE DEF s
    <2> QED BY <1>0, <2>1, <2>2, <2>4, <2>6, DeliverBuilt
  <1> QED BY <1>1, <1>2, <1>3 DEF Step, TopStep

LEMMA NextBuilt ==
  ASSUME TypeOK, AllLinked, BuiltInv, [Next]_vars, UNCHANGED providers
  PROVE  BuiltInv'
  <1>0. TypeOK'
    BY NextTypeOK
  <1>1. ASSUME UNCHANGED stack, \A t \in Types : /\ resolved'[t] = resolved[t] \/ resolved'[t] = None
                                                 /\ handed'[t] = handed[t] \/ handed'[t] = {}
        PROVE  BuiltInv'
    <2>1. PICK B \in SUBSET Types : Acyclic(B) /\ Covers(B)
      BY DEF BuiltInv
    <2>2. Acyclic(B)'
      BY <2>1, SameGraph
    <2>3. Covers(B)'
      BY <1>1, <2>1 DEF Covers, Current, AllSupplied, Supplied
    <2> QED BY <2>2, <2>3 DEF BuiltInv
  <1>2. CASE UNCHANGED vars
    BY <1>1, <1>2 DEF vars, container, history
  <1>3. ASSUME NEW g \in Goroutines, Step(g) PROVE BuiltInv'
    BY <1>0, <1>3, StepBuilt
  <1>4. ASSUME NEW g \in Goroutines, NEW t \in Types, Resolve(g, t) PROVE BuiltInv'
    BY <1>0, <1>4, LookupBuilt DEF Resolve, Asks
  <1>5. ASSUME NEW p \in Overrides, Override(p) PROVE BuiltInv'
    <2>1. /\ UNCHANGED stack /\ resolved' = [resolved EXCEPT ![Out[p]] = None]
          /\ handed' = [handed EXCEPT ![Out[p]] = {}]
      BY <1>5 DEF Override
    <2>2. \A t \in Types : /\ resolved'[t] = resolved[t] \/ resolved'[t] = None
                           /\ handed'[t] = handed[t] \/ handed'[t] = {}
      BY <2>1 DEF TypeOK
    <2> QED BY <1>1, <2>1, <2>2
  <1>6. ASSUME NEW p \in LateProviders, Provide(p) PROVE BuiltInv'
    BY <1>1, <1>6 DEF Provide
  <1> QED BY <1>2, <1>3, <1>4, <1>5, <1>6 DEF Next

\* The steps after which the constructors are no longer those of the start.
LEMMA ChangesAreMarked ==
  ASSUME TypeOK, [Next]_vars, ~changed'
  PROVE  ~changed /\ UNCHANGED providers
  <1>1. CASE UNCHANGED vars
    BY <1>1 DEF vars, container, history
  <1>2. ASSUME NEW g \in Goroutines, Step(g) PROVE ~changed /\ UNCHANGED providers
    BY <1>2 DEF Step, Mark, ResolveParam, Construct, ConstructFails, InjectField, InjectFails, Store, Unwind,
                container, history
  <1>3. ASSUME NEW g \in Goroutines, NEW t \in Types, Resolve(g, t) PROVE ~changed /\ UNCHANGED providers
    BY <1>3 DEF Resolve, container
  <1>4. ASSUME NEW p \in Overrides, Override(p) PROVE FALSE
    BY <1>4 DEF Override
  <1>5. ASSUME NEW p \in LateProviders, Provide(p) PROVE ~changed /\ UNCHANGED providers
    BY <1>5 DEF Provide
  <1> QED BY <1>1, <1>2, <1>3, <1>4, <1>5 DEF Next

\* Until a constructor is replaced or added, nothing that leads into a cycle is
\* cached or handed out, whoever asks and however the resolutions interleave.
THEOREM CyclesStayRefused == Spec => []CyclesAreRefused
  <1> DEFINE Inv == ~changed => BuiltInv
  <1>1. Init => Inv
    <2> SUFFICES ASSUME Init PROVE BuiltInv
      OBVIOUS
    <2>1. Acyclic({})
      BY DEF Acyclic, Closed
    <2>2. Covers({})
      BY DEF Init, Covers, Current, AllSupplied
    <2>3. Acyclic({}) /\ {} \in SUBSET Types
      BY <2>1
    <2> QED BY <2>2, <2>3 DEF BuiltInv
  <1>2. TypeOK /\ AllLinked /\ Inv /\ [Next]_vars => Inv'
    BY NextBuilt, ChangesAreMarked
  <1>3. TypeOK /\ Inv => CyclesAreRefused
    <2> SUFFICES ASSUME TypeOK, BuiltInv, NEW t \in Types, resolved[t] # None \/ handed[t] # {}
                 PROVE  ~ReachesCycle(t)
      BY DEF CyclesAreRefused
    <2>1. PICK B \in SUBSET Types : Acyclic(B) /\ Covers(B)
      BY DEF BuiltInv
    <2>2. t \in B /\ DepsOf(t) \subseteq B
      BY <2>1 DEF Covers, Acyclic, Closed
    <2>3. Needs(t) \subseteq B
      BY <2>1, <2>2, NeedsFacts DEF Acyclic
    <2> QED BY <2>1, <2>2, <2>3 DEF ReachesCycle, Acyclic
  <1> QED BY <1>1, <1>2, <1>3, TypeCorrect, LinkedHolds, PTL DEF Spec

-----------------------------------------------------------------------------

\* What is known of errors and paths depends on the constructors alone.
LEMMA SamePaths ==
  ASSUME UNCHANGED providers
  PROVE  /\ \A r, t : Real(r, t)' <=> Real(r, t)
         /\ \A s : Current(s)' <=> Current(s)
         /\ \A s, t : Path(s, t)' <=> Path(s, t)
         /\ \A s, t : AllReal(s, t)' <=> AllReal(s, t)
  <1>1. \A r, t : Real(r, t)' <=> Real(r, t)
    BY SameGraph DEF Real
  <1>2. \A s : Current(s)' <=> Current(s)
    BY DEF Current
  <1>3. \A s, t : Path(s, t)' <=> Path(s, t)
    BY SameGraph DEF Path
  <1>4. \A s, t : AllReal(s, t)' <=> AllReal(s, t)
    BY <1>1 DEF AllReal
  <1> QED BY <1>1, <1>2, <1>3, <1>4

\* The call of g is still on a path down from t: its stack is z now, or it has
\* returned a result that is not a false error.
OnPath(g, z, t) ==
  /\ stack' = [stack EXCEPT ![g] = z]
  /\ \A h \in Goroutines : h # g => result'[h] = result[h]
  /\ IF z = <<>> THEN Real(result'[g], t) ELSE Current(z) /\ Path(z, t) /\ AllReal(z, t)

\* Only g moves, and while it is alone the others are idle.
LEMMA AloneMoves ==
  ASSUME TypeOK, AloneInv, UNCHANGED providers, NEW g \in Goroutines, NEW z, stack' = [stack EXCEPT ![g] = z],
         \A h \in Goroutines : h # g => result'[h] = result[h] /\ target'[h] = target[h],
         \A h \in alone' : h # g => h \in alone /\ Idle(h),
         g \in alone' => Busy \subseteq {g} /\ target'[g] \in Types /\ OnPath(g, z, target'[g])
  PROVE  AloneInv'
  <1>1. \A h \in Goroutines : stack'[h] = IF h = g THEN z ELSE stack[h]
    BY DEF TypeOK
  <1>2. ASSUME NEW h \in alone', h # g
        PROVE  stack'[h] = <<>> /\ (result'[h] # None => Real(result[h], target[h])')
    <2>1. h \in Goroutines /\ h \in alone /\ Idle(h)
      BY <1>2 DEF TypeOK
    <2>2. result[h] # None => Real(result[h], target[h])
      BY <2>1 DEF AloneInv
    <2>3. result'[h] = result[h] /\ target'[h] = target[h] /\ stack'[h] = <<>>
      BY <1>1, <1>2, <2>1 DEF Idle
    <2> QED BY <2>2, <2>3, SameGraph DEF Real
  <1>3. ASSUME g \in alone', z = <<>> PROVE Real(result[g], target[g])'
    <2>1. Real(result'[g], target'[g])
      BY <1>3 DEF OnPath
    <2> QED BY <2>1, SameGraph DEF Real
  <1>4. ASSUME g \in alone', z # <<>>
        PROVE  /\ Busy' = {g} /\ target'[g] \in Types
               /\ Current(stack[g])' /\ Path(stack[g], target[g])' /\ AllReal(stack[g], target[g])'
    <2>1. Current(z) /\ Path(z, target'[g]) /\ AllReal(z, target'[g]) /\ Busy \subseteq {g}
      BY <1>4 DEF OnPath
    <2>2. stack'[g] = z
      BY <1>1
    <2>3. Busy' = {g}
      BY <1>1, <1>4, <2>1 DEF Busy, Idle
    <2>4. Current(stack[g])'
      BY <2>1, <2>2 DEF Current
    <2>5. Path(stack[g], target[g])'
      BY <2>1, <2>2, SameGraph DEF Path
    <2>6. AllReal(stack[g], target[g])'
      BY <2>1, <2>2, SameGraph DEF AllReal, Real
    <2> QED BY <1>4, <2>3, <2>4, <2>5, <2>6
  <1>5. ASSUME NEW h \in alone'
        PROVE  IF Idle(h)' THEN result'[h] # None => Real(result[h], target[h])'
               ELSE /\ Busy' = {h} /\ target'[h] \in Types
                    /\ Current(stack[h])' /\ Path(stack[h], target[h])' /\ AllReal(stack[h], target[h])'
    <2>1. CASE h # g
      BY <1>2, <2>1 DEF Idle
    <2>2. CASE h = g
      BY <1>1, <1>3, <1>4, <2>2 DEF Idle
    <2> QED BY <2>1, <2>2
  <1> QED BY <1>5 DEF AloneInv

\* The step of a call that nobody overlapped.
LEMMA AloneSteps ==
  ASSUME TypeOK, AloneInv, UNCHANGED <<providers, target, alone>>, NEW g \in Goroutines, ~Idle(g),
         NEW z, stack' = [stack EXCEPT ![g] = z], \A h \in Goroutines : h # g => result'[h] = result[h],
         g \in alone => OnPath(g, z, target[g])
  PROVE  AloneInv'
  <1>1. g \in Busy
    BY DEF Busy
  <1>2. \A h \in alone : h # g => Idle(h)
    BY <1>1 DEF AloneInv
  <1>3. g \in alone => Busy = {g} /\ target[g] \in Types
    BY DEF AloneInv
  <1> QED BY <1>2, <1>3, AloneMoves

LEMMA DeliverOnPath ==
  ASSUME TypeOK, NEW g \in Goroutines, NEW t0, NEW t, NEW u, NEW r \in Result, NEW s, SoundStack(s), Current(s),
         Path(s, t0), AllReal(s, t0), Real(r, t0), s = <<>> \/ Awaits(s[1], u), Deliver(g, t, r, s)
  PROVE  OnPath(g, DeliverStack(r, s), t0)
  <1>1. stack' = [stack EXCEPT ![g] = DeliverStack(r, s)]
    BY DEF Deliver, DeliverStack
  <1>2. \A h \in Goroutines : h # g => result'[h] = result[h]
    BY DEF Deliver, TypeOK
  <1>3. CASE s = <<>>
    <2>1. result'[g] = r /\ DeliverStack(r, s) = <<>>
      BY <1>3 DEF Deliver, DeliverStack, TypeOK
    <2> QED BY <1>1, <1>2, <2>1 DEF OnPath
  <1>4. CASE s # <<>>
    BY <1>1, <1>2, <1>4, DeliverGraph DEF OnPath
  <1> QED BY <1>3, <1>4

\* A mark that a call finds while nobody else resolves is that of a frame below
\* it, so its type is on a cycle.
LEMMA LookupReal ==
  ASSUME CacheSafe, NEW g \in Goroutines, NEW t \in Types, NEW t0 \in Types, Busy \subseteq {g}, Asks(g, t),
         Idle(g) => t = t0, Current(stack[g]), Path(stack[g], t0), NEW r,
         r.kind = "cycle" => t \in resolving,
         r.kind = "missing" => providers[t] = None /\ Implementers[t] = {}
  PROVE  Real(r, t0)
  <1>0. TypeOK /\ SoundStack(stack[g])
    BY StacksAreSound DEF CacheSafe
  <1>1. ASSUME ~Idle(g)
        PROVE  t \in Needs(t0) /\ \A j \in 1..Len(stack[g]) : t \in Needs(stack[g][j].type)
    <2>1. Awaits(stack[g][1], t) /\ stack[g] # <<>>
      BY <1>0, <1>1 DEF Asks, Idle, Top, SoundStack
    <2> QED BY <1>0, <2>1, DependsOnAll
  <1>2. t \in {t0} \cup Needs(t0)
    BY <1>1
  <1>3. ASSUME t \in resolving PROVE OnCycle(t)
    <2>1. PICK h \in Goroutines : \E i \in 1..Len(stack[h]) : stack[h][i].type = t
      BY <1>3 DEF CacheSafe, MarksInv
    <2>2. PICK i \in 1..Len(stack[h]) : stack[h][i].type = t
      BY <2>1
    <2>3. ~Idle(h)
      BY <2>2 DEF Idle
    <2>4. h = g
      BY <2>3 DEF Busy
    <2> QED BY <1>1, <2>2, <2>3, <2>4 DEF OnCycle
  <1> QED BY <1>2, <1>3 DEF Real, ReachesCycle

LEMMA LookupOnPath ==
  ASSUME CacheSafe, NEW g \in Goroutines, NEW t \in Types, Asks(g, t), Lookup(g, t), UNCHANGED container
  PROVE  \E z : /\ stack' = [stack EXCEPT ![g] = z] /\ \A h \in Goroutines : h # g => result'[h] = result[h]
                /\ \A t0 \in Types : /\ Busy \subseteq {g} /\ (Idle(g) => t = t0)
                                     /\ Current(stack[g]) /\ Path(stack[g], t0) /\ AllReal(stack[g], t0)
                                     => OnPath(g, z, t0)
  <1>1. TypeOK /\ SoundStack(stack[g])
    BY StacksAreSound DEF CacheSafe
  <1>2. stack[g] = <<>> \/ Awaits(stack[g][1], t)
    BY <1>1 DEF Asks, Idle, Top, SoundStack
  <1>3. CASE \E f \in Frame :
               /\ Sound(f) /\ f.phase = "mark" /\ f.next = 1 /\ f.type = t /\ f.prov = providers[t]
               /\ stack' = [stack EXCEPT ![g] = <<f>> \o stack[g]] /\ UNCHANGED <<handed, result>>
    <2>1. PICK f \in Frame :
               /\ Sound(f) /\ f.phase = "mark" /\ f.next = 1 /\ f.type = t /\ f.prov = providers[t]
               /\ stack' = [stack EXCEPT ![g] = <<f>> \o stack[g]] /\ UNCHANGED <<handed, result>>
      BY <1>3
    <2> DEFINE z == <<f>> \o stack[g]
    <2>2. z # <<>>
      BY <1>1 DEF SoundStack
    <2>3. ASSUME NEW t0 \in Types, Idle(g) => t = t0,
                 Current(stack[g]), Path(stack[g], t0), AllReal(stack[g], t0)
          PROVE  Current(z) /\ Path(z, t0) /\ AllReal(z, t0)
      BY <1>1, <1>2, <2>1, <2>3, PushGraph DEF Idle
    <2>4. stack' = [stack EXCEPT ![g] = z] /\ \A h \in Goroutines : h # g => result'[h] = result[h]
      BY <2>1
    <2> HIDE DEF z
    <2> QED BY <2>2, <2>3, <2>4 DEF OnPath
  <1>4. CASE \E r \in Result :
               /\ Deliver(g, t, r, stack[g])
               /\ r.kind = "cycle" => t \in resolving
               /\ r.kind = "missing" => providers[t] = None /\ Implementers[t] = {}
    <2>1. PICK r \in Result :
               /\ Deliver(g, t, r, stack[g])
               /\ r.kind = "cycle" => t \in resolving
               /\ r.kind = "missing" => providers[t] = None /\ Implementers[t] = {}
      BY <1>4
    <2>2. stack' = [stack EXCEPT ![g] = DeliverStack(r, stack[g])]
      BY <2>1 DEF Deliver, DeliverStack
    <2>3. \A h \in Goroutines : h # g => result'[h] = result[h]
      BY <1>1, <2>1 DEF Deliver, TypeOK
    <2>4. ASSUME NEW t0 \in Types, Busy \subseteq {g}, Idle(g) => t = t0,
                 Current(stack[g]), Path(stack[g], t0), AllReal(stack[g], t0)
          PROVE  OnPath(g, DeliverStack(r, stack[g]), t0)
      <3>1. Real(r, t0)
        BY <2>1, <2>4, LookupReal
      <3> QED BY <1>1, <1>2, <2>1, <2>4, <3>1, DeliverOnPath
    <2> QED BY <2>2, <2>3, <2>4
  <1> QED BY <1>1, <1>3, <1>4, LookupShape

LEMMA StepAlone ==
  ASSUME CacheSafe, AllLinked, AloneInv, NEW g \in Goroutines, Step(g)
  PROVE  AloneInv'
  <1>0. TypeOK
    BY DEF CacheSafe
  <1>1. ~Idle(g) /\ g \in alone =>
           /\ Busy \subseteq {g} /\ target[g] \in Types
           /\ Current(stack[g]) /\ Path(stack[g], target[g]) /\ AllReal(stack[g], target[g])
    BY DEF AloneInv
  <1>2. CASE ResolveParam(g) \/ InjectField(g)
    <2>1. PICK t \in Types : Asks(g, t) /\ Lookup(g, t)
      BY <1>0, <1>2, Asked
    <2>2. ~Idle(g) /\ UNCHANGED <<container, target, alone>>
      BY <1>0, <1>2, Asked
    <2>3. PICK z : /\ stack' = [stack EXCEPT ![g] = z] /\ \A h \in Goroutines : h # g => result'[h] = result[h]
                   /\ \A t0 \in Types : /\ Busy \subseteq {g} /\ (Idle(g) => t = t0)
                                        /\ Current(stack[g]) /\ Path(stack[g], t0) /\ AllReal(stack[g], t0)
                                        => OnPath(g, z, t0)
      BY <2>1, <2>2, LookupOnPath
    <2>4. g \in alone => OnPath(g, z, target[g])
      BY <1>1, <2>2, <2>3
    <2> QED BY <1>0, <2>2, <2>3, <2>4, AloneSteps DEF container
  <1>3. CASE TopStep(g)
    <2>0. /\ ~Idle(g) /\ UNCHANGED <<providers, target, result, alone>>
          /\ SoundStack(stack[g]) /\ stack[g] # <<>> /\ Top(g) = stack[g][1]
      BY <1>0, <1>3, TopShape, UnwindBelow
    <2>1. PICK f \in Frame :
            /\ SetTop(g, f) /\ f.type = Top(g).type /\ f.prov = Top(g).prov
            /\ f.phase = "unwind" => f.result.kind \notin {"cycle", "missing"}
      BY <1>0, <1>3, TopShape
    <2> DEFINE z == <<f>> \o Tail(stack[g])
    <2>2. f.phase = "unwind" => \A t : Real(f.result, t)
      BY <2>1 DEF Real
    <2>3. /\ Len(z) = Len(stack[g])
          /\ Current(stack[g]) => Current(z)
          /\ \A t : Path(stack[g], t) => Path(z, t)
          /\ \A t : AllReal(stack[g], t) => AllReal(z, t)
      BY <2>0, <2>1, <2>2, SetGraph
    <2>4. stack' = [stack EXCEPT ![g] = z]
      BY <2>1 DEF SetTop
    <2> HIDE DEF z
    <2>5. z # <<>>
      BY <2>0, <2>3 DEF SoundStack
    <2>6. g \in alone => OnPath(g, z, target[g])
      BY <1>1, <2>0, <2>3, <2>4, <2>5 DEF OnPath
    <2> QED BY <1>0, <2>0, <2>4, <2>6, AloneSteps
  <1>4. CASE Unwind(g)
    <2> DEFINE s == Tail(stack[g])
    <2>1. /\ ~Idle(g) /\ UNCHANGED <<providers, target, alone>> /\ Top(g).result \in Result
          /\ Top(g).phase = "unwind" /\ Deliver(g, Top(g).type, Top(g).result, s)
      BY <1>0, <1>4, UnwindShape
    <2>2. /\ SoundStack(s) /\ (s = <<>> \/ Awaits(s[1], Top(g).type)) /\ SoundStack(stack[g])
          /\ Top(g) = stack[g][1] /\ stack[g] # <<>> /\ 1 \in 1..Len(stack[g])
      BY <1>0, <2>1, UnwindBelow
    <2>3. stack' = [stack EXCEPT ![g] = DeliverStack(Top(g).result, s)]
      BY <2>1 DEF Deliver, DeliverStack
    <2>4. \A h \in Goroutines : h # g => result'[h] = result[h]
      BY <1>0, <2>1 DEF Deliver, TypeOK
    <2>5. /\ Current(stack[g]) => Current(s)
          /\ \A t : Path(stack[g], t) => Path(s, t)
          /\ \A t : AllReal(stack[g], t) => AllReal(s, t)
      BY <2>2, TailGraph
    <2>6. \A t : AllReal(stack[g], t) => Real(Top(g).result, t)
      BY <2>1, <2>2 DEF AllReal
    <2> HIDE DEF s
    <2>7. g \in alone => OnPath(g, DeliverStack(Top(g).result, s), target[g])
      BY <1>0, <1>1, <2>1, <2>2, <2>5, <2>6, DeliverOnPath
    <2> QED BY <1>0, <2>1, <2>3, <2>4, <2>7, AloneSteps
  <1> QED BY <1>2, <1>3, <1>4 DEF Step, TopStep

LEMMA ResolveAlone ==
  ASSUME CacheSafe, AloneInv, NEW g \in Goroutines, NEW t \in Types, Resolve(g, t)
  PROVE  AloneInv'
  <1>1. /\ Idle(g) /\ Asks(g, t) /\ Lookup(g, t) /\ UNCHANGED container /\ target' = [target EXCEPT ![g] = t]
        /\ alone' = IF Busy = {} THEN alone \cup {g} ELSE alone \ (Busy \cup {g})
    BY DEF Resolve, Asks
  <1>2. TypeOK
    BY DEF CacheSafe
  <1>3. PICK z : /\ stack' = [stack EXCEPT ![g] = z] /\ \A h \in Goroutines : h # g => result'[h] = result[h]
                 /\ \A t0 \in Types : /\ Busy \subseteq {g} /\ (Idle(g) => t = t0)
                                      /\ Current(stack[g]) /\ Path(stack[g], t0) /\ AllReal(stack[g], t0)
                                      => OnPath(g, z, t0)
    BY <1>1, LookupOnPath
  <1>4. target'[g] = t /\ \A h \in Goroutines : h # g => target'[h] = target[h]
    BY <1>1, <1>2 DEF TypeOK
  <1>5. \A h \in alone' : h # g => h \in alone /\ Idle(h)
    BY <1>1, <1>2 DEF Busy, TypeOK
  <1>6. g \in alone' => Busy = {}
    BY <1>1
  <1>7. Current(stack[g]) /\ Path(stack[g], t) /\ AllReal(stack[g], t)
    BY <1>1 DEF Idle, Current, Path, AllReal
  <1>8. g \in alone' => Busy \subseteq {g} /\ OnPath(g, z, t)
    BY <1>3, <1>6, <1>7
  <1> QED BY <1>1, <1>2, <1>3, <1>4, <1>5, <1>8, AloneMoves DEF container

LEMMA AloneStays ==
  ASSUME AloneInv, UNCHANGED <<providers, stack, target, result, alone>>
  PROVE  AloneInv'
  <1>1. Busy' = Busy
    BY DEF Busy, Idle
  <1>2. ASSUME NEW h \in alone
        PROVE  IF Idle(h) THEN result[h] # None => Real(result[h], target[h])'
               ELSE /\ Busy' = {h} /\ target[h] \in Types
                    /\ Current(stack[h])' /\ Path(stack[h], target[h])' /\ AllReal(stack[h], target[h])'
    <2>1. Idle(h) /\ result[h] # None => Real(result[h], target[h])'
      BY SameGraph DEF AloneInv, Real
    <2>2. ASSUME ~Idle(h) PROVE Current(stack[h])' /\ Path(stack[h], target[h])'
      <3>1. Current(stack[h]) /\ Path(stack[h], target[h])
        BY <2>2 DEF AloneInv
      <3> QED BY <3>1, SameGraph DEF Current, Path
    <2>3. ASSUME ~Idle(h) PROVE AllReal(stack[h], target[h])'
      <3>1. AllReal(stack[h], target[h])
        BY <2>3 DEF AloneInv
      <3> QED BY <3>1, SameGraph DEF AllReal, Real
    <2> QED BY <1>1, <2>1, <2>2, <2>3 DEF AloneInv
  <1> QED BY <1>2 DEF AloneInv, Idle

LEMMA NextAlone ==
  ASSUME CacheSafe, AllLinked, AloneInv, [Next]_vars
  PROVE  AloneInv'
  <1>1. CASE UNCHANGED vars
    BY <1>1, AloneStays DEF vars, container, history
  <1>2. ASSUME NEW g \in Goroutines, Step(g) PROVE AloneInv'
    BY <1>2, StepAlone
  <1>3. ASSUME NEW g \in Goroutines, NEW t \in Types, Resolve(g, t) PROVE AloneInv'
    BY <1>3, ResolveAlone
  <1>4. CASE alone' = {}
    BY <1>4 DEF AloneInv
  <1>5. ASSUME NEW p \in LateProviders, Provide(p) PROVE AloneInv'
    <2>1. CASE UNCHANGED <<providers, alone>>
      BY <1>5, <2>1, AloneStays DEF Provide
    <2> QED BY <1>4, <1>5, <2>1 DEF Provide
  <1> QED BY <1>1, <1>2, <1>3, <1>4, <1>5 DEF Next, Override

\* A call of Resolve that no other call and no override overlapped reports a
\* cycle only if there is one, and a missing constructor only if one is missing.
THEOREM ErrorsHaveReasons == Spec => []ErrorsAreReal
  <1>1. Init => AloneInv
    BY DEF Init, AloneInv
  <1>2. CacheSafe /\ AllLinked /\ AloneInv /\ [Next]_vars => AloneInv'
    BY NextAlone
  <1>3. AloneInv => ErrorsAreReal
    BY DEF AloneInv, ErrorsAreReal, Real
  <1> QED BY <1>1, <1>2, <1>3, CacheSafeHolds, LinkedHolds, PTL DEF Spec
=============================================================================
