-------------------------- MODULE Requests_proofs ---------------------------
(***************************************************************************)
(* Theorems about Requests: the types, the guards, what is observed and    *)
(* what the session holds, for every chain of middlewares, every script    *)
(* and any number of requests.                                             *)
(*                                                                         *)
(* Base, the invariant of all requests at once, rests on Sound (see        *)
(* Requests_sound) and on ids being drawn once; Kept adds what the client  *)
(* and the store hold while requests do not overlap.                       *)
(***************************************************************************)
EXTENDS Requests_sound

(* Steps of the whole system. *)

\* What a step of a request means for the others: nothing,
Keeps(x, y) == y.id = x.id /\ y.loaded = x.loaded /\ y.setSession = x.setSession

\* it saves its session,
Storing(x, y) ==
  /\ x.id # 0 /\ x.ran /\ ~x.saved /\ y.id = x.id /\ y.loaded = x.loaded
  /\ y.setSession = [id |-> x.id, keys |-> IF Memory THEN {} ELSE Applied(x.query, x.loaded)]
  /\ store' = IF Memory THEN [i \in DOMAIN store \cup {x.id} |->
                                IF i = x.id THEN Applied(x.query, x.loaded) ELSE store[i]]
                        ELSE store

\* or it loads it.
Fetching(x, y) ==
  /\ x.id = 0 /\ ~x.ran /\ Loads(x, y) /\ y.setSession = x.setSession /\ store' = store

\* What a step of a request amounts to for the system.
Steps(r) == LET x == run[r]
                y == run'[r] IN
  /\ run' = [run EXCEPT ![r] = y] /\ Quiet /\ fresh' \in {fresh, fresh + 1}
  /\ Sound(y) /\ y.query = x.query /\ y.cookie = x.cookie /\ InFlight(r) /\ y.pc \notin {"over", "killed"}
  /\ (Keeps(x, y) /\ store' = store) \/ Fetching(x, y) \/ Storing(x, y)

\* Save stores what the script makes of the session, or nothing.
LEMMA SaveStores ==
  ASSUME NEW x, NEW y, NEW b, Sound(x), SaveParts(x, y, b), StoreAfter(x, b),
         y.id = x.id, y.loaded = x.loaded, b /\ x.ran => x.id # 0 /\ (~x.saved => Settled(x))
  PROVE  (Keeps(x, y) /\ store' = store) \/ Storing(x, y)
<1>1. CASE ~(b /\ Saves(x))
  BY <1>1 DEF SaveParts, StoreAfter, Stored, Keeps
<1>2. CASE b /\ Saves(x)
  <2>1. x.ran /\ ~x.saved
    BY <1>2 DEF Saves, Sound, Worked
  <2>2. x.id # 0 /\ x.keys = Applied(x.query, x.loaded) /\ x.sent = 0
    BY <1>2, <2>1, SaveApplies DEF Sound, Worked, Unsaved
  <2>3. y.setSession = [id |-> x.id, keys |-> IF Memory THEN {} ELSE x.keys] /\ store' = Stored(x)
    BY <1>2, <2>2 DEF SaveParts, StoreAfter
  <2> QED
    BY <1>2, <2>1, <2>2, <2>3 DEF Storing, Stored
<1> QED
  BY <1>1, <1>2

\* On the way down the session middleware only loads.
LEMMA PassesKeeps ==
  ASSUME NEW x, NEW y, Sound(x), Passes(x, y), config \in Configs
  PROVE  /\ y.query = x.query /\ y.cookie = x.cookie /\ y.setSession = x.setSession /\ ~x.ran
         /\ x.pc = "down" /\ y.pc = "down"
         /\ Chain(x.query)[x.at] # "session" => Keeps(x, y)
         /\ Chain(x.query)[x.at] = "session" => x.id = 0
<1>1. /\ y.query = x.query /\ y.cookie = x.cookie /\ y.setSession = x.setSession
      /\ x.pc = "down" /\ y.pc = x.pc
  BY DEF Passes, Same, Parts
<1>2. Chain(x.query)[x.at] # "session" => y.id = x.id /\ y.loaded = x.loaded
  BY DEF Passes
<1>3. Chain(x.query)[x.at] = "session" => x.id = 0
  BY <1>1, NotYetLoaded DEF Passes, Sound, Guarded
<1> QED
  BY <1>1, <1>2, <1>3 DEF Keeps, Sound, Guarded

\* The security module's middlewares on the way down,
LEMMA GuardSteps ==
  ASSUME Typed, NEW r \in Requests, Sound(run[r]), GuardStep(r), ~SaveSession(r)
  PROVE  Steps(r)
<1> DEFINE x == run[r]
           y == run'[r]
<1>1. GuardMoves(r)
  BY PlainGuards, SessionGuard, JwtGuard, AuthGuard, RoleGuard DEF GuardStep
<1>2. Quiet
  BY DEF GuardStep, Cors, SecureHeaders, Csrf, LoadSession, Jwt, ApiKey, Auth, RequireRole
<1>3. Sound(y)
  BY <1>1, MovesSound DEF GuardMoves, Typed
<1>4. CASE TurnsBack(x, y)
  <2>1. Keeps(x, y) /\ y.query = x.query /\ y.cookie = x.cookie /\ x.pc = "down" /\ y.pc = "up"
    BY <1>4 DEF TurnsBack, Same, Parts, Keeps
  <2> QED
    BY <1>1, <1>2, <1>3, <2>1 DEF Steps, GuardMoves, InFlight
<1>5. CASE Passes(x, y)
  <2>1. /\ y.query = x.query /\ y.cookie = x.cookie /\ y.setSession = x.setSession /\ ~x.ran
        /\ x.pc = "down" /\ y.pc = "down"
        /\ Chain(x.query)[x.at] # "session" => Keeps(x, y)
        /\ Chain(x.query)[x.at] = "session" => x.id = 0
    BY <1>5, PassesKeeps DEF Typed
  <2>2. Chain(x.query)[x.at] = "session" => Fetching(x, y)
    BY <1>1, <1>5, <2>1 DEF GuardMoves, Fetching
  <2> QED
    BY <1>1, <1>2, <1>3, <2>1, <2>2 DEF Steps, GuardMoves, InFlight
<1> QED
  BY <1>1, <1>4, <1>5 DEF GuardMoves

\* the server's, and the session's on the way up,
LEMMA ServerSteps ==
  ASSUME Typed, NEW r \in Requests, Sound(run[r]), ServerStep(r) \/ SaveSession(r)
  PROVE  Steps(r)
<1> DEFINE x == run[r]
           y == run'[r]
           q == x.query
<1>1. ServerMoves(r)
  BY ServerStepMoves
<1>2. Quiet /\ fresh' = fresh
  BY DEF ServerStep, SaveSession
<1>3. Sound(y)
  BY <1>1, MovesSound DEF ServerMoves, Typed
<1>4. CASE Climbs(x, y)
  <2>1. x.pc \in {"up", "panic"} /\ y.pc = x.pc /\ y.query = q /\ y.cookie = x.cookie /\ y.id = x.id /\ y.loaded = x.loaded
    BY <1>4 DEF Climbs, Same, Parts
  <2>2. x.at \in 1..Len(Chain(q)) /\ Chain(q) \in Seq(Middleware)
    BY <1>4, ChainAt DEF Climbs, Sound, Typed
  <2>3. SavesAt(x) => x.pc = "up" /\ x.id # 0
    BY <2>2, SoundWorked DEF SavesAt, Inside
  <2>4. ASSUME SavesAt(x), x.ran, ~x.saved PROVE Settled(x)
    BY <2>3, <2>4, SoundWorked DEF Settled, Unsaved, NextOp
  <2>5. SaveParts(x, y, SavesAt(x)) /\ StoreAfter(x, SavesAt(x))
    BY <1>1, <1>4 DEF ServerMoves, Climbs
  <2>6. (Keeps(x, y) /\ store' = store) \/ Storing(x, y)
    BY <2>1, <2>3, <2>4, <2>5, SaveStores
  <2> QED
    BY <1>1, <1>2, <1>3, <2>1, <2>6 DEF Steps, ServerMoves, InFlight
<1>5. CASE ~Climbs(x, y)
  <2>1. Passes(x, y) /\ store' = store
    BY <1>1, <1>5 DEF ServerMoves
  <2>2. Enter(r)
    <3>1. x.pc = "down"
      BY <2>1 DEF Passes
    <3> QED
      BY <3>1 DEF ServerStep, SaveSession, Errors, Log, EndSpan, Unwind, Up
  <2>3. Chain(q)[x.at] # "session"
    BY <2>2 DEF Enter, Down
  <2>4. Keeps(x, y) /\ y.query = q /\ y.cookie = x.cookie /\ x.pc = "down" /\ y.pc = "down"
    BY <2>1, <2>3, PassesKeeps DEF Typed
  <2> QED
    BY <1>1, <1>2, <1>3, <2>1, <2>4 DEF Steps, ServerMoves, InFlight
<1> QED
  BY <1>4, <1>5

\* the handler,
LEMMA HandlerSteps ==
  ASSUME Typed, NEW r \in Requests, Sound(run[r]), HandlerStep(r)
  PROVE  Steps(r)
<1> DEFINE x == run[r]
           y == run'[r]
           q == x.query
<1>1. HandlerMoves(r)
  BY HandlerStepMoves
<1>2. Quiet /\ fresh' = fresh
  BY DEF HandlerStep
<1>3. Sound(y)
  BY <1>1, MovesSound DEF HandlerMoves, Typed
<1>4. y.query = q /\ y.cookie = x.cookie /\ y.id = x.id /\ y.loaded = x.loaded
  BY <1>1 DEF HandlerMoves, Starts, Edits, Puts, Leaves, Leaving, Same, Parts
<1>5. x.pc \in {"down", "handler"}
  BY <1>1 DEF HandlerMoves, Starts, Edits, Puts, Leaves, HasNext
<1>6. y.pc \notin {"over", "killed"}
  <2>1. CASE Edits(x, y) \/ Puts(x, y)
    BY <1>5, <2>1 DEF Edits, Puts, Same, Parts
  <2>2. CASE Starts(x, y) \/ Leaves(x, y)
    BY <2>2 DEF Starts, Leaves
  <2> QED
    BY <1>1, <2>1, <2>2 DEF HandlerMoves
<1>7. (Keeps(x, y) /\ store' = store) \/ Storing(x, y)
  <2>1. CASE PutsOrFails(x, y)
    <3>1. x.pc = "handler" /\ Settled(x)
      BY <2>1 DEF PutsOrFails, Puts, Fails, HasNext, Settled
    <3>2. Inside(x) /\ x.ran => x.id # 0
      BY <3>1, HandlerInside DEF Typed
    <3>3. SaveParts(x, y, Inside(x)) /\ StoreAfter(x, Inside(x))
      <4>1. StoreAfter(x, Inside(x))
        BY <1>1, <2>1 DEF HandlerMoves
      <4>2. CASE Puts(x, y)
        BY <4>1, <4>2 DEF Puts
      <4>3. CASE Leaves(x, y) /\ Fails(x) /\ ~HasHolder(x)
        <5>1. x.done < Len(Script(q)) /\ NextOp(x).op = "fail" /\ x.done \in 0..Len(Script(q)) /\ Script(q) \in Seq(Ops)
          BY <4>3, ScriptType DEF Fails, HasNext, Sound, Placed
        <5>2. x.done # Len(Script(q))
          BY <5>1
        <5> QED
          BY <4>1, <4>3, <5>1, <5>2 DEF Leaves
      <4> QED
        BY <2>1, <4>2, <4>3 DEF PutsOrFails
    <3> QED
      BY <1>4, <3>1, <3>2, <3>3, SaveStores
  <2>2. CASE ~PutsOrFails(x, y)
    <3>1. store' = store
      BY <1>1, <2>2 DEF HandlerMoves
    <3>2. y.setSession = x.setSession
      <4>1. CASE Starts(x, y) \/ Edits(x, y)
        BY <4>1 DEF Starts, Edits, Same, Parts
      <4>2. CASE Leaves(x, y)
        BY <2>2, <4>2 DEF Leaves, PutsOrFails, Answered, SaveParts
      <4> QED
        BY <1>1, <2>2, <4>1, <4>2 DEF HandlerMoves, PutsOrFails
    <3> QED
      BY <1>4, <3>1, <3>2 DEF Keeps
  <2> QED
    BY <2>1, <2>2
<1> QED
  BY <1>1, <1>2, <1>3, <1>4, <1>5, <1>6, <1>7 DEF Steps, HandlerMoves, InFlight

\* and the end of the response take such steps.
LEMMA FinishSteps ==
  ASSUME Typed, NEW r \in Requests, Sound(run[r]), Finish(r)
  PROVE  Steps(r)
<1> DEFINE x == run[r]
           y == run'[r]
<1>1. Finishes(x, y) /\ run' = [run EXCEPT ![r] = y] /\ store' = store /\ Quiet /\ fresh' = fresh
  BY FinishMoves DEF Finish
<1>2. Sound(y)
  BY <1>1, MovesSound DEF Typed
<1>3. y.query = x.query /\ y.cookie = x.cookie /\ Keeps(x, y)
  BY <1>1 DEF Finishes, Same, Parts, Keeps
<1>4. x.pc \in {"up", "panic"} /\ y.pc \in {"answered", "aborted"}
  BY <1>1 DEF Finishes
<1> QED
  BY <1>1, <1>2, <1>3, <1>4 DEF Steps, InFlight

\* So does every step of a request.
LEMMA StepSteps ==
  ASSUME Typed, NEW r \in Requests, Sound(run[r]), Step(r)
  PROVE  Steps(r)
  BY GuardSteps, ServerSteps, HandlerSteps, FinishSteps DEF Step, GuardStep

-----------------------------------------------------------------------------
(* Types and ids. *)

\* Ids are drawn once.
Drawn(x) == x.id < fresh /\ x.cookie.id < fresh /\ (x.cookie.id = 0 => x.cookie = NoCookie)

\* A request has not been sent, or is Sound.
Valid(r) == run[r] = Unsent \/ (Sound(run[r]) /\ Drawn(run[r]))
\* The inductive invariant of types, guards and observation.
Base ==
  /\ Typed
  /\ restarts \in 0..MaxRestarts /\ jar \in [session : Cookie, csrf : Nat]
  /\ expected \subseteq Keys /\ overlap \in BOOLEAN
  /\ jar.session.id < fresh /\ (jar.session.id = 0 => jar.session = NoCookie)
  /\ \A r \in Requests : Valid(r)

\* A script keeps the session's type.
LEMMA AppliedType ==
  ASSUME NEW q, NEW keys \in SUBSET Keys
  PROVE  Applied(q, keys) \subseteq Keys
  BY DEF Applied, Made

\* What is set as a cookie is one.
LEMMA CookieType ==
  ASSUME NEW x, Sound(x)
  PROVE  x.setSession \in Cookie
<1>1. NoCookie \in Cookie
  BY DEF NoCookie, Cookie
<1>2. x.id \in Nat /\ Applied(x.query, x.loaded) \subseteq Keys
  BY AppliedType DEF Sound, Placed
<1>3. x.setSession # NoCookie => x.setSession = [id |-> x.id, keys |-> IF Memory THEN {} ELSE Applied(x.query, x.loaded)]
  BY SoundWorked DEF Reports
<1> QED
  BY <1>1, <1>2, <1>3 DEF Cookie

\* A step leaves the others valid,
LEMMA ValidStill ==
  ASSUME Base, config' = config, fresh' \in {fresh, fresh + 1}, NEW s \in Requests, run'[s] = run[s]
  PROVE  Valid(s)'
<1>1. CASE run[s] = Unsent
  <2>1. run'[s] = Unsent'
    BY <1>1 DEF Unsent, NoCookie
  <2> QED
    BY <2>1 DEF Valid
<1>2. CASE Sound(run[s]) /\ Drawn(run[s])
  <2> DEFINE x == run[s]
  <2>1. Sound(x)'
    <3>1. \A z : Sound(z)' <=> Sound(z)
      BY Frame
    <3> QED
      BY <1>2, <3>1
  <2>2. x.id \in Nat /\ x.cookie.id \in Nat
    BY <1>2 DEF Sound, Placed, Cookie
  <2>3. Drawn(x)'
    BY <1>2, <2>2 DEF Drawn, NoCookie, Base, Typed
  <2> QED
    BY <2>1, <2>3 DEF Valid
<1> QED
  BY <1>1, <1>2 DEF Base, Valid

\* and the one it is a step of,
LEMMA ValidNow ==
  ASSUME config' = config, NEW r \in Requests, NEW y, run'[r] = y, Sound(y),
         y.id < fresh', y.cookie.id < fresh', y.cookie.id = 0 => y.cookie = NoCookie
  PROVE  Valid(r)'
<1>1. Sound(y)'
  <2>1. \A z : Sound(z)' <=> Sound(z)
    BY Frame
  <2> QED
    BY <2>1
<1> QED
  BY <1>1 DEF Valid, Drawn, NoCookie

\* so all of them.
LEMMA ValidStep ==
  ASSUME Base, NEW r \in Requests, NEW y, run' = [run EXCEPT ![r] = y], config' = config,
         fresh' \in {fresh, fresh + 1}, Sound(y),
         y.id < fresh', y.cookie.id < fresh', y.cookie.id = 0 => y.cookie = NoCookie
  PROVE  (\A s \in Requests : Valid(s))' /\ run' = [s \in Requests |-> run'[s]]
<1>1. run'[r] = y /\ \A s \in Requests \ {r} : run'[s] = run[s]
  BY DEF Base, Typed
<1>2. Valid(r)'
  BY <1>1, ValidNow
<1>3. \A s \in Requests \ {r} : Valid(s)'
  BY <1>1, ValidStill
<1>4. run' = [s \in Requests |-> run'[s]]
  BY DEF Base, Typed
<1> QED
  BY <1>2, <1>3, <1>4

\* A request that was sent is Sound.
LEMMA InFlightSound ==
  ASSUME Base, NEW r \in Requests, run[r].pc # "idle"
  PROVE  Sound(run[r]) /\ Drawn(run[r])
  BY DEF Base, Valid, Unsent

\* Base is kept by a step of a request,
LEMMA BaseSteps ==
  ASSUME Base, NEW r \in Requests, Sound(run[r]), Drawn(run[r]), Steps(r)
  PROVE  Base'
<1> DEFINE x == run[r]
           y == run'[r]
<1>1. config' = config /\ fresh' \in {fresh, fresh + 1} /\ Sound(y)
  BY DEF Steps, Quiet
<1>2. x.id \in Nat /\ x.cookie.id \in Nat /\ y.cookie = x.cookie /\ fresh \in Nat \ {0} /\ config \in Configs
      /\ x.loaded \in SUBSET Keys
  BY DEF Sound, Placed, Cookie, Steps, Base, Typed
<1>3. x.id < fresh /\ x.cookie.id < fresh /\ (x.cookie.id = 0 => x.cookie = NoCookie)
  BY DEF Drawn
<1>4. y.id < fresh'
  <2>1. CASE y.id = x.id
    BY <1>1, <1>2, <1>3, <2>1
  <2>2. CASE Fetching(x, y)
    <3>1. IF Known(x.cookie) THEN y.id = x.cookie.id /\ fresh' = fresh ELSE y.id = fresh /\ fresh' = fresh + 1
      BY <2>2 DEF Fetching, Loads
    <3> QED
      BY <1>2, <1>3, <3>1
  <2> QED
    BY <2>1, <2>2 DEF Steps, Keeps, Storing
<1>5. y.cookie.id < fresh' /\ (y.cookie.id = 0 => y.cookie = NoCookie)
  BY <1>1, <1>2, <1>3
<1>6. (\A s \in Requests : Valid(s))' /\ run' = [s \in Requests |-> run'[s]]
  <2>1. run' = [run EXCEPT ![r] = y]
    BY DEF Steps
  <2> QED
    BY <1>1, <1>4, <1>5, <2>1, ValidStep
<1>7. DOMAIN store' \subseteq 1..(fresh' - 1) /\ \A i \in DOMAIN store' : store'[i] \subseteq Keys
  <2>1. DOMAIN store \subseteq 1..(fresh - 1) /\ \A i \in DOMAIN store : store[i] \subseteq Keys
    BY DEF Base, Typed
  <2>2. \A i \in 1..(fresh - 1) : i \in 1..(fresh' - 1)
    BY <1>1, <1>2
  <2>3. CASE store' = store
    BY <2>1, <2>2, <2>3
  <2>4. CASE store' # store
    <3>1. x.id # 0 /\ store' = [i \in DOMAIN store \cup {x.id} |->
                                IF i = x.id THEN Applied(x.query, x.loaded) ELSE store[i]]
      BY <2>4 DEF Steps, Fetching, Storing
    <3>2. x.id \in 1..(fresh - 1)
      BY <1>2, <1>3, <3>1
    <3>3. Applied(x.query, x.loaded) \subseteq Keys
      BY <1>2, AppliedType
    <3> QED
      BY <2>1, <2>2, <3>1, <3>2, <3>3
  <2> QED
    BY <2>3, <2>4
<1>8. Typed'
  <2>1. fresh' \in Nat \ {0} /\ config' \in Configs
    BY <1>1, <1>2
  <2> QED
    BY <1>6, <1>7, <2>1 DEF Typed
<1>9. jar'.session.id < fresh'
  <2>1. jar' = jar /\ jar.session.id \in Nat /\ jar.session.id < fresh
    BY DEF Steps, Quiet, Base, Cookie
  <2> QED
    BY <1>1, <1>2, <2>1
<1> QED
  BY <1>6, <1>8, <1>9 DEF Base, Steps, Quiet, NoCookie

\* by a request that is sent,
LEMMA BaseSend ==
  ASSUME Base, NEW r \in Requests, NEW q \in Traffic[config], Send(r, q)
  PROVE  Base'
<1> DEFINE y == [Unsent EXCEPT !.pc = "down", !.at = 1, !.query = q, !.cookie = jar.session, !.csrf = jar.csrf]
<1>1. config' = config /\ fresh' = fresh /\ run' = [run EXCEPT ![r] = y] /\ store' = store /\ jar' = jar
      /\ restarts' = restarts /\ expected' = expected /\ overlap' \in BOOLEAN
  BY DEF Send
<1>2. q \in Query /\ jar.session \in Cookie /\ jar.csrf \in Nat /\ config \in Configs
  BY RequestsAssumption DEF RequestsAssumption, Base, Typed
<1>3. Sound(y)
  BY <1>2, SendSound
<1>4. y.id = 0 /\ y.cookie = jar.session
  BY DEF Unsent
<1> HIDE DEF y
<1>5. fresh \in Nat \ {0} /\ jar.session.id < fresh /\ (jar.session.id = 0 => jar.session = NoCookie)
  BY DEF Base, Typed
<1>6. y.id < fresh' /\ y.cookie.id < fresh' /\ (y.cookie.id = 0 => y.cookie = NoCookie)
  BY <1>1, <1>4, <1>5
<1>7. (\A s \in Requests : Valid(s))' /\ run' = [s \in Requests |-> run'[s]]
  BY <1>1, <1>3, <1>6, ValidStep
<1>8. Typed'
  BY <1>1, <1>7 DEF Typed, Base
<1> QED
  BY <1>1, <1>7, <1>8 DEF Base, NoCookie

\* The end of a request.
LEMMA OverMoves ==
  ASSUME Base, NEW r \in Requests, NEW received \in BOOLEAN, Over(r, received),
         run[r].pc \in {"answered", "aborted"}
  PROVE  LET y == run'[r] IN
         /\ Passed(run[r], y) /\ y.pc = "over" /\ run' = [run EXCEPT ![r] = y]
         /\ Sound(run[r]) /\ Sound(y) /\ Drawn(run[r])
<1> DEFINE x == run[r]
           z == [x EXCEPT !.pc = "over"]
<1>1. Sound(x) /\ Drawn(x)
  BY InFlightSound
<1>2. DOMAIN x = Parts /\ run' = [run EXCEPT ![r] = z]
  BY <1>1 DEF Over, Sound, Placed
<1>3. Same(x, z, {"pc"}) /\ z.pc = "over"
  BY <1>2 DEF Same, Parts
<1> HIDE DEF z
<1>4. run'[r] = z
  BY <1>2 DEF Base, Typed
<1>5. Passed(x, z)
  BY <1>3 DEF Passed
<1>6. Sound(z)
  BY <1>1, <1>5, PassedSound
<1> QED
  BY <1>1, <1>2, <1>3, <1>4, <1>5, <1>6

\* by the end of one, which gives the client cookies of that request only,
LEMMA BaseOver ==
  ASSUME Base, NEW r \in Requests, Deliver(r) \/ Lose(r)
  PROVE  Base'
<1> DEFINE x == run[r]
           y == run'[r]
<1>1. PICK received \in BOOLEAN : Over(r, received)
  BY DEF Deliver, Lose
<1>2. x.pc \in {"answered", "aborted"}
  BY DEF Deliver, Lose
<1>3. /\ Passed(x, y) /\ run' = [run EXCEPT ![r] = y] /\ Sound(x) /\ Sound(y) /\ Drawn(x)
  BY <1>1, <1>2, OverMoves
<1>4. y.id = x.id /\ y.cookie = x.cookie
  BY <1>3 DEF Passed, Same, Parts
<1>5. config' = config /\ fresh' = fresh /\ store' = store /\ restarts' = restarts /\ overlap' = overlap
  BY <1>1 DEF Over
<1>6. expected' \subseteq Keys
  BY <1>1, AppliedType DEF Over, Base
<1>7. y.id < fresh' /\ y.cookie.id < fresh' /\ (y.cookie.id = 0 => y.cookie = NoCookie)
  BY <1>3, <1>4, <1>5 DEF Drawn
<1>8. (\A s \in Requests : Valid(s))' /\ run' = [s \in Requests |-> run'[s]]
  BY <1>3, <1>5, <1>7, ValidStep
<1>9. Typed'
  BY <1>5, <1>8 DEF Typed, Base
<1>10. /\ jar' \in [session : Cookie, csrf : Nat] /\ jar'.session.id < fresh
       /\ (jar'.session.id = 0 => jar'.session = NoCookie)
  <2>1. /\ jar \in [session : Cookie, csrf : Nat] /\ jar.session.id < fresh
        /\ (jar.session.id = 0 => jar.session = NoCookie)
    BY DEF Base
  <2>2. /\ x.setSession \in Cookie /\ x.setCsrf \in Nat
        /\ (x.setSession # NoCookie => x.setSession.id = x.id /\ x.id # 0) /\ x.id < fresh
    <3>1. x.setSession \in Cookie /\ x.setCsrf \in Nat /\ x.id < fresh
      BY <1>3, CookieType DEF Drawn, Sound, Placed
    <3>2. Reports(x)
      BY <1>3, SoundWorked
    <3>3. ASSUME x.setSession # NoCookie PROVE x.setSession.id = x.id /\ x.id # 0
      BY <3>2, <3>3 DEF Reports
    <3> QED
      BY <3>1, <3>3
  <2>3. CASE jar' = jar
    BY <2>1, <2>3
  <2>4. CASE Deliver(r)
    <3>1. jar' = [session |-> IF x.setSession = NoCookie THEN jar.session ELSE x.setSession,
                  csrf |-> IF x.setCsrf = 0 THEN jar.csrf ELSE x.setCsrf]
      BY <2>4 DEF Deliver
    <3> QED
      BY <2>1, <2>2, <3>1
  <2> QED
    BY <2>3, <2>4 DEF Lose
<1> QED
  BY <1>5, <1>6, <1>8, <1>9, <1>10 DEF Base, NoCookie

\* A restart ends the requests under way.
LEMMA RestartMoves ==
  ASSUME Base, Restart, NEW r \in Requests
  PROVE  \/ ~InFlight(r) /\ run'[r] = run[r]
         \/ InFlight(r) /\ run'[r].pc = "killed" /\ Passed(run[r], run'[r]) /\ Sound(run'[r]) /\ Sound(run[r])
<1> DEFINE x == run[r]
           z == [x EXCEPT !.pc = "killed"]
<1>1. run'[r] = IF InFlight(r) THEN z ELSE x
  BY DEF Restart
<1>2. CASE InFlight(r)
  <2>1. Sound(x) /\ DOMAIN x = Parts
    BY <1>2, InFlightSound DEF InFlight, Sound, Placed
  <2>2. Same(x, z, {"pc"}) /\ z.pc = "killed"
    BY <2>1 DEF Same, Parts
  <2> HIDE DEF z
  <2>3. Passed(x, z)
    BY <2>2 DEF Passed
  <2>4. Sound(z)
    BY <2>1, <2>3, PassedSound
  <2> QED
    BY <1>1, <1>2, <2>1, <2>2, <2>3, <2>4
<1> QED
  BY <1>1, <1>2

\* and by a restart, after which ids go on.
LEMMA BaseRestart ==
  ASSUME Base, Restart
  PROVE  Base'
<1>1. /\ config' = config /\ fresh' = fresh /\ store' = <<>> /\ jar' = jar /\ overlap' = overlap
      /\ restarts' \in 0..MaxRestarts /\ expected' \subseteq Keys
  BY RequestsAssumption DEF Restart, Base, RequestsAssumption
<1>2. ASSUME NEW r \in Requests PROVE Valid(r)'
  <2> DEFINE x == run[r]
             y == run'[r]
  <2>1. CASE y = x
    BY <1>1, <2>1, ValidStill
  <2>2. CASE InFlight(r) /\ Passed(x, y) /\ Sound(y)
    <3>1. Drawn(x)
      BY <2>2, InFlightSound DEF InFlight
    <3>2. y.id = x.id /\ y.cookie = x.cookie
      BY <2>2 DEF Passed, Same, Parts
    <3>3. y.id < fresh' /\ y.cookie.id < fresh' /\ (y.cookie.id = 0 => y.cookie = NoCookie)
      BY <1>1, <3>1, <3>2 DEF Drawn
    <3> QED
      BY <1>1, <2>2, <3>3, ValidNow
  <2> QED
    BY <2>1, <2>2, RestartMoves
<1>3. run' = [s \in Requests |-> run'[s]]
  BY DEF Restart
<1>4. DOMAIN store' = {} 
  BY <1>1
<1>5. Typed'
  BY <1>1, <1>3, <1>4 DEF Typed, Base
<1> QED
  BY <1>1, <1>2, <1>5 DEF Base, NoCookie

\* Only a request that was sent takes steps.
LEMMA StepSound ==
  ASSUME Base, NEW r \in Requests, Step(r)
  PROVE  Sound(run[r]) /\ Drawn(run[r]) /\ Steps(r)
<1>1. run[r] # Unsent
  <2>1. Unsent.pc = "idle" /\ Unsent.at = 0
    BY DEF Unsent
  <2> QED
    BY <2>1 DEF Step, GuardStep, ServerStep, HandlerStep, Cors, SecureHeaders, Csrf, LoadSession, SaveSession, Jwt,
         ApiKey, Auth, RequireRole, Enter, Errors, Log, EndSpan, Unwind, Reach, ChangeSession, WriteBody, WriteHeader,
         Fail, Panic, HandlerReturns, HandlerOp, Finish, Down, Up
<1>2. Sound(run[r]) /\ Drawn(run[r])
  BY <1>1 DEF Base, Valid
<1> QED
  BY <1>2, StepSteps DEF Base

\* Base holds at first,
LEMMA BaseInit == Init => Base
<1> SUFFICES ASSUME Init PROVE Base
  OBVIOUS
<1>1. NoCookie \in Cookie /\ NoCookie.id = 0
  BY DEF NoCookie, Cookie
<1>2. \A r \in Requests : Valid(r)
  BY DEF Init, Valid
<1>3. Typed
  BY DEF Init, Typed
<1>4. restarts \in 0..MaxRestarts
  BY RequestsAssumption DEF Init, RequestsAssumption
<1>5. /\ jar \in [session : Cookie, csrf : Nat] /\ expected \subseteq Keys /\ overlap \in BOOLEAN
      /\ jar.session = NoCookie
  BY <1>1 DEF Init
<1> QED
  BY <1>1, <1>2, <1>3, <1>4, <1>5 DEF Base, Init

\* every step keeps it,
LEMMA BaseNext == Base /\ [Next]_vars => Base'
<1> SUFFICES ASSUME Base, [Next]_vars PROVE Base'
  OBVIOUS
<1>1. ASSUME NEW r \in Requests, NEW q \in Traffic[config], Send(r, q) PROVE Base'
  BY <1>1, BaseSend
<1>2. ASSUME NEW r \in Requests, Step(r) PROVE Base'
  BY <1>2, StepSound, BaseSteps
<1>3. ASSUME NEW r \in Requests, Deliver(r) \/ Lose(r) PROVE Base'
  BY <1>3, BaseOver
<1>4. CASE Restart
  BY <1>4, BaseRestart
<1>5. CASE UNCHANGED vars
  <2>1. \A r \in Requests : Valid(r)'
    BY <1>5, ValidStill DEF vars
  <2> QED
    BY <1>5, <2>1 DEF Base, Typed, vars, NoCookie
<1> QED
  BY <1>1, <1>2, <1>3, <1>4, <1>5 DEF Next

-----------------------------------------------------------------------------
(* What holds of every request. *)

\* so it always holds.
LEMMA BaseAlways == Spec => []Base
  BY BaseInit, BaseNext, PTL DEF Spec

\* Base implies the types,
LEMMA BaseTypeOK == Base => TypeOK
<1> SUFFICES ASSUME Base PROVE TypeOK
  OBVIOUS
<1>1. ASSUME NEW r \in Requests
      PROVE  /\ run[r].pc \in {"idle", "down", "handler", "up", "panic", "answered", "aborted", "over", "killed"}
             /\ run[r].keys \subseteq Keys /\ run[r].loaded \subseteq Keys
             /\ run[r].setSession \in Cookie /\ run[r].cookie \in Cookie
             /\ run[r].setSession # NoCookie => run[r].saved /\ run[r].setSession.id = run[r].id
  <2>1. CASE run[r] = Unsent
    <3>1. NoCookie \in Cookie
      BY DEF NoCookie, Cookie
    <3>2. Unsent.pc = "idle" /\ Unsent.keys = {} /\ Unsent.loaded = {} /\ Unsent.setSession = NoCookie /\ Unsent.cookie = NoCookie
      BY DEF Unsent
    <3> QED
      BY <2>1, <3>1, <3>2
  <2>2. CASE Sound(run[r])
    <3>1. ASSUME run[r].setSession # NoCookie PROVE run[r].saved /\ run[r].setSession.id = run[r].id
      <4>1. Reports(run[r])
        BY <2>2, SoundWorked
      <4> QED
        BY <3>1, <4>1 DEF Reports
    <3>2. run[r].setSession \in Cookie
      BY <2>2, CookieType
    <3> QED
      BY <2>2, <3>1, <3>2 DEF Sound, Placed
  <2> QED
    BY <2>1, <2>2 DEF Base, Valid
<1> QED
  BY <1>1 DEF Base, Typed, TypeOK

\* Every variable keeps its type; a session cookie that is set names the session
\* of its request, which was saved.
THEOREM TypesHold == Spec => []TypeOK
  BY BaseAlways, BaseTypeOK, PTL

\* the guards,
LEMMA BaseGuardsHold == Base => GuardsHold
<1> SUFFICES ASSUME Base, NEW r \in Requests, run[r].pc \in {"answered", "aborted", "over"}
             PROVE  /\ run[r].ran <=> Admits(run[r])
                    /\ run[r].ran /\ Has(run[r].query, "auth") =>
                         run[r].user.from = IF UserOfToken(run[r].query, Len(Chain(run[r].query)) + 1)
                                              THEN "token" ELSE "session"
  BY DEF GuardsHold
<1> DEFINE x == run[r]
           q == x.query
           n == Len(Chain(q)) + 1
<1>1. Sound(x)
  BY InFlightSound
<1>2. x.ran <=> Admits(x)
  BY <1>1 DEF Sound, Guarded
<1>3. ASSUME x.ran, Has(q, "auth") PROVE x.user.from = IF UserOfToken(q, n) THEN "token" ELSE "session"
  <2>1. Chain(q) \in Seq(Middleware)
    BY <1>1, ChainAt DEF Base, Typed, Sound
  <2>2. Before(q, n, "auth")
    BY <1>3, <2>1 DEF Has, Before
  <2>3. x.user = UserAt(x, n)
    BY <1>1, <1>3 DEF Sound, Guarded
  <2>4. x.user = IF UserOfToken(q, n) THEN [from |-> "token", roles |-> q.token.roles]
                                      ELSE [from |-> "session", roles |-> "roles" \in x.loaded]
    BY <2>2, <2>3 DEF UserAt
  <2>5. CASE UserOfToken(q, n)
    BY <2>4, <2>5
  <2>6. CASE ~UserOfToken(q, n)
    BY <2>4, <2>6
  <2> QED
    BY <2>5, <2>6
<1> QED
  BY <1>2, <1>3

\* A handler runs for exactly the requests that every middleware of the server and
\* of the route accepts, whatever other requests do meanwhile; the user is the
\* token's if a token was required before AuthMiddleware, and else the session's
\* (security.Module.Configure, AuthMiddleware).
THEOREM GuardsAlwaysHold == Spec => []GuardsHold
  BY BaseAlways, BaseGuardsHold, PTL

\* and what is observed.
LEMMA BaseObserved == Base => Observed
<1> SUFFICES ASSUME Base, NEW r \in Requests, run[r].pc \in {"answered", "aborted", "over"}
             PROVE  /\ run[r].span # "open"
                    /\ run[r].ran /\ Has(run[r].query, "tracing") => run[r].span = "ended"
                    /\ SeesErrors(run[r].query) /\ ~StatusTwice(run[r].query) /\ run[r].logged # 0 =>
                         run[r].logged = run[r].sent
  BY DEF Observed
<1>1. Sound(run[r])
  BY InFlightSound
<1>2. Spanned(run[r]) /\ Told(run[r])
  BY <1>1 DEF Sound
<1>3. run[r].span # "open" /\ (run[r].ran /\ Has(run[r].query, "tracing") => run[r].span = "ended")
  BY <1>2 DEF Spanned
<1> QED
  BY <1>2, <1>3 DEF Told

\* No span stays open, and what RequestLogger logs is what the client got
\* (TracingMiddleware, RequestLogger, ErrorMiddleware).
THEOREM AlwaysObserved == Spec => []Observed
  BY BaseAlways, BaseObserved, PTL

-----------------------------------------------------------------------------
(* Sessions. *)

\* Every session is the work of one request.
OneRequestKept ==
  /\ \A i \in DOMAIN store : OneRequest(i, store[i])
  /\ ~Memory /\ jar.session # NoCookie => OneRequest(jar.session.id, jar.session.keys)

\* A request that made a session still has: its id is not given away.
LEMMA OneRequestStill ==
  ASSUME config' = config, NEW id, NEW keys, OneRequest(id, keys),
         \A s \in Requests : run[s].id = id =>
            run'[s].id = id /\ run'[s].query = run[s].query /\ run'[s].loaded = run[s].loaded
  PROVE  OneRequest(id, keys)'
<1>1. PICK s \in Requests : run[s].id = id /\ keys = Applied(run[s].query, run[s].loaded)
  BY DEF OneRequest
<1> QED
  BY <1>1 DEF OneRequest, Applied, Unsent

\* What a request makes of what it loaded is the work of one request.
LEMMA MadeOneRequest ==
  ASSUME NEW r \in Requests, NEW x, run'[r].id = x.id, run'[r].query = x.query, run'[r].loaded = x.loaded
  PROVE  OneRequest(x.id, Applied(x.query, x.loaded))'
  BY DEF OneRequest, Applied

\* OneRequestKept is kept by a step of a request,
LEMMA OneSteps ==
  ASSUME Base, OneRequestKept, NEW r \in Requests, Sound(run[r]), Steps(r)
  PROVE  OneRequestKept'
<1> DEFINE x == run[r]
           y == run'[r]
<1>1. /\ run' = [run EXCEPT ![r] = y] /\ config' = config /\ jar' = jar /\ y.query = x.query
      /\ (Keeps(x, y) /\ store' = store) \/ Fetching(x, y) \/ Storing(x, y)
  BY DEF Steps, Quiet
<1>2. ASSUME NEW id, id # 0, NEW keys, OneRequest(id, keys) PROVE OneRequest(id, keys)'
  <2>1. \A s \in Requests : run[s].id = id =>
            run'[s].id = id /\ run'[s].query = run[s].query /\ run'[s].loaded = run[s].loaded
    <3>1. \A s \in Requests \ {r} : run'[s] = run[s]
      BY <1>1 DEF Base, Typed
    <3>2. x.id = id => y.id = id /\ y.query = x.query /\ y.loaded = x.loaded
      BY <1>1, <1>2 DEF Keeps, Fetching, Storing
    <3> QED
      BY <3>1, <3>2
  <2> QED
    BY <1>1, <1>2, <2>1, OneRequestStill
<1>3. 0 \notin DOMAIN store
  BY DEF Base, Typed
<1>4. ASSUME NEW i \in DOMAIN store' PROVE OneRequest(i, store[i])'
  <2>1. CASE i \in DOMAIN store /\ store'[i] = store[i]
    <3>1. OneRequest(i, store[i])
      BY <2>1 DEF OneRequestKept
    <3> QED
      BY <1>2, <1>3, <2>1, <3>1
  <2>2. CASE x.id = i /\ store'[i] = Applied(x.query, x.loaded) /\ y.id = x.id /\ y.loaded = x.loaded
    BY <1>1, <2>2, MadeOneRequest
  <2> QED
    BY <1>1, <2>1, <2>2 DEF Fetching, Storing
<1>5. ASSUME ~Memory, jar.session # NoCookie PROVE OneRequest(jar.session.id, jar.session.keys)'
  BY <1>1, <1>2, <1>5 DEF OneRequestKept, Base
<1> QED
  BY <1>1, <1>4, <1>5 DEF OneRequestKept, Memory, NoCookie

\* by one that is sent, which made no session yet,
LEMMA OneSend ==
  ASSUME Base, OneRequestKept, NEW r \in Requests, NEW q \in Traffic[config], Send(r, q)
  PROVE  OneRequestKept'
<1> DEFINE z == [Unsent EXCEPT !.pc = "down", !.at = 1, !.query = q, !.cookie = jar.session, !.csrf = jar.csrf]
<1>1. run' = [run EXCEPT ![r] = z] /\ config' = config /\ jar' = jar /\ store' = store /\ run[r].pc = "idle"
  BY DEF Send
<1>2. run[r].id = 0
  <2>1. run[r] = Unsent
    BY <1>1 DEF Base, Valid, Sound, Placed
  <2> QED
    BY <2>1 DEF Unsent
<1>3. ASSUME NEW id, id # 0, NEW keys, OneRequest(id, keys) PROVE OneRequest(id, keys)'
  <2>1. \A s \in Requests \ {r} : run'[s] = run[s]
    BY <1>1 DEF Base, Typed
  <2> QED
    BY <1>1, <1>2, <1>3, <2>1, OneRequestStill
<1>4. 0 \notin DOMAIN store
  BY DEF Base, Typed
<1>5. ASSUME NEW i \in DOMAIN store' PROVE OneRequest(i, store[i])'
  BY <1>1, <1>3, <1>4 DEF OneRequestKept
<1>6. ASSUME ~Memory, jar.session # NoCookie PROVE OneRequest(jar.session.id, jar.session.keys)'
  BY <1>1, <1>3, <1>6 DEF OneRequestKept, Base
<1> QED
  BY <1>1, <1>5, <1>6 DEF OneRequestKept, Memory, NoCookie

\* The end of a request keeps what it made.
LEMMA PassedKeeps ==
  ASSUME NEW x, NEW y, Passed(x, y)
  PROVE  y.id = x.id /\ y.query = x.query /\ y.loaded = x.loaded
  BY DEF Passed, Same, Parts

\* by the end of one, whose cookie holds its own work,
LEMMA OneOver ==
  ASSUME Base, OneRequestKept, NEW r \in Requests, Deliver(r) \/ Lose(r)
  PROVE  OneRequestKept'
<1> DEFINE x == run[r]
           y == run'[r]
<1>1. PICK received \in BOOLEAN : Over(r, received)
  BY DEF Deliver, Lose
<1>2. x.pc \in {"answered", "aborted"}
  BY DEF Deliver, Lose
<1>3. /\ Passed(x, y) /\ run' = [run EXCEPT ![r] = y] /\ Sound(x) /\ Sound(y) /\ Drawn(x)
  BY <1>1, <1>2, OverMoves
<1>4. config' = config /\ store' = store
  BY <1>1 DEF Over
<1>5. y.id = x.id /\ y.query = x.query /\ y.loaded = x.loaded
  BY <1>3, PassedKeeps
<1>6. ASSUME NEW id, NEW keys, OneRequest(id, keys) PROVE OneRequest(id, keys)'
  <2>1. \A s \in Requests \ {r} : run'[s] = run[s]
    BY <1>3 DEF Base, Typed
  <2> QED
    BY <1>4, <1>5, <1>6, <2>1, OneRequestStill
<1>7. ASSUME NEW i \in DOMAIN store' PROVE OneRequest(i, store[i])'
  BY <1>4, <1>6 DEF OneRequestKept
<1>8. ASSUME ~Memory, jar'.session # NoCookie PROVE OneRequest(jar.session.id, jar.session.keys)'
  <2>1. CASE jar'.session = jar.session
    BY <1>6, <1>8, <2>1 DEF OneRequestKept
  <2>2. CASE jar'.session = x.setSession /\ x.setSession # NoCookie
    <3>1. Reports(x)
      BY <1>3, SoundWorked
    <3>2. x.setSession.id = x.id /\ x.setSession.keys = Applied(x.query, x.loaded)
      BY <1>8, <2>2, <3>1 DEF Reports
    <3> QED
      BY <1>5, <2>2, <3>2, MadeOneRequest
  <2>3. jar'.session = jar.session \/ (jar'.session = x.setSession /\ x.setSession # NoCookie)
    <3>1. CASE Deliver(r)
      BY <3>1 DEF Deliver
    <3>2. CASE Lose(r)
      BY <3>2 DEF Lose
    <3> QED
      BY <3>1, <3>2
  <2> QED
    BY <2>1, <2>2, <2>3
<1> QED
  BY <1>4, <1>7, <1>8 DEF OneRequestKept, Memory, NoCookie

\* and by a restart.
LEMMA OneRestart ==
  ASSUME Base, OneRequestKept, Restart
  PROVE  OneRequestKept'
<1>1. config' = config /\ store' = <<>> /\ jar' = jar
  BY DEF Restart
<1>2. ASSUME NEW id, NEW keys, OneRequest(id, keys) PROVE OneRequest(id, keys)'
  <2>1. \A s \in Requests : run'[s].id = run[s].id /\ run'[s].query = run[s].query /\ run'[s].loaded = run[s].loaded
    BY RestartMoves, PassedKeeps
  <2> QED
    BY <1>1, <1>2, <2>1, OneRequestStill
<1>3. DOMAIN store' = {}
  BY <1>1
<1>4. ASSUME ~Memory, jar.session # NoCookie PROVE OneRequest(jar.session.id, jar.session.keys)'
  BY <1>1, <1>2, <1>4 DEF OneRequestKept
<1> QED
  BY <1>1, <1>3, <1>4 DEF OneRequestKept, Memory, NoCookie

-----------------------------------------------------------------------------
(* The client's session while requests do not overlap. *)

\* The request under way is the only one, it has the client's cookie and loads
\* what the requests before it made; the client has that until the session is
\* stored under the id it knows.
InOrder(r) == LET x == run[r] IN
  /\ \A s \in Requests : InFlight(s) => s = r
  /\ x.cookie = jar.session
  /\ x.id # 0 => x.loaded = expected
  /\ x.setSession # NoCookie /\ Memory => x.id \in DOMAIN store /\ store[x.id] = Applied(x.query, x.loaded)
  /\ x.setSession = NoCookie \/ ~Memory \/ x.id # x.cookie.id => Session = expected

\* While requests do not overlap, the client has the effect of all of them.
OneByOne == ~overlap =>
  /\ \A r \in Requests : InFlight(r) => InOrder(r)
  /\ (\A r \in Requests : ~InFlight(r)) => Session = expected

\* The inductive invariant about sessions.
Kept == Base /\ OneRequestKept /\ OneByOne

\* OneByOne is kept by a request that is sent: it is alone,
LEMMA OrderSend ==
  ASSUME Kept, NEW r \in Requests, NEW q \in Traffic[config], Send(r, q)
  PROVE  OneByOne'
<1> DEFINE z == [Unsent EXCEPT !.pc = "down", !.at = 1, !.query = q, !.cookie = jar.session, !.csrf = jar.csrf]
<1>1. /\ run' = [run EXCEPT ![r] = z] /\ config' = config /\ jar' = jar /\ store' = store /\ expected' = expected
      /\ overlap' = (overlap \/ \E s \in Requests : InFlight(s))
  BY DEF Send
<1>2. z.pc = "down" /\ z.id = 0 /\ z.cookie = jar.session /\ z.setSession = NoCookie
  BY DEF Unsent
<1> HIDE DEF z
<1>3. run'[r] = z /\ \A s \in Requests \ {r} : run'[s] = run[s]
  BY <1>1 DEF Kept, Base, Typed
<1> SUFFICES ASSUME ~overlap' PROVE /\ \A s \in Requests : InFlight(s)' => InOrder(s)'
                                    /\ ~\A s \in Requests : ~InFlight(s)'
  BY DEF OneByOne
<1>4. ~overlap /\ \A s \in Requests : ~InFlight(s)
  BY <1>1
<1>5. Session = expected
  BY <1>4 DEF Kept, OneByOne
<1>6. Session' = Session
  BY <1>1 DEF Session, Memory
<1>7. InFlight(r)' /\ \A s \in Requests : InFlight(s)' => s = r
  BY <1>2, <1>3, <1>4 DEF InFlight
<1>8. InOrder(r)'
  BY <1>1, <1>2, <1>3, <1>5, <1>6, <1>7 DEF InOrder, NoCookie
<1> QED
  BY <1>7, <1>8

\* What a request loads is what its client's session is.
LEMMA LoadsSession ==
  ASSUME Base, NEW x, NEW y, x.cookie = jar.session, Loads(x, y)
  PROVE  y.loaded = Session
<1>1. /\ jar.session.id \in Nat /\ (jar.session.id = 0 => jar.session = NoCookie)
      /\ NoCookie.keys = {}
  BY DEF Base, Cookie, NoCookie
<1> QED
  BY <1>1 DEF Loads, Known, Session

\* by a step of a request, which loads that or stores its work,
LEMMA OrderSteps ==
  ASSUME Kept, NEW r \in Requests, Sound(run[r]), Steps(r)
  PROVE  OneByOne'
<1> DEFINE x == run[r]
           y == run'[r]
<1>1. /\ run' = [run EXCEPT ![r] = y] /\ config' = config /\ jar' = jar /\ expected' = expected /\ overlap' = overlap
      /\ y.query = x.query /\ y.cookie = x.cookie /\ InFlight(r) /\ y.pc \notin {"over", "killed"} /\ Sound(y)
      /\ (Keeps(x, y) /\ store' = store) \/ Fetching(x, y) \/ Storing(x, y)
  BY DEF Steps, Quiet
<1> SUFFICES ASSUME ~overlap PROVE /\ \A s \in Requests : InFlight(s)' => InOrder(s)'
                                   /\ ~\A s \in Requests : ~InFlight(s)'
  BY <1>1 DEF OneByOne
<1>2. /\ \A s \in Requests : InFlight(s) => s = r
      /\ x.cookie = jar.session
      /\ x.id # 0 => x.loaded = expected
      /\ x.setSession # NoCookie /\ Memory => x.id \in DOMAIN store /\ store[x.id] = Applied(x.query, x.loaded)
      /\ x.setSession = NoCookie \/ ~Memory \/ x.id # x.cookie.id => Session = expected
  BY <1>1 DEF Kept, OneByOne, InOrder
<1>3. \A s \in Requests \ {r} : run'[s] = run[s]
  BY <1>1 DEF Kept, Base, Typed
<1>4. InFlight(r)' /\ \A s \in Requests : InFlight(s)' => s = r
  <2>1. y.pc # "idle"
    BY <1>1 DEF Sound, Placed
  <2> QED
    BY <1>1, <1>2, <1>3, <2>1 DEF InFlight
<1>5. y.setSession # NoCookie /\ Memory => y.id \in DOMAIN store' /\ store'[y.id] = Applied(y.query, y.loaded)
  <2>1. CASE Keeps(x, y) /\ store' = store
    BY <1>1, <1>2, <2>1 DEF Keeps
  <2>2. CASE Fetching(x, y)
    <3>1. x.setSession = NoCookie
      <4>1. Reports(x)
        BY SoundWorked
      <4> QED
        BY <2>2, <4>1 DEF Fetching, Reports
    <3> QED
      BY <2>2, <3>1 DEF Fetching
  <2>3. CASE Storing(x, y)
    BY <1>1, <2>3 DEF Storing
  <2> QED
    BY <1>1, <2>1, <2>2, <2>3
<1>6. y.id # 0 => y.loaded = expected
  <2>1. CASE Fetching(x, y)
    <3>1. y.loaded = Session
      BY <1>2, <2>1, LoadsSession DEF Fetching, Kept
    <3>2. Session = expected
      <4>1. Reports(x)
        BY SoundWorked
      <4> QED
        BY <1>2, <2>1, <4>1 DEF Fetching, Reports
    <3> QED
      BY <3>1, <3>2
  <2>2. CASE Keeps(x, y) \/ Storing(x, y)
    BY <1>2, <2>2 DEF Keeps, Storing
  <2> QED
    BY <1>1, <2>1, <2>2
<1>7. y.setSession = NoCookie \/ ~Memory \/ y.id # y.cookie.id => Session' = expected
  <2>1. CASE store' = store /\ y.setSession = x.setSession
    <3>1. Session' = Session
      BY <1>1, <2>1 DEF Session, Memory
    <3>2. CASE Keeps(x, y)
      BY <1>1, <1>2, <3>1, <3>2 DEF Keeps
    <3>3. CASE Fetching(x, y)
      <4>1. Reports(x)
        BY SoundWorked
      <4> QED
        BY <1>2, <3>1, <3>3, <4>1 DEF Fetching, Reports
    <3>4. CASE Storing(x, y)
      BY <1>1, <1>2, <2>1, <3>1, <3>4 DEF Storing
    <3> QED
      BY <1>1, <3>2, <3>3, <3>4
  <2>2. CASE Storing(x, y)
    <3> SUFFICES ASSUME y.setSession = NoCookie \/ ~Memory \/ y.id # y.cookie.id PROVE Session' = expected
      OBVIOUS
    <3>1. Reports(x) /\ y.setSession # NoCookie
      BY <2>2, SoundWorked DEF Storing, NoCookie
    <3>2. x.setSession = NoCookie
      BY <2>2, <3>1 DEF Storing, Reports
    <3>3. Session = expected
      BY <1>2, <3>2
    <3>4. CASE ~Memory
      BY <1>1, <3>3, <3>4 DEF Session, Memory
    <3>5. CASE Memory
      <4>1. x.id # jar.session.id
        BY <1>1, <1>2, <2>2, <3>1, <3>5 DEF Storing
      <4>2. store' = [i \in DOMAIN store \cup {x.id} |-> IF i = x.id THEN Applied(x.query, x.loaded) ELSE store[i]]
        BY <2>2, <3>5 DEF Storing
      <4> QED
        BY <1>1, <3>3, <3>5, <4>1, <4>2 DEF Session, Memory
    <3> QED
      BY <3>4, <3>5
  <2> QED
    BY <1>1, <2>1, <2>2 DEF Keeps, Fetching
<1>8. InOrder(r)'
  <2>1. Memory' <=> Memory
    BY <1>1 DEF Memory
  <2> QED
    BY <1>1, <1>2, <1>4, <1>5, <1>6, <1>7, <2>1 DEF InOrder, NoCookie, Applied
<1> QED
  BY <1>4, <1>8

\* What an ended request did to the session.
LEMMA EndedWork ==
  ASSUME NEW x, Sound(x), x.pc \in {"answered", "aborted"}
  PROVE  /\ x.ran /\ Has(x.query, "session") => x.id # 0
         /\ x.setSession # NoCookie =>
              /\ x.ran /\ Has(x.query, "session")
              /\ x.setSession = [id |-> x.id, keys |-> IF Memory THEN {} ELSE Applied(x.query, x.loaded)]
         /\ x.setSession = NoCookie /\ x.ran /\ Has(x.query, "session") => Undone(x)
<1>1. Reports(x) /\ (x.id # 0 /\ ~x.saved => Unsaved(x))
  BY SoundWorked
<1>2. x.ran => (x.id # 0 <=> Has(x.query, "session"))
  BY DEF Sound, Guarded
<1>3. ASSUME x.setSession = NoCookie, x.ran, x.id # 0 PROVE Undone(x)
  <2>1. CASE x.saved
    BY <1>1, <1>3, <2>1 DEF Reports
  <2>2. CASE ~x.saved
    BY <1>1, <1>3, <2>2 DEF Unsaved
  <2> QED
    BY <1>1, <2>1, <2>2
<1>4. ASSUME x.setSession # NoCookie
      PROVE  /\ x.ran /\ x.id # 0
             /\ x.setSession = [id |-> x.id, keys |-> IF Memory THEN {} ELSE Applied(x.query, x.loaded)]
  BY <1>1, <1>4 DEF Reports
<1> QED
  BY <1>2, <1>3, <1>4

\* by the end of one: the client learns of the work, or had the session,
LEMMA OrderOver ==
  ASSUME Kept, NEW r \in Requests, Deliver(r) \/ Lose(r)
  PROVE  OneByOne'
<1> DEFINE x == run[r]
           y == run'[r]
<1>1. PICK received \in BOOLEAN : Over(r, received) /\ IF received THEN Deliver(r) ELSE Lose(r)
  <2>1. CASE Deliver(r)
    BY <2>1 DEF Deliver
  <2>2. CASE Lose(r)
    BY <2>2 DEF Lose
  <2> QED
    BY <2>1, <2>2
<1>2. x.pc \in {"answered", "aborted"}
  BY DEF Deliver, Lose
<1>3. /\ Passed(x, y) /\ run' = [run EXCEPT ![r] = y] /\ Sound(x) /\ y.pc = "over"
  BY <1>1, <1>2, OverMoves DEF Kept
<1>4. config' = config /\ store' = store /\ overlap' = overlap
  BY <1>1 DEF Over
<1> SUFFICES ASSUME ~overlap PROVE /\ \A s \in Requests : ~InFlight(s)'
                                   /\ Session' = expected'
  BY <1>4 DEF OneByOne
<1>5. /\ \A s \in Requests : InFlight(s) => s = r
      /\ x.cookie = jar.session
      /\ x.id # 0 => x.loaded = expected
      /\ x.setSession # NoCookie /\ Memory => x.id \in DOMAIN store /\ store[x.id] = Applied(x.query, x.loaded)
      /\ x.setSession = NoCookie \/ ~Memory \/ x.id # x.cookie.id => Session = expected
  BY <1>2 DEF Kept, OneByOne, InOrder, InFlight
<1>6. \A s \in Requests : ~InFlight(s)'
  <2>1. \A s \in Requests \ {r} : run'[s] = run[s]
    BY <1>3 DEF Kept, Base, Typed
  <2> QED
    BY <1>3, <1>5, <2>1 DEF InFlight
<1>7. /\ x.ran /\ Has(x.query, "session") => x.id # 0
      /\ x.setSession # NoCookie =>
           /\ x.ran /\ Has(x.query, "session")
           /\ x.setSession = [id |-> x.id, keys |-> IF Memory THEN {} ELSE Applied(x.query, x.loaded)]
      /\ x.setSession = NoCookie /\ x.ran /\ Has(x.query, "session") => Undone(x)
  BY <1>2, <1>3, EndedWork
<1>8. expected' = IF Takes(x, received) THEN Applied(x.query, expected) ELSE expected
  BY <1>1 DEF Over
<1>9. CASE x.setSession = NoCookie
  <2>1. jar'.session = jar.session
    <3>1. CASE Deliver(r)
      BY <1>9, <3>1 DEF Deliver
    <3>2. CASE Lose(r)
      BY <3>2 DEF Lose
    <3> QED
      BY <3>1, <3>2
  <2>2. Session' = Session /\ Session = expected
    BY <1>4, <1>5, <1>9, <2>1 DEF Session, Memory
  <2>3. Takes(x, received) => Applied(x.query, expected) = expected
    BY <1>5, <1>7, <1>9 DEF Takes, Undone
  <2> QED
    BY <1>6, <1>8, <2>2, <2>3
<1>10. CASE x.setSession # NoCookie
  <2>1. /\ x.ran /\ Has(x.query, "session") /\ x.loaded = expected
        /\ x.setSession = [id |-> x.id, keys |-> IF Memory THEN {} ELSE Applied(x.query, expected)]
        /\ Memory => x.id \in DOMAIN store /\ store[x.id] = Applied(x.query, expected)
    <3>1. x.ran /\ Has(x.query, "session") /\ x.loaded = expected
      BY <1>5, <1>7, <1>10
    <3> QED
      BY <1>5, <1>7, <1>10, <3>1
  <2>2. CASE Deliver(r) /\ received
    <3>1. jar'.session = x.setSession
      BY <1>10, <2>2 DEF Deliver
    <3>3. expected' = Applied(x.query, expected)
      BY <1>8, <2>1, <2>2 DEF Takes
    <3>4. Session' = Applied(x.query, expected)
      BY <1>4, <2>1, <3>1 DEF Session, Memory
    <3> QED
      BY <1>6, <3>3, <3>4
  <2>3. CASE Lose(r) /\ ~received
    <3>1. jar' = jar /\ Session' = Session
      BY <1>4, <2>3 DEF Lose, Session, Memory
    <3>2. CASE Memory /\ x.id = x.cookie.id
      <4>1. expected' = Applied(x.query, expected)
        BY <1>8, <2>1, <3>2 DEF Takes
      <4>2. Session = Applied(x.query, expected)
        BY <1>5, <2>1, <3>2 DEF Session
      <4> QED
        BY <1>6, <3>1, <4>1, <4>2
    <3>3. CASE ~(Memory /\ x.id = x.cookie.id)
      <4>1. expected' = expected
        BY <1>8, <2>3, <3>3 DEF Takes
      <4>2. Session = expected
        BY <1>5, <3>3
      <4> QED
        BY <1>6, <3>1, <4>1, <4>2
    <3> QED
      BY <3>2, <3>3
  <2> QED
    BY <1>1, <2>2, <2>3
<1> QED
  BY <1>9, <1>10

\* and by a restart, which loses what is in memory.
LEMMA OrderRestart ==
  ASSUME Kept, Restart
  PROVE  OneByOne'
<1>1. config' = config /\ store' = <<>> /\ jar' = jar /\ overlap' = overlap
      /\ expected' = IF Memory THEN {} ELSE expected
  BY DEF Restart
<1>2. \A r \in Requests : ~InFlight(r)'
  <2> SUFFICES ASSUME NEW r \in Requests PROVE ~InFlight(r)'
    OBVIOUS
  <2>1. run'[r].pc = "killed" \/ (~InFlight(r) /\ run'[r] = run[r])
    BY RestartMoves DEF Kept
  <2> QED
    BY <2>1 DEF InFlight
<1> SUFFICES ASSUME ~overlap PROVE Session' = expected'
  BY <1>1, <1>2 DEF OneByOne
<1>3. CASE Memory
  <2>1. DOMAIN store' = {}
    BY <1>1
  <2> QED
    BY <1>1, <1>3, <2>1 DEF Session, Memory
<1>4. CASE ~Memory
  <2>1. Session = expected
    BY <1>4 DEF Kept, OneByOne, InOrder
  <2> QED
    BY <1>1, <1>4, <2>1 DEF Session, Memory
<1> QED
  BY <1>3, <1>4

\* Kept holds at first,
LEMMA KeptInit == Init => Kept
<1> SUFFICES ASSUME Init PROVE Kept
  OBVIOUS
<1>1. Base
  BY BaseInit
<1>2. store = <<>> /\ jar.session = NoCookie /\ expected = {} /\ overlap = FALSE /\ \A r \in Requests : run[r] = Unsent
  BY DEF Init
<1>3. DOMAIN store = {} /\ NoCookie.keys = {} /\ Unsent.pc = "idle"
  BY <1>2 DEF NoCookie, Unsent
<1>4. OneRequestKept
  BY <1>2, <1>3 DEF OneRequestKept
<1>5. Session = expected
  BY <1>2, <1>3 DEF Session
<1>6. OneByOne
  BY <1>2, <1>3, <1>5 DEF OneByOne, InFlight
<1> QED
  BY <1>1, <1>4, <1>6 DEF Kept

\* and every step keeps it.
LEMMA KeptNext == Kept /\ [Next]_vars => Kept'
<1> SUFFICES ASSUME Kept, [Next]_vars PROVE Kept'
  OBVIOUS
<1>1. Base /\ OneRequestKept /\ Base'
  BY BaseNext DEF Kept
<1>2. ASSUME NEW r \in Requests, NEW q \in Traffic[config], Send(r, q) PROVE Kept'
  BY <1>1, <1>2, OneSend, OrderSend DEF Kept
<1>3. ASSUME NEW r \in Requests, Step(r) PROVE Kept'
  BY <1>1, <1>3, StepSound, OneSteps, OrderSteps DEF Kept
<1>4. ASSUME NEW r \in Requests, Deliver(r) \/ Lose(r) PROVE Kept'
  BY <1>1, <1>4, OneOver, OrderOver DEF Kept
<1>5. CASE Restart
  BY <1>1, <1>5, OneRestart, OrderRestart DEF Kept
<1>6. CASE UNCHANGED vars
  <2>1. OneRequestKept'
    BY <1>1, <1>6 DEF OneRequestKept, OneRequest, Applied, Memory, NoCookie, vars
  <2>2. OneByOne'
    BY <1>6 DEF Kept, OneByOne, InOrder, InFlight, Session, Applied, Memory, NoCookie, vars
  <2> QED
    BY <1>1, <2>1, <2>2 DEF Kept
<1> QED
  BY <1>2, <1>3, <1>4, <1>5, <1>6 DEF Next

\* A session holds what one request made of the values it loaded; without overlap
\* the client's session has the effect of all requests in their order, up to each
\* one's first write (SessionMiddleware, sessionResponseWriter, the stores).
THEOREM SessionsAreKept == Spec => []SessionKept
<1>1. Kept => SessionKept
  BY DEF Kept, OneRequestKept, OneByOne, SessionKept
<1> QED
  BY <1>1, KeptInit, KeptNext, PTL DEF Spec
=============================================================================
