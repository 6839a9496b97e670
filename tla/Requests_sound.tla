--------------------------- MODULE Requests_sound ---------------------------
(***************************************************************************)
(* One request of Requests on its way: an invariant of its record, Sound,  *)
(* and the proof that every step of the request keeps it.                  *)
(*                                                                         *)
(* Requests writes a step as an update of run[r].  The first half brings   *)
(* each action into the form of a relation between the request before and  *)
(* after it: Passes and TurnsBack on the way down, Starts, Edits, Puts and *)
(* Leaves in the handler, Climbs on the way up, Finishes and Passed at the *)
(* end.  The second half shows that each relation keeps each part of       *)
(* Sound.  Requests_proofs puts the requests together.                     *)
(***************************************************************************)
EXTENDS Requests, SequenceTheorems, TLAPS

\* The fields of a request.
Parts == {"pc", "at", "query", "cookie", "csrf", "id", "keys", "loaded", "dirty", "saved", "claims", "user",
          "done", "error", "sent", "recorded", "logged", "setSession", "setCsrf", "span", "ran"}

\* Where a request is, and what it holds there.
Placed(x) ==
  /\ DOMAIN x = Parts /\ x.query \in Query /\ x.at \in Nat /\ x.done \in 0..Len(Script(x.query))
  /\ x.pc \in {"down", "handler", "up", "panic", "answered", "aborted", "over", "killed"}
  /\ x.ran \in BOOLEAN /\ x.saved \in BOOLEAN /\ x.dirty \in BOOLEAN
  /\ x.keys \subseteq Keys /\ x.loaded \subseteq Keys
  /\ x.cookie \in Cookie /\ x.csrf \in Nat /\ x.setCsrf \in Nat /\ x.id \in Nat
  /\ x.pc = "down" => x.at \in 1..(Len(Chain(x.query)) + 1)
  /\ x.pc = "handler" => x.at = Len(Chain(x.query)) + 1
  /\ x.pc \in {"up", "panic"} => x.at \in 0..Len(Chain(x.query))

\* What the middlewares before the i-th have put into the context.
UserAt(x, i) == LET q == x.query IN
  IF ~Before(q, i, "auth") THEN Nobody
  ELSE IF UserOfToken(q, i) THEN [from |-> "token", roles |-> q.token.roles]
  ELSE [from |-> "session", roles |-> "roles" \in x.loaded]
ClaimsAt(x, i) == IF Before(x.query, i, "jwt") THEN x.query.token ELSE Nobody

\* On the way down every middleware behind the request accepts it, and the context
\* is what they left; a handler ran exactly if the whole chain accepts.
Guarded(x) ==
  /\ x.pc = "down" => /\ \A i \in 1..(x.at - 1) : Accepts(x, i)
                      /\ x.claims = ClaimsAt(x, x.at) /\ x.user = UserAt(x, x.at)
                      /\ ~x.ran /\ x.keys = x.loaded
                      /\ x.id # 0 <=> Before(x.query, x.at, "session")
  /\ x.id = 0 => x.loaded = {}
  /\ x.ran => /\ x.pc # "down" /\ Admits(x) /\ x.user = UserAt(x, Len(Chain(x.query)) + 1)
              /\ x.id # 0 <=> Has(x.query, "session")
  /\ ~x.ran => /\ x.pc \notin {"handler", "panic", "aborted"}
               /\ x.pc \in {"down", "killed"} \/ ~Admits(x)

\* The handler has only changed the session so far; its script leaves the session as it was.
Pending(x) == \A i \in 1..x.done : IsChange(Script(x.query)[i])
Undone(x) == Applied(x.query, x.loaded) = x.loaded

\* A session that was saved is what the script makes of it; what was not
\* saved at the first write is as it was.
Reports(x) ==
  /\ x.setSession # NoCookie =>
       /\ x.ran /\ x.saved /\ x.id # 0
       /\ x.setSession = [id |-> x.id, keys |-> IF Memory THEN {} ELSE Applied(x.query, x.loaded)]
  /\ x.saved /\ x.ran /\ x.setSession = NoCookie => Undone(x)

\* Before Save nothing has been written and the session middleware is still to
\* come, so that it saves exactly the changes of the steps done.
Unsaved(x) == LET s == Script(x.query) IN
  /\ x.sent = 0 /\ Pending(x)
  /\ x.keys = Made(s, x.done, x.loaded) /\ (x.dirty <=> x.done # 0)
  /\ x.pc = "up" => \E i \in 1..x.at : Chain(x.query)[i] = "session"
  /\ x.pc = "up" /\ x.ran => x.done = Len(s) \/ s[x.done + 1].op = "fail"
  /\ x.pc = "panic" => x.done < Len(s) /\ s[x.done + 1].op = "panic"
  /\ x.pc # "answered"
  /\ x.pc = "aborted" => Undone(x)

\* The work on the session.
Worked(x) ==
  /\ Reports(x)
  /\ x.pc = "up" => \A i \in 1..x.at : Chain(x.query)[i] = "session" => x.id # 0
  /\ x.pc = "down" => x.sent = 0 /\ ~x.saved
  /\ ~x.ran => x.done = 0 /\ ~x.dirty /\ x.error = 0
  /\ x.id # 0 /\ ~x.saved => Unsaved(x)

\* An open span has its middleware still to come.
Spanned(x) == LET q == x.query IN
  /\ x.span \in {"none", "open", "ended"}
  /\ x.pc = "down" => (x.span = "none" <=> ~Before(q, x.at, "tracing")) /\ x.span # "ended"
  /\ x.pc = "handler" /\ x.span = "open" => Has(q, "tracing")
  /\ x.ran /\ Has(q, "tracing") => x.span # "none"
  /\ x.span = "open" /\ x.pc \in {"up", "panic"} => \E i \in 1..x.at : Chain(q)[i] = "tracing"
  /\ x.pc \in {"answered", "aborted", "over"} => x.span # "open"

\* A logger that has an ErrorMiddleware further inside, if there is one.
SeesAll(q, j) == /\ Chain(q)[j] = "logger"
                 /\ Has(q, "errors") => \E i \in DOMAIN Chain(q) : j < i /\ Chain(q)[i] = "errors"

\* An error waits for an ErrorMiddleware that is still to come; what was recorded
\* is what was sent, and once such a logger is passed it does not change.
Told(x) == LET q == x.query IN
  /\ x.error \in {0} \cup 200..599
  /\ x.error # 0 => /\ x.pc \in {"up", "killed"} /\ (x.sent = 0 \/ StatusTwice(q))
                    /\ Has(q, "errors") /\ \A i \in DOMAIN Chain(q) : Chain(q)[i] = "errors" => i <= x.at
  /\ x.pc = "down" => x.sent = 0 /\ x.recorded = 200
  /\ x.pc \in {"down", "handler", "panic", "aborted"} => x.logged = 0
  /\ x.logged # 0 => Has(q, "logger")
  /\ x.pc = "handler" /\ x.sent # 0 => \E i \in 1..x.done : Script(q)[i].op \in {"write", "header"}
  /\ ~StatusTwice(q) => (x.sent = 0 /\ x.recorded = 200) \/ (x.sent # 0 /\ x.sent = x.recorded)
  /\ x.pc = "answered" => x.sent # 0
  /\ SeesErrors(q) /\ ~StatusTwice(q) /\ x.logged # 0 =>
       /\ x.pc = "up" /\ (\E j \in DOMAIN Chain(q) : x.at < j /\ SeesAll(q, j)) => x.logged = x.recorded
       /\ x.pc \in {"answered", "aborted", "over"} => x.logged = x.sent

\* The inductive invariant of one request.
Sound(x) == Placed(x) /\ Guarded(x) /\ Worked(x) /\ Spanned(x) /\ Told(x)

-----------------------------------------------------------------------------
(* The parts of Sound depend on the settings and the request only. *)

\* A chain is a sequence of middlewares.
LEMMA ChainType ==
  ASSUME NEW c \in Configs, NEW route \in Routes
  PROVE  ChainOf(c, route) \in Seq(Middleware)
<1>1. c.outer \in Seq(Middleware) /\ Group[route] \in Seq(Middleware)
  BY RequestsAssumption DEF RequestsAssumption, Config
<1>2. ASSUME NEW m \in Guards PROVE (IF m \in c.enabled THEN <<m>> ELSE <<>>) \in Seq(Middleware)
  <2>1. <<m>> \in Seq(Middleware) /\ <<>> \in Seq(Middleware)
    BY DEF Middleware
  <2> QED
    BY <2>1
<1>3. Installed(c) \in Seq(Middleware)
  BY <1>2 DEF Installed, Guards
<1> QED
  BY <1>1, <1>3 DEF ChainOf

\* A script is a sequence of steps.
LEMMA ScriptType == ASSUME NEW q \in Query PROVE Script(q) \in Seq(Ops)
<1>1. q.script \in Seq(Ops)
  BY DEF Query
<1>2. <<[op |-> "fail", code |-> 400]>> \in Seq(Ops)
  BY DEF Ops
<1> QED
  BY <1>1, <1>2 DEF Script

\* The chain of a query depends on the settings only.
LEMMA ChainFrame == ASSUME NEW q, config' = config PROVE Chain(q)' = Chain(q)
  BY DEF Chain

\* So does what stands before a place of it,
LEMMA BeforeFrame == ASSUME NEW q, NEW i, NEW m, config' = config
  PROVE  /\ Before(q, i, m)' <=> Before(q, i, m)
         /\ Has(q, m)' <=> Has(q, m)
         /\ UserOfToken(q, i)' <=> UserOfToken(q, i)
  BY ChainFrame DEF Before, Has, UserOfToken

\* what accepts a request,
LEMMA AcceptsFrame == ASSUME NEW x, NEW i, config' = config
  PROVE  /\ Accepts(x, i)' <=> Accepts(x, i)
         /\ UserAt(x, i)' = UserAt(x, i)
         /\ ClaimsAt(x, i)' = ClaimsAt(x, i)
  BY ChainFrame, BeforeFrame DEF Accepts, TokenAccepted, UserAt, ClaimsAt

\* and what admits it.
LEMMA AdmitsFrame == ASSUME NEW x, NEW q, config' = config
  PROVE  /\ Admits(x)' <=> Admits(x)
         /\ SeesErrors(q)' <=> SeesErrors(q)
  BY ChainFrame, BeforeFrame, AcceptsFrame DEF Admits, SeesErrors

\* A request that is Sound stays so while the settings stay.
LEMMA Frame == ASSUME NEW x, config' = config PROVE Sound(x)' <=> Sound(x)
<1>1. Placed(x)' <=> Placed(x)
  BY ChainFrame DEF Placed
<1>2. Guarded(x)' <=> Guarded(x)
  BY ChainFrame, BeforeFrame, AcceptsFrame, AdmitsFrame DEF Guarded
<1>3. Worked(x)' <=> Worked(x)
  BY ChainFrame, BeforeFrame, AcceptsFrame, AdmitsFrame DEF Worked, Reports, Unsaved, Memory, Pending, Undone
<1>4. Spanned(x)' <=> Spanned(x)
  BY ChainFrame, BeforeFrame DEF Spanned
<1>5. Told(x)' <=> Told(x)
  BY ChainFrame, BeforeFrame, AdmitsFrame DEF Told, SeesAll
<1> QED
  BY <1>1, <1>2, <1>3, <1>4, <1>5 DEF Sound

-----------------------------------------------------------------------------
(* Writing, passing a request on and turning it back. *)

\* The request y differs from x in fields of F at most.
Same(x, y, F) == DOMAIN y = Parts /\ \A f \in Parts \ F : y[f] = x[f]
\* What sessionResponseWriter.Save does to a request, if b.
SaveParts(x, y, b) ==
  IF b
    THEN /\ y.saved = TRUE /\ y.dirty = IF Saves(x) THEN FALSE ELSE x.dirty
         /\ y.setSession = IF Saves(x) /\ x.sent = 0 THEN [id |-> x.id, keys |-> IF Memory THEN {} ELSE x.keys]
                           ELSE x.setSession
    ELSE y.saved = x.saved /\ y.dirty = x.dirty /\ y.setSession = x.setSession

\* What it does to the store.
StoreAfter(x, b) == store' = IF b THEN Stored(x) ELSE store

\* A middleware accepts the request and calls next.
Passes(x, y) == LET q == x.query
                    m == Chain(q)[x.at] IN
  /\ x.pc = "down" /\ x.at \in DOMAIN Chain(q) /\ Accepts(x, x.at)
  /\ Same(x, y, {"at", "setCsrf", "id", "keys", "loaded", "claims", "user", "span"})
  /\ y.at = x.at + 1 /\ y.setCsrf \in Nat /\ y.id \in Nat
  /\ y.claims = IF m = "jwt" THEN q.token ELSE x.claims
  /\ y.user = IF m # "auth" THEN x.user
              ELSE IF x.claims # Nobody THEN [from |-> "token", roles |-> x.claims.roles]
                   ELSE [from |-> "session", roles |-> "roles" \in x.keys]
  /\ y.span = IF m = "tracing" THEN "open" ELSE x.span
  /\ m # "session" => y.id = x.id /\ y.keys = x.keys /\ y.loaded = x.loaded
  /\ m = "session" => y.id # 0 /\ y.keys = y.loaded /\ y.loaded \subseteq Keys

\* A middleware answers the request itself.
TurnsBack(x, y) ==
  /\ x.pc = "down" /\ x.at \in DOMAIN Chain(x.query) /\ ~Accepts(x, x.at)
  /\ Same(x, y, {"pc", "at", "setCsrf", "sent", "recorded", "saved"})
  /\ y.pc = "up" /\ y.at = x.at - 1 /\ y.sent \in 200..599 /\ y.recorded = y.sent
  /\ y.saved \in BOOLEAN /\ (y.saved <=> Inside(x)) /\ y.setCsrf \in Nat

\* The types of what the requests share.
Typed == run = [s \in Requests |-> run[s]] /\ config \in Configs /\ fresh \in Nat \ {0}
         /\ DOMAIN store \subseteq 1..(fresh - 1) /\ \A i \in DOMAIN store : store[i] \subseteq Keys

\* Save changes the fields about saving.
LEMMA SavedFields ==
  ASSUME NEW x, DOMAIN x = Parts
  PROVE  LET y == Saved(x) IN
           /\ Same(x, y, {"saved", "dirty", "setSession"})
           /\ y.saved = TRUE /\ y.dirty = IF Saves(x) THEN FALSE ELSE x.dirty
           /\ y.setSession = IF Saves(x) /\ x.sent = 0 THEN [id |-> x.id, keys |-> IF Memory THEN {} ELSE x.keys]
                             ELSE x.setSession
  BY DEF Saved, Same, Parts

\* A write saves if it is inside the session middleware.
LEMMA Responds ==
  ASSUME Typed, NEW r \in Requests, NEW x, NEW z, DOMAIN x = Parts, Same(x, z, Parts \ {"saved", "dirty", "setSession"}),
         Respond(r, x, z)
  PROVE  /\ Same(z, run'[r], {"saved", "dirty", "setSession"}) /\ SaveParts(x, run'[r], Inside(x))
         /\ StoreAfter(x, Inside(x))
<1> DEFINE s == Saved(x)
<1>1. /\ s.saved = TRUE /\ s.dirty = IF Saves(x) THEN FALSE ELSE x.dirty
      /\ s.setSession = IF Saves(x) /\ x.sent = 0 THEN [id |-> x.id, keys |-> IF Memory THEN {} ELSE x.keys]
                             ELSE x.setSession
  BY SavedFields
<1>2. DOMAIN z = Parts /\ z.saved = x.saved /\ z.dirty = x.dirty /\ z.setSession = x.setSession
  BY DEF Same, Parts
<1> HIDE DEF s
<1>3. CASE Inside(x)
  <2> DEFINE y == [z EXCEPT !.saved = s.saved, !.dirty = s.dirty, !.setSession = s.setSession]
  <2>1. run'[r] = y /\ store' = Stored(x)
    BY <1>3 DEF Respond, s, Typed
  <2>2. Same(z, y, {"saved", "dirty", "setSession"}) /\ y.saved = s.saved /\ y.dirty = s.dirty /\ y.setSession = s.setSession
    BY <1>2 DEF Same, Parts
  <2> QED
    BY <1>1, <1>3, <2>1, <2>2 DEF SaveParts, StoreAfter
<1>4. CASE ~Inside(x)
  BY <1>2, <1>4 DEF Respond, Typed, Same, SaveParts, StoreAfter
<1> QED
  BY <1>3, <1>4

\* next.ServeHTTP moves the request on by one.
LEMMA Forwards ==
  ASSUME Typed, NEW r \in Requests, NEW x, DOMAIN x = Parts, Forward(r, x)
  PROVE  Same(x, run'[r], {"at"}) /\ run'[r].at = x.at + 1 /\ store' = store
  BY DEF Typed, Forward, Same, Parts

\* A status is sent once and recorded always.
LEMMA StatusFields ==
  ASSUME NEW x, DOMAIN x = Parts, NEW code
  PROVE  LET y == Status(x, code) IN
           Same(x, y, {"sent", "recorded"}) /\ y.recorded = code /\ y.sent = IF x.sent = 0 THEN code ELSE x.sent
  BY DEF Status, Same, Parts

\* A middleware answers the request with code; x is the request, with a new CSRF
\* token perhaps.
Refusing(r, x, code) ==
  /\ Sound(run[r]) /\ run[r].pc = "down" /\ run[r].at \in DOMAIN Chain(run[r].query)
  /\ ~Accepts(run[r], run[r].at) /\ Refuse(r, x, code) /\ code \in 200..599
  /\ Same(run[r], x, {"setCsrf"}) /\ x.setCsrf \in Nat

\* A middleware that refuses turns the request back; nothing is stored, for
\* nothing has changed yet.
LEMMA Refuses ==
  ASSUME Typed, NEW r \in Requests, NEW x, NEW code, Refusing(r, x, code)
  PROVE  TurnsBack(run[r], run'[r]) /\ store' = store
<1> USE DEF Refusing
<1> DEFINE z == [Status(x, code) EXCEPT !.pc = "up", !.at = @ - 1]
<1>1. DOMAIN x = Parts /\ ~x.dirty /\ ~x.saved /\ x.saved \in BOOLEAN /\ x.sent = 0 /\ x.at = run[r].at
  BY DEF Sound, Placed, Worked, Reports, Guarded, Same, Parts
<1>2. Same(x, z, {"pc", "at", "sent", "recorded"}) /\ z.pc = "up" /\ z.at = x.at - 1 /\ z.sent = code /\ z.recorded = code
  <2> DEFINE s == Status(x, code)
  <2>1. Same(x, s, {"sent", "recorded"}) /\ s.recorded = code /\ s.sent = code
    BY <1>1, StatusFields
  <2> HIDE DEF s
  <2>2. LET y == [s EXCEPT !.pc = "up", !.at = @ - 1] IN
          Same(x, y, {"pc", "at", "sent", "recorded"}) /\ y.pc = "up" /\ y.at = x.at - 1 /\ y.sent = code /\ y.recorded = code
    BY <2>1 DEF Same, Parts
  <2> QED
    BY <2>2 DEF s
<1>3. Respond(r, x, z)
  BY DEF Refuse
<1> HIDE DEF z
<1>4. /\ Same(z, run'[r], {"saved", "dirty", "setSession"}) /\ SaveParts(x, run'[r], Inside(x))
      /\ StoreAfter(x, Inside(x))
  <2>1. Same(x, z, Parts \ {"saved", "dirty", "setSession"})
    BY <1>2 DEF Same, Parts
  <2> QED
    BY <1>1, <1>3, <2>1, Responds
<1>5. ~Saves(x)
  BY <1>1 DEF Saves
<1>6. Inside(x) <=> Inside(run[r])
  BY <1>1 DEF Same, Parts, Inside
<1>7. /\ run'[r].dirty = x.dirty /\ run'[r].setSession = x.setSession
      /\ run'[r].saved \in BOOLEAN /\ (run'[r].saved <=> Inside(run[r]))
  <2>1. CASE Inside(x)
    <3>1. run'[r].dirty = x.dirty /\ run'[r].setSession = x.setSession
      BY <1>4, <1>5, <2>1 DEF SaveParts
    <3>2. run'[r].saved = TRUE
      BY <1>4, <1>5, <2>1 DEF SaveParts
    <3> QED
      BY <3>1, <3>2, <1>6, <2>1
  <2>2. CASE ~Inside(x)
    <3>1. run'[r].dirty = x.dirty /\ run'[r].setSession = x.setSession
      BY <1>4, <1>5, <2>2 DEF SaveParts
    <3>2. run'[r].saved = x.saved
      BY <1>4, <1>5, <2>2 DEF SaveParts
    <3> QED
      BY <1>1, <3>1, <3>2, <1>6, <2>2
  <2> QED
    BY <2>1, <2>2
<1>8. Same(run[r], run'[r], {"pc", "at", "setCsrf", "sent", "recorded", "saved"})
  BY <1>1, <1>2, <1>4, <1>7 DEF Same, Parts
<1>9. run'[r].setCsrf \in Nat /\ run'[r].pc = "up" /\ run'[r].at = run[r].at - 1 /\ run'[r].sent = code /\ run'[r].recorded = code
  BY <1>1, <1>2, <1>4 DEF Same, Parts
<1>10. store' = store
  BY <1>4, <1>5 DEF StoreAfter, Stored
<1> QED
  BY <1>7, <1>8, <1>9, <1>10 DEF TurnsBack

-----------------------------------------------------------------------------
(* The way down: each guard passes the request on or turns it back. *)

\* store.Get, whatever the store: a known session, or a new one.
Loads(x, y) == LET c == x.cookie IN
  /\ y.id = IF Known(c) THEN c.id ELSE fresh
  /\ y.keys = y.loaded
  /\ y.loaded = IF Known(c) THEN IF Memory THEN store[c.id] ELSE c.keys ELSE {}
  /\ fresh' = IF Known(c) THEN fresh ELSE fresh + 1

\* What a guard's step amounts to.
GuardMoves(r) == LET x == run[r]
                     y == run'[r] IN
  /\ Passes(x, y) \/ TurnsBack(x, y)
  /\ run' = [run EXCEPT ![r] = y] /\ UNCHANGED store
  /\ fresh' \in {fresh, fresh + 1}
  /\ Passes(x, y) /\ Chain(x.query)[x.at] = "session" => Loads(x, y)

\* On the way down the request is at a middleware of its chain.
LEMMA DownAt ==
  ASSUME NEW r, Sound(run[r]), NEW m, Down(r, m)
  PROVE  /\ run[r].pc = "down" /\ run[r].at \in DOMAIN Chain(run[r].query) /\ Chain(run[r].query)[run[r].at] = m
         /\ run[r].query \in Query /\ DOMAIN run[r] = Parts
<1>1. run[r].at \in Nat \ {0}
  BY DEF Sound, Placed, Down
<1> QED
  BY <1>1 DEF Down, Sound, Placed

\* A step of a request changes that request only, whether it goes on
LEMMA ForwardMoves == ASSUME Typed, NEW r \in Requests, NEW x, Forward(r, x) PROVE run' = [run EXCEPT ![r] = run'[r]]
  BY DEF Typed, Forward

\* or writes.
LEMMA RespondMoves == ASSUME Typed, NEW r \in Requests, NEW x, NEW y, Respond(r, x, y) PROVE run' = [run EXCEPT ![r] = run'[r]]
  BY DEF Typed, Respond

\* Who turns the request back does not pass it on.
LEMMA TurningMoves ==
  ASSUME NEW r \in Requests, TurnsBack(run[r], run'[r]), store' = store,
         run' = [run EXCEPT ![r] = run'[r]], fresh' \in {fresh, fresh + 1}
  PROVE  GuardMoves(r)
<1>1. ~Passes(run[r], run'[r])
  BY DEF Passes, TurnsBack
<1> QED
  BY <1>1 DEF GuardMoves

\* Nor does a guard that answers 401 and changes nothing else.
LEMMA TurnsAway ==
  ASSUME Typed, NEW r \in Requests, Sound(run[r]), run[r].pc = "down", run[r].at \in DOMAIN Chain(run[r].query),
         ~Accepts(run[r], run[r].at), Refuse(r, run[r], 401), fresh' = fresh
  PROVE  GuardMoves(r)
<1> DEFINE x == run[r]
<1>1. 401 \in 200..599
  OBVIOUS
<1>2. Same(x, x, {"setCsrf"}) /\ x.setCsrf \in Nat
  BY DEF Sound, Placed, Same
<1>3. TurnsBack(x, run'[r]) /\ store' = store
  <2>1. Refusing(r, x, 401)
    BY <1>1, <1>2 DEF Refusing
  <2> QED
    BY <2>1, Refuses
<1>4. run' = [run EXCEPT ![r] = run'[r]]
  BY RespondMoves DEF Refuse
<1> QED
  BY <1>3, <1>4, TurningMoves

\* A guard that only says yes or no.
LEMMA Plain ==
  ASSUME Typed, NEW r \in Requests, Sound(run[r]), NEW m, Down(r, m), m \notin {"session", "auth", "jwt", "tracing"},
         NEW x, Same(run[r], x, {"setCsrf"}), x.setCsrf \in Nat, fresh' \in {fresh, fresh + 1},
         \/ Accepts(run[r], run[r].at) /\ Forward(r, x)
         \/ ~Accepts(run[r], run[r].at) /\ \E code \in 200..599 : Refuse(r, x, code)
  PROVE  GuardMoves(r)
<1>1. run' = [run EXCEPT ![r] = run'[r]]
  BY ForwardMoves, RespondMoves DEF Refuse
<1>2. CASE Accepts(run[r], run[r].at) /\ Forward(r, x)
  <2>1. Same(x, run'[r], {"at"}) /\ run'[r].at = x.at + 1 /\ store' = store
    BY <1>2, Forwards DEF Same
  <2>2. Same(run[r], run'[r], {"at", "setCsrf"}) /\ run'[r].at = run[r].at + 1 /\ run'[r].setCsrf \in Nat
    BY <2>1 DEF Same, Parts
  <2>3. Passes(run[r], run'[r])
    <3> DEFINE a == run[r]
               b == run'[r]
    <3>1. /\ b.claims = a.claims /\ b.user = a.user /\ b.span = a.span
          /\ b.id = a.id /\ b.keys = a.keys /\ b.loaded = a.loaded /\ b.id \in Nat
      <4>1. DOMAIN a = Parts /\ a.id \in Nat
        BY DEF Sound, Placed
      <4> QED
        BY <2>2, <4>1 DEF Same, Parts
    <3>2. Same(a, b, {"at", "setCsrf", "id", "keys", "loaded", "claims", "user", "span"})
      BY <2>2 DEF Same
    <3>3. a.pc = "down" /\ a.at \in DOMAIN Chain(a.query) /\ Accepts(a, a.at) /\ Chain(a.query)[a.at] = m
      BY <1>2, DownAt
    <3> HIDE DEF a, b
    <3> QED
      BY <2>2, <3>1, <3>2, <3>3 DEF Passes, a, b
  <2> QED
    BY <1>1, <2>1, <2>3, DownAt DEF GuardMoves
<1>3. CASE ~Accepts(run[r], run[r].at) /\ \E code \in 200..599 : Refuse(r, x, code)
  <2>1. TurnsBack(run[r], run'[r]) /\ store' = store
    <3>1. PICK code \in 200..599 : Refuse(r, x, code)
      BY <1>3
    <3>2. run[r].pc = "down" /\ run[r].at \in DOMAIN Chain(run[r].query)
      BY DownAt
    <3>3. Refusing(r, x, code)
      BY <1>3, <3>1, <3>2 DEF Refusing
    <3> QED
      BY <3>3, Refuses
  <2> QED
    BY <1>1, <2>1, TurningMoves
<1> QED
  BY <1>2, <1>3

\* CORS, headers, CSRF and the API key are such guards.
LEMMA PlainGuards ==
  ASSUME Typed, NEW r \in Requests, Sound(run[r]), Cors(r) \/ SecureHeaders(r) \/ Csrf(r) \/ ApiKey(r)
  PROVE  GuardMoves(r)
<1> DEFINE x == run[r]
<1>1. DOMAIN x = Parts /\ x.setCsrf \in Nat /\ Same(x, x, {"setCsrf"})
  BY DEF Sound, Placed, Same
<1>2. CASE Cors(r)
  <2>1. Down(r, "cors") /\ fresh' = fresh
    BY <1>2 DEF Cors
  <2>2. Accepts(x, x.at) <=> x.query.method # "OPTIONS"
    BY <2>1, DownAt DEF Accepts
  <2> QED
    BY <1>1, <1>2, <2>1, <2>2, Plain DEF Cors
<1>3. CASE SecureHeaders(r)
  <2>1. Down(r, "headers") /\ fresh' = fresh
    BY <1>3 DEF SecureHeaders
  <2>2. Accepts(x, x.at)
    BY <2>1, DownAt DEF Accepts
  <2> QED
    BY <1>1, <1>3, <2>1, <2>2, Plain DEF SecureHeaders
<1>4. CASE Csrf(r)
  <2> DEFINE z == IF x.csrf = 0 THEN [x EXCEPT !.setCsrf = fresh] ELSE x
  <2>1. Down(r, "csrf") /\ fresh' \in {fresh, fresh + 1}
    BY <1>4 DEF Csrf
  <2>2. Accepts(x, x.at) <=> ~(x.query.method = "POST" /\ ~(x.query.echo = "cookie" /\ x.csrf # 0))
    BY <2>1, DownAt DEF Accepts
  <2>3. Same(x, z, {"setCsrf"}) /\ z.setCsrf \in Nat
    BY <1>1 DEF Same, Parts, Typed
  <2>4. IF x.query.method = "POST" /\ ~(x.query.echo = "cookie" /\ x.csrf # 0)
          THEN Refuse(r, z, 403) ELSE Forward(r, z)
    BY <1>4 DEF Csrf
  <2> HIDE DEF z
  <2> QED
    BY <2>1, <2>2, <2>3, <2>4, Plain
<1>5. CASE ApiKey(r)
  <2>1. Down(r, "apikey") /\ fresh' = fresh
    BY <1>5 DEF ApiKey
  <2>2. Accepts(x, x.at) <=> x.query.key \in ApiKeys
    BY <2>1, DownAt DEF Accepts
  <2> QED
    BY <1>1, <1>5, <2>1, <2>2, Plain DEF ApiKey
<1> QED
  BY <1>2, <1>3, <1>4, <1>5

\* The session middleware lets pass whoever comes, with a session.
LEMMA SessionGuard ==
  ASSUME Typed, NEW r \in Requests, Sound(run[r]), LoadSession(r)
  PROVE  GuardMoves(r)
<1> DEFINE x == run[r]
           y == run'[r]
           c == x.cookie
           keys == IF Known(c) THEN IF Memory THEN store[c.id] ELSE c.keys ELSE {}
           z == [x EXCEPT !.id = IF Known(c) THEN c.id ELSE fresh, !.keys = keys, !.loaded = keys]
<1>1. /\ x.pc = "down" /\ x.at \in DOMAIN Chain(x.query) /\ Chain(x.query)[x.at] = "session"
      /\ DOMAIN x = Parts /\ x.setCsrf \in Nat /\ c \in Cookie
  BY DownAt DEF LoadSession, Sound, Placed
<1>2. Forward(r, z) /\ fresh' = (IF Known(c) THEN fresh ELSE fresh + 1)
  BY DEF LoadSession
<1>3. Same(x, z, {"id", "keys", "loaded"}) /\ z.id = (IF Known(c) THEN c.id ELSE fresh) /\ z.keys = keys /\ z.loaded = keys
  BY <1>1 DEF Same, Parts
<1>4. c.id \in Nat /\ c.keys \subseteq Keys /\ (Known(c) => c.id # 0)
  BY <1>1 DEF Cookie, Typed, Known
<1>5. keys \subseteq Keys
  BY <1>4 DEF Typed, Known
<1> HIDE DEF z
<1>6. /\ Same(x, y, {"id", "keys", "loaded", "at"}) /\ y.at = x.at + 1 /\ store' = store
      /\ y.id = z.id /\ y.keys = z.keys /\ y.loaded = z.loaded
  <2>1. Same(z, y, {"at"}) /\ y.at = z.at + 1 /\ store' = store
    BY <1>2, <1>3, Forwards DEF Same
  <2> QED
    BY <1>3, <2>1 DEF Same, Parts
<1> HIDE DEF keys
<1>7. y.id \in Nat /\ y.id # 0 /\ y.keys = y.loaded /\ y.loaded \subseteq Keys
  BY <1>3, <1>4, <1>5, <1>6 DEF Typed
<1>8. /\ Same(x, y, {"at", "setCsrf", "id", "keys", "loaded", "claims", "user", "span"}) /\ y.setCsrf \in Nat
      /\ y.claims = x.claims /\ y.user = x.user /\ y.span = x.span
  BY <1>1, <1>6 DEF Same, Parts
<1>9. Accepts(x, x.at)
  BY <1>1 DEF Accepts
<1>10. Passes(x, y)
  BY <1>1, <1>6, <1>7, <1>8, <1>9 DEF Passes
<1>11. Loads(x, y)
  BY <1>2, <1>3, <1>6 DEF Loads, keys
<1>12. run' = [run EXCEPT ![r] = y]
  BY <1>2, ForwardMoves
<1> QED
  BY <1>2, <1>6, <1>10, <1>11, <1>12 DEF GuardMoves

\* The JWT middleware lets pass whose token is accepted, with its claims.
LEMMA JwtGuard ==
  ASSUME Typed, NEW r \in Requests, Sound(run[r]), Jwt(r)
  PROVE  GuardMoves(r)
<1> DEFINE x == run[r]
           y == run'[r]
           t == x.query.token
           z == [x EXCEPT !.claims = t]
<1>1. /\ x.pc = "down" /\ x.at \in DOMAIN Chain(x.query) /\ Chain(x.query)[x.at] = "jwt"
      /\ DOMAIN x = Parts /\ x.setCsrf \in Nat /\ x.id \in Nat /\ Same(x, x, {"setCsrf"})
  BY DownAt DEF Jwt, Sound, Placed, Same
<1>2. Accepts(x, x.at) <=> TokenAccepted(t)
  BY <1>1 DEF Accepts
<1>3. CASE TokenAccepted(t)
  <2>1. Forward(r, z) /\ fresh' = fresh
    BY <1>3 DEF Jwt
  <2>2. Same(x, z, {"claims"}) /\ z.claims = t
    BY <1>1 DEF Same, Parts
  <2> HIDE DEF z
  <2>3. Same(x, y, {"claims", "at"}) /\ y.at = x.at + 1 /\ store' = store /\ y.claims = t
    <3>1. Same(z, y, {"at"}) /\ y.at = z.at + 1 /\ store' = store
      BY <2>1, <2>2, Forwards DEF Same
    <3> QED
      BY <2>2, <3>1 DEF Same, Parts
  <2>4. /\ Same(x, y, {"at", "setCsrf", "id", "keys", "loaded", "claims", "user", "span"}) /\ y.setCsrf \in Nat
        /\ y.user = x.user /\ y.span = x.span /\ y.id = x.id /\ y.keys = x.keys /\ y.loaded = x.loaded
    BY <1>1, <2>3 DEF Same, Parts
  <2>5. Passes(x, y)
    BY <1>1, <1>2, <1>3, <2>3, <2>4 DEF Passes
  <2>6. run' = [run EXCEPT ![r] = y]
    BY <2>1, ForwardMoves
  <2> QED
    BY <1>1, <2>1, <2>3, <2>5, <2>6 DEF GuardMoves
<1>4. CASE ~TokenAccepted(t)
  <2>1. Refuse(r, x, 401) /\ fresh' = fresh
    BY <1>4 DEF Jwt
  <2> QED
    BY <1>1, <1>2, <1>4, <2>1, TurnsAway
<1> QED
  BY <1>3, <1>4

\* The claims are there exactly if a token was accepted on the way.
LEMMA ClaimsSeen ==
  ASSUME NEW x, Sound(x), x.pc = "down"
  PROVE  /\ (x.claims # Nobody <=> Before(x.query, x.at, "jwt"))
         /\ (x.claims # Nobody => x.claims = x.query.token)
         /\ ("user" \in x.keys => Before(x.query, x.at, "session"))
         /\ x.keys = x.loaded
<1>1. x.claims = ClaimsAt(x, x.at)
  BY DEF Sound, Guarded
<1>2. ASSUME Before(x.query, x.at, "jwt") PROVE x.query.token # Nobody
  <2>1. PICK j \in 1..(x.at - 1) : Chain(x.query)[j] = "jwt"
    BY <1>2 DEF Before
  <2>2. Accepts(x, j)
    BY <2>1 DEF Sound, Guarded
  <2> QED
    BY <2>1, <2>2 DEF Accepts, TokenAccepted
<1> QED
  BY <1>1, <1>2 DEF ClaimsAt, Sound, Guarded

\* AuthMiddleware lets pass who has claims or a user in the session.
LEMMA AuthGuard ==
  ASSUME Typed, NEW r \in Requests, Sound(run[r]), Auth(r)
  PROVE  GuardMoves(r)
<1> DEFINE x == run[r]
           y == run'[r]
           q == x.query
<1>1. /\ x.pc = "down" /\ x.at \in DOMAIN Chain(q) /\ Chain(q)[x.at] = "auth"
      /\ DOMAIN x = Parts /\ x.setCsrf \in Nat /\ x.id \in Nat /\ Same(x, x, {"setCsrf"})
  BY DownAt DEF Auth, Sound, Placed, Same
<1>2. Accepts(x, x.at) <=> x.claims # Nobody \/ "user" \in x.keys
  <2>1. Accepts(x, x.at) <=> Before(q, x.at, "jwt") \/ (Before(q, x.at, "session") /\ "user" \in x.loaded)
    BY <1>1 DEF Accepts
  <2> QED
    BY <1>1, <2>1, ClaimsSeen
<1>3. fresh' = fresh
  BY DEF Auth
<1>4. ASSUME NEW u, Forward(r, [x EXCEPT !.user = u]), Accepts(x, x.at),
             u = IF x.claims # Nobody THEN [from |-> "token", roles |-> x.claims.roles]
                 ELSE [from |-> "session", roles |-> "roles" \in x.keys]
      PROVE  GuardMoves(r)
  <2> DEFINE z == [x EXCEPT !.user = u]
  <2>1. Forward(r, z)
    BY <1>4
  <2>2. Same(x, z, {"user"}) /\ z.user = u
    BY <1>1 DEF Same, Parts
  <2> HIDE DEF z
  <2>3. Same(x, y, {"user", "at"}) /\ y.at = x.at + 1 /\ store' = store /\ y.user = u
    <3>1. Same(z, y, {"at"}) /\ y.at = z.at + 1 /\ store' = store
      BY <2>1, <2>2, Forwards DEF Same
    <3> QED
      BY <2>2, <3>1 DEF Same, Parts
  <2>4. /\ Same(x, y, {"at", "setCsrf", "id", "keys", "loaded", "claims", "user", "span"}) /\ y.setCsrf \in Nat
        /\ y.claims = x.claims /\ y.span = x.span /\ y.id = x.id /\ y.keys = x.keys /\ y.loaded = x.loaded
    BY <1>1, <2>3 DEF Same, Parts
  <2>5. Passes(x, y)
    BY <1>1, <1>4, <2>3, <2>4 DEF Passes
  <2>6. run' = [run EXCEPT ![r] = y]
    BY <2>1, ForwardMoves
  <2> QED
    BY <1>1, <1>3, <2>3, <2>5, <2>6 DEF GuardMoves
<1>5. CASE Refuse(r, x, 401) /\ ~Accepts(x, x.at)
  BY <1>1, <1>3, <1>5, TurnsAway
<1> QED
  BY <1>2, <1>4, <1>5 DEF Auth

\* RequireRole lets pass the user that has the role.
LEMMA RoleGuard ==
  ASSUME Typed, NEW r \in Requests, Sound(run[r]), RequireRole(r)
  PROVE  GuardMoves(r)
<1> DEFINE x == run[r]
           q == x.query
           u == x.user
<1>1. /\ x.pc = "down" /\ x.at \in DOMAIN Chain(q) /\ Chain(q)[x.at] = "role"
      /\ DOMAIN x = Parts /\ x.setCsrf \in Nat /\ Same(x, x, {"setCsrf"})
  BY DownAt DEF RequireRole, Sound, Placed, Same
<1>2. u = UserAt(x, x.at) /\ fresh' = fresh
  BY <1>1 DEF Sound, Guarded, RequireRole
<1>3. Accepts(x, x.at) <=> u # Nobody /\ u.roles
  <2>1. Accepts(x, x.at) <=> Before(q, x.at, "auth") /\ IF UserOfToken(q, x.at) THEN q.token.roles ELSE "roles" \in x.loaded
    BY <1>1 DEF Accepts
  <2>2. CASE ~Before(q, x.at, "auth")
    BY <1>2, <2>1, <2>2 DEF UserAt
  <2>3. CASE Before(q, x.at, "auth") /\ UserOfToken(q, x.at)
    <3>1. PICK a \in 1..(x.at - 1) : Chain(q)[a] = "auth" /\ Before(q, a, "jwt")
      BY <2>3 DEF UserOfToken
    <3>2. Before(q, x.at, "jwt")
      BY <1>1, <3>1 DEF Before, Sound, Placed
    <3>3. q.token # Nobody /\ q \in Query
      BY <1>1, <3>2, ClaimsSeen DEF Sound, Placed
    <3>4. q.token \in Token /\ q.token.roles \in BOOLEAN
      BY <3>3 DEF Query, Token
    <3>5. u = [from |-> "token", roles |-> q.token.roles]
      BY <1>2, <2>3 DEF UserAt
    <3>6. u # Nobody
      BY <3>4, <3>5, RequestsAssumption DEF RequestsAssumption
    <3> QED
      BY <2>1, <2>3, <3>5, <3>6
  <2>4. CASE Before(q, x.at, "auth") /\ ~UserOfToken(q, x.at)
    <3>5. u = [from |-> "session", roles |-> "roles" \in x.loaded]
      BY <1>2, <2>4 DEF UserAt
    <3> DEFINE roles == "roles" \in x.loaded
    <3>6. roles \in BOOLEAN
      OBVIOUS
    <3>7. u = [from |-> "session", roles |-> roles]
      BY <3>5
    <3>8. roles <=> "roles" \in x.loaded
      OBVIOUS
    <3> HIDE DEF roles
    <3>9. u # Nobody /\ u.roles = roles
      BY <3>6, <3>7, RequestsAssumption DEF RequestsAssumption
    <3> QED
      BY <2>1, <2>4, <3>8, <3>9
  <2> QED
    BY <2>2, <2>3, <2>4
<1> QED
  BY <1>1, <1>2, <1>3, Plain DEF RequireRole

-----------------------------------------------------------------------------
(* The server's middlewares, and the way up. *)

\* The middleware writes, or saves, on the way up.
SavesAt(x) == LET m == Chain(x.query)[x.at] IN
  x.pc = "up" /\ (m = "session" \/ (m = "errors" /\ x.error # 0 /\ Inside(x)))

\* A middleware goes on after next has returned or panicked.
Climbs(x, y) == LET m == Chain(x.query)[x.at] IN
  /\ x.pc \in {"up", "panic"} /\ x.at \in DOMAIN Chain(x.query)
  /\ Same(x, y, {"at", "span", "logged", "error", "sent", "recorded", "saved", "dirty", "setSession"})
  /\ y.at = x.at - 1
  /\ y.span = IF m = "tracing" THEN "ended" ELSE x.span
  /\ y.logged = IF m = "logger" /\ x.pc = "up" THEN x.recorded ELSE x.logged
  /\ IF m = "errors" /\ x.pc = "up" /\ x.error # 0
       THEN y.error = 0 /\ y.recorded = x.error /\ y.sent = IF x.sent = 0 THEN x.error ELSE x.sent
       ELSE y.error = x.error /\ y.recorded = x.recorded /\ y.sent = x.sent
  /\ SaveParts(x, y, SavesAt(x))

\* On the way up the request is at a middleware of its chain.
LEMMA UpAt ==
  ASSUME NEW r, Sound(run[r]), run[r].pc \in {"up", "panic"}, run[r].at > 0
  PROVE  /\ run[r].at \in DOMAIN Chain(run[r].query) /\ DOMAIN run[r] = Parts
  BY DEF Sound, Placed

\* What changes then.
Climb == {"at", "span", "logged", "error", "sent", "recorded", "saved", "dirty", "setSession"}

\* What a step of the server's middlewares, or the session's on the way up, amounts to.
ServerMoves(r) == LET x == run[r]
                      y == run'[r] IN
  /\ Climbs(x, y) \/ Passes(x, y)
  /\ run' = [run EXCEPT ![r] = y]
  /\ IF Climbs(x, y) THEN StoreAfter(x, SavesAt(x)) ELSE UNCHANGED store

\* The server's middlewares let everyone pass.
LEMMA EnterMoves ==
  ASSUME Typed, NEW r \in Requests, Sound(run[r]), Enter(r)
  PROVE  Passes(run[r], run'[r]) /\ run' = [run EXCEPT ![r] = run'[r]] /\ UNCHANGED store
<1> DEFINE x == run[r]
           y == run'[r]
           m == Chain(x.query)[x.at]
           z == IF m = "tracing" THEN [x EXCEPT !.span = "open"] ELSE x
<1>1. PICK n \in {"errors", "logger", "tracing"} : Down(r, n)
  BY DEF Enter
<1>2. /\ x.pc = "down" /\ x.at \in DOMAIN Chain(x.query) /\ m \in {"errors", "logger", "tracing"}
      /\ DOMAIN x = Parts /\ x.setCsrf \in Nat /\ x.id \in Nat
  BY <1>1, DownAt DEF Sound, Placed
<1>3. Forward(r, z)
  BY DEF Enter, Down
<1>4. Same(x, z, {"span"}) /\ z.span = IF m = "tracing" THEN "open" ELSE x.span
  BY <1>2 DEF Same, Parts
<1> HIDE DEF z
<1>5. Same(x, y, {"span", "at"}) /\ y.at = x.at + 1 /\ store' = store /\ y.span = z.span
  <2>1. Same(z, y, {"at"}) /\ y.at = z.at + 1 /\ store' = store
    BY <1>3, <1>4, Forwards DEF Same
  <2> QED
    BY <1>4, <2>1 DEF Same, Parts
<1>6. /\ Same(x, y, {"at", "setCsrf", "id", "keys", "loaded", "claims", "user", "span"}) /\ y.setCsrf \in Nat /\ y.id \in Nat
      /\ y.claims = x.claims /\ y.user = x.user /\ y.id = x.id /\ y.keys = x.keys /\ y.loaded = x.loaded
  BY <1>2, <1>5 DEF Same, Parts
<1>7. Accepts(x, x.at)
  BY <1>2 DEF Accepts
<1>8. run' = [run EXCEPT ![r] = y]
  BY <1>3, ForwardMoves
<1> HIDE DEF x, y, m
<1> QED
  BY <1>2, <1>4, <1>5, <1>6, <1>7, <1>8 DEF Passes, x, y, m

\* A middleware on the way up that writes nothing.
LEMMA QuietClimb ==
  ASSUME Typed, NEW r \in Requests, Sound(run[r]), run[r].pc \in {"up", "panic"}, run[r].at > 0, NEW z,
         Same(run[r], z, {"at", "logged", "span"}), z.at = run[r].at - 1,
         run' = [run EXCEPT ![r] = z], store' = store, ~SavesAt(run[r]),
         ~(Chain(run[r].query)[run[r].at] = "errors" /\ run[r].pc = "up" /\ run[r].error # 0),
         z.span = IF Chain(run[r].query)[run[r].at] = "tracing" THEN "ended" ELSE run[r].span,
         z.logged = IF Chain(run[r].query)[run[r].at] = "logger" /\ run[r].pc = "up" THEN run[r].recorded ELSE run[r].logged
  PROVE  ServerMoves(r)
<1> DEFINE x == run[r]
<1>1. run'[r] = z
  BY DEF Typed
<1>2. /\ Same(x, z, Climb) /\ z.error = x.error /\ z.recorded = x.recorded /\ z.sent = x.sent
      /\ z.saved = x.saved /\ z.dirty = x.dirty /\ z.setSession = x.setSession
  BY DEF Same, Parts, Climb
<1>3. x.at \in DOMAIN Chain(x.query)
  BY UpAt
<1>4. Climbs(x, z)
  BY <1>2, <1>3 DEF Climbs, SaveParts, Climb
<1> QED
  BY <1>1, <1>4 DEF ServerMoves, StoreAfter

\* The server's middlewares, and the session's, climb.
LEMMA ServerStepMoves ==
  ASSUME Typed, NEW r \in Requests, Sound(run[r]), ServerStep(r) \/ SaveSession(r)
  PROVE  ServerMoves(r)
<1> DEFINE x == run[r]
           y == run'[r]
           m == Chain(x.query)[x.at]
<1>1. DOMAIN x = Parts /\ x.at \in Nat
  BY DEF Sound, Placed
<1>2. CASE Enter(r)
  <2>1. Passes(x, y) /\ run' = [run EXCEPT ![r] = y] /\ UNCHANGED store
    BY <1>2, EnterMoves
  <2> QED
    BY <2>1 DEF ServerMoves, Passes, Climbs
<1>3. CASE Log(r)
  <2> DEFINE z == [x EXCEPT !.at = @ - 1, !.logged = x.recorded]
  <2>1. x.pc = "up" /\ x.at > 0 /\ m = "logger" /\ run' = [run EXCEPT ![r] = z] /\ store' = store
    <3>1. run' = [run EXCEPT ![r] = z]
      BY <1>3 DEF Log
    <3> QED
      BY <1>3, <3>1 DEF Log, Up
  <2>2. Same(x, z, {"at", "logged", "span"}) /\ z.at = x.at - 1 /\ z.span = x.span /\ z.logged = x.recorded
    BY <1>1 DEF Same, Parts
  <2> HIDE DEF z
  <2> QED
    BY <2>1, <2>2, QuietClimb DEF SavesAt
<1>4. CASE EndSpan(r)
  <2> DEFINE z == [x EXCEPT !.at = @ - 1, !.span = "ended"]
  <2>1. x.pc \in {"up", "panic"} /\ x.at > 0 /\ m = "tracing" /\ run' = [run EXCEPT ![r] = z] /\ store' = store
    BY <1>4 DEF EndSpan
  <2>2. Same(x, z, {"at", "logged", "span"}) /\ z.at = x.at - 1 /\ z.span = "ended" /\ z.logged = x.logged
    BY <1>1 DEF Same, Parts
  <2> HIDE DEF z
  <2> QED
    BY <2>1, <2>2, QuietClimb DEF SavesAt
<1>5. CASE Unwind(r)
  <2> DEFINE z == [x EXCEPT !.at = @ - 1]
  <2>1. /\ x.at > 0 /\ run' = [run EXCEPT ![r] = z] /\ store' = store
        /\ \/ x.pc = "up" /\ m \notin {"errors", "logger", "tracing", "session"}
           \/ x.pc = "panic" /\ m # "tracing"
    BY <1>1, <1>5 DEF Unwind
  <2>2. Same(x, z, {"at", "logged", "span"}) /\ z.at = x.at - 1 /\ z.span = x.span /\ z.logged = x.logged
    BY <1>1 DEF Same, Parts
  <2> HIDE DEF z
  <2> QED
    BY <2>1, <2>2, QuietClimb DEF SavesAt
<1>6. CASE Errors(r) /\ x.error = 0
  <2> DEFINE z == [x EXCEPT !.at = @ - 1]
  <2>1. /\ x.pc = "up" /\ x.at > 0 /\ m = "errors" /\ run' = [run EXCEPT ![r] = z] /\ store' = store
    BY <1>1, <1>6 DEF Errors, Up
  <2>2. Same(x, z, {"at", "logged", "span"}) /\ z.at = x.at - 1 /\ z.span = x.span /\ z.logged = x.logged
    BY <1>1 DEF Same, Parts
  <2> HIDE DEF z
  <2> QED
    BY <1>6, <2>1, <2>2, QuietClimb DEF SavesAt
<1>7. CASE Errors(r) /\ x.error # 0
  <2> DEFINE s == Status(x, x.error)
             z == [s EXCEPT !.at = @ - 1, !.error = 0]
  <2>1. /\ x.pc = "up" /\ x.at > 0 /\ m = "errors" /\ Respond(r, x, z)
    BY <1>7 DEF Errors, Up
  <2>2. Same(x, s, {"sent", "recorded"}) /\ s.recorded = x.error /\ s.sent = IF x.sent = 0 THEN x.error ELSE x.sent
    BY <1>1, StatusFields
  <2> HIDE DEF s
  <2>3. /\ Same(x, z, {"sent", "recorded", "at", "error"}) /\ z.recorded = s.recorded /\ z.sent = s.sent
        /\ z.at = x.at - 1 /\ z.error = 0
    BY <2>2 DEF Same, Parts
  <2> HIDE DEF z
  <2>4. /\ Same(z, y, {"saved", "dirty", "setSession"}) /\ SaveParts(x, y, Inside(x)) /\ StoreAfter(x, Inside(x))
    <3>1. Same(x, z, Parts \ {"saved", "dirty", "setSession"})
      BY <2>3 DEF Same, Parts
    <3> QED
      BY <1>1, <2>1, <3>1, Responds
  <2>5. /\ Same(x, y, Climb) /\ y.at = x.at - 1 /\ y.error = 0 /\ y.recorded = x.error
        /\ y.sent = (IF x.sent = 0 THEN x.error ELSE x.sent) /\ y.span = x.span /\ y.logged = x.logged
    BY <2>2, <2>3, <2>4 DEF Same, Parts, Climb
  <2>6. SavesAt(x) <=> Inside(x)
    BY <1>7, <2>1 DEF SavesAt
  <2>7. Climbs(x, y)
    BY <1>7, <2>1, <2>4, <2>5, <2>6, UpAt DEF Climbs, Climb, SaveParts
  <2>8. run' = [run EXCEPT ![r] = y]
    BY <2>1, RespondMoves
  <2> QED
    BY <2>4, <2>6, <2>7, <2>8 DEF ServerMoves, StoreAfter
<1>8. CASE SaveSession(r)
  <2> DEFINE s == Saved(x)
             z == [s EXCEPT !.at = @ - 1]
  <2>1. /\ x.pc = "up" /\ x.at > 0 /\ m = "session" /\ run' = [run EXCEPT ![r] = z] /\ store' = Stored(x)
    BY <1>8 DEF SaveSession, Up
  <2>2. Same(x, s, {"saved", "dirty", "setSession"}) /\ SaveParts(x, s, TRUE)
    BY <1>1, SavedFields DEF SaveParts
  <2> HIDE DEF s
  <2>3. /\ Same(x, z, {"saved", "dirty", "setSession", "at"}) /\ z.at = x.at - 1 /\ z.saved = s.saved
        /\ z.dirty = s.dirty /\ z.setSession = s.setSession
    BY <2>2 DEF Same, Parts
  <2>4. z = y
    BY <2>1 DEF Typed
  <2> HIDE DEF z
  <2>5. SaveParts(x, z, TRUE)
    BY <2>2, <2>3 DEF SaveParts
  <2>6. /\ Same(x, z, Climb) /\ z.error = x.error /\ z.recorded = x.recorded /\ z.sent = x.sent
        /\ z.span = x.span /\ z.logged = x.logged
    BY <2>3 DEF Same, Parts, Climb
  <2>7. SavesAt(x)
    BY <2>1 DEF SavesAt
  <2>8. Climbs(x, z)
    BY <2>1, <2>3, <2>5, <2>6, <2>7, UpAt DEF Climbs, Climb, SaveParts
  <2> QED
    BY <2>1, <2>4, <2>7, <2>8 DEF ServerMoves, StoreAfter
<1> QED
  BY <1>2, <1>3, <1>4, <1>5, <1>6, <1>7, <1>8 DEF ServerStep

-----------------------------------------------------------------------------
(* The handler. *)

\* The handler has another step,
HasNext(x) == x.pc = "handler" /\ x.done < Len(Script(x.query))

\* starts,
Starts(x, y) ==
  /\ x.pc = "down" /\ x.at = Len(Chain(x.query)) + 1
  /\ Same(x, y, {"pc", "ran"}) /\ y.pc = "handler" /\ y.ran = TRUE

\* changes the session,
Edits(x, y) ==
  /\ HasNext(x) /\ IsChange(NextOp(x))
  /\ Same(x, y, {"done", "keys", "dirty"}) /\ y.done = x.done + 1
  /\ IF Inside(x) THEN y.keys = Change(x.keys, NextOp(x)) /\ y.dirty = TRUE
                  ELSE y.keys = x.keys /\ y.dirty = x.dirty

\* writes,
Puts(x, y) ==
  /\ HasNext(x) /\ NextOp(x).op \in {"write", "header"}
  /\ Same(x, y, {"done", "sent", "recorded", "saved", "dirty", "setSession"}) /\ y.done = x.done + 1
  /\ IF NextOp(x).op = "write"
       THEN y.sent = (IF x.sent = 0 THEN 200 ELSE x.sent) /\ y.recorded = x.recorded
       ELSE y.sent = (IF x.sent = 0 THEN NextOp(x).code ELSE x.sent) /\ y.recorded = NextOp(x).code
  /\ SaveParts(x, y, Inside(x))

\* leaves without writing,
Answered(x, y) == y.sent = x.sent /\ y.recorded = x.recorded /\ SaveParts(x, y, FALSE)
\* changes these fields as it leaves,
Leaving == {"pc", "at", "error", "sent", "recorded", "saved", "dirty", "setSession"}

\* returns an error,
Fails(x) == HasNext(x) /\ NextOp(x).op = "fail" 
\* or leaves.
Leaves(x, y) ==
  /\ x.pc = "handler" /\ Same(x, y, Leaving) /\ y.at = Len(Chain(x.query))
  /\ \/ /\ x.done = Len(Script(x.query))
        /\ y.pc = "up" /\ y.error = x.error /\ Answered(x, y)
     \/ /\ HasNext(x) /\ NextOp(x).op = "panic"
        /\ y.pc = "panic" /\ y.error = x.error /\ Answered(x, y)
     \/ /\ Fails(x) /\ HasHolder(x)
        /\ y.pc = "up" /\ y.error = NextOp(x).code /\ Answered(x, y)
     \/ /\ Fails(x) /\ ~HasHolder(x)
        /\ y.pc = "up" /\ y.error = x.error
        /\ y.sent = (IF x.sent = 0 THEN NextOp(x).code ELSE x.sent) /\ y.recorded = NextOp(x).code
        /\ SaveParts(x, y, Inside(x))

\* The handler writes, or its error is written because nobody else takes it.
PutsOrFails(x, y) == Puts(x, y) \/ (Leaves(x, y) /\ Fails(x) /\ ~HasHolder(x))
\* What a step of the handler amounts to.
HandlerMoves(r) == LET x == run[r]
                       y == run'[r] IN
  /\ Starts(x, y) \/ Edits(x, y) \/ Puts(x, y) \/ Leaves(x, y)
  /\ run' = [run EXCEPT ![r] = y]
  /\ IF PutsOrFails(x, y) THEN StoreAfter(x, Inside(x)) ELSE UNCHANGED store

\* Leaving changes the place,
LEMMA LeaveFields ==
  ASSUME NEW x, DOMAIN x = Parts
  PROVE  LET y == Leave(x) IN Same(x, y, {"pc", "at"}) /\ y.pc = "up" /\ y.at = Len(Chain(x.query))
  BY DEF Leave, Same, Parts

\* going on the step.
LEMMA StepOnFields ==
  ASSUME NEW x, DOMAIN x = Parts
  PROVE  LET y == StepOn(x) IN Same(x, y, {"done"}) /\ y.done = x.done + 1
  BY DEF StepOn, Same, Parts

\* The handler starts when the chain is behind the request.
LEMMA StartMoves ==
  ASSUME Typed, NEW r \in Requests, Sound(run[r]), Reach(r)
  PROVE  Starts(run[r], run'[r]) /\ run' = [run EXCEPT ![r] = run'[r]] /\ UNCHANGED store
<1> DEFINE x == run[r]
           z == [x EXCEPT !.pc = "handler", !.ran = TRUE]
<1>1. /\ x.pc = "down" /\ x.at = Len(Chain(x.query)) + 1 /\ DOMAIN x = Parts
      /\ run' = [run EXCEPT ![r] = z] /\ store' = store
  BY DEF Reach, Sound, Placed
<1>2. Same(x, z, {"pc", "ran"}) /\ z.pc = "handler" /\ z.ran = TRUE
  BY <1>1 DEF Same, Parts
<1> HIDE DEF z
<1>3. run'[r] = z
  BY <1>1 DEF Typed
<1> QED
  BY <1>1, <1>2, <1>3 DEF Starts

\* Changes reach the session inside its middleware only.
LEMMA EditMoves ==
  ASSUME Typed, NEW r \in Requests, Sound(run[r]), ChangeSession(r)
  PROVE  Edits(run[r], run'[r]) /\ run' = [run EXCEPT ![r] = run'[r]] /\ UNCHANGED store
<1> DEFINE x == run[r]
           s == StepOn(x)
           w == [s EXCEPT !.keys = Change(@, NextOp(x)), !.dirty = TRUE]
           z == IF Inside(x) THEN w ELSE s
<1>1. /\ HasNext(x) /\ IsChange(NextOp(x)) /\ DOMAIN x = Parts /\ run' = [run EXCEPT ![r] = z] /\ store' = store
  BY DEF ChangeSession, HandlerOp, HasNext, IsChange, Sound, Placed
<1>2. Same(x, s, {"done"}) /\ s.done = x.done + 1
  BY <1>1, StepOnFields
<1> HIDE DEF s
<1>3. Same(x, w, {"done", "keys", "dirty"}) /\ w.done = x.done + 1 /\ w.keys = Change(x.keys, NextOp(x)) /\ w.dirty = TRUE
  BY <1>2 DEF Same, Parts
<1> HIDE DEF w
<1>4. /\ Same(x, z, {"done", "keys", "dirty"}) /\ z.done = x.done + 1
      /\ IF Inside(x) THEN z.keys = Change(x.keys, NextOp(x)) /\ z.dirty = TRUE
                      ELSE z.keys = x.keys /\ z.dirty = x.dirty
  BY <1>2, <1>3 DEF Same, Parts
<1> HIDE DEF z
<1>5. run'[r] = z
  BY <1>1 DEF Typed
<1> QED
  BY <1>1, <1>4, <1>5 DEF Edits

\* Every write of the handler saves inside the session middleware.
LEMMA PutMoves ==
  ASSUME Typed, NEW r \in Requests, Sound(run[r]), WriteBody(r) \/ WriteHeader(r)
  PROVE  Puts(run[r], run'[r]) /\ run' = [run EXCEPT ![r] = run'[r]] /\ StoreAfter(run[r], Inside(run[r]))
<1> DEFINE x == run[r]
           y == run'[r]
           o == NextOp(x)
           s == IF o.op = "write" THEN Body(x) ELSE Status(x, o.code)
           z == StepOn(s)
<1>1. /\ HasNext(x) /\ o.op \in {"write", "header"} /\ DOMAIN x = Parts /\ Respond(r, x, z)
  BY DEF WriteBody, WriteHeader, HandlerOp, HasNext, Sound, Placed
<1>2. /\ Same(x, s, {"sent", "recorded"})
      /\ IF o.op = "write"
           THEN s.sent = (IF x.sent = 0 THEN 200 ELSE x.sent) /\ s.recorded = x.recorded
           ELSE s.sent = (IF x.sent = 0 THEN o.code ELSE x.sent) /\ s.recorded = o.code
  <2>1. CASE o.op = "write"
    BY <1>1, <2>1 DEF Body, Same, Parts
  <2>2. CASE o.op # "write"
    BY <1>1, <2>2, StatusFields
  <2> QED
    BY <2>1, <2>2
<1> HIDE DEF s
<1>3. Same(s, z, {"done"}) /\ z.done = s.done + 1
  BY <1>2, StepOnFields DEF Same
<1> HIDE DEF z
<1>4. Same(x, z, {"sent", "recorded", "done"}) /\ z.sent = s.sent /\ z.recorded = s.recorded /\ z.done = x.done + 1
  BY <1>2, <1>3 DEF Same, Parts
<1>5. /\ Same(z, y, {"saved", "dirty", "setSession"}) /\ SaveParts(x, y, Inside(x)) /\ StoreAfter(x, Inside(x))
  <2>1. Same(x, z, Parts \ {"saved", "dirty", "setSession"})
    BY <1>4 DEF Same, Parts
  <2> QED
    BY <1>1, <2>1, Responds
<1>6. /\ Same(x, y, {"done", "sent", "recorded", "saved", "dirty", "setSession"}) /\ y.done = x.done + 1
      /\ y.sent = s.sent /\ y.recorded = s.recorded
  BY <1>4, <1>5 DEF Same, Parts
<1>7. run' = [run EXCEPT ![r] = y]
  BY <1>1, RespondMoves
<1> QED
  BY <1>1, <1>2, <1>5, <1>6, <1>7 DEF Puts

\* A handler that returns, panics or leaves its error to ErrorMiddleware writes nothing.
LEMMA LeaveMoves ==
  ASSUME Typed, NEW r \in Requests, Sound(run[r]), HandlerReturns(r) \/ Panic(r) \/ (Fail(r) /\ HasHolder(run[r]))
  PROVE  HandlerMoves(r)
<1> DEFINE x == run[r]
<1>1. DOMAIN x = Parts
  BY DEF Sound, Placed
<1>2. ASSUME NEW z, run' = [run EXCEPT ![r] = z], store' = store, Same(x, z, {"pc", "at", "error"}),
             z.at = Len(Chain(x.query)), x.pc = "handler",
             \/ x.done = Len(Script(x.query)) /\ z.pc = "up" /\ z.error = x.error
             \/ HasNext(x) /\ NextOp(x).op = "panic" /\ z.pc = "panic" /\ z.error = x.error
             \/ Fails(x) /\ HasHolder(x) /\ z.pc = "up" /\ z.error = NextOp(x).code
      PROVE  HandlerMoves(r)
  <2>1. run'[r] = z
    BY <1>2 DEF Typed
  <2>2. Same(x, z, Leaving) /\ Answered(x, z)
    BY <1>2 DEF Same, Parts, Leaving, Answered, SaveParts
  <2>3. Leaves(x, z)
    BY <1>2, <2>2 DEF Leaves
  <2>4. ~PutsOrFails(x, z)
    BY <1>2 DEF PutsOrFails, Puts, HasNext, Fails
  <2> QED
    BY <1>2, <2>1, <2>3, <2>4 DEF HandlerMoves
<1>3. CASE HandlerReturns(r)
  <2> DEFINE z == Leave(x)
  <2>1. Same(x, z, {"pc", "at"}) /\ z.pc = "up" /\ z.at = Len(Chain(x.query))
    BY <1>1, LeaveFields
  <2>2. run' = [run EXCEPT ![r] = z] /\ store' = store /\ x.pc = "handler" /\ x.done = Len(Script(x.query))
    BY <1>3 DEF HandlerReturns
  <2> HIDE DEF z
  <2>3. Same(x, z, {"pc", "at", "error"}) /\ z.error = x.error
    BY <2>1 DEF Same, Parts
  <2> QED
    BY <1>2, <2>1, <2>2, <2>3
<1>4. CASE Panic(r)
  <2> DEFINE l == Leave(x)
             z == [l EXCEPT !.pc = "panic"]
  <2>1. Same(x, l, {"pc", "at"}) /\ l.pc = "up" /\ l.at = Len(Chain(x.query))
    BY <1>1, LeaveFields
  <2>2. run' = [run EXCEPT ![r] = z] /\ store' = store /\ HasNext(x) /\ NextOp(x).op = "panic"
    BY <1>4 DEF Panic, HandlerOp, HasNext
  <2> HIDE DEF l
  <2>3. Same(x, z, {"pc", "at", "error"}) /\ z.error = x.error /\ z.at = l.at /\ z.pc = "panic"
    BY <2>1 DEF Same, Parts
  <2> HIDE DEF z
  <2> QED
    BY <1>2, <2>1, <2>2, <2>3 DEF HasNext
<1>5. CASE Fail(r) /\ HasHolder(x)
  <2> DEFINE e == [x EXCEPT !.error = NextOp(x).code]
             z == Leave(e)
  <2>1. Same(x, e, {"error"}) /\ e.error = NextOp(x).code
    BY <1>1 DEF Same, Parts
  <2>2. run' = [run EXCEPT ![r] = z] /\ store' = store /\ Fails(x)
    BY <1>5 DEF Fail, HandlerOp, Fails, HasNext
  <2> HIDE DEF e
  <2>3. Same(e, z, {"pc", "at"}) /\ z.pc = "up" /\ z.at = Len(Chain(e.query))
    BY <2>1, LeaveFields DEF Same
  <2> HIDE DEF z
  <2>4. Same(x, z, {"pc", "at", "error"}) /\ z.error = NextOp(x).code /\ z.at = Len(Chain(x.query))
    BY <2>1, <2>3 DEF Same, Parts
  <2> QED
    BY <1>2, <1>5, <2>2, <2>3, <2>4 DEF Fails, HasNext
<1> QED
  BY <1>3, <1>4, <1>5

\* Without ErrorMiddleware the error is answered at once.
LEMMA FailMoves ==
  ASSUME Typed, NEW r \in Requests, Sound(run[r]), Fail(r), ~HasHolder(run[r])
  PROVE  HandlerMoves(r)
<1> DEFINE x == run[r]
           y == run'[r]
           s == Status(x, NextOp(x).code)
           z == Leave(s)
<1>1. Fails(x) /\ DOMAIN x = Parts /\ Respond(r, x, z)
  BY DEF Fail, HandlerOp, Fails, HasNext, Sound, Placed
<1>2. Same(x, s, {"sent", "recorded"}) /\ s.recorded = NextOp(x).code /\ s.sent = IF x.sent = 0 THEN NextOp(x).code ELSE x.sent
  BY <1>1, StatusFields
<1> HIDE DEF s
<1>3. Same(s, z, {"pc", "at"}) /\ z.pc = "up" /\ z.at = Len(Chain(s.query))
  BY <1>2, LeaveFields DEF Same
<1> HIDE DEF z
<1>4. Same(x, z, {"sent", "recorded", "pc", "at"}) /\ z.sent = s.sent /\ z.recorded = s.recorded /\ z.at = Len(Chain(x.query))
  BY <1>2, <1>3 DEF Same, Parts
<1>5. /\ Same(z, y, {"saved", "dirty", "setSession"}) /\ SaveParts(x, y, Inside(x)) /\ StoreAfter(x, Inside(x))
  <2>1. Same(x, z, Parts \ {"saved", "dirty", "setSession"})
    BY <1>4 DEF Same, Parts
  <2> QED
    BY <1>1, <2>1, Responds
<1>6. /\ Same(x, y, Leaving) /\ y.pc = "up" /\ y.at = Len(Chain(x.query)) /\ y.error = x.error
      /\ y.sent = s.sent /\ y.recorded = s.recorded
  BY <1>3, <1>4, <1>5 DEF Same, Parts, Leaving
<1>7. Leaves(x, y)
  BY <1>1, <1>2, <1>5, <1>6 DEF Leaves, Fails, HasNext
<1>8. run' = [run EXCEPT ![r] = y]
  BY <1>1, RespondMoves
<1> QED
  BY <1>1, <1>5, <1>7, <1>8 DEF HandlerMoves, PutsOrFails

\* Every step of the handler is one of these.
LEMMA HandlerStepMoves ==
  ASSUME Typed, NEW r \in Requests, Sound(run[r]), HandlerStep(r)
  PROVE  HandlerMoves(r)
<1>1. CASE Reach(r)
  <2>1. Starts(run[r], run'[r]) /\ run' = [run EXCEPT ![r] = run'[r]] /\ UNCHANGED store
    BY <1>1, StartMoves
  <2> QED
    BY <2>1 DEF HandlerMoves, PutsOrFails, Puts, Leaves, HasNext, Starts
<1>2. CASE ChangeSession(r)
  <2>1. Edits(run[r], run'[r]) /\ run' = [run EXCEPT ![r] = run'[r]] /\ UNCHANGED store
    BY <1>2, EditMoves
  <2>2. ~PutsOrFails(run[r], run'[r])
    BY <2>1 DEF Edits, PutsOrFails, Puts, Fails, IsChange
  <2> QED
    BY <2>1, <2>2 DEF HandlerMoves
<1>3. CASE WriteBody(r) \/ WriteHeader(r)
  BY <1>3, PutMoves DEF HandlerMoves, PutsOrFails
<1>4. CASE Panic(r) \/ HandlerReturns(r) \/ Fail(r)
  BY <1>4, LeaveMoves, FailMoves
<1> QED
  BY <1>1, <1>2, <1>3, <1>4 DEF HandlerStep

-----------------------------------------------------------------------------
(* Placed and Guarded are kept. *)

\* There is one session middleware at most.
LEMMA ChainFacts ==
  ASSUME config \in Configs, NEW q \in Query
  PROVE  /\ Chain(q) \in Seq(Middleware)
         /\ \A i, j \in DOMAIN Chain(q) : Chain(q)[i] = "session" /\ Chain(q)[j] = "session" => i = j
<1>1. q.route \in Routes
  BY DEF Query
<1> QED
  BY <1>1, ChainType, RequestsAssumption DEF Chain, RequestsAssumption

\* What stands before the next place.
LEMMA BeforeNext ==
  ASSUME NEW q, NEW n \in Nat \ {0}
  PROVE  /\ \A m : Before(q, n + 1, m) <=> Before(q, n, m) \/ Chain(q)[n] = m
         /\ UserOfToken(q, n + 1) <=> UserOfToken(q, n) \/ (Chain(q)[n] = "auth" /\ Before(q, n, "jwt"))
<1>1. 1..n + 1 - 1 = 1..(n - 1) \cup {n}
  OBVIOUS
<1> QED
  BY <1>1 DEF Before, UserOfToken

\* Before the session is loaded nothing has been accepted because of it.
LEMMA NotYetLoaded ==
  ASSUME config \in Configs, NEW x, Sound(x), x.pc = "down", x.at \in DOMAIN Chain(x.query),
         Chain(x.query)[x.at] = "session"
  PROVE  /\ ~Before(x.query, x.at, "session")
         /\ \A a \in 1..(x.at - 1) : Chain(x.query)[a] = "auth" => Before(x.query, a, "jwt")
<1> DEFINE ch == Chain(x.query)
<1>1. x.query \in Query /\ x.at \in Nat
  BY DEF Sound, Placed
<1>2. \A i \in DOMAIN ch : ch[i] = "session" => i = x.at
  BY <1>1, ChainFacts
<1>3. DOMAIN ch = 1..Len(ch)
  BY <1>1, ChainFacts
<1>4. \A i \in 1..(x.at - 1) : i \in DOMAIN ch
  BY <1>1, <1>3
<1>5. \A i \in 1..x.at : ~Before(x.query, i, "session")
  BY <1>1, <1>2, <1>4 DEF Before
<1>6. ASSUME NEW a \in 1..(x.at - 1), ch[a] = "auth" PROVE Before(x.query, a, "jwt")
  <2>1. Accepts(x, a)
    BY <1>6 DEF Sound, Guarded
  <2> QED
    BY <1>1, <1>5, <1>6, <2>1 DEF Accepts
<1> QED
  BY <1>1, <1>3, <1>5, <1>6

\* What accepted the request would accept it still: loading the session changes
\* the verdict of none that was asked before.
LEMMA AcceptedStill ==
  ASSUME config \in Configs, NEW x, NEW y, Sound(x), Passes(x, y), NEW i \in 1..(x.at - 1)
  PROVE  Accepts(y, i)
<1> DEFINE q == x.query
<1>1. x.pc = "down" /\ x.at \in DOMAIN Chain(q) /\ x.at \in Nat /\ y.query = q /\ y.csrf = x.csrf
  BY DEF Passes, Same, Parts, Sound, Placed
<1>2. Accepts(x, i)
  BY <1>1 DEF Sound, Guarded
<1>3. CASE y.loaded = x.loaded
  BY <1>1, <1>2, <1>3 DEF Accepts
<1>4. CASE y.loaded # x.loaded
  <2>1. Chain(q)[x.at] = "session"
    BY <1>4 DEF Passes
  <2>2. \A a \in 1..(x.at - 1) : Chain(q)[a] = "auth" => Before(q, a, "jwt")
    BY <1>1, <2>1, NotYetLoaded
  <2>3. ASSUME Chain(q)[i] = "role" PROVE UserOfToken(q, i)
    <3>1. PICK a \in 1..(i - 1) : Chain(q)[a] = "auth"
      BY <1>2, <2>3 DEF Accepts, Before
    <3> QED
      BY <1>1, <2>2, <3>1 DEF UserOfToken
  <2> QED
    BY <1>1, <1>2, <2>2, <2>3 DEF Accepts
<1> QED
  BY <1>3, <1>4

\* The middleware that passes the request on would accept it again.
LEMMA PassedAccepts ==
  ASSUME config \in Configs, NEW x, NEW y, Sound(x), Passes(x, y)
  PROVE  Accepts(y, x.at)
<1> DEFINE q == x.query
<1>1. x.pc = "down" /\ x.at \in DOMAIN Chain(q) /\ x.at \in Nat /\ y.query = q /\ y.csrf = x.csrf /\ Accepts(x, x.at)
  BY DEF Passes, Same, Parts, Sound, Placed
<1>2. Chain(q)[x.at] # "session" => y.loaded = x.loaded
  BY DEF Passes
<1> QED
  BY <1>1, <1>2 DEF Accepts

\* The user and the claims are what the middlewares so far make of the request.
LEMMA UserPassed ==
  ASSUME config \in Configs, NEW x, NEW y, Sound(x), Passes(x, y)
  PROVE  y.user = UserAt(y, y.at) /\ y.claims = ClaimsAt(y, y.at)
<1> DEFINE q == x.query
           m == Chain(q)[x.at]
<1>1. /\ x.pc = "down" /\ x.at \in DOMAIN Chain(q) /\ x.at \in Nat \ {0} /\ y.query = q /\ y.at = x.at + 1
      /\ x.user = UserAt(x, x.at) /\ x.claims = ClaimsAt(x, x.at)
  BY DEF Passes, Same, Parts, Sound, Placed, Guarded
<1>2. y.claims = IF m = "jwt" THEN q.token ELSE x.claims
  BY DEF Passes
<1>3. y.claims = ClaimsAt(y, y.at)
  BY <1>1, <1>2, BeforeNext DEF ClaimsAt
<1>4. CASE m = "auth"
  <2>1. y.loaded = x.loaded /\ y.user = IF x.claims # Nobody THEN [from |-> "token", roles |-> x.claims.roles]
                   ELSE [from |-> "session", roles |-> "roles" \in x.keys]
    BY <1>4 DEF Passes
  <2>2. Before(q, y.at, "auth")
    BY <1>1, <1>4, BeforeNext
  <2>3. /\ (x.claims # Nobody <=> Before(q, x.at, "jwt"))
        /\ (x.claims # Nobody => x.claims = q.token) /\ x.keys = x.loaded
    BY <1>1, ClaimsSeen
  <2>4. ~Before(q, x.at, "jwt") => ~UserOfToken(q, x.at)
    BY <1>1 DEF UserOfToken, Before
  <2>5. UserOfToken(q, y.at) <=> Before(q, x.at, "jwt")
    BY <1>1, <1>4, <2>4, BeforeNext
  <2> QED
    BY <1>1, <1>3, <2>1, <2>2, <2>3, <2>5 DEF UserAt
<1>5. CASE m # "auth"
  <2>1. y.user = x.user
    BY <1>5 DEF Passes
  <2>2. /\ (Before(q, y.at, "auth") <=> Before(q, x.at, "auth"))
        /\ (UserOfToken(q, y.at) <=> UserOfToken(q, x.at))
    BY <1>1, <1>5, BeforeNext
  <2>3. CASE y.loaded = x.loaded
    BY <1>1, <1>3, <2>1, <2>2, <2>3 DEF UserAt
  <2>4. CASE y.loaded # x.loaded
    <3>1. m = "session"
      BY <2>4 DEF Passes
    <3>2. Before(q, x.at, "auth") => UserOfToken(q, x.at)
      BY <1>1, <3>1, NotYetLoaded DEF UserOfToken, Before
    <3> QED
      BY <1>1, <1>3, <2>1, <2>2, <3>2 DEF UserAt
  <2> QED
    BY <2>3, <2>4
<1> QED
  BY <1>3, <1>4, <1>5

\* Placed and Guarded are kept on the way down,
LEMMA PassesGuarded ==
  ASSUME config \in Configs, NEW x, NEW y, Sound(x), Passes(x, y)
  PROVE  Placed(y) /\ Guarded(y)
<1> DEFINE q == x.query
           m == Chain(q)[x.at]
<1>1. /\ x.pc = "down" /\ x.at \in DOMAIN Chain(q) /\ x.at \in Nat \ {0} /\ y.query = q /\ y.at = x.at + 1
      /\ y.pc = "down" /\ DOMAIN y = Parts /\ y.ran = x.ran /\ ~x.ran
      /\ y.done = x.done /\ y.dirty = x.dirty /\ y.saved = x.saved /\ y.cookie = x.cookie /\ y.csrf = x.csrf
  BY DEF Passes, Same, Parts, Sound, Placed, Guarded
<1>2. y.setCsrf \in Nat /\ y.id \in Nat /\ y.keys \subseteq Keys /\ y.loaded \subseteq Keys
  BY DEF Passes, Sound, Placed
<1>3. y.at \in 1..(Len(Chain(q)) + 1)
  BY <1>1, ChainFacts DEF Sound, Placed
<1>4. Placed(y)
  BY <1>1, <1>2, <1>3 DEF Placed, Sound
<1>5. \A i \in 1..(y.at - 1) : Accepts(y, i)
  <2>1. 1..(y.at - 1) = 1..(x.at - 1) \cup {x.at}
    BY <1>1
  <2> QED
    BY <2>1, AcceptedStill, PassedAccepts
<1>6. y.keys = y.loaded
  BY <1>1 DEF Passes, Sound, Guarded
<1>7. y.id # 0 <=> Before(q, y.at, "session")
  <2>1. x.id # 0 <=> Before(q, x.at, "session")
    BY <1>1 DEF Sound, Guarded
  <2>2. Before(q, y.at, "session") <=> Before(q, x.at, "session") \/ m = "session"
    BY <1>1, BeforeNext
  <2> QED
    BY <2>1, <2>2 DEF Passes
<1>8. y.id = 0 => y.loaded = {}
  BY DEF Passes, Sound, Guarded
<1> QED
  BY <1>1, <1>4, <1>5, <1>6, <1>7, <1>8, UserPassed DEF Guarded

\* What the guards look at.
AdmitParts == {"query", "csrf", "loaded", "user", "id", "ran"}

\* After the way down nothing the guards look at changes.
LEMMA GuardedSame ==
  ASSUME NEW x, NEW y, Guarded(x), \A f \in AdmitParts : y[f] = x[f], x.pc # "down", y.pc # "down",
         ~x.ran => y.pc \notin {"handler", "panic", "aborted"} /\ (x.pc = "killed" => y.pc = "killed")
  PROVE  Guarded(y)
<1>1. y.query = x.query /\ y.csrf = x.csrf /\ y.loaded = x.loaded /\ y.user = x.user /\ y.id = x.id /\ y.ran = x.ran
  BY DEF AdmitParts
<1>2. Admits(y) <=> Admits(x)
  BY <1>1 DEF Admits, Accepts
<1>3. UserAt(y, Len(Chain(y.query)) + 1) = UserAt(x, Len(Chain(x.query)) + 1)
  BY <1>1 DEF UserAt
<1> QED
  BY <1>1, <1>2, <1>3 DEF Guarded

\* by the middleware that turns the request back: it does not admit it,
LEMMA TurnsBackGuarded ==
  ASSUME config \in Configs, NEW x, NEW y, Sound(x), TurnsBack(x, y)
  PROVE  Placed(y) /\ Guarded(y)
<1> DEFINE q == x.query
<1>1. /\ x.pc = "down" /\ x.at \in DOMAIN Chain(q) /\ x.at \in 1..Len(Chain(q)) /\ ~Accepts(x, x.at) /\ ~x.ran
      /\ DOMAIN y = Parts /\ y.query = q /\ y.at = x.at - 1 /\ y.pc = "up" /\ y.ran = x.ran /\ y.csrf = x.csrf
      /\ y.loaded = x.loaded /\ y.keys = x.keys /\ y.id = x.id /\ y.cookie = x.cookie /\ y.setCsrf \in Nat
      /\ y.done = x.done /\ y.dirty = x.dirty /\ y.saved \in BOOLEAN
  BY ChainFacts DEF TurnsBack, Same, Parts, Sound, Placed, Guarded
<1>2. Placed(y)
  BY <1>1 DEF Placed, Sound
<1>3. ~Admits(y)
  <2>1. ~Accepts(y, x.at)
    BY <1>1 DEF Accepts
  <2> QED
    BY <1>1, <2>1 DEF Admits
<1> QED
  BY <1>1, <1>2, <1>3 DEF Guarded, Sound

\* by the handler's start: a request that met every guard is admitted,
LEMMA StartsGuarded ==
  ASSUME config \in Configs, NEW x, NEW y, Sound(x), Starts(x, y)
  PROVE  Placed(y) /\ Guarded(y)
<1> DEFINE q == x.query
<1>1. /\ x.pc = "down" /\ x.at = Len(Chain(q)) + 1 /\ DOMAIN y = Parts /\ y.query = q /\ y.at = x.at /\ y.pc = "handler"
      /\ y.ran = TRUE /\ y.csrf = x.csrf /\ y.loaded = x.loaded /\ y.keys = x.keys /\ y.id = x.id
      /\ y.cookie = x.cookie /\ y.setCsrf = x.setCsrf /\ y.done = x.done /\ y.dirty = x.dirty /\ y.saved = x.saved
      /\ y.user = x.user /\ Chain(q) \in Seq(Middleware)
  BY ChainFacts DEF Starts, Same, Parts, Sound, Placed
<1>2. Placed(y)
  BY <1>1 DEF Placed, Sound
<1>3. Admits(y)
  <2>1. \A i \in DOMAIN Chain(q) : Accepts(x, i)
    BY <1>1 DEF Sound, Guarded
  <2> QED
    BY <1>1, <2>1 DEF Admits, Accepts
<1>4. y.user = UserAt(y, Len(Chain(q)) + 1)
  BY <1>1 DEF Sound, Guarded, UserAt
<1>5. y.id # 0 <=> Has(q, "session")
  BY <1>1 DEF Sound, Guarded, Before, Has
<1> QED
  BY <1>1, <1>2, <1>3, <1>4, <1>5 DEF Guarded, Sound

\* Save sets flags.
LEMMA SaveBoolean ==
  ASSUME NEW x, NEW y, NEW b, SaveParts(x, y, b), x.saved \in BOOLEAN, x.dirty \in BOOLEAN
  PROVE  y.saved \in BOOLEAN /\ y.dirty \in BOOLEAN
<1>1. CASE b
  BY <1>1 DEF SaveParts
<1>2. CASE ~b
  BY <1>2 DEF SaveParts
<1> QED
  BY <1>1, <1>2

\* on the way up,
LEMMA ClimbsGuarded ==
  ASSUME config \in Configs, NEW x, NEW y, Sound(x), Climbs(x, y)
  PROVE  Placed(y) /\ Guarded(y)
<1>0. x.pc \in {"up", "panic"} /\ x.at \in 1..Len(Chain(x.query)) /\ x.at \in DOMAIN Chain(x.query)
  <2>1. x.query \in Query /\ x.at \in DOMAIN Chain(x.query) /\ x.pc \in {"up", "panic"}
    BY DEF Climbs, Sound, Placed
  <2> QED
    BY <2>1, ChainFacts
<1>1. /\ DOMAIN y = Parts /\ y.query = x.query /\ y.at = x.at - 1
      /\ y.pc = x.pc /\ y.ran = x.ran /\ y.csrf = x.csrf /\ y.loaded = x.loaded /\ y.keys = x.keys /\ y.id = x.id
      /\ y.cookie = x.cookie /\ y.setCsrf = x.setCsrf /\ y.done = x.done /\ y.user = x.user
  BY DEF Climbs, Same, Parts
<1>2. y.saved \in BOOLEAN /\ y.dirty \in BOOLEAN
  BY SaveBoolean DEF Climbs, Sound, Placed
<1>3. Placed(y)
  BY <1>0, <1>1, <1>2 DEF Placed, Sound
<1>4. Guarded(y)
  BY <1>0, <1>1, GuardedSame DEF AdmitParts, Sound, Guarded
<1> QED
  BY <1>3, <1>4

\* The session's methods keep its type.
LEMMA ChangeType ==
  ASSUME NEW keys \in SUBSET Keys, NEW o \in Ops, IsChange(o)
  PROVE  Change(keys, o) \subseteq Keys
<1>1. CASE o.op = "set"
  BY <1>1 DEF Change, Ops, SessionOps, Writes
<1>2. CASE o.op # "set"
  BY <1>2 DEF Change, IsChange
<1> QED
  BY <1>1, <1>2

\* The next step is one of the script.
LEMMA NextOpType ==
  ASSUME NEW x, Placed(x), HasNext(x)
  PROVE  NextOp(x) \in Ops /\ x.done + 1 \in 1..Len(Script(x.query)) /\ Script(x.query) \in Seq(Ops)
  BY ScriptType DEF Placed, HasNext, NextOp

\* and by every step of the handler.
LEMMA HandlerGuarded ==
  ASSUME config \in Configs, NEW x, NEW y, Sound(x), Edits(x, y) \/ Puts(x, y) \/ Leaves(x, y)
  PROVE  Placed(y) /\ Guarded(y)
<1>1. /\ x.pc = "handler" /\ x.ran /\ x.at = Len(Chain(x.query)) + 1 /\ Len(Chain(x.query)) \in Nat
  BY ChainFacts DEF Edits, Puts, Leaves, HasNext, Sound, Guarded, Placed
<1>2. /\ DOMAIN y = Parts /\ y.query = x.query /\ y.ran = x.ran /\ y.csrf = x.csrf /\ y.loaded = x.loaded /\ y.id = x.id
      /\ y.cookie = x.cookie /\ y.setCsrf = x.setCsrf /\ y.user = x.user
  BY DEF Edits, Puts, Leaves, Leaving, Same, Parts
<1>3. Guarded(y)
  <2>1. y.pc # "down"
    <3>1. CASE Edits(x, y) \/ Puts(x, y)
      BY <1>1, <3>1 DEF Edits, Puts, Same, Parts
    <3>2. CASE Leaves(x, y)
      BY <3>2 DEF Leaves
    <3> QED
      BY <3>1, <3>2
  <2> QED
    BY <1>1, <1>2, <2>1, GuardedSame DEF AdmitParts, Sound
<1>4. CASE Edits(x, y)
  <2>1. y.at = x.at /\ y.pc = "handler" /\ y.saved = x.saved
    BY <1>1, <1>4 DEF Edits, Same, Parts
  <2>2. y.done \in 0..Len(Script(x.query))
    BY <1>4, NextOpType DEF Edits, Sound, Placed
  <2>3. y.dirty \in BOOLEAN
    BY <1>4 DEF Edits, Sound, Placed
  <2>4. y.keys \subseteq Keys
    BY <1>4, ChangeType, NextOpType DEF Edits, Sound, Placed
  <2> QED
    BY <1>1, <1>2, <1>3, <2>1, <2>2, <2>3, <2>4 DEF Placed, Sound
<1>5. CASE Puts(x, y)
  <2>1. y.at = x.at /\ y.pc = "handler" /\ y.keys = x.keys
    BY <1>1, <1>5 DEF Puts, Same, Parts
  <2>2. y.done \in 0..Len(Script(x.query))
    <3>1. Placed(x) /\ HasNext(x) /\ y.done = x.done + 1
      BY <1>5 DEF Puts, Sound
    <3>2. x.done + 1 \in 1..Len(Script(x.query)) /\ Script(x.query) \in Seq(Ops)
      BY <3>1, NextOpType
    <3> QED BY <3>1, <3>2
  <2>3. y.dirty \in BOOLEAN /\ y.saved \in BOOLEAN
    BY <1>5, SaveBoolean DEF Puts, Sound, Placed
  <2> QED
    BY <1>1, <1>2, <1>3, <2>1, <2>2, <2>3 DEF Placed, Sound
<1>6. CASE Leaves(x, y)
  <2>1. y.at = Len(Chain(x.query)) /\ y.pc \in {"up", "panic"} /\ y.keys = x.keys /\ y.done = x.done
    BY <1>6 DEF Leaves, Leaving, Same, Parts
  <2>2. y.dirty \in BOOLEAN /\ y.saved \in BOOLEAN
    BY <1>6, SaveBoolean DEF Leaves, Answered, Sound, Placed
  <2> QED
    BY <1>1, <1>2, <1>3, <2>1, <2>2 DEF Placed, Sound
<1> QED
  BY <1>4, <1>5, <1>6

-----------------------------------------------------------------------------
(* Worked is kept. *)

\* No step, no change.
LEMMA MadeNone == ASSUME NEW s, NEW keys \in SUBSET Keys PROVE Made(s, 0, keys) = keys
  BY DEF Made

\* Made follows the session's methods step by step.
LEMMA MadeNext ==
  ASSUME NEW s, NEW keys \in SUBSET Keys, NEW n \in Nat, s[n + 1] \in Ops, IsChange(s[n + 1])
  PROVE  Made(s, n + 1, keys) = Change(Made(s, n, keys), s[n + 1])
<1> DEFINE o == s[n + 1]
<1>1. 1..(n + 1) = 1..n \cup {n + 1}
  OBVIOUS
<1>2. \A i \in 1..n : i + 1 \in Nat /\ (i + 1)..(n + 1) = (i + 1)..n \cup {n + 1}
  OBVIOUS
<1>3. (n + 1 + 1)..(n + 1) = {}
  OBVIOUS
<1>4. ASSUME NEW key \in Keys
      PROVE  key \in Made(s, n + 1, keys)
               <=> (o.op = "set" /\ o.key = key) \/ (key \in Made(s, n, keys) /\ ~Touches(o, key))
  BY <1>1, <1>2, <1>3, <1>4 DEF Made
<1>5. CASE o.op = "set"
  <2>1. o.key \in Keys
    BY <1>5 DEF Ops, SessionOps, Writes
  <2>2. \A key \in Keys : Touches(o, key) <=> o.key = key
    BY <1>5 DEF Touches
  <2> QED
    BY <1>4, <1>5, <2>1, <2>2 DEF Change, Made
<1>6. CASE o.op = "delete"
  <2>2. \A key \in Keys : Touches(o, key) <=> o.key = key
    BY <1>6 DEF Touches
  <2> QED
    BY <1>4, <1>6, <2>2 DEF Change, Made
<1>7. CASE o.op = "clear"
  <2>2. \A key \in Keys : Touches(o, key)
    BY <1>7 DEF Touches
  <2> QED
    BY <1>4, <1>7, <2>2 DEF Change, Made
<1> QED
  BY <1>5, <1>6, <1>7 DEF IsChange

\* The number of changes before the first other step is unique.
LEMMA ChangesAre ==
  ASSUME NEW s \in Seq(Ops), NEW n \in 0..Len(s), \A i \in 1..n : IsChange(s[i]),
         n < Len(s) => ~IsChange(s[n + 1])
  PROVE  Changes(s) = n
<1> DEFINE P(k) == /\ \A i \in 1..k : IsChange(s[i])
                   /\ k < Len(s) => ~IsChange(s[k + 1])
<1>1. ASSUME NEW k \in 0..Len(s), P(k) PROVE k = n
  <2>1. Len(s) \in Nat
    OBVIOUS
  <2>2. CASE k < n
    BY <1>1, <2>1, <2>2
  <2>3. CASE n < k
    BY <1>1, <2>1, <2>3
  <2> QED
    BY <2>1, <2>2, <2>3
<1>2. P(n)
  OBVIOUS
<1> QED
  BY <1>1, <1>2 DEF Changes

\* What a script makes of a session, by the steps done, once the next one changes nothing.
LEMMA AppliedIs ==
  ASSUME NEW x, Placed(x), Pending(x),
         x.done < Len(Script(x.query)) => ~IsChange(NextOp(x))
  PROVE  LET after == Made(Script(x.query), x.done, x.loaded) IN
         Applied(x.query, x.loaded) =
           IF (x.done < Len(Script(x.query)) /\ NextOp(x).op = "panic") \/ after \cap Unencodable # {}
             THEN x.loaded ELSE after
<1>1. Script(x.query) \in Seq(Ops) /\ x.done \in 0..Len(Script(x.query))
  BY ScriptType DEF Placed
<1>2. Changes(Script(x.query)) = x.done
  BY <1>1, ChangesAre DEF Pending, NextOp
<1> QED
  BY <1>2 DEF Applied, NextOp

\* The script will not change the session any more when it is saved.
Settled(x) == x.done < Len(Script(x.query)) => NextOp(x).op \in {"fail", "write", "header"}

\* What is saved is what the script makes of the session, and what cannot be
\* saved leaves it as it was.
LEMMA SaveApplies ==
  ASSUME NEW x, Sound(x), x.id # 0, ~x.saved, Settled(x)
  PROVE  IF Saves(x) THEN x.keys = Applied(x.query, x.loaded) ELSE Undone(x)
<1>1. Pending(x) /\ x.keys = Made(Script(x.query), x.done, x.loaded) /\ (x.dirty <=> x.done # 0)
  BY DEF Sound, Worked, Unsaved
<1>2. x.done < Len(Script(x.query)) => ~IsChange(NextOp(x)) /\ NextOp(x).op # "panic"
  BY DEF Settled, IsChange
<1>3. Applied(x.query, x.loaded) = IF x.keys \cap Unencodable # {} THEN x.loaded ELSE x.keys
  BY <1>1, <1>2, AppliedIs DEF Sound
<1>4. ~x.dirty => x.keys = x.loaded
  BY <1>1, MadeNone DEF Sound, Placed
<1> QED
  BY <1>3, <1>4 DEF Saves, Undone

\* So Save keeps Reports.
LEMMA SaveReports ==
  ASSUME NEW x, NEW y, NEW b, Sound(x), SaveParts(x, y, b),
         y.query = x.query, y.ran = x.ran, y.id = x.id, y.loaded = x.loaded,
         b /\ x.ran => x.id # 0 /\ (~x.saved => Settled(x))
  PROVE  Reports(y)
<1>1. Reports(x)
  BY DEF Sound, Worked
<1>2. (Undone(y) <=> Undone(x)) /\ Applied(y.query, y.loaded) = Applied(x.query, x.loaded)
  BY DEF Undone
<1>3. CASE ~b \/ (b /\ ~Saves(x) /\ (x.saved \/ ~x.ran))
  <2>1. y.setSession = x.setSession /\ (x.saved => y.saved) /\ (y.saved => x.saved \/ ~x.ran)
    BY <1>3 DEF SaveParts, Saves
  <2> QED
    BY <1>1, <1>2, <2>1 DEF Reports
<1>4. CASE b /\ x.saved
  BY <1>3, <1>4 DEF Saves
<1>5. CASE b /\ ~x.ran
  <2>1. ~x.dirty
    BY <1>5 DEF Sound, Worked
  <2> QED
    BY <1>3, <1>5, <2>1 DEF Saves
<1>6. CASE b /\ ~x.saved /\ x.ran
  <2>1. x.id # 0 /\ x.sent = 0 /\ (IF Saves(x) THEN x.keys = Applied(x.query, x.loaded) ELSE Undone(x))
    BY <1>6, SaveApplies DEF Sound, Worked, Unsaved
  <2>2. y.saved = TRUE
    BY <1>6 DEF SaveParts
  <2>3. CASE Saves(x)
    <3>1. y.setSession = [id |-> x.id, keys |-> IF Memory THEN {} ELSE x.keys]
      BY <1>6, <2>1, <2>3 DEF SaveParts
    <3>2. y.setSession # NoCookie
      BY <2>1, <3>1 DEF NoCookie
    <3> QED
      BY <1>6, <2>1, <2>2, <2>3, <3>1, <3>2 DEF Reports
  <2>4. CASE ~Saves(x)
    <3>1. y.setSession = x.setSession
      BY <1>6, <2>4 DEF SaveParts
    <3>2. x.setSession = NoCookie
      BY <1>1, <1>6 DEF Reports
    <3> QED
      BY <1>2, <2>1, <2>4, <3>1, <3>2 DEF Reports
  <2> QED
    BY <2>3, <2>4
<1> QED
  BY <1>3, <1>4, <1>5, <1>6

\* Worked, by name.
LEMMA SoundWorked ==
  ASSUME NEW x, Sound(x)
  PROVE  /\ Reports(x)
         /\ x.pc = "up" => \A i \in 1..x.at : Chain(x.query)[i] = "session" => x.id # 0
         /\ x.pc = "down" => x.sent = 0 /\ ~x.saved
         /\ ~x.ran => x.done = 0 /\ ~x.dirty /\ x.error = 0
         /\ x.id # 0 /\ ~x.saved => Unsaved(x)
  BY DEF Sound, Worked

\* The handler is inside the session middleware if there is one.
LEMMA InsideSession ==
  ASSUME config \in Configs, NEW x, x.query \in Query, x.at = Len(Chain(x.query)) + 1
  PROVE  Inside(x) <=> Has(x.query, "session")
<1>1. Chain(x.query) \in Seq(Middleware)
  BY ChainFacts
<1> QED
  BY <1>1 DEF Inside, Has

\* Worked is kept on the way down,
LEMMA PassesWorked ==
  ASSUME NEW x, NEW y, Sound(x), Passes(x, y)
  PROVE  Worked(y)
<1>1. /\ x.pc = "down" /\ ~x.ran /\ x.done = 0 /\ ~x.dirty /\ x.error = 0 /\ x.sent = 0 /\ ~x.saved /\ Reports(x)
      /\ x.keys = x.loaded
  BY SoundWorked DEF Passes, Sound, Guarded
<1>2. /\ y.pc = x.pc /\ y.ran = x.ran /\ y.done = x.done /\ y.dirty = x.dirty /\ y.error = x.error /\ y.sent = x.sent
      /\ y.saved = x.saved /\ y.setSession = x.setSession
  BY DEF Passes, Same, Parts
<1>3. y.keys = y.loaded /\ y.loaded \in SUBSET Keys
  BY <1>1 DEF Passes, Sound, Placed
<1>4. Reports(y)
  BY <1>1, <1>2 DEF Reports
<1>5. Unsaved(y)
  BY <1>1, <1>2, <1>3, MadeNone DEF Unsaved, Pending
<1> QED
  BY <1>1, <1>2, <1>4, <1>5 DEF Worked

\* by the middleware that turns the request back: the session is settled by its
\* answer, unchanged,
LEMMA TurnsBackWorked ==
  ASSUME config \in Configs, NEW x, NEW y, Sound(x), TurnsBack(x, y)
  PROVE  Worked(y)
<1> DEFINE q == x.query
<1>1. /\ x.pc = "down" /\ ~x.ran /\ x.done = 0 /\ ~x.dirty /\ x.error = 0 /\ x.sent = 0 /\ ~x.saved /\ Reports(x)
      /\ (x.id # 0 <=> Before(q, x.at, "session")) /\ x.at \in 1..Len(Chain(q)) /\ Chain(q) \in Seq(Middleware)
  <2>1. x.query \in Query /\ x.at \in DOMAIN Chain(q) /\ x.pc = "down"
    BY DEF TurnsBack, Sound, Placed
  <2> QED
    BY <2>1, ChainFacts, SoundWorked DEF Sound, Guarded
<1>2. /\ y.pc = "up" /\ y.ran = x.ran /\ y.done = x.done /\ y.dirty = x.dirty /\ y.error = x.error
      /\ (y.saved <=> Inside(x)) /\ y.setSession = x.setSession /\ y.query = q /\ y.at = x.at - 1 /\ y.id = x.id
  BY DEF TurnsBack, Same, Parts
<1>3. Reports(y)
  BY <1>1, <1>2 DEF Reports
<1>4. \A i \in 1..y.at : Chain(q)[i] = "session" => x.id # 0
  BY <1>1, <1>2 DEF Before
<1>5. y.id # 0 => y.saved
  BY <1>1, <1>2 DEF Before, Inside
<1> QED
  BY <1>1, <1>2, <1>3, <1>4, <1>5 DEF Worked

\* by the handler's start,
LEMMA StartsWorked ==
  ASSUME NEW x, NEW y, Sound(x), Starts(x, y)
  PROVE  Worked(y)
<1>1. /\ x.pc = "down" /\ ~x.ran /\ x.done = 0 /\ ~x.dirty /\ x.error = 0 /\ x.sent = 0 /\ ~x.saved /\ Reports(x)
      /\ x.keys = x.loaded /\ x.loaded \in SUBSET Keys
  BY SoundWorked DEF Starts, Sound, Guarded, Placed
<1>2. /\ y.pc = "handler" /\ y.ran = TRUE /\ y.done = x.done /\ y.dirty = x.dirty /\ y.error = x.error /\ y.sent = x.sent
      /\ y.saved = x.saved /\ y.setSession = x.setSession /\ y.keys = x.keys /\ y.loaded = x.loaded
  BY DEF Starts, Same, Parts
<1>3. Reports(y)
  BY <1>1, <1>2 DEF Reports
<1>4. Unsaved(y)
  BY <1>1, <1>2, MadeNone DEF Unsaved, Pending
<1> QED
  BY <1>1, <1>2, <1>3, <1>4 DEF Worked

\* In the handler.
LEMMA HandlerInside ==
  ASSUME config \in Configs, NEW x, Sound(x), x.pc = "handler"
  PROVE  /\ x.ran /\ (Inside(x) <=> Has(x.query, "session")) /\ (x.id # 0 <=> Has(x.query, "session"))
         /\ x.query \in Query /\ x.at = Len(Chain(x.query)) + 1 /\ Chain(x.query) \in Seq(Middleware)
<1>1. x.ran /\ x.query \in Query /\ x.at = Len(Chain(x.query)) + 1 /\ (x.id # 0 <=> Has(x.query, "session"))
  BY DEF Sound, Placed, Guarded
<1> QED
  BY <1>1, InsideSession, ChainFacts

\* by a change of the session, which Made follows,
LEMMA EditsWorked ==
  ASSUME config \in Configs, NEW x, NEW y, Sound(x), Edits(x, y)
  PROVE  Worked(y)
<1>1. x.pc = "handler" /\ HasNext(x) /\ IsChange(NextOp(x))
  BY DEF Edits, HasNext
<1>2. x.ran /\ (x.id # 0 <=> Inside(x)) /\ Reports(x) /\ (x.id # 0 /\ ~x.saved => Unsaved(x))
  BY <1>1, HandlerInside, SoundWorked
<1>3. /\ y.pc = "handler" /\ y.ran = x.ran /\ y.done = x.done + 1 /\ y.id = x.id /\ y.query = x.query /\ y.sent = x.sent
      /\ y.saved = x.saved /\ y.setSession = x.setSession /\ y.loaded = x.loaded
  BY <1>1 DEF Edits, Same, Parts
<1>4. Reports(y)
  BY <1>2, <1>3 DEF Reports, Undone
<1>5. ASSUME y.id # 0, ~y.saved PROVE Unsaved(y)
  <2>1. Unsaved(x)
    BY <1>2, <1>3, <1>5
  <2>2. y.keys = Change(x.keys, NextOp(x)) /\ y.dirty = TRUE
    BY <1>2, <1>3, <1>5 DEF Edits
  <2>3. x.loaded \in SUBSET Keys /\ x.done \in Nat /\ NextOp(x) \in Ops
    BY <1>1, NextOpType DEF Sound, Placed
  <2>4. Change(Made(Script(x.query), x.done, x.loaded), NextOp(x)) = Made(Script(x.query), x.done + 1, x.loaded)
    BY <1>1, <2>3, MadeNext DEF NextOp
  <2>5. \A i \in 1..(x.done + 1) : IsChange(Script(x.query)[i])
    BY <1>1, <2>1, <2>3 DEF Unsaved, Pending, NextOp
  <2>6. Pending(y)
    BY <1>3, <2>5 DEF Pending
  <2>7. y.keys = Made(Script(y.query), y.done, y.loaded) /\ y.sent = 0 /\ y.done # 0
    BY <1>3, <2>1, <2>2, <2>3, <2>4 DEF Unsaved
  <2> QED
    BY <1>3, <2>2, <2>6, <2>7 DEF Unsaved
<1> QED
  BY <1>2, <1>3, <1>4, <1>5 DEF Worked

\* by a write: the session is saved by then,
LEMMA PutsWorked ==
  ASSUME config \in Configs, NEW x, NEW y, Sound(x), Puts(x, y)
  PROVE  Worked(y)
<1>1. x.pc = "handler" /\ HasNext(x) /\ NextOp(x).op \in {"write", "header"}
  BY DEF Puts, HasNext
<1>2. x.ran /\ (x.id # 0 <=> Inside(x)) /\ Reports(x)
  BY <1>1, HandlerInside, SoundWorked
<1>3. /\ y.pc = "handler" /\ y.ran = x.ran /\ y.id = x.id /\ y.query = x.query /\ y.loaded = x.loaded
      /\ SaveParts(x, y, Inside(x))
  BY <1>1 DEF Puts, Same, Parts
<1>4. Settled(x)
  BY <1>1 DEF Settled
<1>5. Reports(y)
  BY <1>2, <1>3, <1>4, SaveReports
<1>6. y.id # 0 => y.saved
  BY <1>2, <1>3 DEF SaveParts
<1> QED
  BY <1>2, <1>3, <1>5, <1>6 DEF Worked

\* by the handler's end,
LEMMA LeavesWorked ==
  ASSUME config \in Configs, NEW x, NEW y, Sound(x), Leaves(x, y)
  PROVE  Worked(y)
<1> DEFINE q == x.query
<1>1. x.pc = "handler"
  BY DEF Leaves
<1>2. /\ x.ran /\ (x.id # 0 <=> Inside(x)) /\ Reports(x) /\ (x.id # 0 <=> Has(q, "session"))
      /\ (x.id # 0 /\ ~x.saved => Unsaved(x)) /\ Chain(q) \in Seq(Middleware)
  BY <1>1, HandlerInside, SoundWorked
<1>3. /\ y.ran = x.ran /\ y.id = x.id /\ y.query = q /\ y.loaded = x.loaded /\ y.keys = x.keys /\ y.done = x.done
      /\ y.at = Len(Chain(q)) /\ y.pc \in {"up", "panic"}
  BY DEF Leaves, Leaving, Same, Parts
<1>4. (\A i \in 1..y.at : Chain(q)[i] = "session" => x.id # 0) /\ (x.id # 0 => \E i \in 1..y.at : Chain(q)[i] = "session")
  BY <1>2, <1>3 DEF Has
<1>5. CASE Fails(x) /\ ~HasHolder(x) /\ SaveParts(x, y, Inside(x)) /\ y.pc = "up"
  <2>1. Settled(x)
    BY <1>5 DEF Settled, Fails, HasNext
  <2>2. Reports(y)
    BY <1>2, <1>3, <1>5, <2>1, SaveReports
  <2>3. y.id # 0 => y.saved
    BY <1>2, <1>3, <1>5 DEF SaveParts
  <2> QED
    BY <1>2, <1>3, <1>4, <1>5, <2>2, <2>3 DEF Worked
<1>6. CASE Answered(x, y) /\ \/ x.done = Len(Script(q)) /\ y.pc = "up"
                             \/ HasNext(x) /\ NextOp(x).op = "panic" /\ y.pc = "panic"
                             \/ Fails(x) /\ y.pc = "up"
  <2>1. y.sent = x.sent /\ y.saved = x.saved /\ y.dirty = x.dirty /\ y.setSession = x.setSession
    BY <1>6 DEF Answered, SaveParts
  <2>2. Reports(y)
    BY <1>2, <1>3, <2>1 DEF Reports, Undone
  <2>3. ASSUME y.id # 0, ~y.saved PROVE Unsaved(y)
    <3>1. Unsaved(x)
      BY <1>2, <1>3, <2>1, <2>3
    <3>2. /\ y.pc = "up" => y.done = Len(Script(q)) \/ Script(q)[y.done + 1].op = "fail"
          /\ y.pc = "panic" => y.done < Len(Script(q)) /\ Script(q)[y.done + 1].op = "panic"
      BY <1>3, <1>6 DEF HasNext, NextOp, Fails
    <3> QED
      BY <1>3, <1>4, <2>1, <2>3, <3>1, <3>2 DEF Unsaved, Pending
  <2> QED
    BY <1>2, <1>3, <1>4, <2>2, <2>3 DEF Worked
<1> QED
  BY <1>5, <1>6 DEF Leaves

\* and on the way up: who leaves the session middleware behind has saved.
LEMMA ClimbsWorked ==
  ASSUME config \in Configs, NEW x, NEW y, Sound(x), Climbs(x, y)
  PROVE  Worked(y)
<1> DEFINE q == x.query
           m == Chain(q)[x.at]
<1>1. x.pc \in {"up", "panic"} /\ x.at \in 1..Len(Chain(q)) /\ Chain(q) \in Seq(Middleware)
  <2>1. x.query \in Query /\ x.at \in DOMAIN Chain(q) /\ x.pc \in {"up", "panic"}
    BY DEF Climbs, Sound, Placed
  <2> QED
    BY <2>1, ChainFacts
<1>2. /\ y.pc = x.pc /\ y.ran = x.ran /\ y.id = x.id /\ y.query = q /\ y.loaded = x.loaded /\ y.keys = x.keys
      /\ y.done = x.done /\ y.at = x.at - 1 /\ SaveParts(x, y, SavesAt(x))
  BY DEF Climbs, Same, Parts
<1>3. /\ Reports(x) /\ (x.pc = "up" => \A i \in 1..x.at : Chain(q)[i] = "session" => x.id # 0)
      /\ (~x.ran => x.done = 0 /\ ~x.dirty /\ x.error = 0) /\ (x.id # 0 /\ ~x.saved => Unsaved(x))
  BY SoundWorked
<1>4. SavesAt(x) => x.pc = "up" /\ x.id # 0 
  BY <1>1, <1>3 DEF SavesAt, Inside
<1>5. Reports(y)
  <2>1. ASSUME SavesAt(x), x.ran, ~x.saved PROVE Settled(x)
    BY <1>3, <1>4, <2>1 DEF Settled, Unsaved, NextOp
  <2> QED
    BY <1>2, <1>4, <2>1, SaveReports
<1>6. ~x.ran => ~y.dirty /\ y.error = 0
  <2>1. ~x.dirty => ~y.dirty
    BY <1>2 DEF SaveParts
  <2>2. x.error = 0 => y.error = 0
    BY DEF Climbs
  <2> QED
    BY <1>3, <2>1, <2>2
<1>7. ASSUME y.id # 0, ~y.saved PROVE Unsaved(y)
  <2>1. ~SavesAt(x)
    BY <1>2, <1>7 DEF SaveParts
  <2>2. ~x.saved /\ y.dirty = x.dirty
    BY <1>2, <1>7, <2>1 DEF SaveParts
  <2>3. Unsaved(x)
    BY <1>2, <1>3, <1>7, <2>2
  <2>4. x.pc = "up" => \E i \in 1..(x.at - 1) : Chain(q)[i] = "session"
    BY <1>1, <2>1, <2>3 DEF SavesAt, Unsaved
  <2>5. ~(m = "errors" /\ x.pc = "up" /\ x.error # 0)
    BY <1>1, <2>1, <2>4 DEF SavesAt, Inside
  <2>6. y.sent = x.sent
    BY <2>5 DEF Climbs
  <2> QED
    BY <1>1, <1>2, <2>2, <2>3, <2>4, <2>6 DEF Unsaved, Pending
<1>8. \A i \in 1..y.at : i \in 1..x.at
  BY <1>1, <1>2
<1> QED
  BY <1>1, <1>2, <1>3, <1>5, <1>6, <1>7, <1>8 DEF Worked

-----------------------------------------------------------------------------
(* Spanned is kept. *)

\* The chain of a request that is Placed.
LEMMA ChainAt ==
  ASSUME config \in Configs, NEW x, Placed(x)
  PROVE  Chain(x.query) \in Seq(Middleware) /\ x.at \in Nat /\ x.query \in Query
  BY ChainFacts DEF Placed

\* Spanned is kept on the way down,
LEMMA PassesSpanned ==
  ASSUME config \in Configs, NEW x, NEW y, Sound(x), Passes(x, y)
  PROVE  Spanned(y)
<1> DEFINE q == x.query
           m == Chain(q)[x.at]
<1>1. x.pc = "down" /\ ~x.ran /\ x.at \in Nat \ {0} /\ x.span \in {"none", "open"}
      /\ (x.span = "none" <=> ~Before(q, x.at, "tracing"))
  BY DEF Passes, Sound, Guarded, Placed, Spanned
<1>2. /\ y.pc = "down" /\ y.ran = x.ran /\ y.query = q /\ y.at = x.at + 1
      /\ y.span = IF m = "tracing" THEN "open" ELSE x.span
  BY DEF Passes, Same, Parts
<1>3. Before(q, y.at, "tracing") <=> Before(q, x.at, "tracing") \/ m = "tracing"
  BY <1>1, <1>2, BeforeNext
<1> QED
  BY <1>1, <1>2, <1>3 DEF Spanned

\* by the middleware that turns the request back,
LEMMA TurnsBackSpanned ==
  ASSUME NEW x, NEW y, Sound(x), TurnsBack(x, y)
  PROVE  Spanned(y)
<1> DEFINE q == x.query
<1>1. x.pc = "down" /\ ~x.ran /\ x.span \in {"none", "open"} /\ (x.span = "none" <=> ~Before(q, x.at, "tracing"))
  BY DEF TurnsBack, Sound, Guarded, Spanned
<1>2. y.pc = "up" /\ y.ran = x.ran /\ y.query = q /\ y.at = x.at - 1 /\ y.span = x.span
  BY DEF TurnsBack, Same, Parts
<1> QED
  BY <1>1, <1>2 DEF Spanned, Before

\* by the handler's start,
LEMMA StartsSpanned ==
  ASSUME config \in Configs, NEW x, NEW y, Sound(x), Starts(x, y)
  PROVE  Spanned(y)
<1> DEFINE q == x.query
<1>1. /\ x.pc = "down" /\ x.span \in {"none", "open"} /\ (x.span = "none" <=> ~Before(q, x.at, "tracing"))
      /\ x.at = Len(Chain(q)) + 1 /\ Chain(q) \in Seq(Middleware)
  BY ChainAt DEF Starts, Sound, Spanned
<1>2. y.pc = "handler" /\ y.query = q /\ y.span = x.span
  BY DEF Starts, Same, Parts
<1>3. Before(q, x.at, "tracing") <=> Has(q, "tracing")
  BY <1>1 DEF Before, Has
<1> QED
  BY <1>1, <1>2, <1>3 DEF Spanned

\* by its steps,
LEMMA HandlerSpanned ==
  ASSUME config \in Configs, NEW x, NEW y, Sound(x), Edits(x, y) \/ Puts(x, y) \/ Leaves(x, y)
  PROVE  Spanned(y)
<1> DEFINE q == x.query
<1>1. x.pc = "handler" /\ Chain(q) \in Seq(Middleware)
  BY ChainAt DEF Edits, Puts, Leaves, HasNext, Sound
<1>2. y.ran = x.ran /\ y.query = q /\ y.span = x.span
  BY DEF Edits, Puts, Leaves, Leaving, Same, Parts
<1>3. y.pc = "handler" \/ (y.pc \in {"up", "panic"} /\ y.at = Len(Chain(q)))
  <2>1. CASE Edits(x, y) \/ Puts(x, y)
    BY <1>1, <2>1 DEF Edits, Puts, Same, Parts
  <2>2. CASE Leaves(x, y)
    BY <2>2 DEF Leaves
  <2> QED
    BY <2>1, <2>2
<1>4. Has(q, "tracing") => \E i \in 1..Len(Chain(q)) : Chain(q)[i] = "tracing"
  BY <1>1 DEF Has
<1>5. /\ x.span \in {"none", "open", "ended"} /\ (x.ran /\ Has(q, "tracing") => x.span # "none")
      /\ (x.span = "open" => Has(q, "tracing"))
  BY <1>1 DEF Sound, Spanned
<1> QED
  BY <1>2, <1>3, <1>4, <1>5 DEF Spanned

\* and on the way up, where the tracer ends the span.
LEMMA ClimbsSpanned ==
  ASSUME config \in Configs, NEW x, NEW y, Sound(x), Climbs(x, y)
  PROVE  Spanned(y)
<1> DEFINE q == x.query
           m == Chain(q)[x.at]
<1>1. x.pc \in {"up", "panic"} /\ x.at \in Nat \ {0}
  <2>1. x.at \in Nat /\ x.at \in DOMAIN Chain(q) /\ Chain(q) \in Seq(Middleware) /\ x.pc \in {"up", "panic"}
    BY ChainAt DEF Climbs, Sound
  <2> QED
    BY <2>1
<1>2. /\ y.pc = x.pc /\ y.ran = x.ran /\ y.query = q /\ y.at = x.at - 1
      /\ y.span = IF m = "tracing" THEN "ended" ELSE x.span
  BY DEF Climbs, Same, Parts
<1>3. /\ x.span \in {"none", "open", "ended"} /\ (x.ran /\ Has(q, "tracing") => x.span # "none")
      /\ (x.span = "open" => \E i \in 1..x.at : Chain(q)[i] = "tracing")
  BY <1>1 DEF Sound, Spanned
<1>4. y.span = "open" => \E i \in 1..y.at : Chain(q)[i] = "tracing"
  BY <1>1, <1>2, <1>3
<1> QED
  BY <1>1, <1>2, <1>3, <1>4 DEF Spanned

-----------------------------------------------------------------------------
(* Told is kept. *)

\* Told is kept on the way down,
LEMMA PassesTold ==
  ASSUME NEW x, NEW y, Sound(x), Passes(x, y)
  PROVE  Told(y)
<1>1. x.pc = "down" /\ x.error = 0 /\ x.sent = 0 /\ x.recorded = 200 /\ x.logged = 0
  <2>1. x.pc = "down" /\ Told(x)
    BY DEF Passes, Sound
  <2> QED
    BY <2>1 DEF Told
<1>2. y.pc = "down" /\ y.error = x.error /\ y.sent = x.sent /\ y.recorded = x.recorded /\ y.logged = x.logged
  BY <1>1 DEF Passes, Same, Parts
<1> QED
  BY <1>1, <1>2 DEF Told

\* by the middleware that turns the request back,
LEMMA TurnsBackTold ==
  ASSUME NEW x, NEW y, Sound(x), TurnsBack(x, y)
  PROVE  Told(y)
<1>1. x.pc = "down" /\ x.error = 0 /\ x.logged = 0
  <2>1. x.pc = "down" /\ Told(x)
    BY DEF TurnsBack, Sound
  <2> QED
    BY <2>1 DEF Told
<1>2. y.pc = "up" /\ y.error = x.error /\ y.sent \in 200..599 /\ y.recorded = y.sent /\ y.logged = x.logged
  BY <1>1 DEF TurnsBack, Same, Parts
<1> QED
  BY <1>1, <1>2 DEF Told

\* by the handler's start,
LEMMA StartsTold ==
  ASSUME NEW x, NEW y, Sound(x), Starts(x, y)
  PROVE  Told(y)
<1>1. x.pc = "down" /\ x.error = 0 /\ x.sent = 0 /\ x.recorded = 200 /\ x.logged = 0
  <2>1. x.pc = "down" /\ Told(x)
    BY DEF Starts, Sound
  <2> QED
    BY <2>1 DEF Told
<1>2. y.pc = "handler" /\ y.error = x.error /\ y.sent = x.sent /\ y.recorded = x.recorded /\ y.logged = x.logged
  BY <1>1 DEF Starts, Same, Parts
<1> QED
  BY <1>1, <1>2 DEF Told

\* What Told says in the handler.
LEMMA HandlerTold ==
  ASSUME NEW x, Sound(x), x.pc = "handler"
  PROVE  /\ x.error = 0 /\ x.logged = 0
         /\ x.sent # 0 => \E i \in 1..x.done : Script(x.query)[i].op \in {"write", "header"}
         /\ ~StatusTwice(x.query) => (x.sent = 0 /\ x.recorded = 200) \/ (x.sent # 0 /\ x.sent = x.recorded)
  BY DEF Sound, Told

\* A handler that has answered and sets a status or fails is one that does so twice.
LEMMA SecondStatus ==
  ASSUME NEW x, Sound(x), HasNext(x), x.sent # 0, NextOp(x).op \in {"header", "fail"}
  PROVE  StatusTwice(x.query)
<1> DEFINE s == Script(x.query)
<1>1. PICK i \in 1..x.done : s[i].op \in {"write", "header"}
  BY HandlerTold DEF HasNext
<1>2. s \in Seq(Ops) /\ x.done \in 0..Len(s) /\ x.done < Len(s)
  BY ScriptType DEF HasNext, Sound, Placed
<1>3. i \in DOMAIN s /\ x.done + 1 \in DOMAIN s /\ i < x.done + 1
  BY <1>2
<1> QED
  BY <1>1, <1>3 DEF StatusTwice, NextOp

\* Statuses and errors are not 0.
LEMMA CodeType ==
  ASSUME NEW x, Placed(x), HasNext(x), NextOp(x).op \in {"header", "fail"}
  PROVE  NextOp(x).code \in 200..599
<1>1. NextOp(x) \in Ops
  BY NextOpType
<1> QED
  BY <1>1 DEF Ops, SessionOps, Writes

\* by a change of the session,
LEMMA EditsTold ==
  ASSUME NEW x, NEW y, Sound(x), Edits(x, y)
  PROVE  Told(y)
<1>1. x.pc = "handler" /\ x.done \in Nat
  BY DEF Edits, HasNext, Sound, Placed
<1>2. /\ y.pc = "handler" /\ y.error = x.error /\ y.sent = x.sent /\ y.recorded = x.recorded /\ y.logged = x.logged
      /\ y.done = x.done + 1 /\ y.query = x.query
  BY <1>1 DEF Edits, Same, Parts
<1>3. \A i \in 1..x.done : i \in 1..y.done
  BY <1>1, <1>2
<1> QED
  BY <1>1, <1>2, <1>3, HandlerTold DEF Told

\* by a write,
LEMMA PutsTold ==
  ASSUME NEW x, NEW y, Sound(x), Puts(x, y)
  PROVE  Told(y)
<1>1. x.pc = "handler" /\ HasNext(x) /\ NextOp(x).op \in {"write", "header"} /\ x.done \in Nat
  BY DEF Puts, HasNext, Sound, Placed
<1>2. /\ y.pc = "handler" /\ y.error = x.error /\ y.logged = x.logged /\ y.done = x.done + 1 /\ y.query = x.query
  BY <1>1 DEF Puts, Same, Parts
<1>3. Script(y.query)[y.done].op \in {"write", "header"} /\ y.done \in 1..y.done
  BY <1>1, <1>2 DEF NextOp
<1>4. ~StatusTwice(y.query) => (y.sent = 0 /\ y.recorded = 200) \/ (y.sent # 0 /\ y.sent = y.recorded)
  <2>1. CASE NextOp(x).op = "write"
    <3>1. y.sent = (IF x.sent = 0 THEN 200 ELSE x.sent) /\ y.recorded = x.recorded
      BY <2>1 DEF Puts
    <3> QED
      BY <1>1, <1>2, <3>1, HandlerTold
  <2>2. CASE NextOp(x).op = "header"
    <3>1. y.sent = (IF x.sent = 0 THEN NextOp(x).code ELSE x.sent) /\ y.recorded = NextOp(x).code
      BY <2>2 DEF Puts
    <3>2. NextOp(x).code # 0
      BY <1>1, <2>2, CodeType DEF Sound
    <3>3. x.sent # 0 => StatusTwice(x.query)
      BY <1>1, <2>2, SecondStatus
    <3> QED
      BY <1>2, <3>1, <3>2, <3>3
  <2> QED
    BY <1>1, <2>1, <2>2
<1> QED
  BY <1>1, <1>2, <1>3, <1>4, HandlerTold DEF Told

\* by the handler's end,
LEMMA LeavesTold ==
  ASSUME config \in Configs, NEW x, NEW y, Sound(x), Leaves(x, y)
  PROVE  Told(y)
<1> DEFINE q == x.query
<1>1. x.pc = "handler" /\ Chain(q) \in Seq(Middleware)
  BY ChainAt DEF Leaves, Sound
<1>2. y.logged = 0 /\ y.query = q /\ y.at = Len(Chain(q)) /\ y.pc \in {"up", "panic"} /\ x.error = 0
  BY <1>1, HandlerTold DEF Leaves, Leaving, Same, Parts
<1>3. ~StatusTwice(q) => (y.sent = 0 /\ y.recorded = 200) \/ (y.sent # 0 /\ y.sent = y.recorded)
  <2>1. CASE Answered(x, y)
    BY <1>1, <2>1, HandlerTold DEF Answered
  <2>2. CASE ~Answered(x, y)
    <3>1. Fails(x) /\ y.sent = (IF x.sent = 0 THEN NextOp(x).code ELSE x.sent) /\ y.recorded = NextOp(x).code
      BY <2>2 DEF Leaves
    <3>2. NextOp(x).code # 0
      BY <3>1, CodeType DEF Sound, Fails
    <3>3. x.sent # 0 => StatusTwice(q)
      BY <3>1, SecondStatus DEF Fails
    <3> QED
      BY <3>1, <3>2, <3>3
  <2> QED
    BY <2>1, <2>2
<1>4. \/ y.error = 0
      \/ /\ y.error \in 200..599 /\ (y.sent = 0 \/ StatusTwice(q)) /\ HasHolder(x) /\ y.pc = "up"
  <2>1. CASE y.error = x.error
    BY <1>2, <2>1
  <2>2. CASE y.error # x.error
    <3>1. Fails(x) /\ HasHolder(x) /\ y.pc = "up" /\ y.error = NextOp(x).code /\ y.sent = x.sent
      BY <2>2 DEF Leaves, Answered
    <3>2. NextOp(x).code \in 200..599
      BY <3>1, CodeType DEF Sound, Fails
    <3>3. x.sent # 0 => StatusTwice(q)
      BY <3>1, SecondStatus DEF Fails
    <3> QED
      BY <3>1, <3>2, <3>3
  <2> QED
    BY <2>1, <2>2
<1>5. HasHolder(x) => Has(q, "errors")
  <2>1. x.at = Len(Chain(q)) + 1
    BY <1>1 DEF Sound, Placed
  <2> QED
    BY <1>1, <2>1 DEF HasHolder, Has
<1>6. \A i \in DOMAIN Chain(q) : i <= y.at
  BY <1>1, <1>2
<1> QED
  BY <1>2, <1>3, <1>4, <1>5, <1>6 DEF Told

\* and on the way up: no error is answered behind a logger that sees them all.
LEMMA ClimbsTold ==
  ASSUME config \in Configs, NEW x, NEW y, Sound(x), Climbs(x, y)
  PROVE  Told(y)
<1> DEFINE q == x.query
           m == Chain(q)[x.at]
           ch == Chain(q)
<1>1. x.pc \in {"up", "panic"} /\ x.at \in DOMAIN ch /\ x.at \in Nat /\ ch \in Seq(Middleware) /\ Told(x)
  BY ChainAt DEF Climbs, Sound
<1>2. y.pc = x.pc /\ y.query = q /\ y.at = x.at - 1
  BY DEF Climbs, Same, Parts
<1>3. y.logged = IF m = "logger" /\ x.pc = "up" THEN x.recorded ELSE x.logged
  BY DEF Climbs
<1>4. /\ x.error \in {0} \cup 200..599
      /\ x.error # 0 => /\ x.pc = "up" /\ (x.sent = 0 \/ StatusTwice(q))
                        /\ Has(q, "errors") /\ \A i \in DOMAIN ch : ch[i] = "errors" => i <= x.at
      /\ x.pc = "panic" => x.logged = 0
      /\ x.logged # 0 => Has(q, "logger")
      /\ ~StatusTwice(q) => (x.sent = 0 /\ x.recorded = 200) \/ (x.sent # 0 /\ x.sent = x.recorded)
  BY <1>1 DEF Told
<1>5. m = "logger" => Has(q, "logger")
  BY <1>1 DEF Has
<1>6. CASE m = "errors" /\ x.pc = "up" /\ x.error # 0
  <2>1. y.error = 0 /\ y.recorded = x.error /\ (y.sent = IF x.sent = 0 THEN x.error ELSE x.sent)
    BY <1>6 DEF Climbs
  <2>2. ~\E j \in DOMAIN ch : y.at < j /\ SeesAll(q, j)
    <3> SUFFICES ASSUME NEW j \in DOMAIN ch, y.at < j, SeesAll(q, j) PROVE FALSE
      OBVIOUS
    <3>1. PICK i \in DOMAIN ch : j < i /\ ch[i] = "errors"
      BY <1>4, <1>6 DEF SeesAll
    <3> QED
      BY <1>1, <1>2, <1>4, <1>6, <3>1
  <2>3. y.logged = x.logged
    BY <1>3, <1>6
  <2> QED
    BY <1>2, <1>4, <1>6, <2>1, <2>2, <2>3 DEF Told
<1>7. CASE ~(m = "errors" /\ x.pc = "up" /\ x.error # 0)
  <2>1. y.error = x.error /\ y.recorded = x.recorded /\ y.sent = x.sent
    BY <1>7 DEF Climbs
  <2>2. x.error # 0 => \A i \in DOMAIN ch : ch[i] = "errors" => i <= y.at
    BY <1>1, <1>2, <1>4, <1>7
  <2>3. ASSUME y.pc = "up", SeesErrors(q), ~StatusTwice(q), y.logged # 0, NEW j \in DOMAIN ch, y.at < j, SeesAll(q, j)
        PROVE  y.logged = y.recorded
    <3>1. CASE m = "logger"
      BY <1>2, <1>3, <2>1, <2>3, <3>1
    <3>2. CASE m # "logger"
      <4>1. j # x.at /\ x.at < j
        BY <1>1, <1>2, <2>3, <3>2 DEF SeesAll
      <4>2. x.logged # 0 /\ y.logged = x.logged
        BY <1>3, <2>3, <3>2
      <4> QED
        BY <1>1, <1>2, <2>1, <2>3, <4>1, <4>2 DEF Told
    <3> QED
      BY <3>1, <3>2
  <2>4. y.logged # 0 => Has(q, "logger")
    BY <1>3, <1>4, <1>5
  <2>5. y.pc = "panic" => y.logged = 0
    BY <1>2, <1>3, <1>4
  <2> QED
    BY <1>1, <1>2, <1>4, <2>1, <2>2, <2>3, <2>4, <2>5 DEF Told
<1> QED
  BY <1>6, <1>7

-----------------------------------------------------------------------------
(* The end of a request, and all steps together. *)

\* net/http ends the response or closes the connection.
Finishes(x, y) ==
  /\ x.at = 0 /\ Same(x, y, {"pc", "sent"})
  /\ \/ x.pc = "up" /\ y.pc = "answered" /\ y.sent = IF x.sent = 0 THEN 200 ELSE x.sent
     \/ x.pc = "panic" /\ y.pc = "aborted" /\ y.sent = x.sent

\* The answer arrived or was lost, or the server ended.
Passed(x, y) ==
  /\ Same(x, y, {"pc"})
  /\ \/ x.pc \in {"answered", "aborted"} /\ y.pc = "over"
     \/ y.pc = "killed"

\* Finish is that.
LEMMA FinishMoves ==
  ASSUME Typed, NEW r \in Requests, Sound(run[r]), Finish(r)
  PROVE  Finishes(run[r], run'[r]) /\ run' = [run EXCEPT ![r] = run'[r]] /\ UNCHANGED store
<1> DEFINE x == run[r]
           b == Body(x)
           z == IF x.pc = "up" THEN [b EXCEPT !.pc = "answered"] ELSE [x EXCEPT !.pc = "aborted"]
<1>1. DOMAIN x = Parts /\ x.at = 0 /\ x.pc \in {"up", "panic"} /\ run' = [run EXCEPT ![r] = z] /\ store' = store
  BY DEF Finish, Sound, Placed
<1>2. Same(x, b, {"sent"}) /\ b.sent = IF x.sent = 0 THEN 200 ELSE x.sent
  BY <1>1 DEF Body, Same, Parts
<1> HIDE DEF b
<1>3. Finishes(x, z)
  <2>1. CASE x.pc = "up"
    <3>1. Same(b, z, {"pc"}) /\ z.pc = "answered"
      BY <1>2, <2>1 DEF Same, Parts
    <3>2. Same(x, z, {"pc", "sent"}) /\ z.sent = b.sent
      BY <1>2, <3>1 DEF Same, Parts
    <3> QED
      BY <1>1, <1>2, <2>1, <3>1, <3>2 DEF Finishes
  <2>2. CASE x.pc = "panic"
    <3>1. Same(x, z, {"pc", "sent"}) /\ z.pc = "aborted" /\ z.sent = x.sent
      BY <1>1, <2>2 DEF Same, Parts
    <3> QED
      BY <1>1, <2>2, <3>1 DEF Finishes
  <2> QED
    BY <1>1, <2>1, <2>2
<1> HIDE DEF z
<1>4. run'[r] = z
  BY <1>1 DEF Typed
<1> QED
  BY <1>1, <1>3, <1>4

\* The end of the response keeps Sound,
LEMMA FinishesSound ==
  ASSUME config \in Configs, NEW x, NEW y, Sound(x), Finishes(x, y)
  PROVE  Sound(y)
<1> DEFINE q == x.query
<1>1. /\ DOMAIN y = Parts /\ y.query = q /\ y.at = x.at /\ y.ran = x.ran /\ y.csrf = x.csrf /\ y.loaded = x.loaded
      /\ y.keys = x.keys /\ y.id = x.id /\ y.cookie = x.cookie /\ y.setCsrf = x.setCsrf /\ y.done = x.done
      /\ y.user = x.user /\ y.saved = x.saved /\ y.dirty = x.dirty /\ y.setSession = x.setSession
      /\ y.error = x.error /\ y.span = x.span /\ y.recorded = x.recorded /\ y.logged = x.logged /\ x.at = 0
  BY DEF Finishes, Same, Parts
<1>2. x.pc \in {"up", "panic"} /\ y.pc = IF x.pc = "up" THEN "answered" ELSE "aborted"
  BY DEF Finishes
<1>3. Placed(y)
  BY <1>1, <1>2 DEF Sound, Placed
<1>4. Guarded(y)
  <2>1. ~x.ran => x.pc # "panic"
    BY DEF Sound, Guarded
  <2> QED
    BY <1>1, <1>2, <2>1, GuardedSame DEF AdmitParts, Sound
<1>5. Worked(y)
  <2>1. Reports(y)
    BY <1>1, SoundWorked DEF Reports, Undone
  <2>2. ASSUME y.id # 0, ~y.saved PROVE Unsaved(y)
    <3>1. Unsaved(x)
      BY <1>1, <2>2, SoundWorked
    <3>2. x.pc = "panic"
      BY <1>1, <1>2, <3>1 DEF Unsaved
    <3>3. y.sent = x.sent
      BY <3>2 DEF Finishes
    <3>4. x.done < Len(Script(q)) /\ NextOp(x).op = "panic" /\ Pending(x)
      BY <3>1, <3>2 DEF Unsaved, NextOp
    <3>5. Undone(x)
      BY <3>4, AppliedIs DEF IsChange, Undone, Sound
    <3> QED
      BY <1>1, <1>2, <3>1, <3>2, <3>3, <3>5 DEF Unsaved, Pending, Undone
  <2> QED
    BY <1>1, <1>2, <2>1, <2>2, SoundWorked DEF Worked
<1>6. Spanned(y)
  <2>1. Spanned(x)
    BY DEF Sound
  <2> QED
    BY <1>1, <1>2, <2>1 DEF Spanned
<1>7. Told(y)
  <2>1. Told(x)
    BY DEF Sound
  <2>2. x.pc = "panic" => y.sent = x.sent /\ x.logged = 0 /\ x.error = 0
    BY <2>1 DEF Finishes, Told
  <2>3. x.pc = "up" => y.sent = IF x.sent = 0 THEN 200 ELSE x.sent
    BY DEF Finishes
  <2>4. y.error = 0
    <3>1. ASSUME x.error # 0 PROVE FALSE
      <4>1. PICK i \in DOMAIN Chain(q) : Chain(q)[i] = "errors"
        BY <2>1, <3>1 DEF Told, Has
      <4>2. i <= 0
        BY <1>1, <2>1, <3>1, <4>1 DEF Told
      <4> QED
        BY <4>1, <4>2, ChainAt DEF Sound
    <3> QED
      BY <1>1, <3>1
  <2>5. ASSUME x.pc = "up", SeesErrors(q), ~StatusTwice(q), x.logged # 0 PROVE x.logged = x.recorded
    <3>1. Chain(q) \in Seq(Middleware) /\ Has(q, "logger")
      BY <2>1, <2>5, ChainAt DEF Told, Sound
    <3>2. \E j \in DOMAIN Chain(q) : SeesAll(q, j)
      <4>1. CASE Has(q, "errors")
        <5>1. PICK i \in DOMAIN Chain(q) : Chain(q)[i] = "errors" /\ Before(q, i, "logger")
          BY <2>5, <4>1 DEF SeesErrors
        <5>2. PICK j \in 1..(i - 1) : Chain(q)[j] = "logger"
          BY <5>1 DEF Before
        <5> QED
          BY <3>1, <5>1, <5>2 DEF SeesAll
      <4>2. CASE ~Has(q, "errors")
        BY <3>1, <4>2 DEF SeesAll, Has
      <4> QED
        BY <4>1, <4>2
    <3>3. \A j \in DOMAIN Chain(q) : x.at < j
      BY <1>1, <3>1
    <3> QED
      BY <2>1, <2>5, <3>2, <3>3 DEF Told
  <2>6. ~StatusTwice(q) => (x.sent = 0 /\ x.recorded = 200) \/ (x.sent # 0 /\ x.sent = x.recorded)
    BY <2>1 DEF Told
  <2>7. ~StatusTwice(q) => (y.sent = 0 /\ y.recorded = 200) \/ (y.sent # 0 /\ y.sent = y.recorded)
    BY <1>1, <1>2, <2>2, <2>3, <2>6
  <2>8. y.pc = "answered" => y.sent # 0
    BY <1>2, <2>3
  <2>9. SeesErrors(q) /\ ~StatusTwice(q) /\ y.logged # 0 => y.logged = y.sent
    BY <1>1, <1>2, <2>2, <2>3, <2>5, <2>6
  <2>10. (y.logged # 0 => Has(q, "logger")) /\ (y.pc = "aborted" => y.logged = 0)
    BY <1>1, <1>2, <2>1, <2>2 DEF Told
  <2> QED
    BY <1>1, <1>2, <2>4, <2>7, <2>8, <2>9, <2>10 DEF Told
<1> QED
  BY <1>3, <1>4, <1>5, <1>6, <1>7 DEF Sound

\* and so does the end of the request.
LEMMA PassedSound ==
  ASSUME NEW x, NEW y, Sound(x), Passed(x, y)
  PROVE  Sound(y)
<1> DEFINE q == x.query
<1>1. /\ DOMAIN y = Parts /\ y.query = q /\ y.at = x.at /\ y.ran = x.ran /\ y.csrf = x.csrf /\ y.loaded = x.loaded
      /\ y.keys = x.keys /\ y.id = x.id /\ y.cookie = x.cookie /\ y.setCsrf = x.setCsrf /\ y.done = x.done
      /\ y.user = x.user /\ y.saved = x.saved /\ y.dirty = x.dirty /\ y.setSession = x.setSession
      /\ y.error = x.error /\ y.span = x.span /\ y.recorded = x.recorded /\ y.logged = x.logged /\ y.sent = x.sent
  BY DEF Passed, Same, Parts
<1>2. \/ x.pc \in {"answered", "aborted"} /\ y.pc = "over"
      \/ y.pc = "killed"
  BY DEF Passed
<1>3. Placed(y)
  BY <1>1, <1>2 DEF Sound, Placed
<1>4. Guarded(y)
  <2>1. (Admits(y) <=> Admits(x)) /\ UserAt(y, Len(Chain(q)) + 1) = UserAt(x, Len(Chain(q)) + 1)
    BY <1>1 DEF Admits, Accepts, UserAt
  <2> QED
    BY <1>1, <1>2, <2>1 DEF Guarded, Sound
<1>5. Worked(y)
  <2>1. Reports(y)
    BY <1>1, SoundWorked DEF Reports, Undone
  <2>2. ASSUME y.id # 0, ~y.saved PROVE Unsaved(y)
    <3>1. Unsaved(x)
      BY <1>1, <2>2, SoundWorked
    <3> QED
      BY <1>1, <1>2, <3>1 DEF Unsaved, Pending, Undone
  <2> QED
    BY <1>1, <1>2, <2>1, <2>2, SoundWorked DEF Worked
<1>6. Spanned(y)
  <2>1. Spanned(x)
    BY DEF Sound
  <2> QED
    BY <1>1, <1>2, <2>1 DEF Spanned
<1>7. Told(y)
  <2>1. Told(x)
    BY DEF Sound
  <2>2. x.pc \in {"answered", "aborted"} => x.error = 0
    BY <2>1 DEF Told
  <2> QED
    BY <1>1, <1>2, <2>1, <2>2 DEF Told
<1> QED
  BY <1>3, <1>4, <1>5, <1>6, <1>7 DEF Sound

\* Every step of a request keeps Sound.
LEMMA MovesSound ==
  ASSUME config \in Configs, NEW x, NEW y, Sound(x),
         \/ Passes(x, y) \/ TurnsBack(x, y) \/ Climbs(x, y) \/ Starts(x, y)
         \/ Edits(x, y) \/ Puts(x, y) \/ Leaves(x, y) \/ Finishes(x, y) \/ Passed(x, y)
  PROVE  Sound(y)
<1>1. CASE Passes(x, y)
  BY <1>1, PassesGuarded, PassesWorked, PassesSpanned, PassesTold DEF Sound
<1>2. CASE TurnsBack(x, y)
  BY <1>2, TurnsBackGuarded, TurnsBackWorked, TurnsBackSpanned, TurnsBackTold DEF Sound
<1>3. CASE Climbs(x, y)
  BY <1>3, ClimbsGuarded, ClimbsWorked, ClimbsSpanned, ClimbsTold DEF Sound
<1>4. CASE Starts(x, y)
  BY <1>4, StartsGuarded, StartsWorked, StartsSpanned, StartsTold DEF Sound
<1>5. CASE Edits(x, y)
  BY <1>5, HandlerGuarded, EditsWorked, HandlerSpanned, EditsTold DEF Sound
<1>6. CASE Puts(x, y)
  BY <1>6, HandlerGuarded, PutsWorked, HandlerSpanned, PutsTold DEF Sound
<1>7. CASE Leaves(x, y)
  BY <1>7, HandlerGuarded, LeavesWorked, HandlerSpanned, LeavesTold DEF Sound
<1>8. CASE Finishes(x, y) \/ Passed(x, y)
  BY <1>8, FinishesSound, PassedSound
<1> QED
  BY <1>1, <1>2, <1>3, <1>4, <1>5, <1>6, <1>7, <1>8

\* A request is Sound as it is sent.
LEMMA SendSound ==
  ASSUME config \in Configs, NEW q \in Query, NEW cookie \in Cookie, NEW csrf \in Nat, NEW y,
         y = [Unsent EXCEPT !.pc = "down", !.at = 1, !.query = q, !.cookie = cookie, !.csrf = csrf]
  PROVE  Sound(y)
<1>1. /\ DOMAIN y = Parts /\ y.pc = "down" /\ y.at = 1 /\ y.query = q /\ y.cookie = cookie /\ y.csrf = csrf
      /\ y.id = 0 /\ y.keys = {} /\ y.loaded = {} /\ y.dirty = FALSE /\ y.saved = FALSE /\ y.claims = Nobody
      /\ y.user = Nobody /\ y.done = 0 /\ y.error = 0 /\ y.sent = 0 /\ y.recorded = 200 /\ y.logged = 0
      /\ y.setSession = NoCookie /\ y.setCsrf = 0 /\ y.span = "none" /\ y.ran = FALSE
  BY DEF Unsent, Parts
<1>2. Chain(q) \in Seq(Middleware) /\ Script(q) \in Seq(Ops)
  BY ChainFacts, ScriptType
<1>3. \A m : ~Before(q, 1, m)
  BY DEF Before
<1>4. Placed(y)
  <2>1. Len(Chain(q)) \in Nat /\ Len(Script(q)) \in Nat
    BY <1>2
  <2>2. 1 \in 1..(Len(Chain(q)) + 1) /\ 0 \in 0..Len(Script(q))
    BY <2>1
  <2>3. y.at \in 1..(Len(Chain(y.query)) + 1) /\ y.done \in 0..Len(Script(y.query)) /\ y.at \in Nat
    BY <1>1, <2>2
  <2>4. y.ran \in BOOLEAN /\ y.saved \in BOOLEAN /\ y.dirty \in BOOLEAN
    BY <1>1
  <2>5. y.keys \subseteq Keys /\ y.loaded \subseteq Keys /\ y.setCsrf \in Nat /\ y.id \in Nat
    BY <1>1
  <2>6. y.query \in Query /\ y.cookie \in Cookie /\ y.csrf \in Nat /\ y.pc = "down" /\ DOMAIN y = Parts
    BY <1>1
  <2> QED
    BY <2>3, <2>4, <2>5, <2>6 DEF Placed
<1>5. Guarded(y)
  BY <1>1, <1>3 DEF Guarded, ClaimsAt, UserAt
<1>6. Worked(y)
  BY <1>1 DEF Worked, Reports
<1>7. Spanned(y) /\ Told(y)
  BY <1>1, <1>3 DEF Spanned, Told
<1> QED
  BY <1>4, <1>5, <1>6, <1>7 DEF Sound
=============================================================================
