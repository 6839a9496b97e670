------------------------------ MODULE Requests ------------------------------
(***************************************************************************)
(* HTTP requests of one client on their way through the middlewares of     *)
(* web.Server and of the security module, several at once, and the session *)
(* they share (src/security, src/web).                                     *)
(*                                                                         *)
(* A request goes down a chain of middlewares to its handler and back up.  *)
(* What a middleware does before and after next.ServeHTTP is one action    *)
(* each, and so is every step of the handler.  The session store and the   *)
(* client's cookies are shared; a request works on its own copy of the     *)
(* session, which is saved at its first write.                             *)
(***************************************************************************)
EXTENDS Integers, Sequences, FiniteSets

CONSTANTS
  Requests,     \* each is sent at most once
  Configs,      \* the settings the application may have
  Traffic,      \* for each, the requests the client may send
  Routes,
  Group,        \* for each route, the middlewares of its group
  Keys,         \* keys of session values: "user" and "roles" mean something
  Unencodable,  \* keys whose values json.Marshal rejects
  ApiKeys,      \* security.api-key.keys
  Issuer,       \* a value of security.jwt.issuer
  MaxOpen,      \* bound: for each, requests under way at once
  MaxRestarts,  \* bound: restarts of the server
  Nobody        \* no query, no user, no token, no key, no issuer

Guards == {"cors", "headers", "csrf", "session", "jwt", "apikey"}
Middleware == {"tracing", "logger", "errors", "auth", "role"} \cup Guards
\* outer: what was given to Server.Use before the security module; enabled: the
\* security.*.enabled settings; store: the SessionStore; issuer: security.jwt.issuer,
\* Nobody if it is empty.
Config == [outer : Seq(Middleware), store : {"memory", "cookie"}, enabled : SUBSET Guards,
           issuer : {Issuer, Nobody}]

\* security.Module.Configure calls Use for what is enabled, in this order;
\* applyMiddleware puts the first of the list outermost, and the group's inside.
Installed(c) == LET On(m) == IF m \in c.enabled THEN <<m>> ELSE <<>> IN
                On("cors") \o On("headers") \o On("csrf") \o On("session") \o On("jwt") \o On("apikey")
ChainOf(c, route) == c.outer \o Installed(c) \o Group[route]

\* A step of a handler: change the session, write to the response, return an
\* error, panic.  To return ends the script.
SessionOps == [op : {"set", "delete"}, key : Keys] \cup {[op |-> "clear"]}
Writes     == [op : {"write"}] \cup [op : {"header"}, code : 200..599]
Ops        == SessionOps \cup Writes \cup [op : {"fail"}, code : 200..599] \cup {[op |-> "panic"]}

\* A JWT: does it have three parts, the server's signature and a JSON payload;
\* what do its claims say.
Token == [parts : BOOLEAN, signed : BOOLEAN, json : BOOLEAN, iss : {Issuer, Nobody},
          exp : {"none", "future", "past", "text"}, roles : BOOLEAN]
Query == [method : {"GET", "POST", "OPTIONS"}, route : Routes, echo : {"none", "cookie", "other"},
          token : Token \cup {Nobody}, key : ApiKeys \cup {"wrong", Nobody},
          body : {"empty", "malformed", "unknown field", "invalid", "good"},
          bind : {"no", "lenient", "strict"}, script : Seq(Ops)]

ASSUME RequestsAssumption ==
  /\ Configs \subseteq Config
  /\ Group \in [Routes -> Seq(Middleware)]
  /\ Unencodable \subseteq Keys /\ {"user", "roles"} \subseteq Keys
  /\ MaxOpen \in [Configs -> Nat] /\ MaxRestarts \in Nat
  /\ \A c \in Configs : Traffic[c] \subseteq Query
  /\ Nobody \notin Token \cup ApiKeys \cup [from : {"token", "session"}, roles : BOOLEAN]
  \* A request has one session.
  /\ \A c \in Configs, route \in Routes : \A i, j \in DOMAIN ChainOf(c, route) :
       ChainOf(c, route)[i] = "session" /\ ChainOf(c, route)[j] = "session" => i = j

VARIABLES
  config,    \* the settings security.Module.Configure has bound
  run,       \* the requests
  store,     \* InMemorySessionStore.sessions
  jar,       \* the client's cookies
  fresh,     \* the next random id: session ids and CSRF tokens never repeat
  restarts,
  \* history
  expected,  \* the keys the session has when its requests take effect one by one
  overlap    \* two requests were under way at once

vars == <<config, run, store, jar, fresh, restarts, expected, overlap>>

\* A session cookie: the id, and with CookieSessionStore the values.
Cookie == [id : Nat, keys : SUBSET Keys]
NoCookie == [id |-> 0, keys |-> {}]

\* A request that has not been sent.
Unsent == [pc |-> "idle", at |-> 0, query |-> Nobody,
           cookie |-> NoCookie, csrf |-> 0,                      \* cookies it brought
           id |-> 0, keys |-> {}, loaded |-> {}, dirty |-> FALSE, saved |-> FALSE,
           claims |-> Nobody, user |-> Nobody,                   \* its context
           done |-> 0,                                           \* steps of its handler
           error |-> 0, sent |-> 0, recorded |-> 200, logged |-> 0,
           setSession |-> NoCookie, setCsrf |-> 0,               \* Set-Cookie headers
           span |-> "none", ran |-> FALSE]

Memory == config.store = "memory"
InFlight(r) == run[r].pc \notin {"idle", "over", "killed"}

Chain(q) == ChainOf(config, q.route)

\* The place of the session middleware: writers inside it save the session.
Inside(x) == \E i \in 1..(x.at - 1) : i <= Len(Chain(x.query)) /\ Chain(x.query)[i] = "session"

Init ==
  /\ config \in Configs
  /\ run = [r \in Requests |-> Unsent]
  /\ store = <<>>
  /\ jar = [session |-> NoCookie, csrf |-> 0]
  /\ fresh = 1
  /\ restarts = 0
  /\ expected = {}
  /\ overlap = FALSE

-----------------------------------------------------------------------------
(* Writing.  These operators map a request to what it is after a call.     *)

\* Session.Set, Delete and Clear.
Change(keys, o) ==
  CASE o.op = "set" -> keys \cup {o.key}
    [] o.op = "delete" -> keys \ {o.key}
    [] o.op = "clear" -> {}

\* Save does something: it has not been called, and the session is dirty and
\* can be encoded.
Saves(x) == ~x.saved /\ x.dirty /\ x.keys \cap Unencodable = {}
\* sessionResponseWriter.Save with either store.  A cookie set after the header
\* has been sent is lost.
Saved(x) ==
  IF Saves(x)
    THEN [x EXCEPT !.saved = TRUE, !.dirty = FALSE,
                   !.setSession = IF x.sent # 0 THEN @
                                  ELSE [id |-> x.id, keys |-> IF Memory THEN {} ELSE x.keys]]
    ELSE [x EXCEPT !.saved = TRUE]
Stored(x) == IF Saves(x) /\ Memory
               THEN [i \in DOMAIN store \cup {x.id} |-> IF i = x.id THEN x.keys ELSE store[i]]
               ELSE store

\* Broken variant: the recorder looks at the body only.
StatusUnrecorded(x, code) == [x EXCEPT !.sent = IF @ = 0 THEN code ELSE @]
\* net/http sends the first status only; the recorder keeps the last.
Status(x, code) == [x EXCEPT !.sent = IF @ = 0 THEN code ELSE @, !.recorded = code]
\* A Write without a WriteHeader: net/http sends 200, the recorder sees bytes.
Body(x) == [x EXCEPT !.sent = IF @ = 0 THEN 200 ELSE @]

\* Broken variant: writes do not save, only the return of the handler does.
RespondUnsaved(r, x, y) ==
  /\ run' = [run EXCEPT ![r] = y]
  /\ UNCHANGED store
\* Request r writes through the writer it has at its place in the chain: x is the
\* request before, y after the write.
Respond(r, x, y) ==
  IF Inside(x)
    THEN /\ run' = [run EXCEPT ![r] = LET s == Saved(x) IN
                      [y EXCEPT !.saved = s.saved, !.dirty = s.dirty, !.setSession = s.setSession]]
         /\ store' = Stored(x)
    ELSE /\ run' = [run EXCEPT ![r] = y]
         /\ UNCHANGED store

Quiet == UNCHANGED <<config, jar, restarts, expected, overlap>>

\* The request is at middleware m, going down or coming up.
Down(r, m) == run[r].pc = "down" /\ run[r].at <= Len(Chain(run[r].query))
                /\ Chain(run[r].query)[run[r].at] = m
Up(r, m)   == run[r].pc = "up" /\ run[r].at > 0 /\ Chain(run[r].query)[run[r].at] = m

\* next.ServeHTTP, with x as the request's state and context.
Forward(r, x) == run' = [run EXCEPT ![r] = [x EXCEPT !.at = @ + 1]] /\ UNCHANGED store
\* Broken variant: the return after http.Error is missing.
RefuseGoesOn(r, x, code) == Respond(r, x, [Status(x, code) EXCEPT !.at = @ + 1])
\* http.Error or WriteHeader, and return without calling next.
Refuse(r, x, code) == Respond(r, x, [Status(x, code) EXCEPT !.pc = "up", !.at = @ - 1])

-----------------------------------------------------------------------------
(* The security module's middlewares.                                      *)

\* A preflight is answered at once, whether its origin is allowed or not; the
\* origin decides about headers of the response only.
Cors(r) ==
  /\ Down(r, "cors")
  /\ IF run[r].query.method = "OPTIONS" THEN Refuse(r, run[r], 204) ELSE Forward(r, run[r])
  /\ Quiet /\ UNCHANGED fresh

\* Sets headers of the response only.
SecureHeaders(r) ==
  /\ Down(r, "headers")
  /\ Forward(r, run[r])
  /\ Quiet /\ UNCHANGED fresh

\* Double submit: the header or form value must repeat the cookie.  Without a
\* cookie a token is generated and set, which no request can have repeated.
Csrf(r) ==
  /\ Down(r, "csrf")
  /\ LET x == IF run[r].csrf = 0 THEN [run[r] EXCEPT !.setCsrf = fresh] ELSE run[r]
         repeated == run[r].query.echo = "cookie" /\ run[r].csrf # 0 IN
       IF run[r].query.method = "POST" /\ ~repeated THEN Refuse(r, x, 403) ELSE Forward(r, x)
  /\ fresh' = IF run[r].csrf = 0 THEN fresh + 1 ELSE fresh
  /\ Quiet

\* store.Get: what the cookie names or holds, or a new session.
Known(c) == IF Memory THEN c.id \in DOMAIN store ELSE c.id # 0
\* Broken variant: an unknown id is taken over as it is.
LoadSessionTrusting(r) ==
  /\ Down(r, "session")
  /\ LET c == run[r].cookie
         keys == IF Known(c) THEN IF Memory THEN store[c.id] ELSE c.keys ELSE {} IN
       Forward(r, [run[r] EXCEPT !.id = c.id, !.keys = keys, !.loaded = keys])
  /\ Quiet /\ UNCHANGED fresh
LoadSession(r) ==
  /\ Down(r, "session")
  /\ LET c == run[r].cookie
         keys == IF Known(c) THEN IF Memory THEN store[c.id] ELSE c.keys ELSE {} IN
       Forward(r, [run[r] EXCEPT !.id = IF Known(c) THEN c.id ELSE fresh,
                                 !.keys = keys, !.loaded = keys])
  /\ fresh' = IF Known(run[r].cookie) THEN fresh ELSE fresh + 1
  /\ Quiet

\* `_ = rw.Save()` after next returned.
SaveSession(r) ==
  /\ Up(r, "session")
  /\ run' = [run EXCEPT ![r] = [Saved(run[r]) EXCEPT !.at = @ - 1]]
  /\ store' = Stored(run[r])
  /\ Quiet /\ UNCHANGED fresh

\* VerifyToken, then the issuer, if one is set, and expiry.
VerifyToken(t) == t.parts /\ t.signed /\ t.json
TokenAccepted(t) ==
  /\ t # Nobody /\ VerifyToken(t)
  /\ config.issuer # Nobody => t.iss = config.issuer
  /\ t.exp \in {"none", "future"}

Jwt(r) ==
  /\ Down(r, "jwt")
  /\ LET t == run[r].query.token IN
       IF TokenAccepted(t) THEN Forward(r, [run[r] EXCEPT !.claims = t]) ELSE Refuse(r, run[r], 401)
  /\ Quiet /\ UNCHANGED fresh

ApiKey(r) ==
  /\ Down(r, "apikey")
  /\ IF run[r].query.key \in ApiKeys THEN Forward(r, run[r]) ELSE Refuse(r, run[r], 401)
  /\ Quiet /\ UNCHANGED fresh

\* AuthMiddleware: the claims of the token, or else the user of the session.
Auth(r) ==
  /\ Down(r, "auth")
  /\ LET x == run[r] IN
       \/ /\ x.claims # Nobody
          /\ Forward(r, [x EXCEPT !.user = [from |-> "token", roles |-> x.claims.roles]])
       \/ /\ x.claims = Nobody /\ "user" \in x.keys
          /\ Forward(r, [x EXCEPT !.user = [from |-> "session", roles |-> "roles" \in x.keys]])
       \/ /\ x.claims = Nobody /\ "user" \notin x.keys
          /\ Refuse(r, x, 401)
  /\ Quiet /\ UNCHANGED fresh

RequireRole(r) ==
  /\ Down(r, "role")
  /\ LET u == run[r].user IN
       IF u = Nobody THEN Refuse(r, run[r], 401)
       ELSE IF u.roles THEN Forward(r, run[r]) ELSE Refuse(r, run[r], 403)
  /\ Quiet /\ UNCHANGED fresh

-----------------------------------------------------------------------------
(* The server's middlewares.                                               *)

\* ErrorMiddleware: the holder is in the context of what runs below.
HasHolder(x) == \E i \in 1..(x.at - 1) : Chain(x.query)[i] = "errors"

Enter(r) ==
  \/ /\ Down(r, "errors") \/ Down(r, "logger")
     /\ Forward(r, run[r])
  \/ /\ Down(r, "tracing")
     /\ Forward(r, [run[r] EXCEPT !.span = "open"])

\* handleError, when next has left an error.
Errors(r) ==
  /\ Up(r, "errors")
  /\ LET x == run[r] IN
       IF x.error # 0 THEN Respond(r, x, [Status(x, x.error) EXCEPT !.at = @ - 1, !.error = 0])
                      ELSE run' = [run EXCEPT ![r].at = @ - 1] /\ UNCHANGED store

\* RequestLogger reports the status it recorded.
Log(r) ==
  /\ Up(r, "logger")
  /\ run' = [run EXCEPT ![r] = [run[r] EXCEPT !.at = @ - 1, !.logged = run[r].recorded]]
  /\ UNCHANGED store

\* The deferred span.End(), on return and on panic.
EndSpan(r) ==
  /\ run[r].pc \in {"up", "panic"} /\ run[r].at > 0 /\ Chain(run[r].query)[run[r].at] = "tracing"
  /\ run' = [run EXCEPT ![r] = [run[r] EXCEPT !.at = @ - 1, !.span = "ended"]]
  /\ UNCHANGED store

\* Middlewares that do nothing after next, and on a panic all but the tracer.
Unwind(r) ==
  /\ run[r].at > 0
  /\ LET m == Chain(run[r].query)[run[r].at] IN
       \/ run[r].pc = "up" /\ m \notin {"errors", "logger", "tracing", "session"}
       \/ run[r].pc = "panic" /\ m # "tracing"
  /\ run' = [run EXCEPT ![r].at = @ - 1]
  /\ UNCHANGED store

ServerStep(r) == (Enter(r) \/ Errors(r) \/ Log(r) \/ EndSpan(r) \/ Unwind(r)) /\ Quiet /\ UNCHANGED fresh

-----------------------------------------------------------------------------
(* The handler.                                                            *)

\* BindJSON ignores fields the target lacks, BindJSONStrict rejects them; both
\* reject an empty body, malformed JSON and values that fail validation.
BindFails(q) == \/ q.bind # "no" /\ q.body \in {"empty", "malformed", "invalid"}
                \/ q.bind = "strict" /\ q.body = "unknown field"
Script(q) == IF BindFails(q) THEN <<[op |-> "fail", code |-> 400]>> ELSE q.script

Reach(r) ==
  /\ run[r].pc = "down" /\ run[r].at = Len(Chain(run[r].query)) + 1
  /\ run' = [run EXCEPT ![r] = [@ EXCEPT !.pc = "handler", !.ran = TRUE]]
  /\ UNCHANGED store

\* The handler's next step.
NextOp(x) == Script(x.query)[x.done + 1]
HandlerOp(r, op) == run[r].pc = "handler" /\ run[r].done < Len(Script(run[r].query)) /\ NextOp(run[r]).op = op
StepOn(x) == [x EXCEPT !.done = @ + 1]
Leave(x) == [x EXCEPT !.pc = "up", !.at = Len(Chain(x.query))]

\* Without a session middleware SessionFromContext finds no session to change.
ChangeSession(r) ==
  /\ HandlerOp(r, "set") \/ HandlerOp(r, "delete") \/ HandlerOp(r, "clear")
  /\ run' = [run EXCEPT ![r] = IF Inside(run[r])
       THEN [StepOn(run[r]) EXCEPT !.keys = Change(@, NextOp(run[r])), !.dirty = TRUE]
       ELSE StepOn(run[r])]
  /\ UNCHANGED store

WriteBody(r) ==
  /\ HandlerOp(r, "write")
  /\ Respond(r, run[r], StepOn(Body(run[r])))

WriteHeader(r) ==
  /\ HandlerOp(r, "header")
  /\ Respond(r, run[r], StepOn(Status(run[r], NextOp(run[r]).code)))

\* ErrorHandler gives the error to ErrorMiddleware, or answers itself.
Fail(r) ==
  /\ HandlerOp(r, "fail")
  /\ LET x == run[r]
         code == NextOp(x).code IN
       IF HasHolder(x) THEN run' = [run EXCEPT ![r] = Leave([x EXCEPT !.error = code])] /\ UNCHANGED store
                       ELSE Respond(r, x, Leave(Status(x, code)))

Panic(r) ==
  /\ HandlerOp(r, "panic")
  /\ run' = [run EXCEPT ![r] = [Leave(@) EXCEPT !.pc = "panic"]]
  /\ UNCHANGED store

HandlerReturns(r) ==
  /\ run[r].pc = "handler" /\ run[r].done = Len(Script(run[r].query))
  /\ run' = [run EXCEPT ![r] = Leave(@)]
  /\ UNCHANGED store

HandlerStep(r) ==
  /\ Reach(r) \/ ChangeSession(r) \/ WriteBody(r) \/ WriteHeader(r) \/ Fail(r) \/ Panic(r) \/ HandlerReturns(r)
  /\ Quiet /\ UNCHANGED fresh

-----------------------------------------------------------------------------
(* The client.                                                             *)

\* A request takes the cookies along that the client has now.
Send(r, q) ==
  /\ run[r].pc = "idle" /\ Cardinality({s \in Requests : InFlight(s)}) < MaxOpen[config]
  /\ run' = [run EXCEPT ![r] = [Unsent EXCEPT !.pc = "down", !.at = 1, !.query = q,
                                              !.cookie = jar.session, !.csrf = jar.csrf]]
  /\ overlap' = (overlap \/ \E s \in Requests : InFlight(s))
  /\ UNCHANGED <<config, store, jar, fresh, restarts, expected>>

\* What the first n steps of a script make of the keys of a session.
Touches(o, key)  == o.op = "clear" \/ (o.op \in {"set", "delete"} /\ o.key = key)
Made(s, n, keys) == {key \in Keys :
  \/ key \in keys /\ \A i \in 1..n : ~Touches(s[i], key)
  \/ \E i \in 1..n : /\ s[i].op = "set" /\ s[i].key = key
                     /\ \A j \in (i + 1)..n : ~Touches(s[j], key)}

\* What a handler does to the session, by its script: the changes before its
\* first write, none if it panics before that or they cannot be encoded.
IsChange(o)      == o.op \in {"set", "delete", "clear"}
Changes(s)       == CHOOSE n \in 0..Len(s) : /\ \A i \in 1..n : IsChange(s[i])
                                             /\ n < Len(s) => ~IsChange(s[n + 1])
Applied(q, keys) == LET s == Script(q)
                        n == Changes(s)
                        after == Made(s, n, keys) IN
                    IF (n < Len(s) /\ s[n + 1].op = "panic") \/ after \cap Unencodable # {}
                      THEN keys ELSE after

Has(q, m) == \E i \in DOMAIN Chain(q) : Chain(q)[i] = m

\* The handler has run, and the client learns of its changes or had the session.
Takes(x, received) ==
  /\ Has(x.query, "session") /\ x.ran
  /\ received \/ (Memory /\ x.id = x.cookie.id)
Over(r, received) ==
  /\ run' = [run EXCEPT ![r].pc = "over"]
  /\ expected' = IF Takes(run[r], received) THEN Applied(run[r].query, expected) ELSE expected
  /\ UNCHANGED <<config, store, fresh, restarts, overlap>>

\* net/http ends the response, or closes the connection after a panic.
Finish(r) ==
  /\ run[r].pc \in {"up", "panic"} /\ run[r].at = 0
  /\ run' = [run EXCEPT ![r] = IF @.pc = "up" THEN [Body(@) EXCEPT !.pc = "answered"]
                                             ELSE [@ EXCEPT !.pc = "aborted"]]
  /\ Quiet /\ UNCHANGED <<store, fresh>>

\* The response arrives, after a panic only if its header was flushed before.
Deliver(r) ==
  /\ run[r].pc = "answered" \/ (run[r].pc = "aborted" /\ run[r].sent # 0)
  /\ jar' = [session |-> IF run[r].setSession = NoCookie THEN jar.session ELSE run[r].setSession,
             csrf |-> IF run[r].setCsrf = 0 THEN jar.csrf ELSE run[r].setCsrf]
  /\ Over(r, TRUE)

Lose(r) ==
  /\ run[r].pc \in {"answered", "aborted"}
  /\ Over(r, FALSE)
  /\ UNCHANGED jar

\* The server process ends and another takes over: requests under way end
\* without an answer, sessions in memory are gone, cookies stay valid.
Restart ==
  /\ restarts < MaxRestarts
  /\ restarts' = restarts + 1
  /\ run' = [r \in Requests |-> IF InFlight(r) THEN [run[r] EXCEPT !.pc = "killed"] ELSE run[r]]
  /\ store' = <<>>
  /\ expected' = IF Memory THEN {} ELSE expected
  /\ UNCHANGED <<config, jar, fresh, overlap>>

-----------------------------------------------------------------------------

GuardStep(r) == Cors(r) \/ SecureHeaders(r) \/ Csrf(r) \/ LoadSession(r) \/ SaveSession(r)
                  \/ Jwt(r) \/ ApiKey(r) \/ Auth(r) \/ RequireRole(r)
Step(r) == GuardStep(r) \/ ServerStep(r) \/ HandlerStep(r) \/ Finish(r)

Next == \/ \E r \in Requests : (\E q \in Traffic[config] : Send(r, q)) \/ Step(r) \/ Deliver(r) \/ Lose(r)
        \/ Restart

Spec == Init /\ [][Next]_vars

-----------------------------------------------------------------------------
(* Properties.                                                             *)

\* Every variable keeps its type; the ids of stored sessions have been drawn, and
\* a response sets the session cookie only to the session its request has saved.
TypeOK ==
  /\ config \in Configs /\ fresh \in Nat \ {0} /\ restarts \in 0..MaxRestarts
  /\ jar \in [session : Cookie, csrf : Nat]
  /\ expected \subseteq Keys /\ overlap \in BOOLEAN
  /\ DOMAIN store \subseteq 1..(fresh - 1) /\ \A i \in DOMAIN store : store[i] \subseteq Keys
  /\ \A r \in Requests :
       /\ run[r].pc \in {"idle", "down", "handler", "up", "panic", "answered", "aborted", "over", "killed"}
       /\ run[r].keys \subseteq Keys /\ run[r].loaded \subseteq Keys
       /\ run[r].setSession \in Cookie /\ run[r].cookie \in Cookie
       /\ run[r].setSession # NoCookie => run[r].saved /\ run[r].setSession.id = run[r].id

\* The i-th middleware accepts the request, as far as the request, the session it
\* loaded and what stands before the i-th decide.
Before(q, i, m)  == \E j \in 1..(i - 1) : Chain(q)[j] = m
UserOfToken(q, i) == \E a \in 1..(i - 1) : Chain(q)[a] = "auth" /\ Before(q, a, "jwt")
Accepts(x, i) == LET q == x.query
                     m == Chain(q)[i] IN
  /\ m = "cors" => q.method # "OPTIONS"
  /\ m = "csrf" /\ q.method = "POST" => q.echo = "cookie" /\ x.csrf # 0
  /\ m = "jwt" => TokenAccepted(q.token)
  /\ m = "apikey" => q.key \in ApiKeys
  /\ m = "auth" => Before(q, i, "jwt") \/ (Before(q, i, "session") /\ "user" \in x.loaded)
  /\ m = "role" => /\ Before(q, i, "auth")
                    /\ IF UserOfToken(q, i) THEN q.token.roles ELSE "roles" \in x.loaded
Admits(x) == \A i \in DOMAIN Chain(x.query) : Accepts(x, i)

\* A handler runs for exactly the requests that every enabled guard and every
\* middleware of the route's group accepts, in whatever order they were installed
\* and whatever other requests do to the session meanwhile; what AuthMiddleware
\* calls the user comes from the token if one was required before it, and from the
\* session loaded for the request if not.
GuardsHold ==
  \A r \in Requests : run[r].pc \in {"answered", "aborted", "over"} =>
    /\ run[r].ran <=> Admits(run[r])
    /\ run[r].ran /\ Has(run[r].query, "auth") =>
         run[r].user.from = IF UserOfToken(run[r].query, Len(Chain(run[r].query)) + 1)
                              THEN "token" ELSE "session"

\* A session holds what one request made of the values that request loaded: of
\* overlapping requests the last one wins, and no session is a mixture.  While
\* requests do not overlap, the client's session has the effect of all of them
\* in their order, up to each one's first write; changes after it, changes that
\* cannot be encoded and changes before a panic are not in it.  A restart loses
\* what is in memory, a lost answer only a session that was new.
OneRequest(id, keys) == \E r \in Requests : run[r].id = id /\ keys = Applied(run[r].query, run[r].loaded)
Session == IF ~Memory THEN jar.session.keys
           ELSE IF jar.session.id \in DOMAIN store THEN store[jar.session.id] ELSE {}
SessionKept ==
  /\ \A i \in DOMAIN store : OneRequest(i, store[i])
  /\ ~Memory /\ jar.session # NoCookie => OneRequest(jar.session.id, jar.session.keys)
  /\ ~overlap /\ (\A r \in Requests : ~InFlight(r)) => Session = expected

\* A request that has ended has no open span, whether its handler returned,
\* failed or panicked, and a handler that ran had one if tracing is installed.
\* RequestLogger logged the status the client got, unless the handler had already
\* written when it set another one or failed, or the logger is further inside than
\* every ErrorMiddleware: then it logs before the error is answered.
StatusTwice(q) == \E i, j \in DOMAIN Script(q) : i < j /\ Script(q)[i].op \in {"write", "header"}
                                                     /\ Script(q)[j].op \in {"header", "fail"}
SeesErrors(q) == Has(q, "errors") => \E i \in DOMAIN Chain(q) : Chain(q)[i] = "errors" /\ Before(q, i, "logger")
Observed ==
  \A r \in Requests : run[r].pc \in {"answered", "aborted", "over"} =>
    /\ run[r].span # "open"
    /\ run[r].ran /\ Has(run[r].query, "tracing") => run[r].span = "ended"
    /\ SeesErrors(run[r].query) /\ ~StatusTwice(run[r].query) /\ run[r].logged # 0 =>
         run[r].logged = run[r].sent
=============================================================================
