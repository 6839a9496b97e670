----------------------------- MODULE MCRequests -----------------------------
(* Small instances of Requests: a shop whose visitors log in, fill a cart and *)
(* look at an admin page, and an API with tokens and keys.                    *)
EXTENDS Requests, TLC

CONSTANT admin, cart, blob

MCGroup == [open |-> <<>>, private |-> <<"auth", "role">>]

Set(k) == [op |-> "set", key |-> k]
Del(k) == [op |-> "delete", key |-> k]
Clear  == [op |-> "clear"]
Write  == [op |-> "write"]
Code(c)  == [op |-> "header", code |-> c]
Fails(c) == [op |-> "fail", code |-> c]
Panics == [op |-> "panic"]

Plain == [method |-> "POST", route |-> "open", echo |-> "cookie",
          token |-> Nobody, key |-> Nobody, body |-> "good", bind |-> "no", script |-> <<>>]
Good == [parts |-> TRUE, signed |-> TRUE, json |-> TRUE, iss |-> Issuer, exp |-> "future", roles |-> TRUE]

\* Visitors of the shop: log in, look at the admin page, fill the cart and fail;
\* with one store also log out and panic, with the other store something
\* json.Marshal rejects.
Visits == {
  [Plain EXCEPT !.method = "GET", !.script = <<Set("user"), Set("roles"), Write>>],
  [Plain EXCEPT !.route = "private", !.script = <<Del("roles"), Write, Set(cart)>>],
  [Plain EXCEPT !.script = <<Set(cart), Code(201), Fails(500)>>] }
Logout == [Plain EXCEPT !.method = "GET", !.script = <<Clear, Write, Panics>>]
Reject == [Plain EXCEPT !.method = "GET", !.script = <<Set(blob)>>]

\* Callers of the API: answered, or turned away before they reach a handler,
\* each by another middleware or check.
Caller == [Plain EXCEPT !.method = "GET", !.key = admin, !.token = Good]
Calls == {
  [Plain EXCEPT !.method = "OPTIONS"],
  [Caller EXCEPT !.route = "private", !.script = <<Panics>>],
  [Caller EXCEPT !.bind = "lenient", !.body = "unknown field", !.script = <<Code(204)>>],
  [Caller EXCEPT !.bind = "strict", !.body = "unknown field"],
  [Caller EXCEPT !.token = [Good EXCEPT !.iss = Nobody]],
  [Caller EXCEPT !.method = "POST", !.echo = "other"] }
Refused == {
  [Caller EXCEPT !.bind = "strict", !.body = "unknown field"],
  [Caller EXCEPT !.key = "wrong"],
  [Caller EXCEPT !.token = [Good EXCEPT !.roles = FALSE], !.route = "private"],
  [Caller EXCEPT !.token = [Good EXCEPT !.exp = "past"]],
  [Caller EXCEPT !.token = [Good EXCEPT !.iss = Nobody]],
  [Caller EXCEPT !.token = [Good EXCEPT !.signed = FALSE], !.echo = "none"] }

InMemory == [outer |-> <<>>, store |-> "memory", enabled |-> {"csrf", "session"}, issuer |-> Nobody]
InCookie == [outer |-> <<"errors">>, store |-> "cookie", enabled |-> {"session"}, issuer |-> Nobody]
Api      == [outer |-> <<"tracing", "logger", "errors">>,
             store |-> "cookie", enabled |-> {"cors", "headers", "csrf", "jwt", "apikey"}, issuer |-> Issuer]
\* Its logger is inside its only ErrorMiddleware, and it takes tokens of any issuer.
Inner    == [outer |-> <<"errors", "logger", "tracing">>, store |-> "cookie",
             enabled |-> {"jwt", "apikey"}, issuer |-> Nobody]
MCConfigs == {InMemory, InCookie, Api, Inner}
MCTraffic == (InMemory :> Visits \cup {Logout}) @@ (InCookie :> Visits \cup {Reject}) @@ (Api :> Calls) @@ (Inner :> Refused)
MCOpen == [c \in MCConfigs |-> IF c \in {Api, Inner} THEN 1 ELSE 2]
Symmetry == Permutations(Requests)
=============================================================================
