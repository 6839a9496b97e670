------------------------------ MODULE Supervisor ------------------------------
(***************************************************************************)
(* What core.App promises of the hooks it runs, without the calls, locks   *)
(* and snapshots it keeps the promise with: the hooks of every Start are a *)
(* stack.  A Start that is open pushes one hook after the other; once it   *)
(* is closed - it returned, or one of its hooks failed - the stack only    *)
(* shrinks, from its top.                                                  *)
(***************************************************************************)
EXTENDS Integers

CONSTANT Hooks

VARIABLES
  opened,  \* number of Starts that began to run hooks
  open,    \* those of them that still start hooks
  running  \* the hooks that run, with the Start and the place of each

vars == <<opened, open, running>>

Init == opened = 0 /\ open = {} /\ running = {}

Open ==
  /\ opened' = opened + 1
  /\ open' = open \cup {opened + 1}
  /\ UNCHANGED running

Of(p) == {r \in running : r.pass = p}

Push(p) ==
  /\ p \in open
  /\ \E h \in Hooks, n \in {1} \cup {r.at + 1 : r \in Of(p)} :
       /\ {r.at : r \in Of(p)} = 1..(n - 1)
       /\ running' = running \cup {[hook |-> h, pass |-> p, at |-> n]}
  /\ UNCHANGED <<opened, open>>

Close(p) ==
  /\ p \in open
  /\ open' = open \ {p}
  /\ UNCHANGED <<opened, running>>

Pop(r) ==
  /\ r \in running /\ r.pass \notin open
  /\ \A q \in Of(r.pass) : q.at <= r.at
  /\ running' = running \ {r}
  /\ UNCHANGED <<opened, open>>

Next == Open \/ (\E p \in open : Push(p) \/ Close(p)) \/ (\E r \in running : Pop(r))

Spec == Init /\ [][Next]_vars
=============================================================================
