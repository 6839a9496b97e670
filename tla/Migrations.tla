----------------------------- MODULE Migrations -----------------------------
(***************************************************************************)
(* ApplyMigrations (src/data/migrations.go): several instances of a program *)
(* that share a database apply its .sql files in lexicographic order, each  *)
(* file and the record of its name in one transaction.                      *)
(*                                                                          *)
(* The database is external and modelled from how the code uses it: what a  *)
(* transaction changed is visible once it commits; a statement that creates *)
(* something, and the insert of a version (a primary key), fail when that   *)
(* is there and wait while another transaction has it uncommitted; a        *)
(* statement in Implicit ends the transaction it runs in and is permanent   *)
(* at once, and so is what follows it (DDL on MySQL and MariaDB).           *)
(***************************************************************************)
EXTENDS Integers, FiniteSets

CONSTANTS
  Instances,     \* processes that run ApplyMigrations
  Versions,      \* the .sql files, numbered in lexicographic order
  Files,         \* the files each instance has in its migrations directory
  NoDirectory,   \* instances that have no such directory
  Statements,    \* the number of statements of each file
  Creates,       \* statements that fail when their effect is there already
  Implicit,      \* statements that commit implicitly
  MaxCalls,      \* bound: number of calls of ApplyMigrations
  MaxFaults      \* bound: number of failures of the database or of a process

\* <<v, k>> is the k-th statement of file v, <<v, 0>> the insert of its name.
Item == UNION {{v} \X (0..Statements[v]) : v \in Versions}
Record(v) == <<v, 0>>

ASSUME MigrationsAssumption ==
  /\ Versions \subseteq Nat
  /\ Files \in [Instances -> SUBSET Versions]
  /\ NoDirectory \subseteq Instances
  /\ Statements \in [Versions -> Nat]
  /\ Creates \subseteq Item /\ Implicit \subseteq Item
  /\ \A v \in Versions : Record(v) \notin Implicit
  /\ MaxCalls \in Nat
  /\ MaxFaults \in Nat

VARIABLES
  table,    \* the migrations table exists
  times,    \* how often each item has taken effect for good
  pc,       \* where each instance is in ApplyMigrations
  todo,     \* the files it has still to look at
  version,  \* the file it applies
  step,     \* the next statement of that file
  tx,       \* the uncommitted items of its transaction
  ended,    \* an implicit commit has ended that transaction
  outcome,  \* what its last call returned
  calls, faults

database == <<table, times>>
locals   == <<pc, todo, version, step, tx, ended, outcome>>
vars     == <<database, locals, calls, faults>>

Recorded(v)  == times[Record(v)] > 0
Exclusive(i) == i \in Creates \/ i[2] = 0
Plus(S)      == [i \in Item |-> IF i \in S THEN times[i] + 1 ELSE times[i]]

Init ==
  /\ table = FALSE
  /\ times = [i \in Item |-> 0]
  /\ pc = [p \in Instances |-> "idle"]
  /\ todo = [p \in Instances |-> {}]
  /\ version = [p \in Instances |-> 0]
  /\ step = [p \in Instances |-> 1]
  /\ tx = [p \in Instances |-> {}]
  /\ ended = [p \in Instances |-> FALSE]
  /\ outcome = [p \in Instances |-> "none"]
  /\ calls = 0
  /\ faults = 0

Returns(p, o) ==
  /\ pc' = [pc EXCEPT ![p] = "idle"]
  /\ outcome' = [outcome EXCEPT ![p] = o]

\* ApplyMigrations lists the directory; without one it has nothing to do.
Call(p) ==
  /\ pc[p] = "idle" /\ calls < MaxCalls
  /\ calls' = calls + 1
  /\ IF p \in NoDirectory
       THEN Returns(p, "ok") /\ UNCHANGED todo
       ELSE /\ pc' = [pc EXCEPT ![p] = "table"]
            /\ todo' = [todo EXCEPT ![p] = Files[p]]
            /\ outcome' = [outcome EXCEPT ![p] = "none"]
  /\ UNCHANGED <<database, version, step, tx, ended, faults>>

\* CREATE TABLE IF NOT EXISTS.
EnsureTable(p) ==
  /\ pc[p] = "table"
  /\ table' = TRUE
  /\ pc' = [pc EXCEPT ![p] = "check"]
  /\ UNCHANGED <<times, todo, version, step, tx, ended, outcome, calls, faults>>

\* Broken variant: a recorded file stays on the list.
SkipForgets(p, v) == Recorded(v) /\ UNCHANGED <<pc, todo, version, step, ended>>

\* migrationApplied asks for the lowest file, outside any transaction; if it is
\* not recorded, applyMigration begins one.
Skip(p, v) ==
  /\ Recorded(v)
  /\ todo' = [todo EXCEPT ![p] = @ \ {v}]
  /\ UNCHANGED <<pc, version, step, ended>>

Begin(p, v) ==
  /\ ~Recorded(v)
  /\ pc' = [pc EXCEPT ![p] = "apply"]
  /\ version' = [version EXCEPT ![p] = v]
  /\ step' = [step EXCEPT ![p] = 1]
  /\ ended' = [ended EXCEPT ![p] = FALSE]
  /\ UNCHANGED todo

\* Broken variant: the files are taken in directory order, unsorted.
CheckUnsorted(p) ==
  /\ pc[p] = "check" /\ table
  /\ \E v \in todo[p] : Skip(p, v) \/ Begin(p, v)
  /\ UNCHANGED <<database, tx, outcome, calls, faults>>

Check(p) ==
  /\ pc[p] = "check" /\ table
  /\ \E v \in todo[p] : (\A w \in todo[p] : v <= w) /\ (Skip(p, v) \/ Begin(p, v))
  /\ UNCHANGED <<database, tx, outcome, calls, faults>>

AllDone(p) ==
  /\ pc[p] = "check" /\ todo[p] = {}
  /\ Returns(p, "ok")
  /\ UNCHANGED <<database, todo, version, step, tx, ended, calls, faults>>

\* Broken variant: the name is inserted before the statements run.
CurrentRecordFirst(p) ==
  IF step[p] = 1 THEN Record(version[p]) ELSE <<version[p], step[p] - 1>>

\* The item the transaction executes next: a statement, or at last the insert.
Current(p) ==
  IF step[p] <= Statements[version[p]] THEN <<version[p], step[p]>> ELSE Record(version[p])
Inserting(p) == step[p] > Statements[version[p]]

Locked(p) == Exclusive(Current(p)) /\ \E q \in Instances \ {p} : Current(p) \in tx[q]
Clashes(p) == Exclusive(Current(p)) /\ times[Current(p)] > 0

\* Broken variant: the name is inserted outside the transaction.
TakesRecordApart(p, i) ==
  \/ /\ i[2] # 0
     /\ tx' = [tx EXCEPT ![p] = @ \cup {i}]
     /\ UNCHANGED <<times, ended>>
  \/ /\ i[2] = 0
     /\ times' = Plus({i})
     /\ UNCHANGED <<tx, ended>>

Takes(p, i) ==
  \/ /\ i \in Implicit
     /\ times' = Plus(tx[p] \cup {i})
     /\ tx' = [tx EXCEPT ![p] = {}]
     /\ ended' = [ended EXCEPT ![p] = TRUE]
  \/ /\ i \notin Implicit /\ ended[p]
     /\ times' = Plus({i})
     /\ UNCHANGED <<tx, ended>>
  \/ /\ i \notin Implicit /\ ~ended[p]
     /\ tx' = [tx EXCEPT ![p] = @ \cup {i}]
     /\ UNCHANGED <<times, ended>>

Execute(p) ==
  /\ pc[p] = "apply" /\ ~Locked(p) /\ ~Clashes(p)
  /\ Takes(p, Current(p))
  /\ IF Inserting(p)
       THEN pc' = [pc EXCEPT ![p] = "commit"] /\ UNCHANGED step
       ELSE step' = [step EXCEPT ![p] = @ + 1] /\ UNCHANGED pc
  /\ UNCHANGED <<table, todo, version, outcome, calls, faults>>

Commit(p) ==
  /\ pc[p] = "commit"
  /\ times' = Plus(tx[p])
  /\ tx' = [tx EXCEPT ![p] = {}]
  /\ todo' = [todo EXCEPT ![p] = @ \ {version[p]}]
  /\ pc' = [pc EXCEPT ![p] = "check"]
  /\ UNCHANGED <<table, version, step, ended, outcome, calls, faults>>

\* Broken variants: the transaction is not rolled back; the error is lost.
AbortKeepsTx(p) ==
  /\ Returns(p, "error")
  /\ UNCHANGED <<database, todo, version, step, tx, ended, calls>>

AbortReturnsNil(p) ==
  /\ tx' = [tx EXCEPT ![p] = {}]
  /\ Returns(p, "ok")
  /\ UNCHANGED <<database, todo, version, step, ended, calls>>

\* An error ends the call and rolls the transaction back.
Abort(p) ==
  /\ tx' = [tx EXCEPT ![p] = {}]
  /\ Returns(p, "error")
  /\ UNCHANGED <<database, todo, version, step, ended, calls>>

ExecuteClashes(p) ==
  /\ pc[p] = "apply" /\ ~Locked(p) /\ Clashes(p)
  /\ Abort(p)
  /\ UNCHANGED faults

\* The database refuses a query, the context ends, or the process dies: to the
\* database all of these end the transaction.
Fault == faults < MaxFaults /\ faults' = faults + 1

Fails(p) ==
  /\ pc[p] # "idle"
  /\ Fault
  /\ Abort(p)

\* The connection is lost after the commit took effect, before the answer.
CommitUnanswered(p) ==
  /\ pc[p] = "commit"
  /\ Fault
  /\ times' = Plus(tx[p])
  /\ tx' = [tx EXCEPT ![p] = {}]
  /\ Returns(p, "error")
  /\ UNCHANGED <<table, todo, version, step, ended, calls>>

Step(p) ==
  \/ EnsureTable(p) \/ Check(p) \/ AllDone(p)
  \/ Execute(p) \/ ExecuteClashes(p) \/ Commit(p)

Next == \E p \in Instances : Call(p) \/ Step(p) \/ Fails(p) \/ CommitUnanswered(p)

\* The database answers every statement it can execute.
Fairness == \A p \in Instances : WF_vars(Step(p))

Spec == Init /\ [][Next]_vars
FairSpec == Spec /\ Fairness

-----------------------------------------------------------------------------
(* Properties.                                                             *)

\* Every variable keeps its type; an instance outside applyMigration holds
\* nothing uncommitted.
TypeOK ==
  /\ table \in BOOLEAN
  /\ times \in [Item -> Nat]
  /\ pc \in [Instances -> {"idle", "table", "check", "apply", "commit"}]
  /\ todo \in [Instances -> SUBSET Versions]
  /\ version \in [Instances -> Nat]
  /\ step \in [Instances -> Nat \ {0}]
  /\ tx \in [Instances -> SUBSET Item]
  /\ ended \in [Instances -> BOOLEAN]
  /\ outcome \in [Instances -> {"none", "ok", "error"}]
  /\ calls \in Nat /\ faults \in Nat
  /\ \A p \in Instances : pc[p] \in {"apply", "commit"} => version[p] \in todo[p]
  /\ \A p \in Instances : pc[p] \notin {"apply", "commit"} => tx[p] = {}

\* A file without an implicit commit takes effect once and wholly with its
\* record, or not at all: however many instances start at once, fail half way,
\* lose the answer to a commit and try again.
AllOrNothing ==
  \A v \in Versions : (\A k \in 1..Statements[v] : <<v, k>> \notin Implicit) =>
    \A k \in 0..Statements[v] : times[<<v, k>>] = times[Record(v)] /\ times[Record(v)] <= 1

\* A recorded file has taken effect, also one that commits implicitly.
RecordedIsComplete ==
  \A v \in Versions : Recorded(v) => \A k \in 1..Statements[v] : times[<<v, k>>] > 0

\* Nothing of a file takes effect before an instance that has it has seen all
\* its earlier files recorded, and no statement before the one above it.
InOrder ==
  \A v \in Versions : \A k \in 0..Statements[v] : times[<<v, k>>] > 0 =>
    /\ \E p \in Instances : v \in Files[p] /\ \A u \in Files[p] : u < v => Recorded(u)
    /\ \A j \in 1..(k - 1) : times[<<v, j>>] > 0

\* ApplyMigrations returns nil only when every file of the instance is recorded.
NilMeansApplied ==
  \A p \in Instances \ NoDirectory : outcome[p] = "ok" => \A v \in Files[p] : Recorded(v)

\* Every call returns, also one that waits for another instance's transaction.
CallsReturn == \A p \in Instances : (pc[p] # "idle") ~> (pc[p] = "idle")
=============================================================================
