-------------------------- MODULE Migrations_proofs --------------------------
(* Theorems about Migrations.                                                 *)
EXTENDS Migrations, TLAPS

-----------------------------------------------------------------------------
(* The inductive invariant.                                                *)

Applying(p) == pc[p] \in {"apply", "commit"}
Before(p)   == {<<version[p], k>> : k \in 1..(step[p] - 1)}
Whole(v)    == {<<v, k>> : k \in 0..Statements[v]}
Pure(v)     == \A k \in 1..Statements[v] : <<v, k>> \notin Implicit

\* What an instance has dealt with is recorded, and so is what comes before the
\* file it applies.
ProgressOf(p) ==
  /\ todo[p] \subseteq Files[p]
  /\ pc[p] # "idle" => \A v \in Files[p] \ todo[p] : Recorded(v)
  /\ Applying(p) => \A u \in Files[p] : u < version[p] => Recorded(u)

\* A transaction holds what the instance has executed of its file, and nothing
\* else; if an implicit commit ended it, all of that has taken effect.
ContentOf(p) ==
  /\ pc[p] = "apply" => step[p] <= Statements[version[p]] + 1
  /\ pc[p] = "apply" /\ ~ended[p] => tx[p] = Before(p)
  /\ pc[p] = "commit" /\ ~ended[p] =>
       tx[p] = Whole(version[p]) /\ times[Record(version[p])] = 0
  /\ Applying(p) /\ ended[p] => tx[p] = {} /\ ~Pure(version[p])
  /\ pc[p] = "apply" /\ ended[p] =>
       \A k \in 1..(step[p] - 1) : times[<<version[p], k>>] > 0
  /\ pc[p] = "commit" /\ ended[p] => \A i \in Whole(version[p]) : times[i] > 0

\* At most one transaction holds the record of a file.
OneRecorder ==
  \A p, q \in Instances : \A v \in Versions :
    Record(v) \in tx[p] /\ Record(v) \in tx[q] => p = q

Progress == \A p \in Instances : ProgressOf(p)
Content  == \A p \in Instances : ContentOf(p)

IInv == Progress /\ Content /\ OneRecorder
          /\ AllOrNothing /\ RecordedIsComplete /\ InOrder /\ NilMeansApplied

-----------------------------------------------------------------------------
(* Lemmas on items and on what a commit does.                              *)

\* An item is a file with a place in it.
LEMMA ItemForm ==
  \A v, k : <<v, k>> \in Item <=> v \in Versions /\ k \in 0..Statements[v]
BY DEF Item

\* Every item is a pair.
LEMMA ItemPair == \A i \in Item : i = <<i[1], i[2]>> /\ i[1] \in Versions /\ i[2] \in 0..Statements[i[1]]
BY DEF Item

\* Plus adds one to the items of a set.
LEMMA PlusAdds ==
  ASSUME times \in [Item -> Nat], NEW S
  PROVE  /\ Plus(S) \in [Item -> Nat]
         /\ \A i \in Item : /\ i \in S => Plus(S)[i] = times[i] + 1
                            /\ i \notin S => Plus(S)[i] = times[i]
BY DEF Plus

\* The file an instance applies is one of the files, and what it executes an item.
LEMMA CurrentIsItem ==
  ASSUME TypeOK, NEW p \in Instances, pc[p] = "apply"
  PROVE  /\ version[p] \in Versions
         /\ Record(version[p]) \in Item
         /\ Current(p) \in Item
<1>1. version[p] \in Versions /\ step[p] \in Nat \ {0}
  BY DEF TypeOK
<1>2. Statements[version[p]] \in Nat
  BY <1>1, MigrationsAssumption
<1>3. Record(version[p]) \in Item
  BY <1>1, <1>2, ItemForm DEF Record
<1>4. CASE step[p] <= Statements[version[p]]
  <2>1. step[p] \in 0..Statements[version[p]]
    BY <1>1, <1>2, <1>4
  <2>2. <<version[p], step[p]>> \in Item
    BY <2>1, <1>1, ItemForm
  <2> QED BY <2>2, <1>1, <1>3, <1>4 DEF Current
<1>5. CASE ~(step[p] <= Statements[version[p]])
  BY <1>1, <1>3, <1>5 DEF Current
<1> QED BY <1>4, <1>5

-----------------------------------------------------------------------------
(* Type correctness.                                                       *)

\* Every reachable state is well typed, and only an instance that applies a
\* file holds something uncommitted.
THEOREM TypeCorrect == Spec => []TypeOK
<1>1. Init => TypeOK
  <2> SUFFICES ASSUME Init PROVE TypeOK
    OBVIOUS
  <2> USE DEF Init
  <2>1. \A p \in Instances : pc[p] \notin {"apply", "commit"} /\ tx[p] = {}
    OBVIOUS
  <2>2. /\ times \in [Item -> Nat] /\ todo \in [Instances -> SUBSET Versions]
        /\ tx \in [Instances -> SUBSET Item]
    OBVIOUS
  <2>3. /\ version \in [Instances -> Nat] /\ step \in [Instances -> Nat \ {0}]
        /\ ended \in [Instances -> BOOLEAN]
    OBVIOUS
  <2>4. /\ pc \in [Instances -> {"idle", "table", "check", "apply", "commit"}]
        /\ outcome \in [Instances -> {"none", "ok", "error"}]
    OBVIOUS
  <2> QED BY <2>1, <2>2, <2>3, <2>4 DEF TypeOK
<1>2. TypeOK /\ [Next]_vars => TypeOK'
  <2> SUFFICES ASSUME TypeOK, [Next]_vars PROVE TypeOK'
    OBVIOUS
  <2> USE DEF TypeOK
  <2>1. ASSUME NEW p \in Instances, Call(p) PROVE TypeOK'
    <3>1. Files[p] \subseteq Versions
      BY MigrationsAssumption
    <3> QED BY <2>1, <3>1 DEF Call, Returns, database
  <2>2. ASSUME NEW p \in Instances, EnsureTable(p) PROVE TypeOK'
    BY <2>2 DEF EnsureTable
  <2>3. ASSUME NEW p \in Instances, Check(p) PROVE TypeOK'
    <3>1. PICK v \in todo[p] : Skip(p, v) \/ Begin(p, v)
      BY <2>3 DEF Check
    <3>2. v \in Nat
      BY MigrationsAssumption
    <3>3. pc[p] = "check" /\ UNCHANGED <<database, tx, outcome, calls, faults>>
      BY <2>3 DEF Check
    <3>4. CASE Skip(p, v)
      BY <3>3, <3>4 DEF Skip, database
    <3>5. CASE Begin(p, v)
      <4>1. /\ pc' = [pc EXCEPT ![p] = "apply"] /\ version' = [version EXCEPT ![p] = v]
            /\ step' = [step EXCEPT ![p] = 1] /\ ended' = [ended EXCEPT ![p] = FALSE]
            /\ UNCHANGED <<todo, table, times, tx, outcome, calls, faults>>
        BY <3>3, <3>5 DEF Begin, database
      <4>2. \A q \in Instances : pc'[q] \in {"apply", "commit"} => version'[q] \in todo'[q]
        BY <4>1, <3>1
      <4>3. \A q \in Instances : pc'[q] \notin {"apply", "commit"} => tx'[q] = {}
        BY <4>1
      <4> QED BY <4>1, <4>2, <4>3, <3>2
    <3> QED BY <3>1, <3>4, <3>5
  <2>4. ASSUME NEW p \in Instances, AllDone(p) PROVE TypeOK'
    BY <2>4 DEF AllDone, Returns, database
  <2>5. ASSUME NEW p \in Instances, Execute(p) PROVE TypeOK'
    <3>1. pc[p] = "apply" /\ Current(p) \in Item
      BY <2>5, CurrentIsItem DEF Execute
    <3>2. Takes(p, Current(p))
      BY <2>5 DEF Execute
    <3>3. /\ times' \in [Item -> Nat] /\ tx' \in [Instances -> SUBSET Item]
          /\ ended' \in [Instances -> BOOLEAN]
          /\ \A q \in Instances \ {p} : tx'[q] = tx[q]
      <4> DEFINE i == Current(p)
      <4>0. times \in [Item -> Nat] /\ tx \in [Instances -> SUBSET Item]
              /\ ended \in [Instances -> BOOLEAN] /\ i \in Item
        BY <3>1
      <4> HIDE DEF i, TypeOK
      <4>1. CASE /\ times' = Plus(tx[p] \cup {i}) /\ tx' = [tx EXCEPT ![p] = {}]
                 /\ ended' = [ended EXCEPT ![p] = TRUE]
        BY ONLY <4>0, <4>1, PlusAdds
      <4>2. CASE times' = Plus({i}) /\ UNCHANGED <<tx, ended>>
        BY ONLY <4>0, <4>2, PlusAdds
      <4>3. CASE tx' = [tx EXCEPT ![p] = @ \cup {i}] /\ UNCHANGED <<times, ended>>
        BY ONLY <4>0, <4>3
      <4> QED BY ONLY <3>2, <4>1, <4>2, <4>3 DEF Takes, i
    <3>4. /\ pc' \in [Instances -> {"idle", "table", "check", "apply", "commit"}]
          /\ step' \in [Instances -> Nat \ {0}]
          /\ \A q \in Instances \ {p} : pc'[q] = pc[q]
          /\ pc'[p] \in {"apply", "commit"}
          /\ UNCHANGED <<table, todo, version, outcome, calls, faults>>
      BY <2>5, <3>1 DEF Execute
    <3> QED BY <3>1, <3>3, <3>4
  <2>6. ASSUME NEW p \in Instances, ExecuteClashes(p) PROVE TypeOK'
    BY <2>6 DEF ExecuteClashes, Abort, Returns, database
  <2>7. ASSUME NEW p \in Instances, Commit(p) PROVE TypeOK'
    BY <2>7, PlusAdds DEF Commit
  <2>8. ASSUME NEW p \in Instances, Fails(p) PROVE TypeOK'
    BY <2>8 DEF Fails, Fault, Abort, Returns, database
  <2>9. ASSUME NEW p \in Instances, CommitUnanswered(p) PROVE TypeOK'
    BY <2>9, PlusAdds DEF CommitUnanswered, Fault, Returns
  <2>10. CASE UNCHANGED vars
    BY <2>10 DEF vars, database, locals
  <2> QED BY <2>1, <2>2, <2>3, <2>4, <2>5, <2>6, <2>7, <2>8, <2>9, <2>10 DEF Next, Step
<1> QED BY <1>1, <1>2, PTL DEF Spec

-----------------------------------------------------------------------------
(* What a step does to the database.                                       *)

\* times only grows, so what is recorded stays recorded.
Grows == times' \in [Item -> Nat] /\ \A i \in Item : times'[i] >= times[i]

LEMMA RecordedStays ==
  ASSUME times \in [Item -> Nat], Grows, NEW v \in Versions, Recorded(v)
  PROVE  Recorded(v)'
<1>1. Statements[v] \in Nat
  BY MigrationsAssumption
<1>2. Record(v) \in Item
  BY <1>1, ItemForm DEF Record
<1> QED BY <1>2 DEF Recorded, Grows

\* An instance that does not move keeps its part of the invariant while times
\* grows, if nobody records the file it is about to commit.
LEMMA OthersKeep ==
  ASSUME TypeOK, Grows, NEW q \in Instances, ProgressOf(q), ContentOf(q),
         pc'[q] = pc[q], todo'[q] = todo[q], version'[q] = version[q],
         step'[q] = step[q], tx'[q] = tx[q], ended'[q] = ended[q],
         pc[q] = "commit" /\ ~ended[q] =>
           times'[Record(version[q])] = times[Record(version[q])]
  PROVE  ProgressOf(q)' /\ ContentOf(q)'
<1>1. times \in [Item -> Nat] /\ Files[q] \subseteq Versions
  BY MigrationsAssumption DEF TypeOK
<1>2. ProgressOf(q)'
  BY <1>1, RecordedStays DEF ProgressOf, Applying
<1>3. Applying(q) => version[q] \in Versions /\ Statements[version[q]] \in Nat
  BY MigrationsAssumption DEF TypeOK, Applying
<1>4. pc[q] = "apply" => step[q] \in Nat \ {0}
  BY DEF TypeOK
<1>5. ASSUME pc[q] = "apply", ended[q], NEW k \in 1..(step[q] - 1)
      PROVE  times'[<<version[q], k>>] > 0
  <2>1. k \in 0..Statements[version[q]]
    BY <1>3, <1>4, <1>5 DEF ContentOf, Applying
  <2>2. <<version[q], k>> \in Item
    BY <2>1, <1>3, <1>5, ItemForm DEF Applying
  <2>3. times[<<version[q], k>>] > 0
    BY <1>5 DEF ContentOf
  <2> QED BY <2>2, <2>3, <1>1 DEF Grows
<1>6. ASSUME pc[q] = "commit", ended[q], NEW i \in Whole(version[q])
      PROVE  times'[i] > 0
  <2>1. i \in Item
    BY <1>3, <1>6, ItemForm DEF Whole, Applying
  <2>2. times[i] > 0
    BY <1>6 DEF ContentOf
  <2> QED BY <2>1, <2>2, <1>1 DEF Grows
<1>7. ContentOf(q)'
  BY <1>5, <1>6 DEF ContentOf, Applying, Before, Whole, Pure, Record
<1> QED BY <1>2, <1>7

\* A set S of items of file v takes effect: nothing of a file without implicit
\* commits but all of it at once and for the first time, the record only with all
\* statements, a statement only with those above it, and anything only with the
\* earlier files recorded.
LEMMA TakesEffect ==
  ASSUME times \in [Item -> Nat], AllOrNothing, RecordedIsComplete, InOrder,
         NEW v \in Versions, NEW S, S \subseteq Whole(v), times' = Plus(S),
         Pure(v) => S = {} \/ (S = Whole(v) /\ times[Record(v)] = 0),
         Record(v) \in S => \A i \in Whole(v) : i \in S \/ times[i] > 0,
         \A k \in 0..Statements[v] : <<v, k>> \in S =>
           \A j \in 1..(k - 1) : <<v, j>> \in S \/ times[<<v, j>>] > 0,
         S # {} => \E p \in Instances : v \in Files[p] /\ \A u \in Files[p] : u < v => Recorded(u)
  PROVE  Grows /\ AllOrNothing' /\ RecordedIsComplete' /\ InOrder'
<1>1. /\ times' \in [Item -> Nat]
      /\ \A i \in Item : /\ i \in S => times'[i] = times[i] + 1
                         /\ i \notin S => times'[i] = times[i]
  BY PlusAdds
<1>2. Grows
  <2> SUFFICES ASSUME NEW i \in Item PROVE times'[i] >= times[i]
    BY <1>1 DEF Grows
  <2>1. times[i] \in Nat
    OBVIOUS
  <2> QED BY <2>1, <1>1
<1>3. \A w \in Versions : Statements[w] \in Nat
  BY MigrationsAssumption
<1>4. \A w \in Versions : \A k \in 0..Statements[w] :
        <<w, k>> \in Item /\ (<<w, k>> \in S => w = v)
  BY <1>3, ItemForm DEF Whole
<1>5. \A w \in Versions : Record(w) \in Item /\ 0 \in 0..Statements[w] /\ (Record(w) \in S => w = v)
  BY <1>3, <1>4 DEF Record
<1>6. AllOrNothing'
  <2> SUFFICES ASSUME NEW w \in Versions, Pure(w), NEW k \in 0..Statements[w]
               PROVE  times'[<<w, k>>] = times'[Record(w)] /\ times'[Record(w)] <= 1
    BY DEF AllOrNothing, Pure, Record
  <2>1. times[<<w, k>>] = times[Record(w)] /\ times[Record(w)] <= 1
    BY DEF AllOrNothing, Pure
  <2>2. CASE <<w, k>> \notin S /\ Record(w) \notin S
    BY <2>1, <2>2, <1>1, <1>4, <1>5
  <2>3. CASE <<w, k>> \in S \/ Record(w) \in S
    <3>1. w = v /\ S = Whole(v) /\ times[Record(v)] = 0
      BY <2>3, <1>4, <1>5
    <3>2. <<w, k>> \in S /\ Record(w) \in S
      BY <3>1, <1>5 DEF Whole, Record
    <3> QED BY <2>1, <3>1, <3>2, <1>1, <1>4, <1>5
  <2> QED BY <2>2, <2>3
<1>7. RecordedIsComplete'
  <2> SUFFICES ASSUME NEW w \in Versions, times'[Record(w)] > 0, NEW k \in 1..Statements[w]
               PROVE  times'[<<w, k>>] > 0
    BY DEF RecordedIsComplete, Recorded, Record
  <2>1. k \in 0..Statements[w] /\ <<w, k>> \in Item
    BY <1>3, <1>4
  <2>2. CASE Record(w) \in S
    <3>1. w = v /\ <<w, k>> \in Whole(v)
      BY <2>1, <2>2, <1>5 DEF Whole
    <3>2. <<w, k>> \in S \/ times[<<w, k>>] > 0
      BY <3>1, <2>2
    <3> QED BY <3>2, <2>1, <1>1
  <2>3. CASE Record(w) \notin S
    <3>1. times[Record(w)] > 0
      BY <2>3, <1>1, <1>5
    <3>2. times[<<w, k>>] > 0
      BY <3>1 DEF RecordedIsComplete, Recorded
    <3> QED BY <3>2, <2>1, <1>2 DEF Grows
  <2> QED BY <2>2, <2>3
<1>8. InOrder'
  <2>1. \A p \in Instances : \A u \in Files[p] : Recorded(u) => Recorded(u)'
    BY <1>2, RecordedStays, MigrationsAssumption
  <2> SUFFICES ASSUME NEW w \in Versions, NEW k \in 0..Statements[w], times'[<<w, k>>] > 0
               PROVE  /\ \E p \in Instances : w \in Files[p] /\ \A u \in Files[p] : u < w => Recorded(u)'
                      /\ \A j \in 1..(k - 1) : times'[<<w, j>>] > 0
    BY DEF InOrder
  <2>2. /\ \E p \in Instances : w \in Files[p] /\ \A u \in Files[p] : u < w => Recorded(u)
        /\ \A j \in 1..(k - 1) : <<w, j>> \in S \/ times[<<w, j>>] > 0
    <3>1. CASE <<w, k>> \in S
      <4>1. w = v
        BY <3>1, <1>4
      <4> QED BY <3>1, <4>1
    <3>2. CASE <<w, k>> \notin S
      <4>1. times[<<w, k>>] > 0
        BY <3>2, <1>1, <1>4
      <4> QED BY <4>1 DEF InOrder
    <3> QED BY <3>1, <3>2
  <2>3. ASSUME NEW j \in 1..(k - 1) PROVE times'[<<w, j>>] > 0
    <3>1. j \in 0..Statements[w]
      BY <1>3
    <3>2. <<w, j>> \in Item /\ times[<<w, j>>] \in Nat
      BY <3>1, <1>4
    <3> QED BY <2>2, <3>2, <1>1
  <2> QED BY <2>1, <2>2, <2>3
<1> QED BY <1>2, <1>6, <1>7, <1>8

\* A step that does not touch the database.
LEMMA DatabaseStays ==
  ASSUME TypeOK, AllOrNothing, RecordedIsComplete, InOrder, UNCHANGED times
  PROVE  Grows /\ AllOrNothing' /\ RecordedIsComplete' /\ InOrder'
<1>1. Grows
  <2>1. times \in [Item -> Nat]
    BY DEF TypeOK
  <2>2. \A i \in Item : times[i] \in Nat
    BY <2>1
  <2> QED BY <2>1, <2>2 DEF Grows
<1> QED BY <1>1 DEF AllOrNothing, RecordedIsComplete, InOrder, Recorded

\* The locals of every instance but p stay, and no file q is about to record is
\* recorded by somebody else.
OnlyMoves(p) ==
  \A q \in Instances \ {p} :
    /\ pc'[q] = pc[q] /\ todo'[q] = todo[q] /\ version'[q] = version[q]
    /\ step'[q] = step[q] /\ tx'[q] = tx[q] /\ ended'[q] = ended[q]
    /\ outcome'[q] = outcome[q]
    /\ pc[q] = "commit" /\ ~ended[q] =>
         times'[Record(version[q])] = times[Record(version[q])]

\* A step of p keeps the invariant if it keeps p's part, and what it says of the
\* database.
LEMMA StepKeeps ==
  ASSUME TypeOK, IInv, NEW p \in Instances, OnlyMoves(p), Grows,
         AllOrNothing', RecordedIsComplete', InOrder',
         ProgressOf(p)', ContentOf(p)',
         \A q \in Instances \ {p} : \A v \in Versions :
           Record(v) \in tx'[p] => Record(v) \notin tx[q],
         outcome'[p] = "ok" => p \in NoDirectory \/ \A v \in Files[p] : Recorded(v)
  PROVE  IInv'
<1>1. Progress' /\ Content'
  <2> SUFFICES ASSUME NEW q \in Instances PROVE ProgressOf(q)' /\ ContentOf(q)'
    BY DEF Progress, Content
  <2>1. CASE q = p
    BY <2>1
  <2>2. CASE q # p
    BY <2>2, OthersKeep DEF OnlyMoves, IInv, Progress, Content
  <2> QED BY <2>1, <2>2
<1>2. OneRecorder'
  <2> SUFFICES ASSUME NEW q \in Instances, NEW r \in Instances, NEW v \in Versions,
                      Record(v) \in tx'[q], Record(v) \in tx'[r], q # r
               PROVE  FALSE
    BY DEF OneRecorder, Record
  <2>1. CASE q = p
    BY <2>1 DEF OnlyMoves
  <2>2. CASE r = p
    BY <2>2 DEF OnlyMoves
  <2>3. CASE q # p /\ r # p
    BY <2>3 DEF OnlyMoves, IInv, OneRecorder
  <2> QED BY <2>1, <2>2, <2>3
<1>3. NilMeansApplied'
  <2> SUFFICES ASSUME NEW q \in Instances \ NoDirectory, outcome'[q] = "ok", NEW v \in Files[q]
               PROVE  Recorded(v)'
    BY DEF NilMeansApplied
  <2>1. Recorded(v)
    BY DEF OnlyMoves, IInv, NilMeansApplied
  <2>2. v \in Versions /\ times \in [Item -> Nat]
    BY MigrationsAssumption DEF TypeOK
  <2> QED BY <2>1, <2>2, RecordedStays
<1> QED BY <1>1, <1>2, <1>3 DEF IInv

-----------------------------------------------------------------------------
(* Every action keeps the invariant.                                       *)

\* Call, EnsureTable, AllDone and errors: no transaction is open afterwards.
LEMMA QuietKeeps ==
  ASSUME TypeOK, IInv, NEW p \in Instances, UNCHANGED times, OnlyMoves(p),
         pc'[p] \in {"idle", "table", "check"}, tx'[p] = {},
         todo'[p] \subseteq Files[p],
         pc'[p] # "idle" => \A v \in Files[p] \ todo'[p] : Recorded(v),
         outcome'[p] = "ok" => p \in NoDirectory \/ \A v \in Files[p] : Recorded(v)
  PROVE  IInv'
<1>1. Grows /\ AllOrNothing' /\ RecordedIsComplete' /\ InOrder'
  BY DatabaseStays DEF IInv
<1>2. ProgressOf(p)'
  BY DEF ProgressOf, Applying, Recorded
<1>3. ContentOf(p)'
  BY DEF ContentOf, Applying
<1>4. \A q \in Instances \ {p} : \A v \in Versions :
        Record(v) \in tx'[p] => Record(v) \notin tx[q]
  OBVIOUS
<1> QED BY <1>1, <1>2, <1>3, <1>4, StepKeeps

LEMMA CallKeeps ==
  ASSUME TypeOK, IInv, NEW p \in Instances, Call(p) \/ EnsureTable(p) \/ AllDone(p)
  PROVE  IInv'
<1>1. ProgressOf(p) /\ (pc[p] \in {"idle", "table", "check"} => tx[p] = {})
  BY DEF IInv, Progress, TypeOK
<1>2. /\ pc \in [Instances -> {"idle", "table", "check", "apply", "commit"}]
      /\ todo \in [Instances -> SUBSET Versions]
      /\ outcome \in [Instances -> {"none", "ok", "error"}]
  BY DEF TypeOK
<1>3. CASE Call(p)
  BY <1>1, <1>2, <1>3, QuietKeeps DEF Call, Returns, OnlyMoves, ProgressOf, database
<1>4. CASE EnsureTable(p)
  <2>1. outcome[p] = "ok" => p \in NoDirectory \/ \A v \in Files[p] : Recorded(v)
    BY DEF IInv, NilMeansApplied
  <2> QED BY <2>1, <1>1, <1>2, <1>4, QuietKeeps DEF EnsureTable, OnlyMoves, ProgressOf
<1>5. CASE AllDone(p)
  BY <1>1, <1>2, <1>5, QuietKeeps DEF AllDone, Returns, OnlyMoves, ProgressOf, database
<1> QED BY <1>3, <1>4, <1>5

\* An error: what the transaction held is gone.
LEMMA AbortKeeps ==
  ASSUME TypeOK, IInv, NEW p \in Instances, Abort(p)
  PROVE  IInv'
<1>1. ProgressOf(p)
  BY DEF IInv, Progress
<1>2. /\ pc \in [Instances -> {"idle", "table", "check", "apply", "commit"}]
      /\ tx \in [Instances -> SUBSET Item]
      /\ outcome \in [Instances -> {"none", "ok", "error"}]
  BY DEF TypeOK
<1> QED BY <1>1, <1>2, QuietKeeps DEF Abort, Returns, OnlyMoves, ProgressOf, database

\* The next file is skipped, or its transaction begins.
LEMMA CheckKeeps ==
  ASSUME TypeOK, IInv, NEW p \in Instances, Check(p)
  PROVE  IInv'
<1>1. PICK v \in todo[p] : (\A w \in todo[p] : v <= w) /\ (Skip(p, v) \/ Begin(p, v))
  BY DEF Check
<1>2. pc[p] = "check" /\ UNCHANGED <<database, tx, outcome, calls, faults>>
  BY DEF Check
<1>3. ProgressOf(p) /\ tx[p] = {} /\ Files[p] \subseteq Nat
  BY <1>2, MigrationsAssumption DEF IInv, Progress, TypeOK
<1>4. /\ pc \in [Instances -> {"idle", "table", "check", "apply", "commit"}]
      /\ todo \in [Instances -> SUBSET Versions]
      /\ version \in [Instances -> Nat] /\ step \in [Instances -> Nat \ {0}]
      /\ ended \in [Instances -> BOOLEAN]
  BY DEF TypeOK
<1>5. outcome[p] = "ok" => p \in NoDirectory \/ \A u \in Files[p] : Recorded(u)
  BY DEF IInv, NilMeansApplied
<1>6. CASE Skip(p, v)
  <2>1. OnlyMoves(p)
    BY <1>2, <1>4, <1>6 DEF Skip, OnlyMoves, database
  <2>2. \A u \in Files[p] \ todo'[p] : Recorded(u)
    BY <1>2, <1>3, <1>4, <1>6 DEF Skip, ProgressOf
  <2>3. todo'[p] \subseteq Files[p]
    BY <1>3, <1>4, <1>6 DEF Skip, ProgressOf
  <2> QED BY <2>1, <2>2, <2>3, <1>2, <1>3, <1>5, <1>6, QuietKeeps DEF Skip, database
<1>7. CASE Begin(p, v)
  <2>1. /\ pc'[p] = "apply" /\ version'[p] = v /\ step'[p] = 1 /\ ~ended'[p]
        /\ todo' = todo /\ UNCHANGED <<times, tx, outcome>>
    BY <1>2, <1>4, <1>7 DEF Begin, database
  <2>2. OnlyMoves(p)
    BY <1>2, <1>4, <1>7 DEF Begin, OnlyMoves, database
  <2>3. Grows /\ AllOrNothing' /\ RecordedIsComplete' /\ InOrder'
    BY <2>1, DatabaseStays DEF IInv
  <2>4. \A u \in Files[p] : u < v => Recorded(u)
    <3> SUFFICES ASSUME NEW u \in Files[p], u < v, u \in todo[p] PROVE FALSE
      BY <1>2, <1>3 DEF ProgressOf
    <3>1. v <= u /\ u \in Nat /\ v \in Nat
      BY <1>1, <1>3 DEF ProgressOf
    <3> QED BY <3>1
  <2>5. ProgressOf(p)'
    BY <2>1, <2>4, <1>2, <1>3 DEF ProgressOf, Applying, Recorded
  <2>6. v \in Versions /\ Statements[v] \in Nat
    BY <1>4, MigrationsAssumption
  <2>7. ContentOf(p)'
    BY <2>1, <2>6, <1>3 DEF ContentOf, Applying, Before
  <2> QED BY <2>1, <2>2, <2>3, <2>5, <2>7, <1>3, <1>5, StepKeeps
<1> QED BY <1>1, <1>6, <1>7

\* A commit: the whole file takes effect, or, if an implicit commit ended the
\* transaction, all of it has.
LEMMA CommitTakesEffect ==
  ASSUME TypeOK, IInv, NEW p \in Instances, pc[p] = "commit", times' = Plus(tx[p])
  PROVE  /\ Grows /\ AllOrNothing' /\ RecordedIsComplete' /\ InOrder'
         /\ version[p] \in Versions /\ times'[Record(version[p])] > 0
         /\ \A q \in Instances \ {p} : pc[q] = "commit" /\ ~ended[q] =>
              times'[Record(version[q])] = times[Record(version[q])]
<1> DEFINE v == version[p]
<1>1. /\ v \in todo[p] /\ v \in Versions /\ Statements[v] \in Nat
      /\ times \in [Item -> Nat] /\ tx \in [Instances -> SUBSET Item]
  BY MigrationsAssumption DEF TypeOK
<1>2. ProgressOf(p) /\ ContentOf(p)
  BY DEF IInv, Progress, Content
<1>3. v \in Files[p] /\ \A u \in Files[p] : u < v => Recorded(u)
  BY <1>1, <1>2 DEF ProgressOf, Applying
<1>4. \/ tx[p] = {} /\ ~Pure(v)
      \/ tx[p] = Whole(v) /\ times[Record(v)] = 0
  <2>1. CASE ended[p]
    <3>1. Applying(p) /\ ended[p]
      BY <2>1 DEF Applying
    <3>2. tx[p] = {} /\ ~Pure(version[p])
      BY <3>1, <1>2, Zenon DEF ContentOf
    <3> QED BY <3>2
  <2>2. CASE ~ended[p]
    BY <2>2, <1>2 DEF ContentOf, Applying
  <2> QED BY <2>1, <2>2
<1>5. Record(v) \in Item /\ Record(v) \in Whole(v)
  <2>1. 0 \in 0..Statements[v]
    BY <1>1
  <2> QED BY <2>1, <1>1, ItemForm DEF Record, Whole
<1>6. \A k \in 0..Statements[v] : <<v, k>> \in tx[p] => \A j \in 1..(k - 1) : <<v, j>> \in tx[p]
  <2> SUFFICES ASSUME NEW k \in 0..Statements[v], <<v, k>> \in tx[p], NEW j \in 1..(k - 1)
               PROVE  <<v, j>> \in tx[p]
    OBVIOUS
  <2>1. j \in 0..Statements[v]
    BY <1>1
  <2> QED BY <2>1, <1>4 DEF Whole
<1>7. Grows /\ AllOrNothing' /\ RecordedIsComplete' /\ InOrder'
  <2>1. /\ tx[p] \subseteq Whole(v)
        /\ Pure(v) => tx[p] = Whole(v) /\ times[Record(v)] = 0
        /\ Record(v) \in tx[p] => \A i \in Whole(v) : i \in tx[p]
    BY <1>4
  <2> HIDE DEF v
  <2> QED BY <2>1, <1>1, <1>3, <1>6, TakesEffect DEF IInv
<1>8. times'[Record(v)] > 0
  <2>1. CASE Record(v) \in tx[p]
    <3>1. times'[Record(v)] = times[Record(v)] + 1 /\ times[Record(v)] \in Nat
      BY <2>1, <1>1, <1>5, PlusAdds
    <3> QED BY <3>1
  <2>2. CASE Record(v) \notin tx[p]
    <3>1. ended[p]
      BY <2>2, <1>2, <1>5 DEF ContentOf
    <3>2. times[Record(v)] > 0
      BY <3>1, <1>2, <1>5 DEF ContentOf
    <3>3. times'[Record(v)] = times[Record(v)]
      BY <2>2, <1>1, <1>5, PlusAdds
    <3> QED BY <3>2, <3>3
  <2> QED BY <2>1, <2>2
<1>9. ASSUME NEW q \in Instances \ {p}, pc[q] = "commit", ~ended[q]
      PROVE  times'[Record(version[q])] = times[Record(version[q])]
  <2>0. ContentOf(q)
    BY DEF IInv, Content
  <2>1. tx[q] = Whole(version[q]) /\ version[q] \in Versions
    BY <2>0, <1>9 DEF ContentOf, TypeOK
  <2>2. Statements[version[q]] \in Nat
    BY <2>1, MigrationsAssumption
  <2>3. Record(version[q]) \in tx[q] /\ Record(version[q]) \in Item
    <3>1. 0 \in 0..Statements[version[q]]
      BY <2>2
    <3> QED BY <3>1, <2>1, ItemForm DEF Whole, Record
  <2>4. Record(version[q]) \notin tx[p]
    BY <2>1, <2>3 DEF IInv, OneRecorder
  <2> QED BY <2>3, <2>4, <1>1, PlusAdds
<1> QED BY <1>1, <1>7, <1>8, <1>9

LEMMA CommitKeeps ==
  ASSUME TypeOK, IInv, NEW p \in Instances, Commit(p) \/ CommitUnanswered(p)
  PROVE  IInv'
<1>1. pc[p] = "commit" /\ times' = Plus(tx[p]) /\ tx' = [tx EXCEPT ![p] = {}]
        /\ UNCHANGED <<version, step, ended>>
  BY DEF Commit, CommitUnanswered
<1>2. /\ Grows /\ AllOrNothing' /\ RecordedIsComplete' /\ InOrder'
      /\ version[p] \in Versions /\ times'[Record(version[p])] > 0
      /\ \A q \in Instances \ {p} : pc[q] = "commit" /\ ~ended[q] =>
           times'[Record(version[q])] = times[Record(version[q])]
  BY <1>1, CommitTakesEffect
<1>3. /\ pc \in [Instances -> {"idle", "table", "check", "apply", "commit"}]
      /\ todo \in [Instances -> SUBSET Versions]
      /\ tx \in [Instances -> SUBSET Item]
      /\ outcome \in [Instances -> {"none", "ok", "error"}]
      /\ times \in [Item -> Nat] /\ Files[p] \subseteq Versions
  BY MigrationsAssumption DEF TypeOK
<1>4. /\ pc' = [pc EXCEPT ![p] = pc'[p]] /\ pc'[p] \in {"check", "idle"}
      /\ todo' = [todo EXCEPT ![p] = todo'[p]]
      /\ todo'[p] = todo[p] \ {version[p]} \/ (todo'[p] = todo[p] /\ pc'[p] = "idle")
      /\ outcome' = [outcome EXCEPT ![p] = outcome'[p]]
      /\ outcome'[p] = "ok" => outcome[p] = "ok"
  BY <1>3 DEF Commit, CommitUnanswered, Returns
<1>5. OnlyMoves(p)
  BY <1>1, <1>2, <1>3, <1>4 DEF OnlyMoves
<1>6. ProgressOf(p)
  BY DEF IInv, Progress
<1>7. \A u \in Files[p] : Recorded(u) => Recorded(u)'
  BY <1>2, <1>3, RecordedStays
<1>8. ProgressOf(p)'
  <2>1. todo'[p] \subseteq Files[p]
    BY <1>4, <1>6 DEF ProgressOf
  <2>2. ASSUME pc'[p] # "idle", NEW u \in Files[p] \ todo'[p] PROVE Recorded(u)'
    <3>1. u = version[p] \/ u \notin todo[p]
      BY <2>2, <1>4
    <3> QED BY <3>1, <2>2, <1>1, <1>2, <1>3, <1>6, <1>7 DEF ProgressOf, Recorded, Record
  <2> QED BY <2>1, <2>2, <1>4 DEF ProgressOf, Applying
<1>9. ContentOf(p)'
  BY <1>4 DEF ContentOf, Applying
<1>10. outcome'[p] = "ok" => p \in NoDirectory \/ \A u \in Files[p] : Recorded(u)
  BY <1>4 DEF IInv, NilMeansApplied
<1>11. tx'[p] = {}
  BY <1>1, <1>3
<1> QED BY <1>2, <1>5, <1>8, <1>9, <1>10, <1>11, StepKeeps

-----------------------------------------------------------------------------
(* Execute.                                                                *)

\* A file that is about to be committed has its record in the transaction.
LEMMA CommitHoldsRecord ==
  ASSUME TypeOK, Content, NEW q \in Instances, pc[q] = "commit", ~ended[q]
  PROVE  /\ version[q] \in Versions /\ Record(version[q]) \in tx[q]
         /\ Record(version[q]) \in Item
<1>1. ContentOf(q)
  BY DEF Content
<1>2. tx[q] = Whole(version[q]) /\ version[q] \in Versions
  BY <1>1 DEF ContentOf, TypeOK
<1>3. Statements[version[q]] \in Nat
  BY <1>2, MigrationsAssumption
<1>4. 0 \in 0..Statements[version[q]]
  BY <1>3
<1> QED BY <1>2, <1>4, ItemForm DEF Whole, Record

\* Where an instance that executes is in its file.
LEMMA WhileApplying ==
  ASSUME TypeOK, IInv, NEW p \in Instances, pc[p] = "apply"
  PROVE  /\ version[p] \in Versions /\ version[p] \in Files[p]
         /\ Statements[version[p]] \in Nat
         /\ step[p] \in 1..(Statements[version[p]] + 1)
         /\ \A u \in Files[p] : u < version[p] => Recorded(u)
         /\ tx[p] \subseteq Before(p)
         /\ ~ended[p] => tx[p] = Before(p)
         /\ ended[p] => /\ tx[p] = {} /\ ~Pure(version[p])
                        /\ \A i \in Before(p) : times[i] > 0
<1>1. ProgressOf(p) /\ ContentOf(p)
  BY DEF IInv, Progress, Content
<1>2. version[p] \in todo[p] /\ version[p] \in Versions /\ step[p] \in Nat \ {0}
  BY DEF TypeOK
<1>3. Statements[version[p]] \in Nat
  BY <1>2, MigrationsAssumption
<1>4. version[p] \in Files[p] /\ \A u \in Files[p] : u < version[p] => Recorded(u)
  BY <1>1, <1>2 DEF ProgressOf, Applying
<1>5. step[p] \in 1..(Statements[version[p]] + 1)
  BY <1>1, <1>2, <1>3 DEF ContentOf
<1>6. CASE ~ended[p]
  <2>1. tx[p] = Before(p)
    BY <1>1, <1>6 DEF ContentOf
  <2> QED BY <2>1, <1>2, <1>3, <1>4, <1>5, <1>6
<1>7. CASE ended[p]
  <2>1. Applying(p)
    BY DEF Applying
  <2>2. tx[p] = {} /\ ~Pure(version[p])
    BY <2>1, <1>1, <1>7, Zenon DEF ContentOf
  <2>3. \A i \in Before(p) : times[i] > 0
    BY <1>1, <1>7 DEF ContentOf, Before
  <2> QED BY <2>2, <2>3, <1>2, <1>3, <1>4, <1>5, <1>7
<1> QED BY <1>6, <1>7

\* What an instance executes is in its file, after what it has executed.
LEMMA CurrentForm ==
  ASSUME TypeOK, IInv, NEW p \in Instances, pc[p] = "apply"
  PROVE  /\ Current(p) \in Item /\ Current(p) \in Whole(version[p])
         /\ Before(p) \subseteq Whole(version[p])
         /\ Inserting(p) => /\ Current(p) = Record(version[p])
                            /\ Before(p) \cup {Current(p)} = Whole(version[p])
         /\ ~Inserting(p) => /\ Current(p) = <<version[p], step[p]>>
                             /\ step[p] \in 1..Statements[version[p]]
<1>1. version[p] \in Versions /\ Statements[version[p]] \in Nat
        /\ step[p] \in 1..(Statements[version[p]] + 1)
  BY WhileApplying
<1>2. Before(p) \subseteq Whole(version[p])
  <2> SUFFICES ASSUME NEW k \in 1..(step[p] - 1) PROVE k \in 0..Statements[version[p]]
    BY DEF Before, Whole
  <2> QED BY <1>1
<1>3. 0 \in 0..Statements[version[p]] /\ Record(version[p]) \in Whole(version[p])
  <2>1. 0 \in 0..Statements[version[p]]
    BY <1>1
  <2> QED BY <2>1 DEF Whole, Record
<1>4. CASE Inserting(p)
  <2>1. step[p] = Statements[version[p]] + 1 /\ Current(p) = Record(version[p])
    BY <1>1, <1>4 DEF Inserting, Current
  <2>2. ASSUME NEW i \in Whole(version[p]) PROVE i \in Before(p) \cup {Record(version[p])}
    <3>1. PICK k \in 0..Statements[version[p]] : i = <<version[p], k>>
      BY DEF Whole
    <3>2. k = 0 \/ k \in 1..(step[p] - 1)
      BY <2>1, <1>1
    <3> QED BY <3>1, <3>2 DEF Before, Record
  <2> QED BY <2>1, <2>2, <1>1, <1>2, <1>3, <1>4, CurrentIsItem
<1>5. CASE ~Inserting(p)
  <2>1. step[p] \in 1..Statements[version[p]] /\ Current(p) = <<version[p], step[p]>>
    BY <1>1, <1>5 DEF Inserting, Current
  <2>2. step[p] \in 0..Statements[version[p]]
    BY <2>1, <1>1
  <2> QED BY <2>1, <2>2, <1>1, <1>2, <1>5, CurrentIsItem DEF Whole
<1> QED BY <1>4, <1>5

\* The current item takes effect by itself or with what the transaction holds:
\* an implicit commit has come, or comes with it.
LEMMA EffectOfExecute ==
  ASSUME TypeOK, IInv, NEW p \in Instances, pc[p] = "apply", ~Locked(p), ~Clashes(p),
         NEW S, S = tx[p] \cup {Current(p)}, times' = Plus(S),
         ~Pure(version[p]), Inserting(p) => ended[p]
  PROVE  /\ Grows /\ AllOrNothing' /\ RecordedIsComplete' /\ InOrder'
         /\ \A i \in Before(p) \cup {Current(p)} : times'[i] > 0
         /\ \A q \in Instances \ {p} : pc[q] = "commit" /\ ~ended[q] =>
              times'[Record(version[q])] = times[Record(version[q])]
<1> DEFINE v == version[p]
<1>1. /\ v \in Versions /\ v \in Files[p] /\ Statements[v] \in Nat
      /\ \A u \in Files[p] : u < v => Recorded(u)
      /\ step[p] \in 1..(Statements[v] + 1)
      /\ tx[p] \subseteq Before(p)
  BY WhileApplying
<1>2. /\ Current(p) \in Item /\ Current(p) \in Whole(v) /\ Before(p) \subseteq Whole(v)
      /\ Inserting(p) => Current(p) = Record(v) /\ Before(p) \cup {Current(p)} = Whole(v)
      /\ ~Inserting(p) => Current(p) = <<v, step[p]>> /\ step[p] \in 1..Statements[v]
  BY CurrentForm
<1>3. times \in [Item -> Nat] /\ Whole(v) \subseteq Item
  BY <1>1, ItemForm DEF TypeOK, Whole
<1>4. \A i \in Before(p) : i \in S \/ times[i] > 0
  <2>1. CASE ended[p]
    BY <2>1, WhileApplying
  <2>2. CASE ~ended[p]
    BY <2>2, WhileApplying
  <2> QED BY <2>1, <2>2
<1>5. \A k \in 0..Statements[v] : <<v, k>> \in S =>
        \A j \in 1..(k - 1) : <<v, j>> \in S \/ times[<<v, j>>] > 0
  <2> SUFFICES ASSUME NEW k \in 0..Statements[v], <<v, k>> \in S, NEW j \in 1..(k - 1)
               PROVE  <<v, j>> \in Before(p)
    BY <1>4
  <2>1. k \in 0..step[p]
    <3>1. CASE <<v, k>> \in Before(p)
      BY <3>1, <1>1 DEF Before
    <3>2. CASE <<v, k>> = Current(p)
      BY <3>2, <1>1, <1>2 DEF Record
    <3> QED BY <3>1, <3>2, <1>1
  <2>2. j \in 1..(step[p] - 1)
    BY <2>1, <1>1
  <2> QED BY <2>2 DEF Before
<1>6. Record(v) \in S => \A i \in Whole(v) : i \in S \/ times[i] > 0
  <2> SUFFICES ASSUME Record(v) \in S PROVE Inserting(p)
    BY <1>2, <1>4
  <2>1. Record(v) \notin Before(p)
    BY <1>1 DEF Record, Before
  <2>2. Current(p) = <<v, 0>>
    BY <2>1, <1>1 DEF Record
  <2> QED BY <2>2, <1>2
<1>7. Grows /\ AllOrNothing' /\ RecordedIsComplete' /\ InOrder'
  <2>1. S \subseteq Whole(v) /\ ~Pure(v)
    BY <1>1, <1>2
  <2> HIDE DEF v
  <2> QED BY <2>1, <1>1, <1>3, <1>5, <1>6, TakesEffect DEF IInv
<1>8. \A i \in Before(p) \cup {Current(p)} : times'[i] > 0
  <2> SUFFICES ASSUME NEW i \in Before(p) \cup {Current(p)} PROVE times'[i] > 0
    OBVIOUS
  <2>1. i \in Item /\ times[i] \in Nat /\ (i \in S \/ times[i] > 0)
    BY <1>2, <1>3, <1>4
  <2>2. (i \in S => times'[i] = times[i] + 1) /\ (i \notin S => times'[i] = times[i])
    BY <2>1, <1>3, PlusAdds
  <2> QED BY <2>1, <2>2
<1>9. ASSUME NEW q \in Instances \ {p}, pc[q] = "commit", ~ended[q]
      PROVE  times'[Record(version[q])] = times[Record(version[q])]
  <2>1. /\ version[q] \in Versions /\ Record(version[q]) \in tx[q]
        /\ Record(version[q]) \in Item
    BY <1>9, CommitHoldsRecord DEF IInv
  <2>2. Record(version[q]) \notin tx[p]
    BY <2>1 DEF IInv, OneRecorder
  <2>3. Record(version[q]) # Current(p)
    BY <2>1 DEF Locked, Exclusive, Record
  <2> QED BY <2>1, <2>2, <2>3, <1>3, PlusAdds
<1> QED BY <1>7, <1>8, <1>9

\* The three ways an item takes effect have one outcome: the transaction holds
\* what has been executed, or, if it is ended, all of that is in effect.
LEMMA TakesKeeps ==
  ASSUME TypeOK, IInv, NEW p \in Instances, pc[p] = "apply", ~Locked(p), ~Clashes(p),
         Takes(p, Current(p))
  PROVE  /\ Grows /\ AllOrNothing' /\ RecordedIsComplete' /\ InOrder'
         /\ \A q \in Instances \ {p} :
              /\ tx'[q] = tx[q] /\ ended'[q] = ended[q]
              /\ pc[q] = "commit" /\ ~ended[q] =>
                   times'[Record(version[q])] = times[Record(version[q])]
         /\ ended'[p] \in BOOLEAN
         /\ ~ended'[p] => /\ tx'[p] = Before(p) \cup {Current(p)}
                          /\ UNCHANGED times
         /\ ended'[p] => /\ tx'[p] = {} /\ ~Pure(version[p])
                         /\ \A i \in Before(p) \cup {Current(p)} : times'[i] > 0
<1>1. /\ tx \in [Instances -> SUBSET Item] /\ ended \in [Instances -> BOOLEAN]
  BY DEF TypeOK
<1>2. /\ version[p] \in Versions
      /\ ~ended[p] => tx[p] = Before(p)
      /\ ended[p] => tx[p] = {} /\ ~Pure(version[p])
  BY WhileApplying
<1>3. /\ Inserting(p) => Current(p) = Record(version[p])
      /\ ~Inserting(p) => Current(p) = <<version[p], step[p]>>
                            /\ step[p] \in 1..Statements[version[p]]
  BY CurrentForm
<1>4. CASE /\ Current(p) \in Implicit
           /\ times' = Plus(tx[p] \cup {Current(p)})
           /\ tx' = [tx EXCEPT ![p] = {}]
           /\ ended' = [ended EXCEPT ![p] = TRUE]
  <2>1. ~Inserting(p)
    BY <1>2, <1>3, <1>4, MigrationsAssumption
  <2>2. ~Pure(version[p])
    BY <2>1, <1>3, <1>4 DEF Pure
  <2> QED BY <2>1, <2>2, <1>1, <1>4, EffectOfExecute
<1>5. CASE /\ ended[p]
           /\ times' = Plus({Current(p)})
           /\ UNCHANGED <<tx, ended>>
  <2>1. {Current(p)} = tx[p] \cup {Current(p)} /\ ~Pure(version[p])
    BY <1>2, <1>5
  <2> QED BY <2>1, <1>1, <1>2, <1>5, EffectOfExecute
<1>6. CASE /\ ~ended[p]
           /\ tx' = [tx EXCEPT ![p] = @ \cup {Current(p)}]
           /\ UNCHANGED <<times, ended>>
  <2>1. Grows /\ AllOrNothing' /\ RecordedIsComplete' /\ InOrder'
    BY <1>6, DatabaseStays DEF IInv
  <2>2. tx'[p] = Before(p) \cup {Current(p)} /\ ~ended'[p]
    BY <1>1, <1>2, <1>6
  <2>3. \A q \in Instances \ {p} : tx'[q] = tx[q] /\ ended'[q] = ended[q]
    BY <1>1, <1>6
  <2> QED BY <2>1, <2>2, <2>3, <1>1, <1>6
<1> QED BY <1>4, <1>5, <1>6 DEF Takes

LEMMA ExecuteKeeps ==
  ASSUME TypeOK, IInv, NEW p \in Instances, Execute(p)
  PROVE  IInv'
<1>1. pc[p] = "apply" /\ ~Locked(p) /\ ~Clashes(p) /\ Takes(p, Current(p))
        /\ UNCHANGED <<table, todo, version, outcome, calls, faults>>
  BY DEF Execute
<1>2. /\ Grows /\ AllOrNothing' /\ RecordedIsComplete' /\ InOrder'
      /\ \A q \in Instances \ {p} :
           /\ tx'[q] = tx[q] /\ ended'[q] = ended[q]
           /\ pc[q] = "commit" /\ ~ended[q] =>
                times'[Record(version[q])] = times[Record(version[q])]
      /\ ended'[p] \in BOOLEAN
      /\ ~ended'[p] => tx'[p] = Before(p) \cup {Current(p)} /\ UNCHANGED times
      /\ ended'[p] => /\ tx'[p] = {} /\ ~Pure(version[p])
                      /\ \A i \in Before(p) \cup {Current(p)} : times'[i] > 0
  BY <1>1, TakesKeeps
<1>3. /\ version[p] \in Versions /\ Statements[version[p]] \in Nat
      /\ step[p] \in 1..(Statements[version[p]] + 1)
      /\ Files[p] \subseteq Versions /\ times \in [Item -> Nat]
  BY <1>1, WhileApplying, MigrationsAssumption DEF TypeOK
<1>4. /\ Inserting(p) => /\ Current(p) = Record(version[p])
                         /\ Before(p) \cup {Current(p)} = Whole(version[p])
      /\ ~Inserting(p) => /\ Current(p) = <<version[p], step[p]>>
                          /\ step[p] \in 1..Statements[version[p]]
  BY <1>1, CurrentForm
<1>5. /\ pc \in [Instances -> {"idle", "table", "check", "apply", "commit"}]
      /\ step \in [Instances -> Nat \ {0}]
  BY DEF TypeOK
<1>6. /\ Inserting(p) => pc'[p] = "commit" /\ step'[p] = step[p]
      /\ ~Inserting(p) => pc'[p] = "apply" /\ step'[p] = step[p] + 1
      /\ \A q \in Instances \ {p} : pc'[q] = pc[q] /\ step'[q] = step[q]
  BY <1>1, <1>5 DEF Execute
<1>7. OnlyMoves(p)
  BY <1>1, <1>2, <1>6 DEF OnlyMoves
<1>8. ProgressOf(p)'
  <2>1. ProgressOf(p)
    BY DEF IInv, Progress
  <2>2. \A u \in Files[p] : Recorded(u) => Recorded(u)'
    BY <1>2, <1>3, RecordedStays
  <2> QED BY <2>1, <2>2, <1>1 DEF ProgressOf, Applying
<1>9. ContentOf(p)'
  <2>1. CASE Inserting(p)
    <3>1. times[Record(version[p])] = 0
      <4>1. 0 \in 0..Statements[version[p]]
        BY <1>3
      <4>2. Record(version[p]) \in Item
        BY <4>1, <1>3, ItemForm DEF Record
      <4>3. times[Record(version[p])] \in Nat
        BY <4>2, <1>3
      <4>4. ~(times[Record(version[p])] > 0)
        BY <2>1, <1>1, <1>4 DEF Clashes, Exclusive, Record
      <4> QED BY <4>3, <4>4
    <3>2. CASE ended'[p]
      BY <2>1, <3>2, <1>1, <1>2, <1>4, <1>6 DEF ContentOf, Applying, Whole, Pure, Record
    <3>3. CASE ~ended'[p]
      BY <2>1, <3>1, <3>3, <1>1, <1>2, <1>4, <1>6 DEF ContentOf, Applying, Whole, Pure, Record
    <3> QED BY <3>2, <3>3
  <2>2. CASE ~Inserting(p)
    <3>1. 1..(step'[p] - 1) = 1..(step[p] - 1) \cup {step[p]}
      BY <2>2, <1>4, <1>6
    <3>2. Before(p)' = Before(p) \cup {Current(p)}
      BY <2>2, <3>1, <1>1, <1>4 DEF Before
    <3>3. step'[p] <= Statements[version'[p]] + 1
      BY <2>2, <1>1, <1>3, <1>4, <1>6
    <3>4. CASE ended'[p]
      <4>1. \A k \in 1..(step'[p] - 1) : times'[<<version'[p], k>>] > 0
        BY <3>2, <3>4, <1>2 DEF Before
      <4> QED BY <2>2, <3>3, <3>4, <4>1, <1>1, <1>2, <1>6 DEF ContentOf, Applying, Pure
    <3>5. CASE ~ended'[p]
      BY <2>2, <3>2, <3>3, <3>5, <1>1, <1>2, <1>6 DEF ContentOf, Applying
    <3> QED BY <3>4, <3>5
  <2> QED BY <2>1, <2>2
<1>10. ASSUME NEW q \in Instances \ {p}, NEW w \in Versions, Record(w) \in tx'[p]
       PROVE  Record(w) \notin tx[q]
  <2>1. ~ended'[p] /\ Record(w) \in Before(p) \cup {Current(p)}
    BY <1>2, <1>10
  <2>2. Record(w) \notin Before(p)
    BY <1>3 DEF Record, Before
  <2>3. Current(p) = Record(w)
    BY <2>1, <2>2
  <2> QED BY <2>3, <1>1 DEF Locked, Exclusive, Record
<1>11. outcome'[p] = "ok" => p \in NoDirectory \/ \A u \in Files[p] : Recorded(u)
  BY <1>1 DEF IInv, NilMeansApplied
<1> QED BY <1>2, <1>7, <1>8, <1>9, <1>10, <1>11, StepKeeps

-----------------------------------------------------------------------------
(* The theorems.                                                           *)

\* The inductive invariant holds in every reachable state.
THEOREM IInvHolds == Spec => []IInv
<1>1. Init => IInv
  <2> SUFFICES ASSUME Init PROVE IInv
    OBVIOUS
  <2>1. \A v \in Versions : \A k \in 0..Statements[v] : times[<<v, k>>] = 0
    BY ItemForm DEF Init
  <2>2. \A v \in Versions : times[Record(v)] = 0
    <3> SUFFICES ASSUME NEW v \in Versions PROVE 0 \in 0..Statements[v]
      BY <2>1 DEF Record
    <3>1. Statements[v] \in Nat
      BY MigrationsAssumption
    <3> QED BY <3>1
  <2>3. Progress
    BY DEF Init, Progress, ProgressOf, Applying
  <2>4. Content
    BY DEF Init, Content, ContentOf, Applying
  <2>5. OneRecorder /\ NilMeansApplied
    BY DEF Init, OneRecorder, NilMeansApplied
  <2>6. AllOrNothing
    BY <2>1, <2>2 DEF AllOrNothing
  <2>7. RecordedIsComplete /\ InOrder
    BY <2>1, <2>2 DEF RecordedIsComplete, Recorded, InOrder
  <2> QED BY <2>3, <2>4, <2>5, <2>6, <2>7 DEF IInv
<1>2. TypeOK /\ IInv /\ [Next]_vars => IInv'
  <2> SUFFICES ASSUME TypeOK, IInv, [Next]_vars PROVE IInv'
    OBVIOUS
  <2>1. ASSUME NEW p \in Instances, Call(p) \/ Step(p) \/ Fails(p) \/ CommitUnanswered(p)
        PROVE  IInv'
    BY <2>1, CallKeeps, CheckKeeps, ExecuteKeeps, AbortKeeps, CommitKeeps
       DEF Step, ExecuteClashes, Fails
  <2>2. CASE UNCHANGED vars
    BY <2>2 DEF vars, database, locals, IInv, Progress, ProgressOf, Content, ContentOf,
                OneRecorder, AllOrNothing, RecordedIsComplete, InOrder, NilMeansApplied,
                Applying, Before, Recorded
  <2> QED BY <2>1, <2>2 DEF Next
<1> QED BY <1>1, <1>2, TypeCorrect, PTL DEF Spec

\* A file without an implicit commit takes effect once and wholly, or not at all.
THEOREM FilesAreAtomic == Spec => []AllOrNothing
<1>1. IInv => AllOrNothing
  BY DEF IInv
<1> QED BY <1>1, IInvHolds, PTL

\* What is recorded has taken effect.
THEOREM RecordsAreTrue == Spec => []RecordedIsComplete
<1>1. IInv => RecordedIsComplete
  BY DEF IInv
<1> QED BY <1>1, IInvHolds, PTL

\* Files and statements take effect in order.
THEOREM FilesAreInOrder == Spec => []InOrder
<1>1. IInv => InOrder
  BY DEF IInv
<1> QED BY <1>1, IInvHolds, PTL

\* ApplyMigrations returns nil only when all its files are recorded.
THEOREM NilIsTrue == Spec => []NilMeansApplied
<1>1. IInv => NilMeansApplied
  BY DEF IInv
<1> QED BY <1>1, IInvHolds, PTL
=============================================================================
