----------------------------- MODULE DevRun_proofs -----------------------------
(***************************************************************************)
(* Proofs about DevRun: types, one child at a time, and that rebuilding    *)
(* catches up with the files, for every capacity of the event channel and  *)
(* every number of changes.                                                *)
(***************************************************************************)
EXTENDS DevRun, TLAPS

\* What the proofs use of the constants.
LEMMA Constants == Cap \in Nat /\ Cap > 0 /\ None \notin Nat
  BY DevRunAssumption

USE Constants

-----------------------------------------------------------------------------
(* Types.  A build that has run has read the files, and what is about to be *)
(* started has been built.                                                  *)

Flags ==
  /\ closed \in BOOLEAN /\ cancelled \in BOOLEAN /\ blind \in BOOLEAN
  /\ closed => cancelled

Versions ==
  /\ src \in Nat /\ events \in 0..Cap
  /\ pc \in {"kill", "build", "built", "start", "select", "exited"}
  /\ snap \in Nat \cup {None} /\ read \in Nat \cup {None} /\ exe \in Nat \cup {None}
  /\ pc = "built" => read \in Nat
  /\ pc = "start" => exe \in Nat

Processes ==
  /\ launched \in Nat
  /\ alive \subseteq 1..launched /\ proc \in 1..launched \cup {None}
  /\ image \in [1..launched -> Nat]

LEMMA FlagsHold == Spec => []Flags
  <1>1. Init => Flags
    BY DEF Init, Flags
  <1>2. Flags /\ [Next]_vars => Flags'
    <2> SUFFICES ASSUME Flags, [Next]_vars PROVE Flags'
      OBVIOUS
    <2> USE DEF Flags, watcher, child
    <2>1. CASE UNCHANGED vars
      BY <2>1 DEF vars
    <2>2. CASE Change
      BY <2>2 DEF Change
    <2>9. CASE Interrupt
      <3>1. cancelled' = TRUE /\ closed' = closed /\ blind' = blind
        BY <2>9 DEF Interrupt
      <3> QED BY <3>1
    <2>3. CASE FirstSnapshot
      BY <2>3 DEF FirstSnapshot
    <2>4. CASE Tick
      BY <2>4 DEF Tick
    <2>5. CASE KillOld \/ Build \/ BuildRefused \/ BuildFails \/ BuildSucceeds \/ StartFails
      BY <2>5 DEF KillOld, Build, BuildRefused, BuildFails, BuildSucceeds, StartFails
    <2>6. CASE StartApp
      BY <2>6 DEF StartApp
    <2>7. CASE TakeEvent \/ LeaveByContext \/ LeaveByChannel
      BY <2>7 DEF TakeEvent, LeaveByContext, LeaveByChannel
    <2>8. CASE ChildEnds \/ ContextKills
      BY <2>8 DEF ChildEnds, ContextKills
    <2>10. CASE WatcherEnds
      <3>1. closed' = TRUE /\ cancelled /\ cancelled' = cancelled /\ blind' = blind
        BY <2>10 DEF WatcherEnds
      <3> QED BY <3>1
    <2> QED BY <2>1, <2>2, <2>3, <2>4, <2>5, <2>6, <2>7, <2>8, <2>9, <2>10 DEF Next, WatcherStep, MainStep, Trigger
  <1> QED BY <1>1, <1>2, PTL DEF Spec

LEMMA VersionsHold == Spec => []Versions
  <1>1. Init => Versions
    BY DEF Init, Versions
  <1>2. Versions /\ [Next]_vars => Versions'
    <2> SUFFICES ASSUME Versions, [Next]_vars PROVE Versions'
      OBVIOUS
    <2> USE DEF Versions, watcher, child
    <2>1. CASE UNCHANGED vars
      BY <2>1 DEF vars
    <2>2. CASE Change \/ Interrupt
      BY <2>2 DEF Change, Interrupt
    <2>3. CASE FirstSnapshot
      BY <2>3 DEF FirstSnapshot
    <2>4. CASE Tick
      BY <2>4 DEF Tick
    <2>5. CASE KillOld \/ Build \/ BuildRefused \/ BuildFails \/ BuildSucceeds \/ StartFails
      BY <2>5 DEF KillOld, Build, BuildRefused, BuildFails, BuildSucceeds, StartFails
    <2>6. CASE StartApp
      BY <2>6 DEF StartApp
    <2>7. CASE TakeEvent \/ LeaveByContext \/ LeaveByChannel
      BY <2>7 DEF TakeEvent, LeaveByContext, LeaveByChannel
    <2>8. CASE WatcherEnds \/ ChildEnds \/ ContextKills
      BY <2>8 DEF WatcherEnds, ChildEnds, ContextKills
    <2> QED BY <2>1, <2>2, <2>3, <2>4, <2>5, <2>6, <2>7, <2>8 DEF Next, WatcherStep, MainStep, Trigger
  <1> QED BY <1>1, <1>2, PTL DEF Spec

LEMMA ProcessesHold == Spec => []Processes
  <1>1. Init => Processes
    <2>1. <<>> \in [1..0 -> Nat]
      <3>1. 1..0 = {} /\ DOMAIN <<>> = {}
        OBVIOUS
      <3>2. <<>> = [i \in {} |-> <<>>[i]]
        OBVIOUS
      <3> QED BY <3>1, <3>2
    <2> QED BY <2>1 DEF Init, Processes
  <1>2. Versions /\ Processes /\ [Next]_vars => Processes'
    <2> SUFFICES ASSUME Versions, Processes, [Next]_vars PROVE Processes'
      OBVIOUS
    <2>1. CASE /\ UNCHANGED <<launched, image>>
               /\ proc' \in {proc, None} /\ alive' \subseteq alive
      BY <2>1 DEF Processes
    <2>2. CASE StartApp
      <3>1. /\ launched' = launched + 1 /\ launched' \in Nat /\ exe \in Nat
            /\ alive' \subseteq 1..launched' /\ proc' \in 1..launched'
        BY <2>2 DEF StartApp, Versions, Processes
      <3>2. image' = [p \in 1..launched' |-> IF p <= launched THEN image[p] ELSE exe]
        BY <2>2, <3>1 DEF StartApp
      <3>3. \A p \in 1..launched' : p <= launched => image[p] \in Nat
        BY <3>1 DEF Processes
      <3>4. image' \in [1..launched' -> Nat]
        BY <3>1, <3>2, <3>3
      <3> QED BY <3>1, <3>4 DEF Processes
    <2>3. CASE UNCHANGED vars
      BY <2>1, <2>3 DEF vars, child
    <2>4. CASE Change \/ Interrupt \/ WatcherStep
      BY <2>1, <2>4 DEF Change, Interrupt, WatcherStep, FirstSnapshot, Tick, WatcherEnds, child
    <2>5. CASE KillOld \/ Build \/ BuildRefused \/ BuildFails \/ BuildSucceeds \/ StartFails
      BY <2>1, <2>5 DEF KillOld, Build, BuildRefused, BuildFails, BuildSucceeds, StartFails, child
    <2>6. CASE TakeEvent \/ LeaveByContext \/ LeaveByChannel \/ ChildEnds \/ ContextKills
      BY <2>1, <2>6 DEF TakeEvent, LeaveByContext, LeaveByChannel, ChildEnds, ContextKills, child
    <2> QED BY <2>2, <2>3, <2>4, <2>5, <2>6 DEF Next, MainStep, Trigger
  <1> QED BY VersionsHold, <1>1, <1>2, PTL DEF Spec

\* The variables keep their types, and the event channel is closed only after
\* an interrupt.
THEOREM TypeCorrect == Spec => []TypeOK
  <1>1. Flags /\ Versions /\ Processes => TypeOK
    BY DEF Flags, Versions, Processes, TypeOK
  <1> QED BY FlagsHold, VersionsHold, ProcessesHold, <1>1, PTL

-----------------------------------------------------------------------------
(* One child: with the types the property is inductive as it stands.          *)

\* trigger never loses sight of a process it started.
THEOREM OneChildRuns == Spec => []OneChild
  <1>1. Init => OneChild
    BY DEF Init, OneChild
  <1>2. Processes /\ OneChild /\ [Next]_vars => OneChild'
    <2> SUFFICES ASSUME Processes, OneChild, [Next]_vars PROVE OneChild'
      OBVIOUS
    <2> USE DEF OneChild, watcher, child
    <2>1. CASE UNCHANGED vars
      BY <2>1 DEF vars
    <2>2. CASE Change \/ Interrupt
      BY <2>2 DEF Change, Interrupt
    <2>3. CASE WatcherStep
      BY <2>3 DEF WatcherStep, FirstSnapshot, Tick, WatcherEnds
    <2>4. CASE KillOld \/ Build \/ BuildRefused \/ BuildFails \/ BuildSucceeds \/ StartFails
      BY <2>4 DEF KillOld, Build, BuildRefused, BuildFails, BuildSucceeds, StartFails
    <2>5. CASE StartApp
      <3>1. alive' = {proc'} /\ proc' = launched + 1 /\ pc' = "select" /\ exe' = exe
        BY <2>5 DEF StartApp
      <3>2. image'[launched + 1] = exe
        <4>1. launched + 1 \in 1..(launched + 1) /\ ~(launched + 1 <= launched)
          BY DEF Processes
        <4> QED BY <2>5, <4>1 DEF StartApp
      <3> QED BY <3>1, <3>2
    <2>6. CASE TakeEvent \/ LeaveByContext \/ LeaveByChannel
      BY <2>6 DEF TakeEvent, LeaveByContext, LeaveByChannel
    <2>7. CASE ChildEnds \/ ContextKills
      BY <2>7 DEF ChildEnds, ContextKills
    <2> QED BY <2>1, <2>2, <2>3, <2>4, <2>5, <2>6, <2>7 DEF Next, MainStep, Trigger
  <1> QED BY ProcessesHold, <1>1, <1>2, PTL DEF Spec

-----------------------------------------------------------------------------
(* Catching up.  Nothing the watcher has seen is lost: an event waits, a    *)
(* build is about to read the files, or the last one has read a version not *)
(* older than the snapshot.  A dropped event leaves the channel full.       *)

Seen ==
  /\ read \in Nat => read <= src
  /\ snap \in Nat => snap <= src
  /\ read = None /\ ~cancelled => pc \in {"kill", "build"}
  /\ snap \in Nat /\ ~blind /\ ~cancelled =>
       \/ events > 0
       \/ pc \in {"kill", "build"}
       \/ read \in Nat /\ read >= snap

LEMMA SeenHolds == Spec => []Seen
  <1>1. Init => Seen
    BY DEF Init, Seen
  <1>2. Flags /\ Versions /\ Seen /\ [Next]_vars => Seen'
    <2> SUFFICES ASSUME Flags, Versions, Seen, [Next]_vars PROVE Seen'
      OBVIOUS
    <2> USE DEF Seen, Flags, Versions, watcher, child
    <2>1. CASE UNCHANGED vars
      BY <2>1 DEF vars
    <2>2. CASE Change \/ Interrupt
      BY <2>2 DEF Change, Interrupt
    <2>3. CASE FirstSnapshot
      <3>1. /\ snap' = src /\ (blind' = (read # None /\ read < src))
            /\ UNCHANGED <<src, events, cancelled, pc, read>>
        BY <2>3 DEF FirstSnapshot
      <3>2. CASE read = None
        BY <3>1, <3>2
      <3>3. CASE read # None /\ read >= src
        BY <3>1, <3>3
      <3>4. CASE read # None /\ read < src
        <4>1. blind'
          BY <3>1, <3>4
        <4> QED BY <3>1, <4>1
      <3> QED BY <3>2, <3>3, <3>4
    <2>4. CASE Tick
      BY <2>4 DEF Tick
    <2>5. CASE KillOld \/ Build \/ BuildRefused \/ BuildFails \/ BuildSucceeds \/ StartFails
      BY <2>5 DEF KillOld, Build, BuildRefused, BuildFails, BuildSucceeds, StartFails
    <2>6. CASE StartApp
      BY <2>6 DEF StartApp
    <2>7. CASE TakeEvent \/ LeaveByContext \/ LeaveByChannel
      BY <2>7 DEF TakeEvent, LeaveByContext, LeaveByChannel
    <2>8. CASE WatcherEnds \/ ChildEnds \/ ContextKills
      BY <2>8 DEF WatcherEnds, ChildEnds, ContextKills
    <2> QED BY <2>1, <2>2, <2>3, <2>4, <2>5, <2>6, <2>7, <2>8 DEF Next, WatcherStep, MainStep, Trigger
  <1> QED BY FlagsHold, VersionsHold, <1>1, <1>2, PTL DEF Spec

\* An idle loop with an up-to-date watcher has built the files as they are,
\* however many events were dropped.
THEOREM RebuildsCatchUp == Spec => []CaughtUp
  <1>1. Flags /\ Versions /\ Seen => CaughtUp
    BY DEF Versions, Seen, CaughtUp
  <1> QED BY FlagsHold, VersionsHold, SeenHolds, <1>1, PTL
=============================================================================
