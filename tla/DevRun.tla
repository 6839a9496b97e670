-------------------------------- MODULE DevRun --------------------------------
(***************************************************************************)
(* `vengo run` (src/cmd/vengo/run.go): a watcher goroutine compares        *)
(* snapshots of the source tree and sends the changes it sees to the main  *)
(* loop, which kills the application, builds it and starts it again, until *)
(* an interrupt cancels the context.                                       *)
(*                                                                         *)
(* The editor, the watcher, the main loop, the build command, the child    *)
(* process and the goroutine exec starts to kill it take steps of their    *)
(* own.  The watched files are a version number that every change raises.  *)
(***************************************************************************)
EXTENDS Integers, FiniteSets

CONSTANTS
  Cap,         \* capacity of the event channel: 16 in the code
  RunsApp,     \* FALSE with -no-run or -build-only
  MaxChanges,  \* bound: changes of the watched files
  None         \* no snapshot, no process, nothing built

ASSUME DevRunAssumption ==
  /\ Cap \in Nat \ {0} /\ MaxChanges \in Nat
  /\ RunsApp \in BOOLEAN
  /\ None \notin Nat

VARIABLES
  src,        \* version of the watched files
  snap,       \* the watcher's snapshot
  events,     \* number of events in the channel
  closed,     \* the watcher has returned and closed the channel
  cancelled,  \* the context is cancelled
  pc,         \* where the main loop is
  proc,       \* currentProc: a process, by its number
  alive,      \* processes that run
  launched,   \* number of processes started so far
  read,       \* the version the last build command has read
  exe,        \* the version the executable was built from
  image,      \* the version each process was started from
  \* history
  blind       \* a version the first build did not read is in the first snapshot

watcher == <<snap, events, closed>>
child   == <<proc, alive, launched, image>>
vars    == <<src, watcher, cancelled, pc, child, read, exe, blind>>

Version == 0..MaxChanges

\* runDevMode starts the watcher and calls trigger before it enters the loop.
Init ==
  /\ src = 0
  /\ snap = None /\ events = 0 /\ closed = FALSE
  /\ cancelled = FALSE
  /\ pc = "kill"
  /\ proc = None /\ alive = {} /\ launched = 0 /\ image = <<>>
  /\ read = None /\ exe = None
  /\ blind = FALSE

-----------------------------------------------------------------------------
(* The developer.                                                          *)

Change ==
  /\ src < MaxChanges
  /\ src' = src + 1
  /\ UNCHANGED <<watcher, cancelled, pc, child, read, exe, blind>>

\* Ctrl+C: the goroutine that waits for the signal cancels the context.
Interrupt ==
  /\ ~cancelled
  /\ cancelled' = TRUE
  /\ UNCHANGED <<src, watcher, pc, child, read, exe, blind>>

-----------------------------------------------------------------------------
(* watchDir's goroutine.                                                   *)

FirstSnapshot ==
  /\ snap = None /\ ~closed /\ pc # "exited"
  /\ snap' = src
  /\ blind' = (read # None /\ read < src)
  /\ UNCHANGED <<src, events, closed, cancelled, pc, child, read, exe>>

\* Broken variant: changes seen while a build runs are not reported.
TickIgnoresBuild ==
  /\ snap # None /\ ~closed /\ pc # "exited"
  /\ snap # src
  /\ snap' = src
  /\ events' = IF events < Cap /\ pc = "select" THEN events + 1 ELSE events
  /\ UNCHANGED <<src, closed, cancelled, pc, child, read, exe, blind>>

\* The timer fires: snapshotDir, diffSnapshot, and a send that gives up when
\* the channel is full.
Tick ==
  /\ snap # None /\ ~closed /\ pc # "exited"
  /\ snap # src
  /\ snap' = src
  /\ events' = IF events < Cap THEN events + 1 ELSE events
  /\ UNCHANGED <<src, closed, cancelled, pc, child, read, exe, blind>>

\* Broken variant: the watcher returns when the channel is full.
WatcherEndsFull ==
  /\ snap # None /\ ~closed /\ pc # "exited" /\ (cancelled \/ events = Cap)
  /\ closed' = TRUE
  /\ UNCHANGED <<src, snap, events, cancelled, pc, child, read, exe, blind>>

\* ctx.Done: return, and close the channel.
WatcherEnds ==
  /\ snap # None /\ ~closed /\ pc # "exited" /\ cancelled
  /\ closed' = TRUE
  /\ UNCHANGED <<src, snap, events, cancelled, pc, child, read, exe, blind>>

-----------------------------------------------------------------------------
(* trigger.                                                                *)

\* Broken variant: the old process is forgotten, not killed.
KillOldForgets ==
  /\ pc = "kill"
  /\ proc' = None
  /\ pc' = "build"
  /\ UNCHANGED <<src, watcher, cancelled, alive, launched, image, read, exe, blind>>

\* Broken variant: the wait never ends for a process that has ended by itself.
KillOldWaits ==
  /\ pc = "kill" /\ (proc = None \/ proc \in alive)
  /\ alive' = alive \ {proc}
  /\ proc' = None
  /\ pc' = "build"
  /\ UNCHANGED <<src, watcher, cancelled, launched, image, read, exe, blind>>

\* Kill and Wait, whose errors are ignored.
KillOld ==
  /\ pc = "kill"
  /\ alive' = alive \ {proc}
  /\ proc' = None
  /\ pc' = "build"
  /\ UNCHANGED <<src, watcher, cancelled, launched, image, read, exe, blind>>

\* The build command starts and reads the files at some time while it runs, or does not start because the
\* context is cancelled.
Build ==
  /\ pc = "build" /\ ~cancelled
  /\ read' = src
  /\ pc' = "built"
  /\ UNCHANGED <<src, watcher, cancelled, child, exe, blind>>

BuildRefused ==
  /\ pc = "build" /\ cancelled
  /\ pc' = "select"
  /\ UNCHANGED <<src, watcher, cancelled, child, read, exe, blind>>

\* The command fails, also when the context is cancelled while it runs.
BuildFails ==
  /\ pc = "built"
  /\ pc' = "select"
  /\ UNCHANGED <<src, watcher, cancelled, child, read, exe, blind>>

BuildSucceeds ==
  /\ pc = "built"
  /\ exe' = read
  /\ pc' = IF RunsApp THEN "start" ELSE "select"
  /\ UNCHANGED <<src, watcher, cancelled, child, read, blind>>

StartApp ==
  /\ pc = "start" /\ ~cancelled
  /\ launched' = launched + 1
  /\ alive' = alive \cup {launched + 1}
  /\ proc' = launched + 1
  /\ image' = [p \in 1..(launched + 1) |-> IF p <= launched THEN image[p] ELSE exe]
  /\ pc' = "select"
  /\ UNCHANGED <<src, watcher, cancelled, read, exe, blind>>

\* proc.Start fails: the context is cancelled, or there is no ./vengo-app.
StartFails ==
  /\ pc = "start"
  /\ pc' = "select"
  /\ UNCHANGED <<src, watcher, cancelled, child, read, exe, blind>>

-----------------------------------------------------------------------------
(* The main loop and the child.                                            *)

TakeEvent ==
  /\ pc = "select" /\ events > 0
  /\ events' = events - 1
  /\ pc' = "kill"
  /\ UNCHANGED <<src, snap, closed, cancelled, child, read, exe, blind>>

\* case <-ctx.Done(): kill the child, wait for it, return.
LeaveByContext ==
  /\ pc = "select" /\ cancelled
  /\ alive' = alive \ {proc}
  /\ pc' = "exited"
  /\ UNCHANGED <<src, watcher, cancelled, proc, launched, image, read, exe, blind>>

\* case ev, ok := <-events with the channel closed and drained: return.
LeaveByChannel ==
  /\ pc = "select" /\ closed /\ events = 0
  /\ pc' = "exited"
  /\ UNCHANGED <<src, watcher, cancelled, child, read, exe, blind>>

\* The application ends by itself.
ChildEnds ==
  /\ \E p \in alive : alive' = alive \ {p}
  /\ UNCHANGED <<src, watcher, cancelled, pc, proc, launched, image, read, exe, blind>>

\* exec.CommandContext's goroutine kills the child, while vengo still runs.
ContextKills ==
  /\ cancelled /\ pc # "exited"
  /\ \E p \in alive : alive' = alive \ {p}
  /\ UNCHANGED <<src, watcher, cancelled, pc, proc, launched, image, read, exe, blind>>

-----------------------------------------------------------------------------

WatcherStep == FirstSnapshot \/ Tick \/ WatcherEnds
Trigger  == KillOld \/ Build \/ BuildRefused \/ BuildFails \/ BuildSucceeds \/ StartApp \/ StartFails
MainStep == Trigger \/ TakeEvent \/ LeaveByContext \/ LeaveByChannel

Next == Change \/ Interrupt \/ WatcherStep \/ MainStep \/ ChildEnds \/ ContextKills

\* The timer keeps firing and the main loop keeps running; the build command
\* comes to an end.  Nobody has to change a file or to interrupt.
Fairness == WF_vars(FirstSnapshot) /\ WF_vars(Tick) /\ WF_vars(MainStep)

Spec == Init /\ [][Next]_vars
FairSpec == Spec /\ Fairness

-----------------------------------------------------------------------------
(* Properties.                                                             *)

\* Every variable keeps its type, and the channel is closed only on an interrupt.
TypeOK ==
  /\ src \in Nat /\ events \in 0..Cap /\ launched \in Nat
  /\ closed \in BOOLEAN /\ cancelled \in BOOLEAN /\ blind \in BOOLEAN
  /\ pc \in {"kill", "build", "built", "start", "select", "exited"}
  /\ snap \in Nat \cup {None} /\ read \in Nat \cup {None} /\ exe \in Nat \cup {None}
  /\ alive \subseteq 1..launched /\ proc \in 1..launched \cup {None}
  /\ image \in [1..launched -> Nat]
  /\ closed => cancelled

\* At most one process of the application runs, it is the one the main loop
\* will kill, it was started from the last executable built, and nothing is
\* built while it runs.
OneChild ==
  /\ alive \subseteq {proc}
  /\ pc \in {"build", "built", "start"} => alive = {}
  /\ \A p \in alive : image[p] = exe

\* docs/cli.md:99: "`Ctrl+C` stops the watcher and the running process."  After
\* the interrupt the main loop may take the closed channel before ctx.Done
\* (cmd/vengo/run.go:134) and return without killing the process.
NoneLeft == pc = "exited" => alive = {}

\* Rebuilding catches up: with the loop idle, no event waiting and the watcher
\* up to date, the last build has read the files as they are, although events
\* were dropped while it ran.  The exception is a change between the first
\* build's reading and the watcher's first snapshot: nobody sees it.
CaughtUp ==
  pc = "select" /\ events = 0 /\ snap = src /\ ~cancelled /\ ~blind => read = src

\* Every change the watcher can see is built, unless vengo is interrupted.
ChangesAreBuilt ==
  \A v \in Version : (src = v /\ ~blind) ~> (cancelled \/ blind \/ (read # None /\ read >= v))
=============================================================================
