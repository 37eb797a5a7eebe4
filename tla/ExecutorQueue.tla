---------------------------- MODULE ExecutorQueue ----------------------------
(***************************************************************************)
(* PriorityTaskScheduler: one executor's queue of reservations, the loop   *)
(* that takes one up when its task fits in what is left of the machine,    *)
(* the goroutines that run them, and the shutdown.                         *)
(***************************************************************************)
EXTENDS TaskQueue, FiniteSetsExt

CONSTANTS
  Resource,     \* what tasks use up: RAM and CPU
  Capacity,     \* Capacity[x]: how much the executor has of x
  Size,         \* Size[r][x]: how much the task of r is estimated to use
  Recurring     \* the reservations that come again and again

ASSUME SizesOK ==
  /\ Capacity \in [Resource -> Nat]
  /\ Size \in [Reservation -> [Resource -> Nat]]
  /\ Recurring \subseteq Reservation

VARIABLES
  seen,         \* the reservations that have come (not in the code)
  exclusive,    \* exclusiveTaskScheduling, from the configuration
  active,       \* the reservations being run: activeTaskCancelFuncs
  used,         \* used[x]: ramBytesUsed and cpuMillisUsed
  sending,      \* EnqueueTaskReservation waits to send on newTaskSignal
  signal,       \* newTaskSignal, a channel with room for one signal
  shuttingDown, \* set by Shutdown
  shutdown,     \* Shutdown itself: "off", "waiting" for active tasks, "done"
  watcher,      \* its goroutine: "off", "watching", "graceful" or "hard"
  late          \* the time a shutdown may take is over, but for a second

runVars  == <<active, used>>
stopVars == <<shuttingDown, shutdown, watcher, late>>
vars == <<queueVars, seen, exclusive, runVars, sending, signal, stopVars>>

TypeOK ==
  /\ QueueTypeOK
  /\ seen \in SUBSET Reservation
  /\ exclusive \in BOOLEAN
  /\ active \in SUBSET Reservation
  /\ used \in [Resource -> Nat]
  /\ sending \in BOOLEAN /\ signal \in BOOLEAN
  /\ shuttingDown \in BOOLEAN
  /\ shutdown \in {"off", "waiting", "done"}
  /\ watcher \in {"off", "watching", "graceful", "hard"}
  /\ late \in BOOLEAN

Init ==
  /\ QueueInit
  /\ seen = {}
  /\ exclusive \in BOOLEAN
  /\ active = {}
  /\ used = [x \in Resource |-> 0]
  /\ sending = FALSE /\ signal = FALSE
  /\ shuttingDown = FALSE
  /\ shutdown = "off" /\ watcher = "off" /\ late = FALSE

Queued(r) == \E i \in DOMAIN fifo[GroupOf[r]] : fifo[GroupOf[r]][i] = r

(* The registration stream brings a reservation; the next one is read when *)
(* this one has been signalled.  A recurring reservation, which stands for *)
(* any number of similar ones, comes again when it is done.                *)
EnqueueTaskReservation(r) ==
  /\ ~sending /\ ~Queued(r) /\ r \notin active
  /\ r \in seen => r \in Recurring
  /\ Enqueue(r)
  /\ seen' = seen \union {r}
  /\ sending' = TRUE
  /\ UNCHANGED <<exclusive, runVars, signal, stopVars>>

SignalNewTask ==
  /\ sending /\ ~signal
  /\ sending' = FALSE /\ signal' = TRUE
  /\ UNCHANGED <<queueVars, seen, exclusive, runVars, stopVars>>

Fits(r) == \A x \in Resource : Capacity[x] - used[x] >= Size[r][x]

(* Mutant of CanFitAnotherTask: one resource is enough. *)
CanFitSome(r) ==
  \E x \in Resource : Capacity[x] - used[x] >= Size[r][x]

CanFitAnotherTask(r) == Fits(r) /\ (exclusive => active = {})

TrackTask(r) ==
  /\ active' = active \union {r}
  /\ used' = [x \in Resource |-> used[x] + Size[r][x]]

(* Mutant of UntrackTask: the early return untracks what is untracked in   *)
(* the deferred function again.                                            *)
UntrackTwice(r) ==
  /\ active' = active \ {r}
  /\ used' = [x \in Resource |-> used[x] - 2 * Size[r][x]]

UntrackTask(r) ==
  /\ active' = active \ {r}
  /\ used' = [x \in Resource |-> used[x] - Size[r][x]]

(* Mutant of CanTake: the flag of the shutdown is not looked at. *)
CanTakeLate ==
  /\ numTasks # 0 /\ currentPQ # NoGroup
  /\ CanFitAnotherTask(Peek)

(* Only the reservation whose turn it is is considered. *)
CanTake ==
  /\ ~shuttingDown
  /\ numTasks # 0 /\ currentPQ # NoGroup
  /\ CanFitAnotherTask(Peek)

HandleTask ==
  /\ CanTake
  /\ Dequeue
  /\ TrackTask(Peek)

(* Start's loop, woken by the signal ... *)
WakeUp ==
  /\ signal
  /\ signal' = FALSE
  /\ \/ HandleTask
     \/ ~CanTake /\ UNCHANGED <<queueVars, runVars>>
  /\ UNCHANGED <<seen, exclusive, sending, stopVars>>

(* Mutant of Poll: the loop waits for the signal only. *)
PollNever == FALSE /\ UNCHANGED vars

(* ... and every queueCheckSleepInterval without one. *)
Poll ==
  /\ HandleTask
  /\ UNCHANGED <<seen, exclusive, sending, signal, stopVars>>

(* The end of the goroutine that handleTask started, however it ends. *)
Finish(r) ==
  /\ r \in active
  /\ UntrackTask(r)
  /\ UNCHANGED <<queueVars, seen, exclusive, sending, signal, stopVars>>

(* The context has a deadline, as that of every shutdown function.         *)
Shutdown ==
  /\ shutdown = "off"
  /\ shuttingDown' = TRUE
  /\ shutdown' = "waiting" /\ watcher' = "watching"
  /\ UNCHANGED <<queueVars, seen, exclusive, runVars, sending, signal, late>>

(* Shutdown's loop sees no active task: it cancels its context. *)
ShutdownDone ==
  /\ shutdown = "waiting" /\ active = {}
  /\ shutdown' = "done"
  /\ UNCHANGED <<queueVars, seen, exclusive, runVars, sending, signal,
                 shuttingDown, watcher, late>>

Deadline ==
  /\ shutdown = "waiting" /\ ~late
  /\ late' = TRUE
  /\ UNCHANGED <<queueVars, seen, exclusive, runVars, sending, signal,
                 shuttingDown, shutdown, watcher>>

(* The goroutine that waits for the context or for the delay.  The context *)
(* has the delay for its timeout, so that after the delay both are ready.  *)
Watch ==
  /\ watcher = "watching"
  /\ \/ (shutdown = "done" \/ late) /\ watcher' = "graceful"
     \/ late /\ watcher' = "hard"
  /\ UNCHANGED <<queueVars, seen, exclusive, runVars, sending, signal,
                 shuttingDown, shutdown, late>>

Next ==
  \/ \E r \in Reservation : EnqueueTaskReservation(r) \/ Finish(r)
  \/ SignalNewTask \/ WakeUp \/ Poll
  \/ Shutdown \/ ShutdownDone \/ Deadline \/ Watch

Spec == Init /\ [][Next]_vars

(* The goroutines run; a task ends when its root context is cancelled.     *)
LoopFairness ==
  /\ WF_vars(SignalNewTask) /\ WF_vars(WakeUp) /\ WF_vars(Poll)
  /\ WF_vars(ShutdownDone) /\ WF_vars(Watch)
  /\ \A r \in Reservation : WF_vars(watcher = "hard" /\ Finish(r))

StubbornSpec == Spec /\ LoopFairness

(* Tasks end by themselves, too: they have a timeout. *)
FairSpec ==
  StubbornSpec /\ \A r \in Reservation : WF_vars(Finish(r))

-----------------------------------------------------------------------------
(* Properties.                                                             *)

(* The tasks that run at the same time fit in the executor together, and   *)
(* with exclusive scheduling there is one at most.                         *)
NoOvercommit ==
  /\ \A x \in Resource :
       MapThenSumSet(LAMBDA r : Size[r][x], active) <= Capacity[x]
  /\ exclusive => Cardinality(active) <= 1

(* Once Shutdown has returned nothing runs any more: a reservation is not  *)
(* taken up between the last look at the active tasks and the end.         *)
QuietOnceDown == shutdown = "done" => active = {}

(* The number that decides whether there is anything to do is the number   *)
(* of reservations there are, through every insertion and removal.         *)
CountsAll == numTasks = MapThenSumSet(LAMBDA g : Len(fifo[g]), Group)

(* Round robin: with each reservation that is taken the turn of every      *)
(* other waiting group comes one closer, whatever leaves the list.         *)
TurnsPass ==
  [][numTasks' < numTasks =>
       \A g \in ToSet(pqs) \ {currentPQ} :
         TurnsBefore(g)' = TurnsBefore(g) - 1]_vars

(* Every reservation is taken up sooner or later, also a large one and     *)
(* also when one group's keep coming, unless the executor shuts down.      *)
Serves == \A r \in Reservation : Queued(r) ~> (~Queued(r) \/ shuttingDown)

(* Tasks that still run just before the time for a shutdown is over are    *)
(* cancelled.                                                              *)
StopsHard == (shutdown = "waiting" /\ late) ~> (watcher = "hard" \/ active = {})
=============================================================================
