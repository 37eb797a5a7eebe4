--------------------------- MODULE SchedulerProofs ---------------------------
(***************************************************************************)
(* Theorems about Scheduler, for any number of tasks, executors and slots. *)
(* First what holds whatever fails: types, and that no task comes back;    *)
(* then ClaimKept: while no connection breaks and no executor dies, a      *)
(* claim always has a handler that answers for it; and TasksAreListed:     *)
(* while one executor stays registered, and none crashes that has released *)
(* a task, no task is forgotten.  The runs sched_stuck and sched_lost show *)
(* what happens to a claim whose connection breaks, and to a task that no  *)
(* executor is there for.                                                  *)
(***************************************************************************)
EXTENDS Scheduler, TLAPS

(* The records of tasks, and what the operators of the store and of        *)
(* reEnqueueTask do to them, in the form the step lemmas use.              *)
QueueTypeOK == queue \in [Executor -> [Task -> 0 .. MaxQueued]]

LEMMA ReserveTyped ==
  ASSUME TypeOK, NEW t \in Task, NEW P \in SUBSET Reachable(t), Reserve(t, P)
  PROVE  QueueTypeOK'
<1> SUFFICES ASSUME NEW e \in Executor
             PROVE  (IF e \in P THEN [queue[e] EXCEPT ![t] = @ + 1] ELSE queue[e])
                      \in [Task -> 0 .. MaxQueued]
  BY DEF Reserve, QueueTypeOK
<1>1. queue[e] \in [Task -> 0 .. MaxQueued]
  BY DEF TypeOK
<1>2. e \in P => queue[e][t] + 1 \in 0 .. MaxQueued
  BY <1>1, ConstantsOK DEF Reachable, ConstantsOK
<1> QED
  BY <1>1, <1>2

LEMMA EnqueueTyped ==
  ASSUME TypeOK, NEW t \in Task, NEW n, EnqueueTaskReservations(t, n)
  PROVE  StoreTypeOK' /\ QueueTypeOK'
<1>1. StoreTypeOK'
  BY DEF TypeOK, StoreTypeOK, EnqueueTaskReservations
<1>2. QueueTypeOK'
  <2>1. CASE UNCHANGED queue
    BY <2>1 DEF TypeOK, QueueTypeOK
  <2>2. CASE \E P \in Probed(t, n) : Reserve(t, P)
    BY <2>2, ReserveTyped DEF Probed
  <2> QED
    BY <2>1, <2>2 DEF EnqueueTaskReservations
<1> QED
  BY <1>1, <1>2

LEMMA ReEnqueueTyped ==
  ASSUME TypeOK, NEW t \in Task, NEW n, NEW step, NEW next,
         ReEnqueueTask(t, n, step, next)
  PROVE  StoreTypeOK' /\ QueueTypeOK'
<1>1. CASE UNCHANGED <<storeVars, queue>>
  BY <1>1 DEF TypeOK, StoreTypeOK, storeVars, QueueTypeOK
<1>2. CASE DeleteTask(t) /\ UNCHANGED queue
  BY <1>2 DEF TypeOK, StoreTypeOK, DeleteTask, QueueTypeOK
<1>3. CASE ReleaseClaim(t) /\ UNCHANGED queue
  BY <1>3 DEF TypeOK, StoreTypeOK, ReleaseClaim, QueueTypeOK
<1>4. CASE EnqueueTaskReservations(t, n)
  BY <1>4, EnqueueTyped
<1> QED
  BY <1>1, <1>2, <1>3, <1>4 DEF ReEnqueueTask

LEMMA TypingInit == Init => TypeOK
<1> SUFFICES ASSUME Init PROVE TypeOK
  OBVIOUS
<1>1. NoReservation \in [Task -> 0 .. MaxQueued]
  BY ConstantsOK DEF NoReservation, ConstantsOK
<1> QED
  BY <1>1, ConstantsOK
  DEF Init, StoreInit, TypeOK, StoreTypeOK, ConstantsOK, ClientState, ServerState

(* What the handlers of a lease may do to the two halves of it.            *)
LEMMA ClientTyped ==
  ASSUME TypeOK, NEW l \in Lease, NEW state \in ClientState,
         ltask[l] # NoTask, ClientGoes(l, state), StoreTypeOK', QueueTypeOK'
  PROVE  TypeOK'
BY DEF TypeOK, ClientGoes, QueueTypeOK, drainVars

LEMMA ServerTyped ==
  ASSUME TypeOK, NEW l \in Lease, NEW state \in ServerState,
         ltask[l] # NoTask, ServerGoes(l, state), StoreTypeOK', QueueTypeOK'
  PROVE  TypeOK'
BY DEF TypeOK, ServerGoes, QueueTypeOK, drainVars

LEMMA StoreUnchanged ==
  ASSUME TypeOK, UNCHANGED <<storeVars, queue>>
  PROVE  StoreTypeOK' /\ QueueTypeOK'
BY DEF TypeOK, StoreTypeOK, storeVars, QueueTypeOK

LEMMA StoreOpTyped ==
  ASSUME TypeOK, NEW t \in Task, UNCHANGED queue,
         InsertTask(t) \/ DeleteTask(t) \/ AcquireClaim(t) \/ ReleaseClaim(t)
  PROVE  StoreTypeOK' /\ QueueTypeOK'
<1>1. QueueTypeOK'
  BY DEF TypeOK, QueueTypeOK
<1>2. CASE InsertTask(t)
  BY <1>1, <1>2 DEF TypeOK, StoreTypeOK, InsertTask
<1>3. CASE DeleteTask(t)
  BY <1>1, <1>3 DEF TypeOK, StoreTypeOK, DeleteTask
<1>4. CASE AcquireClaim(t)
  BY <1>1, <1>4 DEF TypeOK, StoreTypeOK, AcquireClaim
<1>5. CASE ReleaseClaim(t)
  BY <1>1, <1>5 DEF TypeOK, StoreTypeOK, ReleaseClaim
<1> QED
  BY <1>2, <1>3, <1>4, <1>5

(* A lease in use has a task. *)
LEMMA LeaseHasTask ==
  ASSUME TypeOK, NEW l \in Lease, client[l] # "idle" \/ server[l] # "none"
  PROVE  ltask[l] \in Task
BY DEF TypeOK

LEMMA TypingStep == TypeOK /\ [Next]_vars => TypeOK'
<1> SUFFICES ASSUME TypeOK, [Next]_vars PROVE TypeOK'
  OBVIOUS
<1> USE DEF drainVars, execVars, leaseVars
<1>1. CASE UNCHANGED vars
  BY <1>1 DEF vars, storeVars, TypeOK, StoreTypeOK
<1>2. ASSUME NEW t \in Task,
             ScheduleInsert(t) \/ ScheduleEnqueue(t) \/ CancelTask(t)
      PROVE  TypeOK'
  <2>1. CASE ScheduleInsert(t)
    BY <2>1, StoreOpTyped DEF ScheduleInsert, TypeOK, QueueTypeOK
  <2>2. CASE ScheduleEnqueue(t)
    BY <2>2, EnqueueTyped DEF ScheduleEnqueue, TypeOK, QueueTypeOK
  <2>3. CASE CancelTask(t)
    BY <2>3, StoreOpTyped DEF CancelTask, TypeOK, QueueTypeOK
  <2> QED
    BY <1>2, <2>1, <2>2, <2>3
<1>3. ASSUME NEW l \in Lease, ClientNext(l)
      PROVE  TypeOK'
  <2>1. CASE Claim(l) \/ CloseSend(l) \/ CloseRecv(l)
    <3>1. PICK state \in ClientState : ClientGoes(l, state)
      BY <2>1 DEF Claim, CloseSend, CloseRecv, ClientState, ReEnqueueStep
    <3>2. client[l] # "idle" /\ UNCHANGED <<storeVars, queue>>
      BY <2>1 DEF Claim, CloseSend, CloseRecv
    <3> QED
      BY <3>1, <3>2, LeaseHasTask, StoreUnchanged, ClientTyped, ConstantsOK
      DEF ConstantsOK
  <2>2. CASE LeaserReEnqueue(l)
    <3>1. ltask[l] \in Task /\ ltask[l] # NoTask
      BY <2>2, LeaseHasTask, ConstantsOK
      DEF LeaserReEnqueue, ReEnqueueStep, ConstantsOK
    <3>2. PICK next \in ReEnqueueStep \union {"done"} :
            /\ ReEnqueueTask(ltask[l], Probes, client[l], next)
            /\ ClientGoes(l, IF next = "done" THEN "idle" ELSE next)
      BY <2>2 DEF LeaserReEnqueue
    <3>3. (IF next = "done" THEN "idle" ELSE next) \in ClientState
      BY DEF ClientState
    <3> QED
      BY <3>1, <3>2, <3>3, ReEnqueueTyped, ClientTyped
  <2>3. ASSUME NEW t \in Task, HandleTask(l, t)
        PROVE  TypeOK'
    <3>1. Host(l) \in Executor
      BY DEF Lease, Host
    <3>2. QueueTypeOK'
      <4>1. queue[Host(l)] \in [Task -> 0 .. MaxQueued] /\ queue[Host(l)][t] > 0
        BY <2>3, <3>1 DEF HandleTask, TypeOK
      <4>2. [queue[Host(l)] EXCEPT ![t] = @ - 1] \in [Task -> 0 .. MaxQueued]
        BY <4>1, ConstantsOK DEF ConstantsOK
      <4>3. queue' = [queue EXCEPT ![Host(l)] = [queue[Host(l)] EXCEPT ![t] = @ - 1]]
        BY <2>3 DEF HandleTask
      <4> QED
        BY <3>1, <4>2, <4>3 DEF TypeOK, QueueTypeOK
    <3>3. t # NoTask
      BY ConstantsOK DEF ConstantsOK
    <3> QED
      BY <2>3, <3>2, <3>3 DEF HandleTask, TypeOK, StoreTypeOK, storeVars,
                              QueueTypeOK, ClientState, ServerState
  <2> QED
    BY <1>3, <2>1, <2>2, <2>3 DEF ClientNext
<1>4. ASSUME NEW l \in Lease, ServerNext(l)
      PROVE  TypeOK'
  <2>1. server[l] # "none"
    BY <1>4 DEF ServerNext, LeaseClaim, LeaseGrant, LeaseTaskGone,
           LeaseFinalize, LeaseRelease, LeaseBreak, HandlerReEnqueue, ReEnqueueStep
  <2>2. ltask[l] \in Task /\ ltask[l] # NoTask
    BY <2>1, LeaseHasTask, ConstantsOK DEF ConstantsOK
  <2>3. PICK state \in ServerState : ServerGoes(l, state)
    <3>1. CASE HandlerReEnqueue(l)
      <4>1. PICK next \in ReEnqueueStep \union {"done"} :
              ServerGoes(l, IF next = "done" THEN "failed" ELSE next)
        BY <3>1 DEF HandlerReEnqueue
      <4> QED
        BY <4>1 DEF ServerState
    <3>2. CASE ~HandlerReEnqueue(l)
      BY <1>4, <3>2 DEF ServerNext, LeaseClaim, LeaseGrant, LeaseTaskGone,
            LeaseFinalize, LeaseRelease, LeaseBreak, ServerState, ReEnqueueStep
    <3> QED
      BY <3>1, <3>2
  <2>4. StoreTypeOK' /\ QueueTypeOK'
    <3>1. CASE LeaseClaim(l)
      BY <2>2, <3>1, StoreOpTyped, StoreUnchanged DEF LeaseClaim
    <3>2. CASE LeaseGrant(l)
      <4>1. CASE UNCHANGED storeVars
        BY <3>2, <4>1, StoreUnchanged DEF LeaseGrant
      <4>2. CASE /\ CountAttempt(ltask[l])
                 /\ unclaimed' \in {unclaimed, unclaimed \ {ltask[l]}}
                 /\ UNCHANGED <<stored, claimed, queue>>
        BY <2>2, <4>2 DEF CountAttempt, TypeOK, StoreTypeOK, QueueTypeOK
      <4> QED
        BY <3>2, <4>1, <4>2 DEF LeaseGrant
    <3>3. CASE LeaseFinalize(l) \/ LeaseRelease(l)
      BY <2>2, <3>3, StoreOpTyped, StoreUnchanged DEF LeaseFinalize, LeaseRelease
    <3>4. CASE LeaseTaskGone(l) \/ LeaseBreak(l)
      BY <3>4, StoreUnchanged DEF LeaseTaskGone, LeaseBreak
    <3>5. CASE HandlerReEnqueue(l)
      BY <2>2, <3>5, ReEnqueueTyped DEF HandlerReEnqueue
    <3> QED
      BY <1>4, <3>1, <3>2, <3>3, <3>4, <3>5 DEF ServerNext
  <2> QED
    BY <2>2, <2>3, <2>4, ServerTyped
<1>5. ASSUME NEW l \in Lease, Disconnect(l)
      PROVE  TypeOK'
  BY <1>5 DEF Disconnect, TypeOK, StoreTypeOK, storeVars
<1>6. ASSUME NEW e \in Executor, ExecutorNext(e)
      PROVE  TypeOK'
  <2>0. NoReservation \in [Task -> 0 .. MaxQueued]
    BY ConstantsOK DEF NoReservation, ConstantsOK
  <2>1. CASE Shutdown(e) \/ RemoveConnectedExecutor(e)
    BY <2>1 DEF Shutdown, RemoveConnectedExecutor, TypeOK, StoreTypeOK, storeVars
  <2>2. CASE ReportShuttingDown(e)
    BY <2>2 DEF ReportShuttingDown, TypeOK, StoreTypeOK, storeVars
  <2>7. CASE Exit(e)
    BY <2>0, <2>7 DEF Exit, TypeOK, StoreTypeOK, storeVars
  <2>8. CASE DrainAbort(e)
    BY <2>0, <2>8 DEF DrainAbort, TypeOK, StoreTypeOK, storeVars
  <2>3. CASE Crash(e)
    BY <2>0, <2>3 DEF Crash, TypeOK, StoreTypeOK, storeVars, ClientState
  <2>4. ASSUME NEW t \in Task, DrainNext(e, t)
        PROVE  TypeOK'
    BY <2>4, ConstantsOK
    DEF DrainNext, TypeOK, StoreTypeOK, storeVars, ReEnqueueStep, ConstantsOK
  <2>5. CASE DrainReEnqueue(e)
    <3>1. dtask[e] \in Task /\ dtask[e] # NoTask
      BY <2>5 DEF DrainReEnqueue, TypeOK
    <3>2. StoreTypeOK' /\ QueueTypeOK'
      BY <2>5, <3>1, ReEnqueueTyped DEF DrainReEnqueue
    <3>3. PICK next \in ReEnqueueStep \union {"done"} :
            /\ dstep' = [dstep EXCEPT ![e] = IF next = "done" THEN "idle" ELSE next]
            /\ dtask' = [dtask EXCEPT ![e] = IF next = "done" THEN NoTask ELSE @]
      BY <2>5 DEF DrainReEnqueue
    <3>4. /\ dstep' \in [Executor -> {"idle"} \union ReEnqueueStep]
          /\ dtask' \in [Executor -> Task \union {NoTask}]
      BY <3>3 DEF TypeOK
    <3>5. \A d \in Executor : dtask'[d] = NoTask <=> dstep'[d] = "idle"
      BY <3>1, <3>3 DEF TypeOK, ReEnqueueStep
    <3> QED
      BY <2>5, <3>2, <3>4, <3>5 DEF DrainReEnqueue, TypeOK, QueueTypeOK
  <2>6. CASE AddConnectedExecutor(e)
    <3>1. QueueTypeOK'
      BY <2>6, ConstantsOK DEF AddConnectedExecutor, TypeOK, QueueTypeOK, ConstantsOK
    <3> QED
      BY <2>6, <3>1 DEF AddConnectedExecutor, TypeOK, StoreTypeOK, storeVars, QueueTypeOK
  <2> QED
    BY <1>6, <2>1, <2>2, <2>3, <2>4, <2>5, <2>6, <2>7, <2>8 DEF ExecutorNext
<1> QED
  BY <1>1, <1>2, <1>3, <1>4, <1>5, <1>6 DEF Next

(* Every variable keeps its type, and a re-enqueue in progress always has  *)
(* its task, whatever goes wrong.                                          *)
THEOREM TypeCorrect == Spec => []TypeOK
BY TypingInit, TypingStep, PTL DEF Spec

-----------------------------------------------------------------------------
(* A step on behalf of one task leaves the record, the place among the     *)
(* unclaimed tasks and the reservations of every other task alone.         *)
SameRecord(u) ==
  /\ stored'[u] = stored[u]
  /\ claimed'[u] = claimed[u]
  /\ attempts'[u] = attempts[u]

Undisturbed(u) ==
  /\ SameRecord(u)
  /\ u \in unclaimed' <=> u \in unclaimed
  /\ \A e \in Executor : queue'[e][u] = queue[e][u]

LEMMA ReserveFrame ==
  ASSUME TypeOK, NEW t \in Task, NEW u \in Task, u # t,
         NEW P, Reserve(t, P)
  PROVE  \A e \in Executor : queue'[e][u] = queue[e][u]
<1> SUFFICES ASSUME NEW e \in Executor
             PROVE  queue'[e][u] = queue[e][u]
  OBVIOUS
<1>1. queue'[e] = IF e \in P THEN [queue[e] EXCEPT ![t] = @ + 1] ELSE queue[e]
  BY DEF Reserve
<1>2. queue[e] \in [Task -> 0 .. MaxQueued]
  BY DEF TypeOK
<1> QED
  BY <1>1, <1>2

LEMMA EnqueueFrame ==
  ASSUME TypeOK, NEW t \in Task, NEW n, EnqueueTaskReservations(t, n),
         NEW u \in Task, u # t
  PROVE  Undisturbed(u)
BY ReserveFrame DEF EnqueueTaskReservations, Undisturbed, SameRecord

LEMMA StoreFrame ==
  ASSUME TypeOK, NEW t \in Task, UNCHANGED queue,
         \/ InsertTask(t) \/ DeleteTask(t) \/ AcquireClaim(t) \/ ReleaseClaim(t)
         \/ UNCHANGED storeVars,
         NEW u \in Task, u # t
  PROVE  Undisturbed(u)
<1>1. CASE InsertTask(t)
  BY <1>1 DEF TypeOK, StoreTypeOK, InsertTask, Undisturbed, SameRecord
<1>2. CASE DeleteTask(t)
  BY <1>2 DEF TypeOK, StoreTypeOK, DeleteTask, Undisturbed, SameRecord
<1>3. CASE AcquireClaim(t)
  BY <1>3 DEF TypeOK, StoreTypeOK, AcquireClaim, Undisturbed, SameRecord
<1>4. CASE ReleaseClaim(t)
  BY <1>4 DEF TypeOK, StoreTypeOK, ReleaseClaim, Undisturbed, SameRecord
<1>5. CASE UNCHANGED storeVars
  BY <1>5 DEF storeVars, Undisturbed, SameRecord
<1> QED
  BY <1>1, <1>2, <1>3, <1>4, <1>5

LEMMA ReEnqueueFrame ==
  ASSUME TypeOK, NEW t \in Task, NEW n, NEW step, NEW next,
         ReEnqueueTask(t, n, step, next),
         NEW u \in Task, u # t
  PROVE  Undisturbed(u)
<1>1. CASE EnqueueTaskReservations(t, n)
  BY <1>1, EnqueueFrame
<1>2. CASE ~EnqueueTaskReservations(t, n)
  BY <1>2, StoreFrame DEF ReEnqueueTask
<1> QED
  BY <1>1, <1>2

LEMMA LeaseGrantFrame ==
  ASSUME TypeOK, NEW l \in Lease, LeaseGrant(l), ltask[l] \in Task,
         NEW u \in Task, u # ltask[l]
  PROVE  Undisturbed(u)
BY DEF LeaseGrant, CountAttempt, TypeOK, StoreTypeOK, storeVars,
       Undisturbed, SameRecord

(* A step of a handler is on behalf of its lease's task, and goes from a   *)
(* state of the handler to another.                                        *)
LEMMA ServerFrame ==
  ASSUME TypeOK, NEW l \in Lease, ServerNext(l)
  PROVE  /\ ltask[l] \in Task
         /\ \E state \in ServerState : ServerGoes(l, state)
         /\ \A u \in Task : u # ltask[l] => Undisturbed(u)
<1>1. server[l] # "none"
  BY DEF ServerNext, LeaseClaim, LeaseGrant, LeaseTaskGone,
         LeaseFinalize, LeaseRelease, LeaseBreak, HandlerReEnqueue, ReEnqueueStep
<1>2. ltask[l] \in Task
  BY <1>1, LeaseHasTask
<1>3. \E state \in ServerState : ServerGoes(l, state)
  <2>1. CASE HandlerReEnqueue(l)
    <3>1. PICK next \in ReEnqueueStep \union {"done"} :
            ServerGoes(l, IF next = "done" THEN "failed" ELSE next)
      BY <2>1 DEF HandlerReEnqueue
    <3> QED
      BY <3>1 DEF ServerState
  <2>2. CASE ~HandlerReEnqueue(l)
    BY <2>2 DEF ServerNext, LeaseClaim, LeaseGrant, LeaseTaskGone,
          LeaseFinalize, LeaseRelease, LeaseBreak, ServerState, ReEnqueueStep
  <2> QED
    BY <2>1, <2>2
<1>4. ASSUME NEW u \in Task, u # ltask[l]
      PROVE  Undisturbed(u)
  <2>1. CASE LeaseGrant(l)
    BY <1>2, <1>4, <2>1, LeaseGrantFrame
  <2>2. CASE HandlerReEnqueue(l)
    BY <1>2, <1>4, <2>2, ReEnqueueFrame DEF HandlerReEnqueue
  <2>3. CASE LeaseClaim(l) \/ LeaseTaskGone(l) \/ LeaseFinalize(l)
               \/ LeaseRelease(l) \/ LeaseBreak(l)
    BY <1>2, <1>4, <2>3, StoreFrame
    DEF LeaseClaim, LeaseTaskGone, LeaseFinalize, LeaseRelease, LeaseBreak
  <2> QED
    BY <2>1, <2>2, <2>3 DEF ServerNext
<1> QED
  BY <1>2, <1>3, <1>4

-----------------------------------------------------------------------------
(* Nothing of a task exists before ScheduleTask: no record, no entry among *)
(* the unclaimed tasks, no reservation, no lease.  So a task that is gone  *)
(* from Redis never comes back under a lease that outlived it.             *)
Untouched(u) ==
  /\ ~stored[u] /\ ~claimed[u] /\ attempts[u] = 0 /\ u \notin unclaimed
  /\ \A e \in Executor : queue[e][u] = 0 /\ drain[e][u] = 0 /\ dtask[e] # u
  /\ \A l \in Lease : ltask[l] # u

Fresh == \A u \in Task : sched[u] = "new" => Untouched(u)

LEMMA FreshInit == Init => Fresh
BY ConstantsOK
DEF Init, StoreInit, Fresh, Untouched, NoReservation, ConstantsOK

LEMMA UntouchedStep ==
  ASSUME TypeOK, NEW u \in Task, Untouched(u), [Next]_vars, ~ScheduleInsert(u),
         sched[u] = "new"
  PROVE  Untouched(u)'
<1> USE DEF drainVars, execVars, leaseVars
<1>a. ASSUME Undisturbed(u), UNCHANGED <<drain, dtask, ltask>>
      PROVE  Untouched(u)'
  BY <1>a DEF Undisturbed, SameRecord, Untouched
<1>1. CASE UNCHANGED vars
  BY <1>1 DEF vars, storeVars, Untouched
<1>2. ASSUME NEW t \in Task,
             ScheduleInsert(t) \/ ScheduleEnqueue(t) \/ CancelTask(t)
      PROVE  Untouched(u)'
  <2>1. CASE ScheduleInsert(t)
    BY <1>a, <2>1, StoreFrame DEF ScheduleInsert
  <2>2. CASE ScheduleEnqueue(t)
    BY <1>a, <2>2, EnqueueFrame DEF ScheduleEnqueue
  <2>3. CASE CancelTask(t)
    BY <1>a, <2>3, StoreFrame DEF CancelTask, Exists, Untouched
  <2> QED
    BY <1>2, <2>1, <2>2, <2>3
<1>3. ASSUME NEW l \in Lease, ClientNext(l)
      PROVE  Untouched(u)'
  <2>1. CASE Claim(l) \/ CloseSend(l) \/ CloseRecv(l)
    BY <2>1 DEF Claim, CloseSend, CloseRecv, ClientGoes, storeVars, Untouched
  <2>2. CASE LeaserReEnqueue(l)
    <3>1. ltask[l] \in Task /\ ltask[l] # u
      BY <2>2, LeaseHasTask DEF LeaserReEnqueue, ReEnqueueStep, Untouched
    <3> QED
      BY <1>a, <2>2, <3>1, ReEnqueueFrame DEF LeaserReEnqueue, ClientGoes
  <2>3. ASSUME NEW t \in Task, HandleTask(l, t)
        PROVE  Untouched(u)'
    <3>1. Host(l) \in Executor
      BY DEF Lease, Host
    <3>2. t # u
      BY <2>3, <3>1, ConstantsOK DEF HandleTask, Untouched, TypeOK, ConstantsOK
    <3>3. \A e \in Executor : queue'[e][u] = queue[e][u]
      BY <2>3, <3>1, <3>2 DEF HandleTask, TypeOK
    <3>4. \A m \in Lease : ltask'[m] # u
      BY <2>3, <3>2 DEF HandleTask, TypeOK, Untouched
    <3> QED
      BY <2>3, <3>3, <3>4 DEF HandleTask, Untouched, storeVars
  <2> QED
    BY <1>3, <2>1, <2>2, <2>3 DEF ClientNext
<1>4. ASSUME NEW l \in Lease, ServerNext(l)
      PROVE  Untouched(u)'
  BY <1>4, <1>a, ServerFrame DEF ServerGoes, Untouched
<1>5. ASSUME NEW l \in Lease, Disconnect(l)
      PROVE  Untouched(u)'
  BY <1>5 DEF Disconnect, storeVars, Untouched
<1>6. ASSUME NEW e \in Executor, ExecutorNext(e)
      PROVE  Untouched(u)'
  <2>1. CASE Shutdown(e) \/ RemoveConnectedExecutor(e)
    BY <2>1 DEF Shutdown, RemoveConnectedExecutor, storeVars, Untouched
  <2>2. CASE ReportShuttingDown(e)
    BY <2>2 DEF ReportShuttingDown, TypeOK, storeVars, Untouched
  <2>3. CASE Exit(e)
    BY <2>3 DEF Exit, NoReservation, TypeOK, storeVars, Untouched
  <2>4. CASE Crash(e)
    BY <2>4 DEF Crash, NoReservation, TypeOK, storeVars, Untouched
  <2>5. CASE DrainAbort(e)
    BY <2>5, ConstantsOK
    DEF DrainAbort, NoReservation, TypeOK, storeVars, Untouched, ConstantsOK
  <2>6. ASSUME NEW t \in Task, DrainNext(e, t)
        PROVE  Untouched(u)'
    <3>1. t # u
      BY <2>6, ConstantsOK DEF DrainNext, Untouched, TypeOK, ConstantsOK
    <3>2. \A d \in Executor : drain'[d][u] = drain[d][u]
      BY <2>6, <3>1 DEF DrainNext, TypeOK
    <3> QED
      BY <2>6, <3>1, <3>2 DEF DrainNext, TypeOK, storeVars, Untouched
  <2>7. CASE DrainReEnqueue(e)
    <3>1. dtask[e] \in Task /\ dtask[e] # u
      BY <2>7 DEF DrainReEnqueue, TypeOK, Untouched
    <3>2. Undisturbed(u)
      BY <2>7, <3>1, ReEnqueueFrame DEF DrainReEnqueue
    <3>3. \A d \in Executor : dtask'[d] # u
      BY <2>7, ConstantsOK DEF DrainReEnqueue, TypeOK, Untouched, ConstantsOK
    <3> QED
      BY <2>7, <3>2, <3>3 DEF DrainReEnqueue, Undisturbed, SameRecord, Untouched
  <2>8. CASE AddConnectedExecutor(e)
    BY <2>8 DEF AddConnectedExecutor, TypeOK, storeVars, Untouched
  <2> QED
    BY <1>6, <2>1, <2>2, <2>3, <2>4, <2>5, <2>6, <2>7, <2>8 DEF ExecutorNext
<1> QED
  BY <1>1, <1>2, <1>3, <1>4, <1>5, <1>6 DEF Next

LEMMA SchedStep ==
  ASSUME TypeOK, [Next]_vars, NEW u \in Task
  PROVE  /\ sched'[u] = "new" => sched[u] = "new" /\ ~ScheduleInsert(u)
         /\ stored'[u] => stored[u] \/ ScheduleInsert(u)
<1> USE DEF drainVars, execVars, leaseVars
<1>1. CASE UNCHANGED vars
  <2>1. UNCHANGED <<sched, stored>>
    BY <1>1 DEF vars, storeVars
  <2>2. ScheduleInsert(u) => sched'[u] = "inserted"
    BY DEF ScheduleInsert, TypeOK
  <2> QED
    BY <2>1, <2>2
<1>2. ASSUME NEW t \in Task, ScheduleInsert(t)
      PROVE  /\ sched'[u] = "new" => sched[u] = "new" /\ ~ScheduleInsert(u)
             /\ stored'[u] => stored[u] \/ ScheduleInsert(u)
  BY <1>2 DEF ScheduleInsert, InsertTask, TypeOK, StoreTypeOK
<1>a. ScheduleInsert(u) => sched'[u] # "new"
  BY DEF ScheduleInsert, TypeOK
<1>3. ASSUME NEW t \in Task, ScheduleEnqueue(t)
      PROVE  /\ sched'[u] = "new" => sched[u] = "new"
             /\ stored'[u] => stored[u]
  BY <1>3 DEF ScheduleEnqueue, EnqueueTaskReservations, TypeOK
<1>4. ASSUME NEW t \in Task, CancelTask(t)
      PROVE  /\ sched'[u] = "new" => sched[u] = "new"
             /\ stored'[u] => stored[u]
  BY <1>4 DEF CancelTask, DeleteTask, TypeOK, StoreTypeOK
<1>b. ASSUME NEW t \in Task, NEW n, NEW step, NEW next,
             ReEnqueueTask(t, n, step, next)
      PROVE  stored'[u] => stored[u]
  BY <1>b DEF ReEnqueueTask, DeleteTask, ReleaseClaim, EnqueueTaskReservations,
              storeVars, TypeOK, StoreTypeOK
<1>5. ASSUME NEW l \in Lease, ClientNext(l)
      PROVE  sched' = sched /\ (stored'[u] => stored[u])
  <2>1. CASE Claim(l) \/ CloseSend(l) \/ CloseRecv(l)
    BY <2>1 DEF Claim, CloseSend, CloseRecv, ClientGoes, storeVars
  <2>2. CASE LeaserReEnqueue(l)
    BY <1>b, <2>2, LeaseHasTask DEF LeaserReEnqueue, ClientGoes, ReEnqueueStep
  <2>3. CASE \E t \in Task : HandleTask(l, t)
    BY <2>3 DEF HandleTask, storeVars
  <2> QED
    BY <1>5, <2>1, <2>2, <2>3 DEF ClientNext
<1>6. ASSUME NEW l \in Lease, ServerNext(l)
      PROVE  sched' = sched /\ (stored'[u] => stored[u])
  <2>1. sched' = sched /\ ltask[l] \in Task
    BY <1>6, ServerFrame DEF ServerGoes
  <2>2. CASE LeaseClaim(l)
    BY <2>1, <2>2 DEF LeaseClaim, AcquireClaim, storeVars
  <2>3. CASE LeaseGrant(l)
    BY <2>1, <2>3 DEF LeaseGrant, storeVars
  <2>4. CASE LeaseTaskGone(l) \/ LeaseBreak(l) \/ LeaseRelease(l)
    BY <2>1, <2>4 DEF LeaseTaskGone, LeaseBreak, LeaseRelease, ReleaseClaim, storeVars
  <2>5. CASE LeaseFinalize(l)
    BY <2>1, <2>5 DEF LeaseFinalize, DeleteTask, storeVars, TypeOK, StoreTypeOK
  <2>6. CASE HandlerReEnqueue(l)
    BY <1>b, <2>1, <2>6 DEF HandlerReEnqueue
  <2> QED
    BY <1>6, <2>1, <2>2, <2>3, <2>4, <2>5, <2>6 DEF ServerNext
<1>7. ASSUME NEW l \in Lease, Disconnect(l)
      PROVE  sched' = sched /\ (stored'[u] => stored[u])
  BY <1>7 DEF Disconnect, storeVars
<1>8. ASSUME NEW e \in Executor, ExecutorNext(e)
      PROVE  sched' = sched /\ (stored'[u] => stored[u])
  <2>1. CASE DrainReEnqueue(e)
    <3>1. dtask[e] \in Task
      BY <2>1 DEF DrainReEnqueue, TypeOK
    <3> QED
      BY <1>b, <2>1, <3>1 DEF DrainReEnqueue
  <2>2. CASE ~DrainReEnqueue(e)
    BY <1>8, <2>2 DEF ExecutorNext, Shutdown, ReportShuttingDown, Exit, Crash,
         DrainNext, DrainAbort, RemoveConnectedExecutor, AddConnectedExecutor, storeVars
  <2> QED
    BY <2>1, <2>2
<1> QED
  BY <1>a, <1>1, <1>2, <1>3, <1>4, <1>5, <1>6, <1>7, <1>8 DEF Next

LEMMA FreshStep == TypeOK /\ Fresh /\ [Next]_vars => Fresh'
<1> SUFFICES ASSUME TypeOK, Fresh, [Next]_vars, NEW u \in Task, sched'[u] = "new"
             PROVE  Untouched(u)'
  BY DEF Fresh
<1> QED
  BY SchedStep, UntouchedStep DEF Fresh

-----------------------------------------------------------------------------
(* reEnqueueTask, one step at a time, on the record of its task. *)
LEMMA ReEnqueueEffect ==
  ASSUME TypeOK, NEW t \in Task, NEW n, NEW step, NEW next,
         ReEnqueueTask(t, n, step, next)
  PROVE  \/ step = "read" /\ next = "done" /\ ~stored[t] /\ SameRecord(t)
         \/ /\ step = "read" /\ stored[t] /\ SameRecord(t)
            /\ next = IF attempts[t] >= MaxAttempts THEN "exhaust" ELSE "release"
         \/ step = "exhaust" /\ next = "done" /\ ~stored'[t]
         \/ /\ step = "release" /\ next = "probe"
            /\ stored'[t] = stored[t] /\ attempts'[t] = attempts[t]
            /\ ~claimed'[t]
         \/ step = "probe" /\ next = "done" /\ SameRecord(t)
<1>1. CASE step = "read"
  BY <1>1 DEF ReEnqueueTask, Readable, Exhausted, storeVars, SameRecord
<1>2. CASE step = "exhaust"
  BY <1>2 DEF ReEnqueueTask, DeleteTask, TypeOK, StoreTypeOK
<1>3. CASE step = "release"
  BY <1>3 DEF ReEnqueueTask, ReleaseClaim, TypeOK, StoreTypeOK
<1>4. CASE step = "probe"
  BY <1>4 DEF ReEnqueueTask, EnqueueTaskReservations, SameRecord
<1> QED
  BY <1>1, <1>2, <1>3, <1>4 DEF ReEnqueueTask


(* The steps of a LeaseTask handler on the record of its task.             *)
LEMMA ServerEffect ==
  ASSUME TypeOK, NEW l \in Lease, ServerNext(l), NEW t, t = ltask[l]
  PROVE  \/ /\ server[l] = "opened" /\ server'[l] = "claimed"
            /\ ~claimed[t] /\ claimed'[t]
            /\ stored'[t] = stored[t] /\ attempts'[t] = attempts[t]
         \/ /\ server[l] = "opened" /\ server'[l] = "failed"
            /\ broken[l] \/ SameRecord(t)
            /\ stored'[t] = stored[t] /\ attempts'[t] = attempts[t]
            /\ claimed'[t] = claimed[t] \/ ~claimed[t]
         \/ /\ server[l] = "claimed"
            /\ stored'[t] = stored[t] /\ claimed'[t] = claimed[t]
            /\ \/ /\ attempts'[t] = attempts[t] + 1
                  /\ \/ server'[l] = "held" /\ stored[t]
                     \/ server'[l] = "read" /\ (~stored[t] \/ broken[l])
               \/ /\ attempts'[t] = attempts[t]
                  /\ server'[l] = "failed" /\ broken[l]
         \/ /\ server[l] = "held" /\ server'[l] = "failed"
            /\ ~stored[t] /\ SameRecord(t)
         \/ /\ server[l] = "held" /\ server'[l] = "closed"
            /\ client[l] = "finalizing" /\ ~stored'[t]
         \/ /\ server[l] = "held" /\ server'[l] = "closed"
            /\ client[l] = "releasing"
            /\ stored'[t] = stored[t] /\ ~claimed'[t]
            /\ attempts'[t] = attempts[t]
         \/ /\ server[l] = "held" /\ server'[l] = "read" /\ SameRecord(t)
            /\ \/ client[l] \in {"finalizing", "releasing"}
                  /\ stored[t] /\ ~claimed[t]
               \/ broken[l]
               \/ "lapse" \in Faults
         \/ /\ server[l] = "read" /\ server'[l] = "failed"
            /\ ~stored[t] /\ SameRecord(t)
         \/ /\ server[l] = "read" /\ SameRecord(t)
            /\ server'[l] = IF attempts[t] >= MaxAttempts THEN "exhaust"
                                                          ELSE "release"
         \/ server[l] = "exhaust" /\ server'[l] = "failed" /\ ~stored'[t]
         \/ /\ server[l] = "release" /\ server'[l] = "probe"
            /\ stored'[t] = stored[t] /\ attempts'[t] = attempts[t]
            /\ ~claimed'[t]
         \/ server[l] = "probe" /\ server'[l] = "failed" /\ SameRecord(t)
<1>0. t \in Task /\ \A s \in ServerState : ServerGoes(l, s) => server'[l] = s
  BY ServerFrame DEF ServerGoes, TypeOK
<1> USE DEF ServerState
<1>a. /\ claimed \in [Task -> BOOLEAN]
      /\ attempts \in [Task -> Nat]
  BY DEF TypeOK, StoreTypeOK
<1>1. CASE LeaseClaim(l)
  <2>1. CASE /\ CanClaim(t) /\ AcquireClaim(t)
             /\ \/ ServerGoes(l, "claimed")
                \/ broken[l] /\ ServerGoes(l, "failed")
    <3>1. /\ ~claimed[t] /\ claimed'[t]
          /\ stored'[t] = stored[t] /\ attempts'[t] = attempts[t]
      BY <1>0, <1>a, <2>1 DEF CanClaim, AcquireClaim
    <3>2. \/ server'[l] = "claimed"
          \/ broken[l] /\ server'[l] = "failed"
      BY <1>0, <2>1
    <3> QED
      BY <1>1, <3>1, <3>2 DEF LeaseClaim
  <2>2. CASE /\ ~CanClaim(t) \/ broken[l]
             /\ UNCHANGED storeVars
             /\ ServerGoes(l, "failed")
    <3>1. SameRecord(t) /\ server'[l] = "failed"
      BY <1>0, <2>2 DEF storeVars, SameRecord
    <3> QED
      BY <1>1, <3>1 DEF LeaseClaim, SameRecord
  <2> QED
    BY <1>1, <2>1, <2>2 DEF LeaseClaim
<1>2. CASE LeaseGrant(l)
  <2>1. CASE /\ CountAttempt(t)
             /\ \/ stored[t] /\ ServerGoes(l, "held")
                \/ /\ ~stored[t] \/ broken[l]
                   /\ ServerGoes(l, "read")
             /\ UNCHANGED <<stored, claimed>>
    <3>1. attempts'[t] = attempts[t] + 1
      BY <1>0, <1>a, <2>1 DEF CountAttempt
    <3>2. \/ server'[l] = "held" /\ stored[t]
          \/ server'[l] = "read" /\ (~stored[t] \/ broken[l])
      BY <1>0, <2>1 DEF ReEnqueueStep
    <3> QED
      BY <1>2, <2>1, <3>1, <3>2 DEF LeaseGrant
  <2>2. CASE broken[l] /\ UNCHANGED storeVars /\ ServerGoes(l, "failed")
    <3>1. server'[l] = "failed"
      BY <1>0, <2>2
    <3> QED
      BY <1>2, <2>2, <3>1 DEF LeaseGrant, storeVars
  <2> QED
    BY <1>2, <2>1, <2>2 DEF LeaseGrant, Readable
<1>3. CASE LeaseTaskGone(l)
  BY <1>0, <1>3 DEF LeaseTaskGone, Readable, storeVars, SameRecord
<1>4. CASE LeaseFinalize(l)
  <2>1. CASE claimed[t] /\ DeleteTask(t) /\ ServerGoes(l, "closed")
    <3>1. ~stored'[t] /\ server'[l] = "closed"
      BY <1>0, <2>1 DEF DeleteTask, TypeOK, StoreTypeOK
    <3> QED
      BY <1>0, <1>4, <3>1 DEF LeaseFinalize
  <2>2. CASE ~claimed[t] /\ UNCHANGED storeVars /\ ServerGoes(l, "read")
    <3>1. SameRecord(t) /\ server'[l] = "read"
      BY <1>0, <2>2 DEF storeVars, SameRecord, ReEnqueueStep
    <3> QED
      BY <1>0, <1>4, <2>2, <3>1 DEF LeaseFinalize, Readable
  <2> QED
    BY <1>0, <1>4, <2>1, <2>2 DEF LeaseFinalize
<1>5. CASE LeaseRelease(l)
  <2>1. CASE claimed[t] /\ ReleaseClaim(t) /\ ServerGoes(l, "closed")
    <3>1. /\ stored'[t] = stored[t] /\ ~claimed'[t]
          /\ attempts'[t] = attempts[t] /\ server'[l] = "closed"
      BY <1>0, <1>a, <2>1 DEF ReleaseClaim
    <3> QED
      BY <1>0, <1>5, <3>1 DEF LeaseRelease
  <2>2. CASE ~claimed[t] /\ UNCHANGED storeVars /\ ServerGoes(l, "read")
    <3>1. SameRecord(t) /\ server'[l] = "read"
      BY <1>0, <2>2 DEF storeVars, SameRecord, ReEnqueueStep
    <3> QED
      BY <1>0, <1>5, <2>2, <3>1 DEF LeaseRelease, Readable
  <2> QED
    BY <1>0, <1>5, <2>1, <2>2 DEF LeaseRelease
<1>6. CASE LeaseBreak(l)
  BY <1>0, <1>6 DEF LeaseBreak, storeVars, SameRecord, ReEnqueueStep
<1>7. CASE HandlerReEnqueue(l)
  <2>1. PICK next \in ReEnqueueStep \union {"done"} :
          /\ ReEnqueueTask(t, Probes, server[l], next)
          /\ ServerGoes(l, IF next = "done" THEN "failed" ELSE next)
    BY <1>7 DEF HandlerReEnqueue
  <2>2. server'[l] = IF next = "done" THEN "failed" ELSE next
    BY <1>0, <2>1
  <2> QED
    BY <1>0, <2>1, <2>2, ReEnqueueEffect
<1> QED
  BY <1>1, <1>2, <1>3, <1>4, <1>5, <1>6, <1>7 DEF ServerNext

(* The steps of an executor on a lease, apart from opening it: they leave  *)
(* the handler alone, and change no record but through a re-enqueue.       *)
LEMMA ClientEffect ==
  ASSUME TypeOK, NEW l \in Lease,
         Claim(l) \/ CloseSend(l) \/ CloseRecv(l) \/ LeaserReEnqueue(l)
  PROVE  /\ UNCHANGED <<sched, ltask, server, broken, drain, dtask, dstep>>
         /\ \E state \in ClientState : client' = [client EXCEPT ![l] = state]
         /\ \A u \in Task : u # ltask[l] => SameRecord(u)
         /\ \/ UNCHANGED storeVars
            \/ /\ client[l] \in ReEnqueueStep
               /\ \E n, next : ReEnqueueTask(ltask[l], n, client[l], next)
<1> USE DEF drainVars
<1>1. CASE Claim(l) \/ CloseSend(l) \/ CloseRecv(l)
  <2>1. PICK state \in ClientState : ClientGoes(l, state)
    BY <1>1 DEF Claim, CloseSend, CloseRecv, ClientState, ReEnqueueStep
  <2>2. UNCHANGED storeVars
    BY <1>1 DEF Claim, CloseSend, CloseRecv
  <2> QED
    BY <2>1, <2>2 DEF ClientGoes, SameRecord, storeVars
<1>2. CASE LeaserReEnqueue(l)
  <2>1. ltask[l] \in Task
    BY <1>2, LeaseHasTask DEF LeaserReEnqueue, ReEnqueueStep
  <2>2. PICK next \in ReEnqueueStep \union {"done"} :
          /\ ReEnqueueTask(ltask[l], Probes, client[l], next)
          /\ ClientGoes(l, IF next = "done" THEN "idle" ELSE next)
    BY <1>2 DEF LeaserReEnqueue
  <2>3. \A u \in Task : u # ltask[l] => SameRecord(u)
    BY <2>1, <2>2, ReEnqueueFrame DEF Undisturbed
  <2>4. (IF next = "done" THEN "idle" ELSE next) \in ClientState
    BY DEF ClientState
  <2> QED
    BY <1>2, <2>2, <2>3, <2>4 DEF LeaserReEnqueue, ClientGoes
<1> QED
  BY <1>1, <1>2

-----------------------------------------------------------------------------
(* A claim has a keeper.                                                   *)

Connected == Faults \cap {"crash", "disconnect"} = {}

NoneBroken == \A l \in Lease : ~broken[l]

KeeperInv == TypeOK /\ Fresh /\ NoneBroken /\ ClaimHasKeeper

LEMMA NoneBrokenStep ==
  Connected /\ TypeOK /\ NoneBroken /\ [Next]_vars => NoneBroken'
<1> SUFFICES ASSUME Connected, TypeOK, NoneBroken, [Next]_vars
             PROVE  NoneBroken'
  OBVIOUS
<1>1. \/ broken' = broken
      \/ \E l \in Lease : broken' = [broken EXCEPT ![l] = FALSE]
  <2> USE DEF drainVars, execVars, leaseVars
  <2>1. CASE UNCHANGED vars
    BY <2>1 DEF vars
  <2>2. CASE \E t \in Task :
               ScheduleInsert(t) \/ ScheduleEnqueue(t) \/ CancelTask(t)
    BY <2>2 DEF ScheduleInsert, ScheduleEnqueue, CancelTask
  <2>3. ASSUME NEW l \in Lease, ClientNext(l)
        PROVE  \/ broken' = broken
               \/ broken' = [broken EXCEPT ![l] = FALSE]
    BY <2>3, ClientEffect DEF ClientNext, HandleTask
  <2>4. ASSUME NEW l \in Lease, ServerNext(l)
        PROVE  broken' = broken
    BY <2>4, ServerFrame DEF ServerGoes
  <2>5. ASSUME NEW e \in Executor, ExecutorNext(e)
        PROVE  broken' = broken
    BY <2>5 DEF Connected, ExecutorNext, Shutdown, ReportShuttingDown, Exit,
         Crash, DrainNext, DrainReEnqueue, DrainAbort,
         RemoveConnectedExecutor, AddConnectedExecutor
  <2> QED
    BY <2>1, <2>2, <2>3, <2>4, <2>5 DEF Next, Connected, Disconnect
<1> QED
  BY <1>1 DEF NoneBroken, TypeOK

LEMMA KeeperStep ==
  Connected /\ KeeperInv /\ [Next]_vars => ClaimHasKeeper'
<1> SUFFICES ASSUME Connected, KeeperInv, [Next]_vars,
                    NEW t \in Task, stored'[t], claimed'[t]
             PROVE  \E m \in Lease : ltask'[m] = t /\ Answerable(m)'
  BY DEF ClaimHasKeeper
<1> USE DEF KeeperInv
<1>a. ASSUME SameRecord(t),
             \A m \in Lease : Answerable(m) => ltask'[m] = ltask[m]
                                              /\ server'[m] = server[m]
      PROVE  \E m \in Lease : ltask'[m] = t /\ Answerable(m)'
  BY <1>a DEF SameRecord, ClaimHasKeeper, Answerable
<1> USE DEF drainVars, execVars, leaseVars
<1>1. CASE UNCHANGED vars
  BY <1>1, <1>a DEF vars, storeVars, SameRecord
<1>2. ASSUME NEW u \in Task, ScheduleInsert(u)
      PROVE  \E m \in Lease : ltask'[m] = t /\ Answerable(m)'
  <2>1. u # t
    BY <1>2 DEF ScheduleInsert, InsertTask, Fresh, Untouched
  <2> QED
    BY <1>2, <1>a, <2>1, StoreFrame DEF ScheduleInsert, Undisturbed
<1>3. ASSUME NEW u \in Task, ScheduleEnqueue(u)
      PROVE  \E m \in Lease : ltask'[m] = t /\ Answerable(m)'
  BY <1>3, <1>a DEF ScheduleEnqueue, EnqueueTaskReservations, SameRecord
<1>4. ASSUME NEW u \in Task, CancelTask(u)
      PROVE  \E m \in Lease : ltask'[m] = t /\ Answerable(m)'
  <2>1. u # t
    BY <1>4 DEF CancelTask, DeleteTask, TypeOK, StoreTypeOK
  <2> QED
    BY <1>4, <1>a, <2>1, StoreFrame DEF CancelTask, Undisturbed
<1>b. ASSUME NEW u \in Task, NEW n, NEW step, NEW next,
             ReEnqueueTask(u, n, step, next)
      PROVE  SameRecord(t)
  BY <1>b, ReEnqueueEffect, ReEnqueueFrame DEF Undisturbed
<1>5. ASSUME NEW l \in Lease, ClientNext(l)
      PROVE  \E m \in Lease : ltask'[m] = t /\ Answerable(m)'
  <2>1. ASSUME NEW u \in Task, HandleTask(l, u)
        PROVE  \E m \in Lease : ltask'[m] = t /\ Answerable(m)'
    <3>1. ~Answerable(l) /\ SameRecord(t)
      BY <2>1 DEF HandleTask, Answerable, storeVars, SameRecord
    <3>2. \A m \in Lease : m # l => ltask'[m] = ltask[m] /\ server'[m] = server[m]
      BY <2>1 DEF HandleTask, TypeOK
    <3> QED
      BY <1>a, <3>1, <3>2
  <2>2. CASE Claim(l) \/ CloseSend(l) \/ CloseRecv(l) \/ LeaserReEnqueue(l)
    <3>1. SameRecord(t)
      <4>1. CASE UNCHANGED storeVars
        BY <4>1 DEF storeVars, SameRecord
      <4>2. CASE ~UNCHANGED storeVars
        BY <1>b, <2>2, <4>2, ClientEffect, LeaseHasTask DEF ReEnqueueStep
      <4> QED
        BY <4>1, <4>2
    <3> QED
      BY <1>a, <2>2, <3>1, ClientEffect
  <2> QED
    BY <1>5, <2>1, <2>2 DEF ClientNext
<1>6. ASSUME NEW l \in Lease, ServerNext(l)
      PROVE  \E m \in Lease : ltask'[m] = t /\ Answerable(m)'
  <2>1. /\ ltask' = ltask /\ ltask[l] \in Task
        /\ \A m \in Lease : m # l => server'[m] = server[m]
    BY <1>6, ServerFrame DEF ServerGoes, TypeOK
  <2>2. CASE ltask[l] # t
    BY <1>6, <2>1, <2>2, ServerFrame
    DEF Undisturbed, SameRecord, ClaimHasKeeper, Answerable
  <2>3. CASE ltask[l] = t
    <3>1. ~broken[l]
      BY DEF NoneBroken
    <3>2. \/ server'[l] \in {"claimed", "held", "read", "release", "exhaust"}
          \/ server[l] \in {"opened", "probe"} /\ SameRecord(t)
      BY <1>6, <2>3, <3>1, ServerEffect DEF SameRecord
    <3> QED
      BY <2>1, <2>3, <3>2 DEF SameRecord, ClaimHasKeeper, Answerable
  <2> QED
    BY <2>2, <2>3
<1>7. ASSUME NEW e \in Executor, ExecutorNext(e)
      PROVE  \E m \in Lease : ltask'[m] = t /\ Answerable(m)'
  <2>1. SameRecord(t)
    <3>1. CASE DrainReEnqueue(e)
      BY <1>b, <3>1 DEF DrainReEnqueue, TypeOK
    <3>2. CASE ~DrainReEnqueue(e)
      BY <1>7, <3>2 DEF ExecutorNext, Shutdown, ReportShuttingDown, Exit, Crash,
           DrainNext, DrainAbort, RemoveConnectedExecutor, AddConnectedExecutor,
           storeVars, SameRecord
    <3> QED
      BY <3>1, <3>2
  <2>2. UNCHANGED <<ltask, server>>
    BY <1>7 DEF ExecutorNext, Shutdown, ReportShuttingDown, Exit, Crash, DrainNext,
         DrainReEnqueue, DrainAbort, RemoveConnectedExecutor, AddConnectedExecutor
  <2> QED
    BY <1>a, <2>1, <2>2
<1> QED
  BY <1>1, <1>2, <1>3, <1>4, <1>5, <1>6, <1>7 DEF Next, Connected, Disconnect

(* As long as no connection breaks and no executor dies, a claim in Redis  *)
(* always has a LeaseTask handler that answers for it, through releases,   *)
(* late pings, cancellations, and executors that leave.                    *)
THEOREM ClaimKept ==
  ASSUME Connected
  PROVE  Spec => []ClaimHasKeeper
<1>1. Init => KeeperInv
  BY TypingInit, FreshInit
  DEF Init, StoreInit, KeeperInv, NoneBroken, ClaimHasKeeper
<1>2. KeeperInv /\ [Next]_vars => KeeperInv'
  BY TypingStep, FreshStep, NoneBrokenStep, KeeperStep DEF KeeperInv
<1>3. KeeperInv => ClaimHasKeeper
  BY DEF KeeperInv
<1> QED
  BY <1>1, <1>2, <1>3, PTL DEF Spec

-----------------------------------------------------------------------------
(* An unclaimed task is on the list.                                       *)

(* Executors do not crash, or no run is released to be made again; and at  *)
(* least one executor stays registered.                                    *)
Steady == ~ {"crash", "retry"} \subseteq Faults /\ Unstable # Executor

StableStays ==
  \A e \in Executor \ Unstable : phase[e] = "up" /\ ~halting[e] /\ e \in connected

(* Lease l answers for its task, which is on no list: as the holder of the *)
(* claim, or because it is going to re-enqueue it.  The executor counts    *)
(* only where it is needed, after a release; elsewhere it may crash.       *)
Carries(l) ==
  \/ server[l] \in {"held"} \union ReEnqueueStep
  \/ /\ "retry" \in Faults
     /\ client[l] \in {"running", "finalizing", "releasing"} \union ReEnqueueStep

Listed ==
  \A t \in Task : stored[t] /\ sched[t] = "scheduled" /\ t \notin unclaimed =>
    \E l \in Lease : ltask[l] = t /\ Carries(l)

(* A handler closes the stream cleanly for an executor that asked for it,  *)
(* and when that was a finalize the task is gone.                          *)
ClosedCleanly ==
  \A l \in Lease : server[l] = "closed" =>
    /\ client[l] \notin {"claiming", "running"}
    /\ client[l] = "finalizing" => ~stored[ltask[l]]

ReleasesRetry == "retry" \notin Faults => \A l \in Lease : client[l] # "releasing"

ListInv ==
  TypeOK /\ Fresh /\ StableStays /\ ReleasesRetry /\ ClosedCleanly /\ Listed

LEMMA StableStep ==
  ASSUME Steady, TypeOK, StableStays, [Next]_vars
  PROVE  StableStays'
<1> SUFFICES ASSUME NEW d \in Executor, d \notin Unstable
             PROVE  phase'[d] = "up" /\ ~halting'[d] /\ d \in connected'
  BY DEF StableStays
<1> USE DEF drainVars, execVars, leaseVars
<1>0. phase[d] = "up" /\ ~halting[d] /\ d \in connected
  BY DEF StableStays
<1>a. ASSUME UNCHANGED <<phase, halting, connected>>
      PROVE  phase'[d] = "up" /\ ~halting'[d] /\ d \in connected'
  BY <1>0, <1>a
<1>1. CASE UNCHANGED vars
  BY <1>1, <1>a DEF vars
<1>2. CASE \E t \in Task : ScheduleInsert(t) \/ ScheduleEnqueue(t) \/ CancelTask(t)
  BY <1>2, <1>a DEF ScheduleInsert, ScheduleEnqueue, CancelTask
<1>3. ASSUME NEW l \in Lease, ClientNext(l)
      PROVE  UNCHANGED <<phase, halting, connected>>
  BY <1>3 DEF ClientNext, Claim, CloseSend, CloseRecv, LeaserReEnqueue, ClientGoes,
     HandleTask
<1>4. ASSUME NEW l \in Lease, ServerNext(l)
      PROVE  UNCHANGED <<phase, halting, connected>>
  BY <1>4, ServerFrame DEF ServerGoes
<1>5. ASSUME NEW l \in Lease, Disconnect(l)
      PROVE  UNCHANGED <<phase, halting, connected>>
  BY <1>5 DEF Disconnect
<1>6. ASSUME NEW e \in Executor, ExecutorNext(e)
      PROVE  phase'[d] = "up" /\ ~halting'[d] /\ d \in connected'
  <2>1. CASE Shutdown(e) \/ ReportShuttingDown(e)
    BY <1>0, <2>1 DEF Shutdown, ReportShuttingDown, TypeOK
  <2>2. CASE Exit(e)
    BY <1>0, <2>2 DEF Exit, TypeOK
  <2>3. CASE Crash(e)
    BY <1>0, <2>3 DEF Crash, TypeOK
  <2>4. CASE \/ \E t \in Task : DrainNext(e, t)
             \/ DrainReEnqueue(e) \/ DrainAbort(e)
    BY <1>a, <2>4 DEF DrainNext, DrainReEnqueue, DrainAbort
  <2>5. CASE RemoveConnectedExecutor(e)
    BY <1>0, <2>5 DEF RemoveConnectedExecutor
  <2>6. CASE AddConnectedExecutor(e)
    BY <1>0, <2>6 DEF AddConnectedExecutor, TypeOK
  <2> QED
    BY <1>6, <2>1, <2>2, <2>3, <2>4, <2>5, <2>6 DEF ExecutorNext
<1> QED
  BY <1>1, <1>2, <1>3, <1>4, <1>5, <1>6, <1>a DEF Next

LEMMA ReleasesStep ==
  ASSUME TypeOK, ReleasesRetry, [Next]_vars
  PROVE  ReleasesRetry'
<1> SUFFICES ASSUME "retry" \notin Faults, NEW m \in Lease
             PROVE  client'[m] # "releasing"
  BY DEF ReleasesRetry
<1>0. client[m] # "releasing"
  BY DEF ReleasesRetry
<1> USE DEF drainVars, execVars, leaseVars
<1>1. CASE UNCHANGED client
  BY <1>0, <1>1
<1>2. ASSUME NEW l \in Lease, ClientNext(l)
      PROVE  client'[m] # "releasing"
  BY <1>0, <1>2 DEF ClientNext, HandleTask, Claim, CloseSend, CloseRecv, LeaserReEnqueue,
     ClientGoes, ReEnqueueStep, TypeOK
<1>3. ASSUME NEW l \in Lease, ServerNext(l)
      PROVE  UNCHANGED client
  BY <1>3, ServerFrame DEF ServerGoes
<1>4. ASSUME NEW e \in Executor, ExecutorNext(e)
      PROVE  client'[m] # "releasing"
  BY <1>0, <1>4 DEF ExecutorNext, Shutdown, ReportShuttingDown, Exit, Crash, DrainNext,
     DrainReEnqueue, DrainAbort, RemoveConnectedExecutor, AddConnectedExecutor
<1>5. CASE \/ UNCHANGED vars
           \/ \E t \in Task : ScheduleInsert(t) \/ ScheduleEnqueue(t) \/ CancelTask(t)
           \/ \E l \in Lease : Disconnect(l)
  BY <1>0, <1>5 DEF vars, ScheduleInsert, ScheduleEnqueue, CancelTask, Disconnect
<1> QED
  BY <1>2, <1>0, <1>3, <1>4, <1>5 DEF Next

LEMMA ClosedStep ==
  ASSUME TypeOK, Fresh, ClosedCleanly, [Next]_vars
  PROVE  ClosedCleanly'
<1> SUFFICES ASSUME NEW m \in Lease, server'[m] = "closed"
             PROVE  /\ client'[m] \notin {"claiming", "running"}
                    /\ client'[m] = "finalizing" => ~stored'[ltask'[m]]
  BY DEF ClosedCleanly
<1> USE DEF drainVars, execVars, leaseVars
<1>0. server[m] = "closed" => /\ client[m] \notin {"claiming", "running"}
                              /\ client[m] = "finalizing" => ~stored[ltask[m]]
  BY DEF ClosedCleanly
<1>1. ASSUME server[m] = "closed", ~stored[ltask[m]] PROVE ~stored'[ltask[m]]
  <2>1. ltask[m] \in Task
    BY <1>1, LeaseHasTask
  <2>2. ~ScheduleInsert(ltask[m])
    BY <2>1 DEF ScheduleInsert, Fresh, Untouched
  <2> QED
    BY <1>1, <2>1, <2>2, SchedStep
<1>a. ASSUME server[m] = "closed", ltask'[m] = ltask[m],
             client'[m] = client[m] \/ client'[m] \in {"idle"} \union ReEnqueueStep
      PROVE  /\ client'[m] \notin {"claiming", "running"}
             /\ client'[m] = "finalizing" => ~stored'[ltask'[m]]
  BY <1>0, <1>1, <1>a DEF ReEnqueueStep
<1>2. ASSUME UNCHANGED <<client, server, ltask>>
      PROVE  /\ client'[m] \notin {"claiming", "running"}
             /\ client'[m] = "finalizing" => ~stored'[ltask'[m]]
  BY <1>2, <1>a
<1>3. CASE UNCHANGED vars
  BY <1>2, <1>3 DEF vars
<1>4. CASE \E t \in Task : ScheduleInsert(t) \/ ScheduleEnqueue(t) \/ CancelTask(t)
  BY <1>2, <1>4 DEF ScheduleInsert, ScheduleEnqueue, CancelTask
<1>5. ASSUME NEW l \in Lease, ClientNext(l)
      PROVE  /\ client'[m] \notin {"claiming", "running"}
             /\ client'[m] = "finalizing" => ~stored'[ltask'[m]]
  <2>1. CASE l # m
    <3>1. server'[m] = server[m] /\ client'[m] = client[m] /\ ltask'[m] = ltask[m]
      BY <1>5, <2>1, ClientEffect DEF ClientNext, HandleTask, TypeOK
    <3> QED
      BY <1>a, <3>1
  <2>2. CASE l = m
    <3>1. ~ \E t \in Task : HandleTask(l, t)
      BY <2>2 DEF HandleTask, TypeOK
    <3>2. Claim(m) \/ CloseSend(m) \/ CloseRecv(m) \/ LeaserReEnqueue(m)
      BY <1>5, <2>2, <3>1 DEF ClientNext
    <3>3. server[m] = "closed" /\ ltask'[m] = ltask[m]
      BY <3>2, ClientEffect
    <3>4. client'[m] \in {"idle"} \union ReEnqueueStep
      BY <1>0, <3>2, <3>3
      DEF Claim, CloseSend, CloseRecv, LeaserReEnqueue, ClientGoes, ReEnqueueStep, TypeOK
    <3> QED
      BY <1>a, <3>3, <3>4
  <2> QED
    BY <2>1, <2>2
<1>6. ASSUME NEW l \in Lease, ServerNext(l)
      PROVE  /\ client'[m] \notin {"claiming", "running"}
             /\ client'[m] = "finalizing" => ~stored'[ltask'[m]]
  <2>1. /\ UNCHANGED <<ltask, client>>
        /\ l # m => server'[m] = server[m]
    BY <1>6, ServerFrame DEF ServerGoes, TypeOK
  <2>2. CASE l # m
    BY <1>a, <2>1, <2>2
  <2>3. CASE l = m
    <3>1. (client[m] = "finalizing" /\ ~stored'[ltask[m]]) \/ client[m] = "releasing"
      BY <1>6, <2>3, ServerEffect
    <3> QED
      BY <2>1, <3>1
  <2> QED
    BY <2>2, <2>3
<1>7. ASSUME NEW l \in Lease, Disconnect(l)
      PROVE  UNCHANGED <<client, server, ltask>>
  BY <1>7 DEF Disconnect
<1>8. ASSUME NEW e \in Executor, ExecutorNext(e)
      PROVE  /\ client'[m] \notin {"claiming", "running"}
             /\ client'[m] = "finalizing" => ~stored'[ltask'[m]]
  <2>1. CASE Crash(e)
    BY <1>a, <2>1 DEF Crash
  <2>2. CASE ~Crash(e)
    BY <1>2, <1>8, <2>2 DEF ExecutorNext, Shutdown, ReportShuttingDown, Exit, DrainNext,
       DrainReEnqueue, DrainAbort, RemoveConnectedExecutor, AddConnectedExecutor
  <2> QED
    BY <2>1, <2>2
<1> QED
  BY <1>2, <1>3, <1>4, <1>5, <1>6, <1>7, <1>8 DEF Next

(* With a registered executor a re-enqueue that does not find the task     *)
(* gone puts it on the list.                                               *)
LEMMA EnqueueLists ==
  ASSUME Steady, StableStays, NEW t, NEW n, EnqueueTaskReservations(t, n)
  PROVE  unclaimed' = unclaimed \union {t}
<1>1. connected # {}
  BY ConstantsOK DEF Steady, StableStays, ConstantsOK
<1> QED
  BY <1>1 DEF EnqueueTaskReservations

LEMMA ReEnqueueLists ==
  ASSUME Steady, TypeOK, StableStays, NEW t \in Task, NEW n, NEW step, NEW next,
         ReEnqueueTask(t, n, step, next)
  PROVE  /\ unclaimed \subseteq unclaimed'
         /\ next = "done" => ~stored'[t] \/ t \in unclaimed'
         /\ next = "done" \/ next \in ReEnqueueStep
<1>1. CASE EnqueueTaskReservations(t, n) /\ next = "done"
  BY <1>1, EnqueueLists
<1>2. CASE UNCHANGED <<storeVars, queue>> /\ (next = "done" => ~stored[t])
           /\ (next = "done" \/ next \in ReEnqueueStep)
  BY <1>2 DEF storeVars
<1>3. CASE DeleteTask(t) /\ next = "done"
  BY <1>3 DEF DeleteTask, TypeOK, StoreTypeOK
<1>4. CASE ReleaseClaim(t) /\ next = "probe"
  BY <1>4 DEF ReleaseClaim, ReEnqueueStep
<1> QED
  BY <1>1, <1>2, <1>3, <1>4 DEF ReEnqueueTask, Readable, ReEnqueueStep

(* Only the handler that is handing a task out takes it off the list.      *)
LEMMA ServerLists ==
  ASSUME Steady, TypeOK, StableStays, NEW l \in Lease, ServerNext(l)
  PROVE  /\ server'[l] = "held" \/ unclaimed \subseteq unclaimed'
         /\ server[l] = "probe" => ltask[l] \in unclaimed'
<1>0. ltask[l] \in Task
  BY ServerFrame
<1>1. CASE HandlerReEnqueue(l)
  <2>1. PICK next \in ReEnqueueStep \union {"done"} :
          ReEnqueueTask(ltask[l], Probes, server[l], next)
    BY <1>1 DEF HandlerReEnqueue
  <2>2. server[l] = "probe" => EnqueueTaskReservations(ltask[l], Probes)
    BY <2>1 DEF ReEnqueueTask
  <2> QED
    BY <1>0, <2>1, <2>2, ReEnqueueLists, EnqueueLists
<1>2. CASE LeaseGrant(l)
  <2>1. server[l] = "claimed" /\ (unclaimed' = unclaimed \/ ServerGoes(l, "held"))
    BY <1>2 DEF LeaseGrant, storeVars
  <2> QED
    BY <2>1 DEF ServerGoes, TypeOK
<1>3. CASE \/ LeaseClaim(l) \/ LeaseTaskGone(l) \/ LeaseFinalize(l)
           \/ LeaseRelease(l) \/ LeaseBreak(l)
  <2>1. server[l] # "probe" /\ unclaimed' = unclaimed
    BY <1>3 DEF LeaseClaim, LeaseTaskGone, LeaseFinalize, LeaseRelease, LeaseBreak,
       AcquireClaim, DeleteTask, ReleaseClaim, storeVars
  <2> QED
    BY <2>1
<1> QED
  BY <1>1, <1>2, <1>3 DEF ServerNext

LEMMA ListedStep ==
  ASSUME Steady, ListInv, [Next]_vars
  PROVE  Listed'
<1> SUFFICES ASSUME NEW t \in Task,
                    stored'[t], sched'[t] = "scheduled", t \notin unclaimed'
             PROVE  \E m \in Lease : ltask'[m] = t /\ Carries(m)'
  BY DEF Listed
<1> DEFINE Kept == \E m \in Lease : ltask'[m] = t /\ Carries(m)'
<1> USE DEF drainVars, execVars, leaseVars
<1>0. TypeOK /\ Fresh /\ StableStays /\ ClosedCleanly /\ Listed
      /\ \A m \in Lease : client[m] = "releasing" => "retry" \in Faults
  BY DEF ListInv, ReleasesRetry
<1>1. stored[t]
  BY <1>0, SchedStep DEF ScheduleInsert, TypeOK
<1>a. ASSUME sched[t] = "scheduled", t \notin unclaimed,
             \A m \in Lease : ltask[m] = t /\ Carries(m) =>
               ltask'[m] = t /\ Carries(m)'
      PROVE  Kept
  BY <1>0, <1>1, <1>a DEF Listed
<1>2. ASSUME sched' = sched, unclaimed \subseteq unclaimed',
             UNCHANGED <<client, server, ltask>>
      PROVE  Kept
  BY <1>2, <1>a DEF Carries
<1>3. CASE UNCHANGED vars
  BY <1>2, <1>3 DEF vars, storeVars
<1>4. ASSUME NEW u \in Task, ScheduleInsert(u) \/ CancelTask(u)
      PROVE  Kept
  <2>1. /\ unclaimed' = unclaimed /\ sched'[t] = sched[t]
        /\ UNCHANGED <<client, server, ltask>>
    BY <1>0, <1>4 DEF ScheduleInsert, InsertTask, CancelTask, DeleteTask, TypeOK
  <2> QED
    BY <1>a, <2>1 DEF Carries
<1>5. ASSUME NEW u \in Task, ScheduleEnqueue(u)
      PROVE  Kept
  <2>1. /\ unclaimed' = unclaimed \union {u}
        /\ UNCHANGED <<client, server, ltask>>
    BY <1>0, <1>5, EnqueueLists DEF ScheduleEnqueue
  <2>2. u # t /\ sched'[t] = sched[t]
    BY <1>0, <1>5, <2>1 DEF ScheduleEnqueue, TypeOK
  <2> QED
    BY <1>a, <2>1, <2>2 DEF Carries
<1>6. ASSUME NEW l \in Lease, ClientNext(l)
      PROVE  Kept
  <2>1. ASSUME NEW u \in Task, HandleTask(l, u)
        PROVE  Kept
    <3>1. ~Carries(l)
      BY <2>1 DEF HandleTask, Carries, ReEnqueueStep
    <3>2. \A m \in Lease : m # l => /\ ltask'[m] = ltask[m]
                                    /\ server'[m] = server[m] /\ client'[m] = client[m]
      BY <1>0, <2>1 DEF HandleTask, TypeOK
    <3>3. sched' = sched /\ unclaimed' = unclaimed
      BY <2>1 DEF HandleTask, storeVars
    <3> QED
      BY <1>a, <3>1, <3>2, <3>3 DEF Carries
  <2>2. CASE Claim(l) \/ CloseSend(l) \/ CloseRecv(l)
    <3>1. /\ UNCHANGED <<sched, stored, unclaimed, server, ltask>>
          /\ \A m \in Lease : m # l => client'[m] = client[m]
      BY <1>0, <2>2
      DEF Claim, CloseSend, CloseRecv, ClientGoes, storeVars, TypeOK
    <3>2. \/ client[l] = "claiming" /\ client'[l] \in {"running", "idle"}
          \/ client'[l] \in {"finalizing", "releasing"} \union ReEnqueueStep
          \/ client[l] = "finalizing" /\ server[l] = "closed"
      BY <1>0, <2>2 DEF Claim, CloseSend, CloseRecv, ClientGoes, ReEnqueueStep, TypeOK
    <3>3. ltask[l] = t => ~(client[l] = "finalizing" /\ server[l] = "closed")
      BY <1>0, <1>1 DEF ClosedCleanly
    <3>4. ltask[l] = t /\ Carries(l) => Carries(l)'
      BY <3>1, <3>2, <3>3 DEF Carries, ReEnqueueStep
    <3>5. \A m \in Lease : ltask[m] = t /\ Carries(m) => ltask'[m] = t /\ Carries(m)'
      BY <3>1, <3>4 DEF Carries
    <3> QED
      BY <1>a, <3>1, <3>5
  <2>3. CASE LeaserReEnqueue(l)
    <3>1. client[l] \in ReEnqueueStep /\ ltask[l] \in Task
      BY <1>0, <2>3, LeaseHasTask DEF LeaserReEnqueue, ReEnqueueStep
    <3>2. PICK next \in ReEnqueueStep \union {"done"} :
            /\ ReEnqueueTask(ltask[l], Probes, client[l], next)
            /\ ClientGoes(l, IF next = "done" THEN "idle" ELSE next)
      BY <2>3 DEF LeaserReEnqueue
    <3>3. /\ UNCHANGED <<sched, server, ltask>>
          /\ client'[l] = IF next = "done" THEN "idle" ELSE next
          /\ \A m \in Lease : m # l => client'[m] = client[m]
      BY <1>0, <3>2 DEF ClientGoes, TypeOK
    <3>4. /\ unclaimed \subseteq unclaimed'
          /\ next = "done" => ~stored'[ltask[l]] \/ ltask[l] \in unclaimed'
      BY <1>0, <3>1, <3>2, ReEnqueueLists
    <3>5. ltask[l] = t /\ Carries(l) => Carries(l)'
      BY <3>2, <3>3, <3>4 DEF Carries
    <3>6. \A m \in Lease : ltask[m] = t /\ Carries(m) => ltask'[m] = t /\ Carries(m)'
      BY <3>3, <3>5 DEF Carries
    <3> QED
      BY <1>a, <3>3, <3>4, <3>6
  <2> QED
    BY <1>6, <2>1, <2>2, <2>3 DEF ClientNext
<1>7. ASSUME NEW l \in Lease, ServerNext(l)
      PROVE  Kept
  <2>1. /\ UNCHANGED <<sched, ltask, client>> /\ ltask[l] \in Task
        /\ \A m \in Lease : m # l => server'[m] = server[m]
        /\ \A u \in Task : u # ltask[l] => Undisturbed(u)
    BY <1>0, <1>7, ServerFrame DEF ServerGoes, TypeOK
  <2>2. CASE ltask[l] # t
    <3>1. t \notin unclaimed
      BY <2>1, <2>2 DEF Undisturbed
    <3>2. \A m \in Lease : ltask[m] = t /\ Carries(m) => ltask'[m] = t /\ Carries(m)'
      BY <2>1, <2>2 DEF Carries
    <3> QED
      BY <1>a, <2>1, <3>1, <3>2
  <2>3. CASE ltask[l] = t /\ Carries(l)'
    BY <2>1, <2>3
  <2>4. CASE ltask[l] = t /\ ~Carries(l)'
    <3>1. server'[l] \notin {"held"} \union ReEnqueueStep
          /\ client[l] # "releasing"
      BY <1>0, <2>1, <2>4 DEF Carries
    <3>2. t \notin unclaimed /\ server[l] # "probe"
      BY <1>0, <1>7, <2>4, <3>1, ServerLists
    <3>3. server[l] \in {"opened", "claimed"}
      BY <1>0, <1>1, <1>7, <2>4, <3>1, <3>2, ServerEffect DEF SameRecord, ReEnqueueStep
    <3>4. ~Carries(l)
      BY <2>1, <2>4, <3>3 DEF Carries, ReEnqueueStep
    <3>5. \A m \in Lease : ltask[m] = t /\ Carries(m) => ltask'[m] = t /\ Carries(m)'
      BY <2>1, <3>4 DEF Carries
    <3> QED
      BY <1>a, <2>1, <3>2, <3>5
  <2> QED
    BY <2>2, <2>3, <2>4
<1>8. ASSUME NEW l \in Lease, Disconnect(l)
      PROVE  Kept
  BY <1>2, <1>8 DEF Disconnect, storeVars
<1>9. ASSUME NEW e \in Executor, ExecutorNext(e)
      PROVE  Kept
  <2>1. CASE Crash(e)
    <3>1. "retry" \notin Faults
      BY <2>1 DEF Crash, Steady
    <3>2. UNCHANGED <<sched, unclaimed, server, ltask>>
      BY <2>1 DEF Crash, storeVars
    <3> QED
      BY <1>a, <3>1, <3>2 DEF Carries
  <2>2. CASE DrainReEnqueue(e)
    <3>1. dtask[e] \in Task
      BY <1>0, <2>2 DEF DrainReEnqueue, TypeOK
    <3>2. PICK next : ReEnqueueTask(dtask[e], 1, dstep[e], next)
      BY <2>2 DEF DrainReEnqueue
    <3>3. unclaimed \subseteq unclaimed'
      BY <1>0, <3>1, <3>2, ReEnqueueLists
    <3> QED
      BY <1>2, <2>2, <3>3 DEF DrainReEnqueue
  <2>3. CASE ~Crash(e) /\ ~DrainReEnqueue(e)
    BY <1>2, <1>9, <2>3 DEF ExecutorNext, Shutdown, ReportShuttingDown, Exit,
       DrainNext, DrainAbort, RemoveConnectedExecutor, AddConnectedExecutor, storeVars
  <2> QED
    BY <2>1, <2>2, <2>3
<1> QED
  BY <1>3, <1>4, <1>5, <1>6, <1>7, <1>8, <1>9 DEF Next

(* As long as one executor stays registered, an accepted task that nobody  *)
(* has claimed is on the list from which joining executors are served, or  *)
(* the holder of a lease is about to put it there (reEnqueueTask,          *)
(* enqueueTaskReservations): whatever drains are cut short, connections    *)
(* break, leases lapse, and executors crash or runs are released; but not  *)
(* both, since an executor that crashes between the answer to its release  *)
(* and its call of ReEnqueueTask leaves the task to nobody.                *)
THEOREM TasksAreListed ==
  ASSUME Steady
  PROVE  Spec => []NotForgotten
<1>1. Init => ListInv
  <2> SUFFICES ASSUME Init PROVE ListInv
    OBVIOUS
  <2>1. TypeOK /\ Fresh
    BY TypingInit, FreshInit
  <2>2. StableStays /\ ReleasesRetry /\ ClosedCleanly /\ Listed
    BY DEF Init, StoreInit, StableStays, ReleasesRetry, ClosedCleanly, Listed
  <2> QED
    BY <2>1, <2>2 DEF ListInv
<1>2. ListInv /\ [Next]_vars => ListInv'
  BY TypingStep, FreshStep, StableStep, ReleasesStep, ClosedStep, ListedStep DEF ListInv
<1>3. ListInv => NotForgotten
  BY DEF ListInv, Listed, NotForgotten, Carries, InHand, Answerable, ReEnqueueStep
<1> QED
  BY <1>1, <1>2, <1>3, PTL DEF Spec
=============================================================================
