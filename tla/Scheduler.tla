------------------------------ MODULE Scheduler ------------------------------
(***************************************************************************)
(* Task scheduling for remote execution: the scheduler servers (sharing    *)
(* one Redis), the executors with their queues of task reservations, and   *)
(* the LeaseTask streams between them.                                     *)
(*                                                                         *)
(* A task is put in Redis by ScheduleTask and "probed" to a few executors; *)
(* each of them queues a reservation.  An executor that gets to one opens  *)
(* a LeaseTask stream; the first to set the task's "claimed" field runs    *)
(* it, and at the end asks the server to finalize (delete) or to release   *)
(* it.  ReEnqueueTask sends the reservations out again; it is called by    *)
(* the server at the end of a stream that did not close cleanly, by the    *)
(* executor in the same case and after a release, and by the server for    *)
(* each reservation that a departing executor still had in its queue.      *)
(*                                                                         *)
(* A lease is a pair <<executor, slot>>: one of the goroutines an executor *)
(* has capacity for, with the server's half of its stream.                 *)
(***************************************************************************)
EXTENDS TaskStore, FiniteSets

CONSTANTS
  Executor,     \* the executors of one pool
  Slot,         \* how many tasks fit in an executor at once, as a set
  Probes,       \* probesPerTask: reservations sent out for a task
  MaxAttempts,  \* maxTaskAttemptCount
  JoinSample,   \* tasksToEnqueueOnJoin
  MaxQueued,    \* bound of the model: reservations for a task in one queue
  Faults,       \* what may go wrong, a subset of FaultKind
  Unstable,     \* executors that may crash, leave or lose their registration
  NoTask        \* stands for "no task"

(* "retry":      a run may end with a failure that is to be retried;        *)
(* "cancel":     CancelTask is called, or the key's TTL passes;             *)
(* "lapse":      a request on a lease comes later than the lease allows;    *)
(* "disconnect": the connection under a stream breaks, or is cut;           *)
(* "drain":      an executor is told to shut down;                          *)
(* "crash":      an executor process dies.                                  *)
FaultKind == {"retry", "cancel", "lapse", "disconnect", "drain", "crash"}

ASSUME ConstantsOK ==
  /\ NoTask \notin Task
  /\ Probes \in Nat \ {0} /\ MaxAttempts \in Nat \ {0}
  /\ JoinSample \in Nat \ {0} /\ MaxQueued \in Nat \ {0}
  /\ Faults \subseteq FaultKind
  /\ Unstable \subseteq Executor
  /\ IsFiniteSet(Executor) /\ IsFiniteSet(Task)

Lease == Executor \X Slot
Host(l) == l[1]

VARIABLES
  sched,        \* sched[t]: how far ScheduleTask has got with t
  phase,        \* phase[e]: the life of the executor process
  halting,      \* halting[e]: PriorityTaskScheduler.shuttingDown
  connected,    \* executors registered with a scheduler
  queue,        \* queue[e][t]: reservations for t waiting in e
  drain,        \* drain[e][t]: reservations e reported when it left, to do
  dtask, dstep, \* the task being re-enqueued because e left, and the step
  ltask,        \* ltask[l]: the task lease l is for
  client,       \* client[l]: the executor's half of the lease (TaskLeaser)
  server,       \* server[l]: the LeaseTask handler
  broken        \* broken[l]: the connection under the stream is gone

execVars  == <<phase, halting, connected, queue>>
drainVars == <<drain, dtask, dstep>>
leaseVars == <<ltask, client, server, broken>>
vars == <<storeVars, sched, execVars, drainVars, leaseVars>>

(* The steps of reEnqueueTask: about to read the task, to release the      *)
(* claim, to delete a task attempted too often, to send reservations.      *)
ReEnqueueStep == {"read", "release", "exhaust", "probe"}

ClientState == {"idle", "claiming", "running", "finalizing", "releasing"}
                 \union ReEnqueueStep

(* "held" is the handler's loop with its local variable claimed = true; a  *)
(* handler in a ReEnqueueStep has left the loop and runs its deferred      *)
(* function.  "closed" and "failed" are handlers that returned, with and   *)
(* without having answered ClosedCleanly.                                  *)
ServerState == {"none", "opened", "claimed", "held", "closed", "failed"}
                 \union ReEnqueueStep

TypeOK ==
  /\ StoreTypeOK
  /\ sched \in [Task -> {"new", "inserted", "scheduled", "rejected"}]
  /\ phase \in [Executor -> {"up", "left", "down"}]
  /\ halting \in [Executor -> BOOLEAN]
  /\ connected \in SUBSET Executor
  /\ queue \in [Executor -> [Task -> 0 .. MaxQueued]]
  /\ drain \in [Executor -> [Task -> 0 .. MaxQueued]]
  /\ dtask \in [Executor -> Task \union {NoTask}]
  /\ dstep \in [Executor -> {"idle"} \union ReEnqueueStep]
  /\ \A e \in Executor : dtask[e] = NoTask <=> dstep[e] = "idle"
  /\ ltask \in [Lease -> Task \union {NoTask}]
  /\ client \in [Lease -> ClientState]
  /\ server \in [Lease -> ServerState]
  /\ broken \in [Lease -> BOOLEAN]
  /\ \A l \in Lease :
       ltask[l] = NoTask => client[l] = "idle" /\ server[l] = "none"

NoReservation == [t \in Task |-> 0]

Init ==
  /\ StoreInit
  /\ sched = [t \in Task |-> "new"]
  /\ phase = [e \in Executor |-> "up"]
  /\ halting = [e \in Executor |-> FALSE]
  /\ connected = Executor
  /\ queue = [e \in Executor |-> NoReservation]
  /\ drain = [e \in Executor |-> NoReservation]
  /\ dtask = [e \in Executor |-> NoTask]
  /\ dstep = [e \in Executor |-> "idle"]
  /\ ltask = [l \in Lease |-> NoTask]
  /\ client = [l \in Lease |-> "idle"]
  /\ server = [l \in Lease |-> "none"]
  /\ broken = [l \in Lease |-> FALSE]

-----------------------------------------------------------------------------
(* Sending reservations.                                                   *)

AtMost(n, S) == IF Cardinality(S) < n THEN Cardinality(S) ELSE n

(* Executors that can be sent one more reservation for t. *)
Reachable(t) ==
  {e \in connected : phase[e] # "down" /\ queue[e][t] < MaxQueued}

(* The executors a round of n probes ends up with.  A registered executor  *)
(* that is already dead answers nothing, and waiting for it can use up the *)
(* caller's deadline, so that fewer probes than wanted get through.        *)
Probed(t, n) ==
  {P \in SUBSET Reachable(t) :
     \/ Cardinality(P) = AtMost(n, Reachable(t))
     \/ /\ Cardinality(P) < n
        /\ \E e \in connected : phase[e] = "down"}

Reserve(t, P) ==
  queue' = [e \in Executor |->
              IF e \in P THEN [queue[e] EXCEPT ![t] = @ + 1] ELSE queue[e]]

(* enqueueTaskReservations.  Without a registered executor NodeCount fails *)
(* and the task is not added to the unclaimed tasks either, unless the     *)
(* cached node list, up to 10 seconds old, still has one.                  *)
EnqueueTaskReservations(t, n) ==
  /\ \/ /\ connected = {}
        /\ UNCHANGED <<unclaimed, queue>>
     \/ /\ unclaimed' = unclaimed \union {t}
        /\ \E P \in Probed(t, n) : Reserve(t, P)
  /\ UNCHANGED <<stored, claimed, attempts>>

(* Mutant of Exhausted: one attempt too many. *)
ExhaustedLate(t) == attempts[t] > MaxAttempts

Exhausted(t) == attempts[t] >= MaxAttempts

(* The step of reEnqueueTask from `step' to `next'. *)
ReEnqueueTask(t, n, step, next) ==
  \/ /\ step = "read" /\ ~Readable(t) /\ next = "done"
     /\ UNCHANGED <<storeVars, queue>>
  \/ /\ step = "read" /\ Readable(t)
     /\ next = IF Exhausted(t) THEN "exhaust" ELSE "release"
     /\ UNCHANGED <<storeVars, queue>>
  \/ /\ step = "exhaust" /\ next = "done"
     /\ DeleteTask(t) /\ UNCHANGED queue
  \/ /\ step = "release" /\ next = "probe"
     /\ ReleaseClaim(t) /\ UNCHANGED queue
  \/ /\ step = "probe" /\ next = "done"
     /\ EnqueueTaskReservations(t, n)

-----------------------------------------------------------------------------
(* ScheduleTask and CancelTask.                                            *)

ScheduleInsert(t) ==
  /\ sched[t] = "new"
  /\ InsertTask(t)
  /\ sched' = [sched EXCEPT ![t] = "inserted"]
  /\ UNCHANGED <<execVars, drainVars, leaseVars>>

(* Without executors the caller is told that scheduling failed. *)
ScheduleEnqueue(t) ==
  /\ sched[t] = "inserted"
  /\ EnqueueTaskReservations(t, Probes)
  /\ sched' = [sched EXCEPT ![t] = IF t \in unclaimed' THEN "scheduled"
                                                       ELSE "rejected"]
  /\ UNCHANGED <<phase, halting, connected, drainVars, leaseVars>>

CancelTask(t) ==
  /\ "cancel" \in Faults
  /\ Exists(t)
  /\ DeleteTask(t)
  /\ UNCHANGED <<sched, execVars, drainVars, leaseVars>>

-----------------------------------------------------------------------------
(* The executor's half of a lease.                                         *)

(* PriorityTaskScheduler.handleTask: take a reservation if a task fits and *)
(* the executor is not shutting down, and open a LeaseTask stream for it.  *)
HandleTask(l, t) ==
  /\ phase[Host(l)] # "down" /\ ~halting[Host(l)]
  /\ queue[Host(l)][t] > 0
  /\ client[l] = "idle" /\ server[l] \in {"none", "closed", "failed"}
  /\ queue' = [queue EXCEPT ![Host(l)][t] = @ - 1]
  /\ ltask' = [ltask EXCEPT ![l] = t]
  /\ client' = [client EXCEPT ![l] = "claiming"]
  /\ server' = [server EXCEPT ![l] = "opened"]
  /\ broken' = [broken EXCEPT ![l] = FALSE]
  /\ UNCHANGED <<storeVars, sched, phase, halting, connected, drainVars>>

ClientGoes(l, state) ==
  /\ client' = [client EXCEPT ![l] = state]
  /\ UNCHANGED <<sched, phase, halting, connected, drainVars,
                 ltask, server, broken>>

(* TaskLeaser.Claim: the first answer on the stream carries the task. *)
Claim(l) ==
  /\ client[l] = "claiming"
  /\ \/ server[l] = "held" /\ ~broken[l] /\ ClientGoes(l, "running")
     \/ server[l] = "failed" /\ ClientGoes(l, "idle")
     \/ broken[l] /\ ClientGoes(l, "idle")
  /\ UNCHANGED <<storeVars, queue>>

(* runTask returns and TaskLeaser.Close sends finalize or release.  The    *)
(* run can also have been cut short because a keep-alive ping failed.      *)
CloseSend(l) ==
  /\ client[l] = "running"
  /\ \/ ClientGoes(l, "finalizing")
     \/ "retry" \in Faults /\ ClientGoes(l, "releasing")
  /\ UNCHANGED <<storeVars, queue>>

(* Mutant of CloseRecv: nothing is re-enqueued after a clean release. *)
CloseRecvForgets(l) ==
  /\ client[l] \in {"finalizing", "releasing"}
  /\ \/ server[l] = "closed" /\ ~broken[l] /\ ClientGoes(l, "idle")
     \/ (server[l] = "failed" \/ broken[l]) /\ ClientGoes(l, "read")
  /\ UNCHANGED <<storeVars, queue>>

(* TaskLeaser.Close after the stream's last response: the task is          *)
(* re-enqueued after a release, and when it did not close cleanly.         *)
CloseRecv(l) ==
  /\ client[l] \in {"finalizing", "releasing"}
  /\ \/ /\ server[l] = "closed" /\ ~broken[l]
        /\ ClientGoes(l, IF client[l] = "releasing" THEN "read" ELSE "idle")
     \/ /\ server[l] = "failed" \/ broken[l]
        /\ ClientGoes(l, "read")
  /\ UNCHANGED <<storeVars, queue>>

(* TaskLeaser.reEnqueueTask, the ReEnqueueTask RPC of TaskLeaser.Close. *)
LeaserReEnqueue(l) ==
  /\ client[l] \in ReEnqueueStep
  /\ \E next \in ReEnqueueStep \union {"done"} :
       /\ ReEnqueueTask(ltask[l], Probes, client[l], next)
       /\ ClientGoes(l, IF next = "done" THEN "idle" ELSE next)

-----------------------------------------------------------------------------
(* The server's half of a lease: the LeaseTask handler.                    *)

ServerGoes(l, state) ==
  /\ server' = [server EXCEPT ![l] = state]
  /\ UNCHANGED <<sched, phase, halting, connected, drainVars,
                 ltask, client, broken>>

(* First request, claimTask's script.  When the stream's context is        *)
(* cancelled meanwhile the handler may miss the answer of a script that    *)
(* did run: it returns, with its variable claimed still false.  A first    *)
(* request that comes too late ends the stream as a broken one does.       *)
LeaseClaim(l) ==
  /\ server[l] = "opened"
  /\ \/ /\ CanClaim(ltask[l])
        /\ AcquireClaim(ltask[l])
        /\ \/ ServerGoes(l, "claimed")
           \/ broken[l] /\ ServerGoes(l, "failed")
     \/ /\ ~CanClaim(ltask[l]) \/ broken[l]
        /\ UNCHANGED storeVars
        /\ ServerGoes(l, "failed")
  /\ UNCHANGED queue

(* First request, the rest: count the attempt, read the task, take it off  *)
(* the unclaimed tasks (if this server knows the pool), send the answer.   *)
(* On a broken connection the count can fail, which is an error of         *)
(* claimTask, and what follows fails with the claim already noted.         *)
LeaseGrant(l) ==
  /\ server[l] = "claimed"
  /\ \/ /\ CountAttempt(ltask[l])
        /\ \/ /\ Readable(ltask[l])
              /\ unclaimed' \in {unclaimed, unclaimed \ {ltask[l]}}
              /\ ServerGoes(l, "held")
           \/ /\ ~Readable(ltask[l]) \/ broken[l]
              /\ unclaimed' = unclaimed
              /\ ServerGoes(l, "read")
        /\ UNCHANGED <<stored, claimed>>
     \/ /\ broken[l]
        /\ UNCHANGED storeVars
        /\ ServerGoes(l, "failed")
  /\ UNCHANGED queue

(* A later request finds that the task is gone. *)
LeaseTaskGone(l) ==
  /\ server[l] = "held"
  /\ client[l] \in {"running", "finalizing", "releasing"}
  /\ ~Readable(ltask[l])
  /\ ServerGoes(l, "failed")
  /\ UNCHANGED <<storeVars, queue>>

(* Finalize deletes the task if it is claimed; otherwise the answer is not *)
(* ClosedCleanly and the deferred function re-enqueues.                    *)
LeaseFinalize(l) ==
  /\ server[l] = "held" /\ client[l] = "finalizing"
  /\ Readable(ltask[l])
  /\ \/ /\ claimed[ltask[l]]
        /\ DeleteTask(ltask[l])
        /\ ServerGoes(l, "closed")
     \/ /\ ~claimed[ltask[l]]
        /\ UNCHANGED storeVars
        /\ ServerGoes(l, "read")
  /\ UNCHANGED queue

LeaseRelease(l) ==
  /\ server[l] = "held" /\ client[l] = "releasing"
  /\ Readable(ltask[l])
  /\ \/ /\ claimed[ltask[l]]
        /\ ReleaseClaim(ltask[l])
        /\ ServerGoes(l, "closed")
     \/ /\ ~claimed[ltask[l]]
        /\ UNCHANGED storeVars
        /\ ServerGoes(l, "read")
  /\ UNCHANGED queue

(* Mutant of LeaseBreak: the handler returns without its deferred function. *)
LeaseBreakSilent(l) ==
  /\ server[l] = "held"
  /\ \/ broken[l]
     \/ "lapse" \in Faults /\ client[l] \in {"running", "finalizing", "releasing"}
  /\ ServerGoes(l, "failed")
  /\ UNCHANGED <<storeVars, queue>>

(* The loop ends with the task still claimed: Recv fails, or the request   *)
(* came more than leaseInterval + leaseGracePeriod after the last one.     *)
LeaseBreak(l) ==
  /\ server[l] = "held"
  /\ \/ broken[l]
     \/ "lapse" \in Faults /\ client[l] \in {"running", "finalizing", "releasing"}
  /\ ServerGoes(l, "read")
  /\ UNCHANGED <<storeVars, queue>>

(* The handler's deferred function. *)
HandlerReEnqueue(l) ==
  /\ server[l] \in ReEnqueueStep
  /\ \E next \in ReEnqueueStep \union {"done"} :
       /\ ReEnqueueTask(ltask[l], Probes, server[l], next)
       /\ ServerGoes(l, IF next = "done" THEN "failed" ELSE next)

-----------------------------------------------------------------------------
(* Executors that come and go, and connections that break.                 *)

(* PriorityTaskScheduler.Shutdown: no more reservations are taken up. *)
Shutdown(e) ==
  /\ "drain" \in Faults /\ e \in Unstable
  /\ phase[e] # "down" /\ ~halting[e]
  /\ halting' = [halting EXCEPT ![e] = TRUE]
  /\ UNCHANGED <<storeVars, sched, phase, connected, queue, drainVars, leaseVars>>

(* ShuttingDownRequest: the executor reports the reservations in its queue *)
(* and the scheduler removes it before it goes through them.  The health   *)
(* checker runs this concurrently with Shutdown.                           *)
ReportShuttingDown(e) ==
  /\ "drain" \in Faults /\ e \in Unstable
  /\ phase[e] = "up" /\ e \in connected
  /\ phase' = [phase EXCEPT ![e] = "left"]
  /\ connected' = connected \ {e}
  /\ drain' = [drain EXCEPT ![e] = queue[e]]
  /\ UNCHANGED <<storeVars, sched, halting, queue, dtask, dstep, leaseVars>>

(* executorHandle.Serve takes the next reported task. *)
DrainNext(e, t) ==
  /\ dstep[e] = "idle" /\ drain[e][t] > 0
  /\ drain' = [drain EXCEPT ![e][t] = @ - 1]
  /\ dtask' = [dtask EXCEPT ![e] = t]
  /\ dstep' = [dstep EXCEPT ![e] = "read"]
  /\ UNCHANGED <<storeVars, sched, execVars, leaseVars>>

(* ... and re-enqueues it, with one replica. *)
DrainReEnqueue(e) ==
  /\ dstep[e] # "idle"
  /\ \E next \in ReEnqueueStep \union {"done"} :
       /\ ReEnqueueTask(dtask[e], 1, dstep[e], next)
       /\ dstep' = [dstep EXCEPT ![e] = IF next = "done" THEN "idle" ELSE next]
       /\ dtask' = [dtask EXCEPT ![e] = IF next = "done" THEN NoTask ELSE @]
  /\ UNCHANGED <<sched, phase, halting, connected, drain, leaseVars>>

(* Mutant of DrainAbort: the task in progress is not forgotten. *)
DrainAbortHalf(e) ==
  /\ phase[e] = "down"
  /\ dstep[e] # "idle" \/ drain[e] # NoReservation
  /\ drain' = [drain EXCEPT ![e] = NoReservation]
  /\ dstep' = [dstep EXCEPT ![e] = "idle"]
  /\ UNCHANGED <<storeVars, sched, execVars, dtask, leaseVars>>

(* Serve uses the stream's context: once the process is gone its remaining *)
(* re-enqueues fail, and the one in progress stops where it is.            *)
DrainAbort(e) ==
  /\ phase[e] = "down"
  /\ dstep[e] # "idle" \/ drain[e] # NoReservation
  /\ drain' = [drain EXCEPT ![e] = NoReservation]
  /\ dtask' = [dtask EXCEPT ![e] = NoTask]
  /\ dstep' = [dstep EXCEPT ![e] = "idle"]
  /\ UNCHANGED <<storeVars, sched, execVars, leaseVars>>

(* The process ends once Shutdown saw no active task: nothing waits for    *)
(* the report of its reservations to be sent.                              *)
Exit(e) ==
  /\ phase[e] # "down" /\ halting[e]
  /\ \A l \in Lease : Host(l) = e => client[l] = "idle"
  /\ phase' = [phase EXCEPT ![e] = "down"]
  /\ queue' = [queue EXCEPT ![e] = NoReservation]
  /\ UNCHANGED <<storeVars, sched, halting, connected, drainVars, leaseVars>>

Crash(e) ==
  /\ "crash" \in Faults /\ e \in Unstable
  /\ phase[e] # "down"
  /\ phase' = [phase EXCEPT ![e] = "down"]
  /\ queue' = [queue EXCEPT ![e] = NoReservation]
  /\ client' = [l \in Lease |-> IF Host(l) = e THEN "idle" ELSE client[l]]
  /\ broken' = [l \in Lease |-> broken[l] \/ Host(l) = e]
  /\ UNCHANGED <<storeVars, sched, halting, connected, drainVars, ltask, server>>

(* The connection under a lease breaks.  To the server a hard stop is the  *)
(* same: an executor that still has active tasks just before the deadline  *)
(* of its shutdown cancels their root context, and with it their streams.  *)
Disconnect(l) ==
  /\ "disconnect" \in Faults
  /\ client[l] \in {"claiming", "running", "finalizing", "releasing"}
  /\ ~broken[l]
  /\ broken' = [broken EXCEPT ![l] = TRUE]
  /\ UNCHANGED <<storeVars, sched, execVars, drainVars, ltask, client, server>>

(* The scheduler sees the end of a registration stream. *)
RemoveConnectedExecutor(e) ==
  /\ e \in connected
  /\ \/ phase[e] = "down"
     \/ "disconnect" \in Faults /\ e \in Unstable
  /\ connected' = connected \ {e}
  /\ UNCHANGED <<storeVars, sched, phase, halting, queue, drainVars, leaseVars>>

(* An executor registers, again or as a new process: it is sent            *)
(* reservations for a sample of the unclaimed tasks.                       *)
AddConnectedExecutor(e) ==
  /\ e \notin connected /\ phase[e] # "left"
  /\ dstep[e] = "idle" /\ drain[e] = NoReservation
  /\ connected' = connected \union {e}
  /\ phase' = [phase EXCEPT ![e] = "up"]
  /\ halting' = [halting EXCEPT ![e] = @ /\ phase[e] = "up"]
  /\ \E S \in SUBSET unclaimed :
       /\ Cardinality(S) = AtMost(JoinSample, unclaimed)
       /\ queue' = [queue EXCEPT ![e] =
            [t \in Task |->
               IF t \in S /\ Readable(t) /\ queue[e][t] < MaxQueued
               THEN queue[e][t] + 1 ELSE queue[e][t]]]
  /\ UNCHANGED <<storeVars, sched, drainVars, leaseVars>>

-----------------------------------------------------------------------------
ClientNext(l) ==
  \/ Claim(l) \/ CloseSend(l) \/ CloseRecv(l) \/ LeaserReEnqueue(l)
  \/ \E t \in Task : HandleTask(l, t)

ServerNext(l) ==
  \/ LeaseClaim(l) \/ LeaseGrant(l) \/ LeaseTaskGone(l)
  \/ LeaseFinalize(l) \/ LeaseRelease(l) \/ LeaseBreak(l)
  \/ HandlerReEnqueue(l)

ExecutorNext(e) ==
  \/ Shutdown(e) \/ ReportShuttingDown(e) \/ Exit(e) \/ Crash(e)
  \/ \E t \in Task : DrainNext(e, t)
  \/ DrainReEnqueue(e) \/ DrainAbort(e)
  \/ RemoveConnectedExecutor(e) \/ AddConnectedExecutor(e)

Next ==
  \/ \E t \in Task : ScheduleInsert(t) \/ ScheduleEnqueue(t) \/ CancelTask(t)
  \/ \E l \in Lease : ClientNext(l) \/ ServerNext(l) \/ Disconnect(l)
  \/ \E e \in Executor : ExecutorNext(e)

Spec == Init /\ [][Next]_vars

(* Fairness.  A handler and a goroutine that can take a step take it; the  *)
(* executor's queue is polled every 10 ms.  Nothing is assumed of what may *)
(* go wrong, nor of executors joining.                                     *)
ClientFairness(l) ==
  /\ WF_vars(Claim(l) \/ CloseSend(l) \/ CloseRecv(l) \/ LeaserReEnqueue(l))
  /\ WF_vars(\E t \in Task : HandleTask(l, t))

ServerFairness(l) ==
  /\ WF_vars(LeaseClaim(l) \/ LeaseGrant(l) \/ HandlerReEnqueue(l))
  /\ WF_vars(LeaseTaskGone(l) \/ LeaseFinalize(l) \/ LeaseRelease(l))
  /\ WF_vars(broken[l] /\ LeaseBreak(l))

FairSpec ==
  /\ Spec
  /\ \A t \in Task : WF_vars(ScheduleEnqueue(t))
  /\ \A l \in Lease : ClientFairness(l) /\ ServerFairness(l)

-----------------------------------------------------------------------------
(* Properties.                                                             *)

(* Two executors never run the same task at the same time: a TaskLeaser    *)
(* that was handed the task is the only one until its run ends.            *)
ExclusiveRun ==
  \A l, m \in Lease :
    /\ client[l] = "running" /\ client[m] = "running"
    /\ ltask[l] = ltask[m]
    => l = m

(* A task is claimed at most maxTaskAttemptCount times before it is given  *)
(* up, however its leases end.                                             *)
AttemptsBounded ==
  \A t \in Task : stored[t] => attempts[t] <= MaxAttempts

(* A claim in Redis always has a LeaseTask handler that answers for it:    *)
(* one that still has to finalize, release or re-enqueue the task.  A      *)
(* claim nobody answers for blocks the task until its key expires.         *)
Answerable(l) == server[l] \in {"claimed", "held", "read", "release", "exhaust"}

ClaimHasKeeper ==
  \A t \in Task : stored[t] /\ claimed[t] =>
    \E l \in Lease : ltask[l] = t /\ Answerable(l)

(* An accepted task that nobody has claimed is on the list from which      *)
(* joining executors are served, or somebody is about to put it there.     *)
InHand(l) ==
  \/ Answerable(l) \/ server[l] = "probe"
  \/ client[l] \in {"running", "finalizing", "releasing"} \union ReEnqueueStep

NotForgotten ==
  \A t \in Task : stored[t] /\ ~claimed[t] /\ sched[t] = "scheduled" =>
    \/ t \in unclaimed
    \/ \E l \in Lease : ltask[l] = t /\ InHand(l)
    \/ \E e \in Executor : dtask[e] = t

(* A task as TaskLifecycle sees it.                                        *)
Status(t) ==
  CASE sched[t] = "new"                 -> "new"
    [] sched[t] # "new" /\ ~stored[t]  -> "gone"
    [] sched[t] # "new" /\ stored[t]   -> IF claimed[t] THEN "leased" ELSE "pending"

Tries(t) == IF stored[t] THEN attempts[t] ELSE 0

Granted(t) == \E l \in Lease : ltask[l] = t /\ server[l] = "held"

Runners(t) == {l \in Lease : ltask[l] = t /\ client[l] = "running"}

Lifecycle == INSTANCE TaskLifecycle WITH
  Worker  <- Lease,
  status  <- [t \in Task |-> Status(t)],
  tries   <- [t \in Task |-> Tries(t)],
  granted <- [t \in Task |-> Granted(t)],
  runner  <- [t \in Task |-> Runners(t)]

(* The protocol between Redis, handlers and executors implements the       *)
(* life of a task: in particular what is left of the key of a task that is *)
(* gone can be claimed but is never handed out, and a task goes back to    *)
(* the pending ones only when its executor no longer runs it.              *)
ImplementsLifecycle == Lifecycle!Spec

(* An accepted task is eventually finalized, given up or cancelled, even   *)
(* when leases lapse and runs fail: no release or re-enqueue loses it.     *)
Settles ==
  \A t \in Task : sched[t] = "scheduled" ~> ~stored[t]
=============================================================================
