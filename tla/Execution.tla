------------------------------ MODULE Execution ------------------------------
(***************************************************************************)
(* One remote execution, from the Execute call of a client to its answer.  *)
(* Executors lease its task from the scheduler, by the commands of         *)
(* TaskStore; whoever holds a lease publishes operations through a         *)
(* PublishOperation stream of its own; the handlers of these streams copy  *)
(* them to the Redis stream of the execution and to its row in the         *)
(* database, and the client follows the Redis stream.  Module Scheduler    *)
(* has the executors, queues and connections that are left out here: what  *)
(* remains of them is the number of reservations for the task, and that    *)
(* any lease may lapse and any call fail.                                  *)
(***************************************************************************)
EXTENDS Naturals, FiniteSets

CONSTANTS
  TaskID,       \* the ID of the execution and of its task
  Session,      \* the leases that may be open at once, each with its run
  Probes,       \* probesPerTask
  MaxAttempts,  \* maxTaskAttemptCount
  SkipCacheLookup, \* of the request
  MaxFaults,    \* bound: cancellations, and failures, but for those of ...
  MaxLostCalls  \* bound: ... ReEnqueueTask and MarkExecutionFailed

ASSUME ExecutionConstantsOK ==
  /\ Probes \in Nat \ {0}
  /\ MaxAttempts \in Nat \ {0}
  /\ SkipCacheLookup \in BOOLEAN
  /\ MaxFaults \in Nat /\ MaxLostCalls \in Nat

VARIABLES
  (* the scheduler *)
  stored, claimed, attempts, \* the key of the task, see TaskStore
  reservations, \* those of the task that executors have, or will be given
  calls,        \* calls[s]: the calls of reEnqueueTask that are at s
  lease,        \* lease[l]: the LeaseTask handler
  (* the executor's side of each lease *)
  exec,         \* exec[l]: where the executor is
  sent,         \* sent[l]: the operation on its way to the handler
  (* PublishOperation, the handler of each stream *)
  handler,      \* handler[l]: where it is, "broken" if the stream is
  lastOp,       \* lastOp[l]: the operation it received last
  (* the execution *)
  told,         \* the final operations in the Redis stream
  over,         \* the last operation of the Redis stream is final
  row,          \* stage and result in its row of the database
  uploaded,     \* the outputs of the action are in the CAS
  cached,       \* the result the action cache has for the action, if any
  marks,        \* marks[s][r]: MarkExecutionFailed calls at s, for r
  client,       \* the client: what it is doing
  due,          \* a final operation is where the client follows the stream
  faults,       \* failures and cancellations so far (bounded)
  (* history *)
  removed,      \* who removed the task, if it was there and is not
  exhausted,    \* MaxAttempts attempts were counted
  ahead,        \* a handler completed the row and failed before it published
  lost          \* what failed with nobody left to make it good

storeVars   == <<stored, claimed, attempts>>
schedVars   == <<storeVars, reservations, calls, removed, exhausted>>
runVars     == <<exec, sent>>
handlerVars == <<handler, lastOp, ahead>>
streamVars  == <<told, over, due>>
cacheVars   == <<uploaded, cached>>
vars == <<schedVars, lease, runVars, handlerVars, streamVars, row, cacheVars,
          marks, client, faults, lost>>

(* The unclaimed tasks of the pool count as reservations: they are given   *)
(* to executors that register.                                             *)
Store == INSTANCE TaskStore WITH Task <- {TaskID}, unclaimed <- reservations

(* The results of an action that was run: one to be shared, and one of a   *)
(* command that failed or must not be cached.                              *)
RunResult == {"shared", "private"}

Verdict == {"gave up", "cancelled"}

(* An operation, by the response it carries: before the final stage, which *)
(* is COMPLETED, there is none, and all stages are alike here.             *)
Final == RunResult \union Verdict \union {"cached", "failed"}

Operation == {"in progress"} \union Final

(* The steps of reEnqueueTask. *)
CallStep == {"reading", "deleting", "unclaiming", "enqueueing"}

(* What can be lost: a MarkExecutionFailed; the answer of a run that was   *)
(* finalized without one; the task, when its TTL passes; a re-enqueue; the *)
(* answer of a claim; a reservation.                                       *)
Loss == {"mark", "mute", "expired", "call", "claim", "reservation"}

Gone == removed # "no"

(* The executor has the stream open. *)
Streaming(l) == exec[l] \notin {"none", "granted", "finalizing", "releasing"}

TypeOK ==
  /\ stored \in [{TaskID} -> BOOLEAN] /\ claimed \in [{TaskID} -> BOOLEAN]
  /\ attempts \in [{TaskID} -> Nat]
  /\ reservations \in Nat
  /\ calls \in [CallStep -> Nat]
  /\ marks \in [{"publishing", "updating"} -> [Verdict -> Nat]]
  /\ removed \in {"no", "executor", "scheduler", "client", "expiry"}
  /\ lease \in [Session -> {"none", "claimed", "held"}]
  /\ exec \in [Session -> {"none", "granted", "checking", "looking up", "preparing", "running",
                 "uploading", "completing", "closing", "failing", "finalizing",
                 "releasing"}]
  /\ sent \in [Session -> Operation \union {"none"}]
  /\ handler \in [Session -> {"none", "receiving", "publishing", "updating", "broken"}]
  /\ lastOp \in [Session -> Final \union {"none"}]
  /\ told \subseteq Final
  /\ row \in Operation \union {"none"}
  /\ cached \in RunResult \union {"none"}
  /\ {over, due, uploaded, exhausted, ahead} \subseteq BOOLEAN
  /\ client \in {"none", "dispatching", "scheduling", "executing", "waiting",
                 "answered", "error"}
  /\ lost \subseteq Loss
  /\ faults \in 0..MaxFaults
  /\ \A l \in Session :
       /\ handler[l] \in {"none", "broken"} => sent[l] = "none" /\ lastOp[l] = "none"
       /\ Streaming(l) => handler[l] # "none"
       /\ lease[l] = "claimed" => exec[l] = "none" /\ handler[l] = "none"

Init ==
  /\ stored = [t \in {TaskID} |-> FALSE] /\ claimed = [t \in {TaskID} |-> FALSE]
  /\ attempts = [t \in {TaskID} |-> 0]
  /\ reservations = 0
  /\ calls = [s \in CallStep |-> 0]
  /\ marks = [s \in {"publishing", "updating"} |-> [r \in Verdict |-> 0]]
  /\ removed = "no"
  /\ lease = [l \in Session |-> "none"]
  /\ exec = [l \in Session |-> "none"]
  /\ sent = [l \in Session |-> "none"]
  /\ handler = [l \in Session |-> "none"]
  /\ lastOp = [l \in Session |-> "none"]
  /\ told = {}
  /\ row = "none"
  /\ cached \in {"none", "shared"}
  /\ uploaded = (cached # "none")
  /\ over = FALSE /\ due = FALSE /\ exhausted = FALSE /\ ahead = FALSE
  /\ client = "none"
  /\ lost = {}
  /\ faults = 0

(* What goes wrong by itself: a bound for TLC. *)
Fault == faults < MaxFaults /\ faults' = faults + 1

Loses(what) == lost' = lost \union {what}

(* A call that was to make something good is not made again if it fails.   *)
(* These failures have a bound of their own, so that they meet with others.*)
CallLost(what) ==
  /\ Cardinality(lost \intersect {"call", "mark"}) < MaxLostCalls
  /\ Loses(what) /\ UNCHANGED faults
-----------------------------------------------------------------------------
(* The client: Execute, which dispatches the task and waits, or            *)
(* WaitExecution after its connection broke.                               *)

ClientGoes(from, to) == client \in from /\ client' = to

(* execute, when the action's result is in the cache. *)
ExecuteCached ==
  /\ cached # "none" /\ ~SkipCacheLookup
  /\ ClientGoes({"none"}, "answered")
  /\ UNCHANGED <<schedVars, lease, runVars, handlerVars, streamVars, row,
                 cacheVars, marks, faults, lost>>

(* Otherwise, or when the lookup fails, the execution gets its row. *)
InsertExecution ==
  /\ IF SkipCacheLookup \/ cached = "none" THEN UNCHANGED faults ELSE Fault
  /\ ClientGoes({"none"}, "dispatching")
  /\ row' = "in progress"
  /\ UNCHANGED <<schedVars, lease, runVars, handlerVars, streamVars, cacheVars,
                 marks, lost>>

(* ScheduleTask stores the task ... *)
ScheduleTask ==
  /\ \/ ClientGoes({"dispatching"}, "scheduling") /\ Store!InsertTask(TaskID)
        /\ UNCHANGED faults
     \/ ClientGoes({"dispatching"}, "error") /\ Fault /\ UNCHANGED <<storeVars, reservations>>
  /\ UNCHANGED <<calls, removed, exhausted, lease, runVars, handlerVars, streamVars,
                 row, cacheVars, marks, lost>>

(* enqueueTaskReservations ends well with at least one reservation made. *)
Reserve == \E n \in 1..Probes : reservations' = reservations + n

(* ... and sends the reservations out.  If that fails the client has an    *)
(* error and the task is still there, with what reservations were made.    *)
ScheduleReservations ==
  /\ \/ ClientGoes({"scheduling"}, "executing") /\ Reserve /\ UNCHANGED faults
     \/ ClientGoes({"scheduling"}, "error") /\ Fault
        /\ (Reserve \/ UNCHANGED reservations)
  /\ UNCHANGED <<storeVars, calls, removed, exhausted, lease, runVars, handlerVars,
                 streamVars, row, cacheVars, marks, lost>>

(* Mutant of WaitExecution: the last operation is left out. *)
WaitAfterTail ==
  /\ ClientGoes({"executing", "waiting"}, "waiting")
  /\ due' = FALSE
  /\ UNCHANGED <<schedVars, lease, runVars, handlerVars, told, over, row, cacheVars,
                 marks, faults, lost>>

(* The connection breaks, of an Execute or of a WaitExecution.             *)
(* WaitExecution starts with the last operation that has been published.   *)
WaitExecution ==
  /\ ClientGoes({"executing", "waiting"}, "waiting")
  /\ due' = over
  /\ UNCHANGED <<schedVars, lease, runVars, handlerVars, told, over, row, cacheVars,
                 marks, faults, lost>>

(* waitExecution, up to the final operation. *)
ProcessOpUpdate ==
  /\ due
  /\ ClientGoes({"executing", "waiting"}, "answered")
  /\ UNCHANGED <<schedVars, lease, runVars, handlerVars, streamVars, row, cacheVars,
                 marks, faults, lost>>
-----------------------------------------------------------------------------
(* Leases.                                                                 *)

(* A session is over when its lease, its run and its handler are; it is    *)
(* used again, and which one of the free ones does not matter.             *)
Over(l) == lease[l] = "none" /\ exec[l] = "none" /\ handler[l] = "none"

Free(l) == Over(l) /\ l = CHOOSE k \in Session : Over(k)

(* PriorityTaskScheduler takes up a reservation and opens a LeaseTask      *)
(* stream; claimTask's script gives it the task ...                        *)
Claim(l) ==
  /\ reservations > 0 /\ reservations' = reservations - 1
  /\ Free(l)
  /\ Store!CanClaim(TaskID)
  /\ claimed' = [claimed EXCEPT ![TaskID] = TRUE]
  /\ lease' = [lease EXCEPT ![l] = "claimed"]
  /\ UNCHANGED <<stored, attempts, calls, removed, exhausted, runVars, handlerVars,
                 streamVars, row, cacheVars, marks, client, faults, lost>>

(* ... or does not. *)
ClaimRefused ==
  /\ reservations > 0 /\ reservations' = reservations - 1
  /\ ~Store!CanClaim(TaskID)
  /\ UNCHANGED <<storeVars, calls, removed, exhausted, lease, runVars, handlerVars,
                 streamVars, row, cacheVars, marks, client, faults, lost>>

(* The script has run but claimTask returns an error: the handler's        *)
(* variable claimed is still false, and nobody releases the claim.         *)
ClaimLost(l) ==
  /\ lease[l] = "claimed"
  /\ lease' = [lease EXCEPT ![l] = "none"]
  /\ Fault /\ Loses("claim")
  /\ UNCHANGED <<schedVars, runVars, handlerVars, streamVars, row, cacheVars, marks,
                 client>>

ReEnqueueCalled(n) == calls' = [calls EXCEPT !["reading"] = @ + n]

(* The rest of the first request: count the attempt, read the task, and    *)
(* answer the executor.  If the task is gone the handler returns, and its  *)
(* deferred function tries to re-enqueue it.                               *)
Grant(l) ==
  /\ lease[l] = "claimed"
  /\ Store!CountAttempt(TaskID)
  /\ IF Store!Readable(TaskID)
     THEN /\ lease' = [lease EXCEPT ![l] = "held"]
          /\ exec' = [exec EXCEPT ![l] = "granted"]
          /\ exhausted' = (exhausted \/ attempts'[TaskID] >= MaxAttempts)
          /\ UNCHANGED calls
     ELSE /\ lease' = [lease EXCEPT ![l] = "none"]
          /\ ReEnqueueCalled(1)
          /\ UNCHANGED <<exec, exhausted>>
  /\ UNCHANGED <<stored, claimed, reservations, removed, sent, handlerVars,
                 streamVars, row, cacheVars, marks, client, faults, lost>>

(* A ping or the last request finds the task gone. *)
LeaseTaskGone(l) ==
  /\ lease[l] = "held" /\ exec[l] # "none"
  /\ ~Store!Readable(TaskID)
  /\ lease' = [lease EXCEPT ![l] = "none"]
  /\ UNCHANGED <<schedVars, runVars, handlerVars, streamVars, row, cacheVars, marks,
                 client, faults, lost>>

(* The stream breaks or a ping is late, with the task claimed: the         *)
(* handler's deferred function re-enqueues it.                             *)
LeaseLapses(l) ==
  /\ lease[l] = "held"
  /\ lease' = [lease EXCEPT ![l] = "none"]
  /\ ReEnqueueCalled(1)
  /\ IF exec[l] = "none" THEN UNCHANGED faults ELSE Fault
  /\ UNCHANGED <<storeVars, reservations, removed, exhausted, runVars, handlerVars,
                 streamVars, row, cacheVars, marks, client, lost>>

Removes(by) == removed' = IF stored[TaskID] THEN by ELSE removed

(* LeaseTask with Finalize deletes the task if it is claimed, no matter by *)
(* whom.  If it is not, the handler's deferred function and the executor   *)
(* both call ReEnqueueTask.                                                *)
LeaseFinalize(l) ==
  /\ lease[l] = "held" /\ exec[l] = "finalizing"
  /\ Store!Readable(TaskID)
  /\ lease' = [lease EXCEPT ![l] = "none"]
  /\ exec' = [exec EXCEPT ![l] = "none"]
  /\ IF claimed[TaskID]
     THEN Store!DeleteTask(TaskID) /\ Removes("executor") /\ UNCHANGED calls
     ELSE ReEnqueueCalled(2) /\ UNCHANGED <<storeVars, reservations, removed>>
  /\ UNCHANGED <<exhausted, sent, handlerVars, streamVars, row, cacheVars,
                 marks, client, faults, lost>>

(* LeaseTask with Release takes the claim off at once; it is the executor  *)
(* that re-enqueues the task, after the answer (TaskLeaser.Close).         *)
LeaseRelease(l) ==
  /\ lease[l] = "held" /\ exec[l] = "releasing"
  /\ Store!Readable(TaskID)
  /\ lease' = [lease EXCEPT ![l] = "none"]
  /\ exec' = [exec EXCEPT ![l] = "none"]
  /\ Store!ReleaseClaim(TaskID)
  /\ ReEnqueueCalled(IF claimed[TaskID] THEN 1 ELSE 2)
  /\ UNCHANGED <<removed, exhausted, sent, handlerVars, streamVars, row,
                 cacheVars, marks, client, faults, lost>>

(* The stream is not there any more when the executor closes the lease. *)
CloseUnclean(l) ==
  /\ lease[l] = "none" /\ exec[l] \in {"finalizing", "releasing"}
  /\ exec' = [exec EXCEPT ![l] = "none"]
  /\ ReEnqueueCalled(1)
  /\ UNCHANGED <<storeVars, reservations, removed, exhausted, lease, sent,
                 handlerVars, streamVars, row, cacheVars, marks, client, faults, lost>>
-----------------------------------------------------------------------------
(* reEnqueueTask, called by executors and by the deferred functions of     *)
(* LeaseTask handlers; any number of calls may be under way.               *)

CallGoes(from, to) ==
  calls[from] > 0 /\ calls' = [calls EXCEPT ![from] = @ - 1, ![to] = @ + 1]

CallEnds(at) == calls[at] > 0 /\ calls' = [calls EXCEPT ![at] = @ - 1]

(* Nothing is done for a task that is not found. *)
ReadTask ==
  /\ IF ~Store!Readable(TaskID) THEN CallEnds("reading")
     ELSE IF attempts[TaskID] >= MaxAttempts THEN CallGoes("reading", "deleting")
     ELSE CallGoes("reading", "unclaiming")
  /\ UNCHANGED <<storeVars, reservations, removed, exhausted, lease, runVars,
                 handlerVars, streamVars, row, cacheVars, marks, client, faults, lost>>

MarkCalled(reason) == marks' = [marks EXCEPT !["publishing"][reason] = @ + 1]

(* deleteTask's answer, whether there was a task to delete, is not used. *)
DeleteExhausted ==
  /\ CallEnds("deleting")
  /\ Store!DeleteTask(TaskID) /\ Removes("scheduler")
  /\ MarkCalled("gave up")
  /\ UNCHANGED <<exhausted, lease, runVars, handlerVars, streamVars, row, cacheVars,
                 client, faults, lost>>

(* Whoever's claim it is. *)
UnclaimTask ==
  /\ CallGoes("unclaiming", "enqueueing")
  /\ Store!ReleaseClaim(TaskID)
  /\ UNCHANGED <<removed, exhausted, lease, runVars, handlerVars, streamVars, row,
                 cacheVars, marks, client, faults, lost>>

EnqueueTaskReservations ==
  /\ CallEnds("enqueueing")
  /\ Reserve
  /\ UNCHANGED <<storeVars, removed, exhausted, lease, runVars, handlerVars,
                 streamVars, row, cacheVars, marks, client, faults, lost>>

(* The call fails: there are no executors, Redis does not answer, the      *)
(* server dies; or the executor dies before it makes the call, and a task  *)
(* that it has released is left to nobody.  Nobody calls again.            *)
ReEnqueueFails ==
  /\ \E s \in CallStep : CallEnds(s)
  /\ CallLost("call")
  /\ UNCHANGED <<storeVars, reservations, removed, exhausted, lease, runVars,
                 handlerVars, streamVars, row, cacheVars, marks, client>>

(* An executor leaves, and the scheduler re-enqueues what it had reserved. *)
(* Module Scheduler has the race with its taking up a reservation itself.  *)
Drain ==
  /\ reservations > 0 /\ reservations' = reservations - 1
  /\ Fault
  /\ ReEnqueueCalled(1)
  /\ UNCHANGED <<storeVars, removed, exhausted, lease, runVars, handlerVars,
                 streamVars, row, cacheVars, marks, client, lost>>

(* An executor dies with a reservation, which nobody is given instead. *)
ReservationLost ==
  /\ reservations > 0 /\ reservations' = reservations - 1
  /\ Fault /\ Loses("reservation")
  /\ UNCHANGED <<storeVars, calls, removed, exhausted, lease, runVars, handlerVars,
                 streamVars, row, cacheVars, marks, client>>

(* Mutant of Cancel: the execution fails even if there is no task. *)
CancelAnyway ==
  /\ row # "none"
  /\ Fault
  /\ Store!DeleteTask(TaskID) /\ Removes("client")
  /\ MarkCalled("cancelled")
  /\ UNCHANGED <<calls, exhausted, lease, runVars, handlerVars, streamVars, row,
                 cacheVars, client, lost>>

(* Cancel goes through the executions that were not completed when it      *)
(* selected them, by now they may be; it fails those of which CancelTask   *)
(* deletes the key.  The key may also be one that claimTask has made again *)
(* after the task was gone.                                                *)
Cancel ==
  /\ row # "none"
  /\ Fault
  /\ Store!Exists(TaskID)
  /\ Store!DeleteTask(TaskID) /\ Removes("client")
  /\ MarkCalled("cancelled")
  /\ UNCHANGED <<calls, exhausted, lease, runVars, handlerVars, streamVars, row,
                 cacheVars, client, lost>>

(* The TTL of the key passes. *)
Expire ==
  /\ Store!Readable(TaskID)
  /\ Store!DeleteTask(TaskID) /\ Removes("expiry")
  /\ Fault /\ Loses("expired")
  /\ UNCHANGED <<calls, exhausted, lease, runVars, handlerVars, streamVars, row,
                 cacheVars, marks, client>>
-----------------------------------------------------------------------------
(* The database and MarkExecutionFailed.                                   *)

(* updateExecution leaves a completed row alone. *)
UpdateExecution(op) == row' = IF row \in Final THEN row ELSE op

(* Publish on the Redis stream: everyone who follows it will get there. *)
PublishOp(op) ==
  /\ told' = told \union ({op} \intersect Final)
  /\ over' = (op \in Final)
  /\ due' = (due \/ op \in Final)

MarkPublish(reason) ==
  /\ marks["publishing"][reason] > 0
  /\ PublishOp(reason)
  /\ marks' = [marks EXCEPT !["publishing"][reason] = @ - 1,
                            !["updating"][reason] = @ + 1]
  /\ UNCHANGED <<schedVars, lease, runVars, handlerVars, row, cacheVars, client,
                 faults, lost>>

(* Mutant of MarkUpdate: the row is written before the stream. *)
MarkUpdateEarly(reason) ==
  /\ \E s \in {"publishing", "updating"} : marks[s][reason] > 0
  /\ UpdateExecution(reason)
  /\ UNCHANGED <<schedVars, lease, runVars, handlerVars, streamVars, cacheVars,
                 marks, client, faults, lost>>

MarkUpdate(reason) ==
  /\ marks["updating"][reason] > 0
  /\ UpdateExecution(reason)
  /\ marks' = [marks EXCEPT !["updating"][reason] = @ - 1]
  /\ UNCHANGED <<schedVars, lease, runVars, handlerVars, streamVars, cacheVars,
                 client, faults, lost>>

(* An error, or the death of the server.  Nobody calls again. *)
MarkFails(reason) ==
  /\ \E s \in {"publishing", "updating"} :
       marks[s][reason] > 0 /\ marks' = [marks EXCEPT ![s][reason] = @ - 1]
  /\ CallLost("mark")
  /\ UNCHANGED <<schedVars, lease, runVars, handlerVars, streamVars, row, cacheVars,
                 client>>
-----------------------------------------------------------------------------
(* PublishOperation.                                                       *)

Receive(l) ==
  /\ handler[l] = "receiving" /\ sent[l] \in Final
  /\ sent' = [sent EXCEPT ![l] = "none"]
  /\ lastOp' = [lastOp EXCEPT ![l] = sent[l]]
  /\ handler' = [handler EXCEPT ![l] = "publishing"]
  /\ UNCHANGED <<schedVars, lease, exec, ahead, streamVars, row, cacheVars, marks,
                 client, faults, lost>>

(* An operation before the final stage: it is received and published in    *)
(* one step, since it is nothing to the row while lastOp is kept.          *)
PublishProgress(l) ==
  /\ handler[l] = "receiving" /\ sent[l] = "in progress"
  /\ sent' = [sent EXCEPT ![l] = "none"]
  /\ PublishOp(sent[l])
  /\ UNCHANGED <<schedVars, lease, exec, handlerVars, row, cacheVars, marks, client,
                 faults, lost>>

(* Mutant of Publish: the final operation is left to the periodic write. *)
PublishOnly(l) ==
  /\ handler[l] = "publishing"
  /\ PublishOp(lastOp[l])
  /\ handler' = [handler EXCEPT ![l] = "receiving"]
  /\ UNCHANGED <<schedVars, lease, runVars, lastOp, ahead, row, cacheVars, marks,
                 client, faults, lost>>

Publish(l) ==
  /\ handler[l] = "publishing"
  /\ PublishOp(lastOp[l])
  /\ handler' = [handler EXCEPT ![l] =
                   IF lastOp[l] \in Final THEN "updating" ELSE "receiving"]
  /\ UNCHANGED <<schedVars, lease, runVars, lastOp, ahead, row, cacheVars, marks,
                 client, faults, lost>>

Update(l) ==
  /\ handler[l] = "updating"
  /\ UpdateExecution(lastOp[l])
  /\ handler' = [handler EXCEPT ![l] = "receiving"]
  /\ UNCHANGED <<schedVars, lease, runVars, lastOp, ahead, streamVars, cacheVars,
                 marks, client, faults, lost>>

Handling(l) == handler[l] \in {"receiving", "publishing", "updating"}

(* The periodic write, which takes the last operation received, published  *)
(* or not.                                                                 *)
FlushWrite(l) ==
  /\ Handling(l) /\ lastOp[l] # "none"
  /\ UpdateExecution(lastOp[l])
  /\ UNCHANGED <<schedVars, lease, runVars, handlerVars, streamVars, cacheVars, marks,
                 client, faults, lost>>

(* Mutant of HandlerEnds: its last operation is taken for the next one's. *)
HandlerEndsHalf(l, as) ==
  /\ handler' = [handler EXCEPT ![l] = as]
  /\ sent' = [sent EXCEPT ![l] = "none"]
  /\ ahead' = ahead
  /\ UNCHANGED <<schedVars, lease, exec, lastOp, streamVars, row, cacheVars,
                 marks, client, lost>>

HandlerEnds(l, as) ==
  /\ handler' = [handler EXCEPT ![l] = as]
  /\ sent' = [sent EXCEPT ![l] = "none"]
  /\ lastOp' = [lastOp EXCEPT ![l] = "none"]
  /\ ahead' = (ahead \/ (handler[l] = "publishing" /\ lastOp[l] \in Final /\ row = lastOp[l]))
  /\ UNCHANGED <<schedVars, lease, exec, streamVars, row, cacheVars, marks,
                 client, lost>>

(* The executor is gone, and with it the context of the stream, and maybe  *)
(* what it sent last.                                                      *)
RecvFails(l) ==
  /\ Handling(l) /\ ~Streaming(l)
  /\ HandlerEnds(l, "none") /\ UNCHANGED faults

(* Redis or the database fails, the server dies, or the stream breaks. *)
HandlerFails(l) ==
  /\ Handling(l) /\ Streaming(l)
  /\ HandlerEnds(l, "broken") /\ Fault
-----------------------------------------------------------------------------
(* The executor: runTask and ExecuteTaskAndStreamResults.                  *)

Goes(l, from, to) == exec[l] = from /\ exec' = [exec EXCEPT ![l] = to]

(* Send an operation and go on.  The error of a stream that broke comes    *)
(* now, and the attempt is to be made again, or when the stream is closed. *)
(* One operation at a time is on its way: another would wait in gRPC, and  *)
(* the steps that could be taken ahead of it do not look at the stream.    *)
SendAndGo(l, op, from, to) ==
  IF handler[l] # "broken"
  THEN /\ Goes(l, from, to)
       /\ sent[l] = "none" /\ sent' = [sent EXCEPT ![l] = op]
  ELSE (Goes(l, from, to) \/ Goes(l, from, "failing")) /\ UNCHANGED sent

(* The lease is there, and the stream opens. *)
Start(l) ==
  /\ Goes(l, "granted", IF SkipCacheLookup THEN "preparing" ELSE "checking")
  /\ handler[l] = "none" /\ handler' = [handler EXCEPT ![l] = "receiving"]
  /\ UNCHANGED <<schedVars, lease, sent, lastOp, ahead, streamVars, row,
                 cacheVars, marks, client, faults, lost>>

(* The stream does not open. *)
StartFails(l) ==
  /\ Goes(l, "granted", "releasing")
  /\ Fault
  /\ UNCHANGED <<schedVars, lease, sent, handlerVars, streamVars, row,
                 cacheVars, marks, client, lost>>

(* The task cannot be read, or the executor has no client of the execution *)
(* service or of the cache: it is finalized with nothing published.        *)
Refuse(l) ==
  /\ Goes(l, "granted", "finalizing")
  /\ Fault /\ Loses("mute")
  /\ UNCHANGED <<schedVars, lease, sent, handlerVars, streamVars, row,
                 cacheVars, marks, client>>

CheckCache(l) ==
  /\ SendAndGo(l, "in progress", "checking", "looking up")
  /\ UNCHANGED <<schedVars, lease, handlerVars, streamVars, row, cacheVars,
                 marks, client, faults, lost>>

(* An error is as good as a miss. *)
GetActionResult(l) ==
  /\ \/ cached # "none" /\ SendAndGo(l, "cached", "looking up", "closing")
        /\ UNCHANGED faults
     \/ Goes(l, "looking up", "preparing") /\ UNCHANGED sent
        /\ IF cached = "none" THEN UNCHANGED faults ELSE Fault
  /\ UNCHANGED <<schedVars, lease, handlerVars, streamVars, row, cacheVars,
                 marks, client, lost>>

(* The runner and the inputs are there. *)
Prepare(l) ==
  /\ SendAndGo(l, "in progress", "preparing", "running")
  /\ UNCHANGED <<schedVars, lease, handlerVars, streamVars, row, cacheVars,
                 marks, client, faults, lost>>

(* While the command runs, an update now and then. *)
Progress(l) ==
  /\ SendAndGo(l, "in progress", "running", "running")
  /\ UNCHANGED <<schedVars, lease, handlerVars, streamVars, row, cacheVars,
                 marks, client, faults, lost>>

Run(l) ==
  /\ Goes(l, "running", "uploading")
  /\ UNCHANGED <<schedVars, lease, sent, handlerVars, streamVars, row, cacheVars,
                 marks, client, faults, lost>>

UploadOutputs(l) ==
  /\ Goes(l, "uploading", "completing")
  /\ uploaded' = TRUE
  /\ UNCHANGED <<schedVars, lease, sent, handlerVars, streamVars, row, cached, marks,
                 client, faults, lost>>

(* UploadActionResult, and the final operation.  A result not to be shared *)
(* goes under a digest of the invocation's own.                            *)
Complete(l) ==
  /\ \E res \in RunResult :
       /\ cached' = IF res = "shared" THEN res ELSE cached
       /\ SendAndGo(l, res, "completing", "closing")
  /\ UNCHANGED <<schedVars, lease, handlerVars, streamVars, row, uploaded, marks,
                 client, faults, lost>>

(* finishWithErrFn: the attempt is to be made again.  If it is Bazel that  *)
(* has to act, as when inputs are missing, the error is published first;   *)
(* but PublishOperationDone returns it, and retry is true all the same.    *)
Fails(l) ==
  /\ exec[l] \in {"preparing", "running", "uploading", "completing"}
  /\ Goes(l, exec[l], "failing")
  /\ Fault
  /\ \/ UNCHANGED sent
     \/ /\ exec[l] = "preparing" /\ handler[l] # "broken"
        /\ sent[l] = "none" /\ sent' = [sent EXCEPT ![l] = "failed"]
  /\ UNCHANGED <<schedVars, lease, handlerVars, streamVars, row, cacheVars, marks,
                 client, lost>>

(* Mutant of CloseAndRecv: the handler's error is not looked at. *)
CloseOnly(l) ==
  /\ handler[l] = "broken" \/ (handler[l] = "receiving" /\ sent[l] = "none")
  /\ \/ Goes(l, "closing", "finalizing")
     \/ Goes(l, "failing", "releasing")
  /\ handler' = [handler EXCEPT ![l] = "none"]
  /\ lastOp' = [lastOp EXCEPT ![l] = "none"]
  /\ UNCHANGED <<schedVars, lease, sent, ahead, streamVars, row, cacheVars,
                 marks, client, faults, lost>>

(* runTask: the handler has answered, or the stream is broken; the attempt *)
(* counts as done only if the handler got to the end of the stream.        *)
CloseAndRecv(l) ==
  /\ handler[l] = "broken" \/ (handler[l] = "receiving" /\ sent[l] = "none")
  /\ \/ Goes(l, "closing", IF handler[l] = "broken" THEN "releasing" ELSE "finalizing")
     \/ Goes(l, "failing", "releasing")
  /\ handler' = [handler EXCEPT ![l] = "none"]
  /\ lastOp' = [lastOp EXCEPT ![l] = "none"]
  /\ UNCHANGED <<schedVars, lease, sent, ahead, streamVars, row, cacheVars,
                 marks, client, faults, lost>>

(* The run stops at once. *)
StopsAtOnce(l, to) ==
  /\ exec' = [exec EXCEPT ![l] = to]
  /\ handler' = [handler EXCEPT ![l] = IF @ = "broken" THEN "none" ELSE @]
  /\ UNCHANGED <<schedVars, lease, sent, lastOp, ahead, streamVars, row, cacheVars, marks,
                 client, lost>>

(* The executor dies, also while it closes the lease: the stream breaks. *)
Crash(l) == exec[l] # "none" /\ StopsAtOnce(l, "none") /\ Fault

(* keepLease: a ping fails and the run is cancelled. *)
LeaseLost(l) ==
  /\ lease[l] = "none" /\ (exec[l] = "granted" \/ Streaming(l))
  /\ StopsAtOnce(l, "releasing") /\ UNCHANGED faults

ExecutorNext(l) ==
  \/ Start(l) \/ CheckCache(l) \/ GetActionResult(l) \/ Prepare(l) \/ Run(l)
  \/ UploadOutputs(l) \/ Complete(l) \/ CloseAndRecv(l)

HandlerNext(l) == PublishProgress(l) \/ Receive(l) \/ Publish(l) \/ Update(l) \/ RecvFails(l)

LeaseNext(l) ==
  \/ Claim(l) \/ Grant(l) \/ LeaseTaskGone(l)
  \/ LeaseFinalize(l) \/ LeaseRelease(l) \/ CloseUnclean(l)
  \/ exec[l] = "none" /\ LeaseLapses(l)

SchedulerNext ==
  \/ \E l \in Session : LeaseNext(l)
  \/ ClaimRefused \/ ReadTask \/ DeleteExhausted \/ UnclaimTask
  \/ EnqueueTaskReservations

MarkNext == \E r \in Verdict : MarkPublish(r) \/ MarkUpdate(r)

ClientNext ==
  \/ ExecuteCached \/ InsertExecution \/ ScheduleTask \/ ScheduleReservations
  \/ ProcessOpUpdate

Failures(l) ==
  \/ ClaimLost(l) \/ StartFails(l) \/ Refuse(l) \/ Fails(l) \/ Crash(l) \/ LeaseLost(l)
  \/ LeaseLapses(l) \/ HandlerFails(l)

Next ==
  \/ \E l \in Session :
       \/ ExecutorNext(l) \/ HandlerNext(l) \/ Failures(l)
       \/ FlushWrite(l) \/ Progress(l)
  \/ SchedulerNext \/ ReEnqueueFails \/ Drain \/ ReservationLost \/ Cancel \/ Expire
  \/ MarkNext \/ \E r \in Verdict : MarkFails(r)
  \/ ClientNext \/ WaitExecution

Spec == Init /\ [][Next]_vars

(* Every process goes on while it can; failures, lost connections and      *)
(* cancellations need not happen.                                          *)
FairSpec ==
  /\ Spec
  /\ WF_vars(\E l \in Session : ExecutorNext(l))
  /\ WF_vars(\E l \in Session : HandlerNext(l))
  /\ WF_vars(SchedulerNext) /\ WF_vars(MarkNext) /\ WF_vars(ClientNext)
-----------------------------------------------------------------------------
(* Properties.                                                             *)

(* A task leaves the scheduler only when its client has been told of the   *)
(* end, or is about to be: whatever was lost between the executor, the     *)
(* handler and Redis, the attempt is made again or given up (runTask,      *)
(* TaskLeaser.Close, reEnqueueTask).  There are three exceptions, and no   *)
(* others: MarkExecutionFailed failed, which is called after the task is   *)
(* deleted; an executor finalized the task without publishing anything;    *)
(* the task's TTL passed.                                                  *)
GoneIsTold ==
  Gone =>
    \/ told # {}
    \/ \E r \in Verdict : marks["publishing"][r] > 0
    \/ lost \intersect {"mark", "mute", "expired"} # {}

(* A final operation is true: results are published when their outputs are *)
(* uploaded; a cached result is an earlier attempt's, and may be shared;   *)
(* when the client reads that the task was given up or cancelled nobody    *)
(* can be granted it again, and "gave up" comes after MaxAttempts attempts *)
(* (ExecuteTaskAndStreamResults, reEnqueueTask, Cancel).                   *)
Truthful ==
  /\ told \intersect (RunResult \union {"cached"}) # {} => uploaded
  /\ "cached" \in told => cached = "shared"
  /\ told \intersect Verdict # {} => Gone /\ ~stored[TaskID]
  /\ "gave up" \in told => exhausted

(* A completed row says what the client was told or is about to be told,   *)
(* unless the handler that wrote it ahead of publishing has failed         *)
(* (PublishOperation's periodic write, MarkExecutionFailed).               *)
RowTold ==
  row \in Final =>
    \/ row \in told \/ ahead
    \/ \E l \in Session : lastOp[l] = row /\ handler[l] = "publishing"

(* A client that waits is answered, if nothing was lost: one in Execute    *)
(* always, one that came back with WaitExecution unless a final operation  *)
(* was followed by another before it came back, as when a cancelled task   *)
(* still runs (waitExecution, processOpUpdate).                            *)
Answered ==
  /\ client = "executing" ~> client \in {"answered", "waiting"} \/ lost # {}
  /\ client = "waiting" ~>
       client = "answered" \/ lost # {} \/ (told # {} /\ ~over /\ ~due)

(* An execution that is over is completed in the database, so that Cancel  *)
(* and the UI no longer take it for running (updateExecution).             *)
Recorded == Gone ~> row \in Final \/ lost # {}
=============================================================================
