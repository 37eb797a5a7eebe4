# BuildBuddy in TLA+

BuildBuddy is a build-event, remote-cache and remote-execution service for
Bazel. This directory holds TLA+ models of the parts of it whose correctness
depends on the order in which several processes act, the TLC configurations
that check them on small instances, and TLAPS proofs about them.

    tlc -workers 2 -config sched_exclusive.cfg MCScheduler.tla     # one run
    tlapm SchedulerProofs.tla                                      # one proof module

Contents: [inventory](#1-inventory), [plan](#2-plan),
[the scheduler](#3-the-scheduler),
[the executor's queue](#4-the-executors-queue),
[usage accounting](#5-usage-accounting),
[one execution](#6-one-execution),
[the distributed cache](#7-the-distributed-cache),
[range leases](#8-range-leases), [runs](#9-runs), [proofs](#10-proofs),
[findings](#11-findings), [abstractions](#12-abstractions-and-limits),
[what is not modelled](#13-not-modelled).

## 1. Inventory

### Remote execution: scheduling (`enterprise/server/scheduling/`)

| Part | State | Operations | Talks to |
|---|---|---|---|
| `scheduler_server` | Redis: a hash per task (`taskProto`, `attemptCount`, `claimed`), a sorted set of unclaimed task IDs per pool, a hash of registered executors per pool. Memory: connected executors with their stream handles, a cached node list (10 s) | `ScheduleTask`, `CancelTask`, `LeaseTask` (stream), `ReEnqueueTask`, `EnqueueTaskReservation`, `RegisterAndStreamWork` (stream) | execution service, other scheduler servers, executors |
| `task_leaser` | one stream, `claimed`/`closed`, keep-alive goroutine | `Claim`, ping every lease interval, `Close` (finalize or release, then perhaps `ReEnqueueTask`) | `LeaseTask`, `ReEnqueueTask` |
| `priority_task_scheduler`, `priority_queue` | queue of reservations per group, round-robin cursor, used RAM and CPU, active tasks, `shuttingDown` | `EnqueueTaskReservation`, `handleTask`, `Shutdown` | task leaser, executor |
| `scheduler_client` | registration stream, `connected` | register, receive reservations, report shutdown | `RegisterAndStreamWork` |
| `task_router` | Redis lists of executors that ran an action | rank nodes | scheduler |

Hard: a claim in Redis carries no owner, so everybody who "gives a task back"
can take it away from somebody else; every handler is a sequence of Redis
commands, each atomic, with other handlers in between; executors crash, leave,
reconnect; a lease can lapse while the task runs; four different callers
re-enqueue.
Correct means: a task is run by one executor at a time; a bounded number of
times; a claim is always answered for; an accepted task is never forgotten and
is eventually settled.

### Remote execution: status and running (`enterprise/server/remote_execution/`)

`execution_server` (dispatch, the operation stream, waiting, cancellation,
`MarkExecutionFailed`), `operation`, `backends/pubsub` (Redis streams),
`executor` (runs the task, publishes its stages, decides whether a failure is
retried), `runner` (pool of paused runners). Hard: a publisher that loses its
stream after its last message, two publishers after a retry, waiters that
subscribe late; a task is deleted in one step and its execution marked as
failed in another. Correct means: a waiter gets a final answer; what it is told
is true; a task does not end without anybody being told; the database agrees
with the answer.

### Usage accounting (`usage`, `util/redisutil`)

Counters are buffered in memory, flushed to Redis per 1-minute period and from
there to the database when the period is settled; the database row has a
watermark. Hard: a crash between the database commit and the deletion in
Redis, two servers flushing, a buffer that is flushed late or half. Correct
means: each count reaches the database at most once, and once if nothing is
late.

### Raft-based cache (`raft/`)

`rangelease` and `nodeliveness` keep leases by compare-and-swap on records in
the replicated store; `rangecache` caches range descriptors by generation;
`driver` moves replicas. Hard: expired leases, a swap that fails against
somebody else's record, renewals, proposals that are applied after their node
gave them up or restarted. Correct means: a node that serves a range was
granted its lease, in an epoch that it still holds and has never given up.

### Distributed cache (`backends/distributed`, `util/peerset`)

A write goes to the preferred peers of a digest, or to fall-back peers with a
hint; hints are handed off when a peer's heartbeat is seen again; reads
backfill. Correct means: what was acknowledged can be read while one of its
holders is up, and replication is restored.

### Other parts

Disk cache and LRU, build event handler, chunked logs, remote cache services,
workflows and webhooks, authentication, invocation storage, janitor, the web
UI. They are listed, with what is planned for each, in `PROJECT.json`.

## 2. Plan

Done, in this order:

1. **Scheduler**: `TaskStore`, `Scheduler`, `TaskLifecycle` (abstract), three
   proof modules.
2. **ExecutorQueue**: `TaskQueue`, `ExecutorQueue`, one proof module.
3. **UsageTracker**: `CommandBuffer`, `UsageTracker`, one proof module.
4. **Execution**, with its task in `TaskStore`, and one proof module.
5. **DistributedCache**, with `PeerSet`, and one proof module.
6. **RangeLease**, with `NodeLiveness`, and one proof module.

Left:

1. Proofs: every invariant and action property that a run checks is stated by a
   theorem. What is left is to state what the other components promise as
   abstract specifications, as `TaskLifecycle` does for the scheduler (a
   replicated store for `DistributedCache`, a ledger for `UsageTracker`), and to
   prove that they implement them.
2. **Registration**: streams, handles and the Redis entry of an executor that
   reconnects; an executor that is connected is eventually registered.
3. Runner pool, LRU accounting, the chunk writer, the build event handler's
   acknowledgements.

Every component has one module with its state and one action per handler step,
an MC module for the definitions that TLC needs (symmetry, bounds), and proof
modules of its own. No module uses RECURSIVE operators, so each can be
reasoned about with TLAPS. `Scheduler` and `Execution` both act on the task
through the commands of `TaskStore` (`Execution` instantiates it with one
task). `Execution` repeats of the scheduler what an execution can tell apart,
every LeaseTask handler and every step of `reEnqueueTask`, and leaves out
executors, queues and connections, of which any lapse, loss or error can be the
effect. It does not rest on `TaskLifecycle`: retries break the exclusion that
`TaskLifecycle` promises (finding 1), and an execution has retries.

## 3. The scheduler

`TaskStore.tla` is the shared state in Redis. Each operator is one Redis
command or one Lua script, hence atomic: `InsertTask`, `DeleteTask`,
`CanClaim`/`AcquireClaim`, `ReleaseClaim`, `CountAttempt`. Redis keeps a hash
alive as long as it has one field; so `CountAttempt` (HINCRBY) on a cancelled
task leaves a key that can be claimed although it holds no task, which is why
`Exists` and `Readable` differ.

`Scheduler.tla` adds the processes. The correspondence is:

| Module | Code |
|---|---|
| `sched[t]` | the progress of `ScheduleTask` |
| `connected` | the pool's executors (in Redis and on their scheduler) |
| `queue[e][t]` | `PriorityTaskScheduler.q`: reservations of `t` waiting in `e` |
| `phase`, `halting` | life of the executor process; `shuttingDown` |
| `drain`, `dtask`, `dstep` | the loop in `executorHandle.Serve` that re-enqueues what a departing executor reported |
| `client[l]` | the goroutine of `handleTask` with its `TaskLeaser` |
| `server[l]` | the `LeaseTask` handler at the other end |
| `broken[l]` | the connection between them is gone |

A lease `l` is an executor and a slot, that is, one task's share of an
executor's capacity. Handlers that make several Redis calls take one step per
call: `LeaseClaim` (the claim script), `LeaseGrant` (HINCRBY, read, ZREM,
answer), `LeaseFinalize`, `LeaseRelease`, `LeaseBreak` and the steps of
`ReEnqueueTask` (read; delete, or release the claim; enqueue), which the
handler's deferred function, the leaser and the drain loop share.
`EnqueueTaskReservations` picks any set of reachable executors, because the
task router's ranking is a heuristic; when a registered executor is dead, any
smaller set is possible too, since waiting for it can use up the deadline.

What may go wrong is a constant, `Faults`, so that a run says precisely under
which failures a property holds:

| Fault | Meaning |
|---|---|
| `retry` | a run ends with an error that is to be retried |
| `cancel` | `CancelTask`, or the task key's TTL passes |
| `lapse` | a request on a lease comes after the lease lapsed |
| `disconnect` | a `LeaseTask` or registration stream breaks (also the hard stop at the end of a shutdown) |
| `drain` | an executor is told to shut down |
| `crash` | an executor process dies, and may come back |

`TaskLifecycle.tla` is the abstract specification: per task a status (new,
pending, leased, gone), the tries so far, whether a grant is out, and who runs
it. A grant goes to one worker; a lease returns to pending only when nobody
runs the task and tries are left; at most `MaxAttempts` tries.

### Properties

* `ExclusiveRun`: two leases never run the same task.
* `AttemptsBounded`: a task in Redis has been claimed at most `MaxAttempts`
  times.
* `ImplementsLifecycle`: the refinement of `TaskLifecycle`. It adds to the two
  above that a claim on the remains of a deleted key never hands out a task,
  and that a task becomes claimable only after its runner stopped.
* `ClaimHasKeeper`: every claim in Redis has a handler that will finalize,
  release or re-enqueue it.
* `NotForgotten`: an accepted, unclaimed task is in the unclaimed set, or some
  process is about to put it there.
* `Settles`: an accepted task is eventually gone from Redis.

## 4. The executor's queue

In `Scheduler` an executor is a bag of reservations and a number of slots;
these modules are the inside of it. `TaskQueue.tla` is `taskQueue`, a FIFO
queue for each group, a list of the queues and a cursor that goes round the
list. `ExecutorQueue.tla` is `PriorityTaskScheduler`, which owns one.

| Module | Code |
|---|---|
| `pqs`, `fifo`, `currentPQ`, `numTasks` | the fields of `taskQueue`; `fifo[g]` is empty when `pqByGroupID` has no `g` |
| `active`, `used` | `activeTaskCancelFuncs`; `ramBytesUsed`, `cpuMillisUsed` |
| `EnqueueTaskReservation`, `SignalNewTask` | the method up to the unlock, and its send on `newTaskSignal`, which blocks while the channel is full |
| `WakeUp`, `Poll` | the two cases of `Start`'s select, each with `handleTask` |
| `Finish` | the deferred `untrackTask` of the goroutine that runs a task |
| `Shutdown`, `ShutdownDone` | the method up to its loop, and the loop's end |
| `Deadline`, `Watch`, `late`, `watcher` | the deadline, and the goroutine that hard-stops |

What `handleTask` does under the mutex is one action. Its order matters in
`Dequeue`: the cursor moves on before an emptied queue leaves the list.

* `WellFormed`: the list has exactly the groups with reservations, once, and
  the cursor is on it.
* `CountsAll`: `numTasks`, which alone decides whether there is work, is the
  number of reservations.
* `NoOvercommit`: the running tasks fit in the executor together; with
  exclusive scheduling there is one at most.
* `TurnsPass`: each reservation that is taken brings every other waiting group
  one turn closer.
* `Serves`: every reservation is taken up eventually, whatever its size. It
  rests on `Poll`: no signal comes when a task ends.
* `QuietOnceDown`: when `Shutdown` has returned nothing runs.
* `StopsHard`: tasks that hang are cancelled when the time for a shutdown is
  over (violated, see finding 4).

`seen` is the only variable the code does not have. A reservation comes once,
unless it is in `Recurring`. The limit is deliberate: a group whose queue was
emptied and that comes back goes to the end of the list, so with three groups
two that alternate can pass the turn between them while a third waits.
`TurnsPass` still holds then, and nothing in the repository promises more.

Every task fits in an empty executor (`MCSize`). Neither
`EnqueueTaskReservations` nor the executor checks this; a larger one would
stay at the head of its queue for good.

## 5. Usage accounting

`CommandBuffer.tla` is the buffer of Redis commands that every server has
(`redisutil.CommandBuffer`): what is buffered, what a flush in progress still
has to send, and the flag that makes commands go straight to Redis.
`UsageTracker.tla` extends it with `Increment` and `flushToDB`. Amounts do not
matter, so a count is a set of increments, and for each increment the models
say how often it was added to its count in Redis (`hash`) and to its row in
the database (`billed`).

| Module | Code |
|---|---|
| `hincr`, `sadd`, `isShuttingDown` | the fields of `CommandBuffer` |
| `sentIncrements`, `sentMembers` | the pipeline of a `Flush` in progress |
| `hash`, `members` | the hashes `usage/counts/...` and sets `usage/groups/...` |
| `progress[i]`, `period[i]` | where a call of `Increment` is, and its `t` |
| `step[s]`, `c`, `groupIDs`, `groupID`, `counts` | the local variables of `flushToDB` |
| `finalBefore` | `final_before_usec` of a row of `Usages`, as the number of the first collection period that is not in it |

A pipeline is neither atomic nor, with a Ring client, in order, so its
commands are executed one by one in any order; those for one hash go together.
The lock of `FlushToDB` is left out on purpose: the comment at `usage.go:64-71` says
that flush jobs are correct without it, and the lock can expire under its
holder. Any server may therefore be in the middle of a flush of any period
while any other is. A flush can stop at every step (`FlushToDBFails`,
`Crash`), also between the commit and the deletion.

Time advances in ticks. `Clock` is the clock of some server, up to `Skew`
ahead. The settling time has to cover clock skew, buffer delay and latency
(`usage.go:40-45`), which is the assumption `SettlesInTime`; counts that take
longer are the fault `late`. The other faults are `flush` (a flush of the buffer, or
an unbuffered command, fails) and `crash`. `excused` records, for the properties only, which
increments were hit by a fault; `Outlived` says that a key may have expired.

* `NoOvercount`: no increment is in a row twice.
* `Accounted`: an increment that no fault hit is billed, on its way to Redis,
  or in Redis under a group that the next flush will find.
* `FinalIsComplete`: when a row says that it is final for a period, every
  increment of the period that no fault hit is in it.

`NoOvercount` needs no assumption on time or faults; the other two rest on the
settling time.

## 6. One execution

`Execution.tla` follows one remote execution from the client's `Execute` to
the answer: the task in Redis, the leases on it and the re-enqueues, the
executor's side of each lease, the `PublishOperation` handler of each run, the
Redis stream of the execution, its row in the database, `MarkExecutionFailed`,
`Cancel`, and the client that waits.

| Module | Code |
|---|---|
| `stored`, `claimed`, `attempts` | the hash of the task, as in `TaskStore` |
| `reservations` | reservations for the task that executors hold, and its place among the unclaimed tasks |
| `lease[l]` | the `LeaseTask` handler of a lease |
| `calls[s]` | calls of `reEnqueueTask` that are at step `s`: reading, deleting, unclaiming, enqueueing |
| `exec[l]` | `runTask`, `ExecuteTaskAndStreamResults`, then `TaskLeaser.Close` |
| `sent[l]` | the client stream of `PublishOperation` |
| `handler[l]`, `lastOp[l]` | the handler: receive, publish, update, and its periodic write |
| `told`, `over` | the Redis stream of `backends/pubsub`: its final operations, and whether the last operation is one |
| `due` | a final operation is where the client reads the stream |
| `row` | stage and response in the row of `Executions` |
| `uploaded`, `cached` | outputs in the CAS, the action cache's entry |
| `marks[s][r]` | calls of `MarkExecutionFailed` with reason `r` that are at step `s`: publishing, updating |

A `Session` is one lease with its run; when all three parts of it are over it is
used again, so any number of leases follow each other, and as many as there are
sessions are open at once. That happens: a release takes the claim off at once
(`LeaseRelease`), so that another executor may claim the task before the first
one's `ReEnqueueTask`; a re-enqueue releases whatever claim it finds
(`UnclaimTask`); a lease lapses while its executor still runs. `reEnqueueTask`
is four steps, and any number of calls may be at each: `DeleteExhausted` marks
the execution as failed whether or not there was a task to delete, so two
re-enqueues, or one and a `Cancel`, publish two verdicts.

An operation is what its response tells: `"in progress"` for every stage
before COMPLETED, or a final value. The orders the code fixes are kept: a handler
publishes before it updates the row, the executor uploads before it publishes,
`reEnqueueTask` and `Cancel` delete the task before they mark the execution as
failed.

What can go wrong: `Crash` and `LeaseLost` stop a run at any step;
`HandlerFails` stands for Redis, the database and the app server; `LeaseLapses`
and `ClaimLost` for the lease's stream; `StartFails`, `Refuse` and `Fails` for
the executor's own errors; `Drain` and `ReservationLost` for an executor that
leaves or dies with a reservation; `Expire` for the TTL of the task;
`ReEnqueueFails` and `MarkFails` for the two calls that were to make something
good and that nobody repeats. An executor that crashes after a clean release and
before its `ReEnqueueTask` is one of the cases of `ReEnqueueFails`.

* `GoneIsTold`: a task leaves the scheduler only when the client has been told
  of the end, or is about to be.
* `Truthful`: what is published is so: outputs are there, a cached result is a
  shared one; after "gave up" or "cancelled" the task is gone and cannot be
  granted again; "gave up" comes after `MaxAttempts` attempts.
* `RowTold`: a completed row says what the client was told or is about to be
  told, unless the handler that wrote it early failed before it published.
* `Answered`: a client in `Execute` is answered; one that came back with
  `WaitExecution` is, unless the stream trails off (below).
* `Recorded`: an execution that is over is completed in the database.

The exceptions are part of the properties, because they are part of the code.
`lost` records them:

| In `lost` | What happened | Excuses |
|---|---|---|
| `"mark"` | `MarkExecutionFailed` failed; its caller has deleted the task and only logs the error | `GoneIsTold`, liveness |
| `"mute"` | the task could not be unmarshalled, or the executor has no client of the execution service or the cache: the task is finalized with nothing published (`priority_task_scheduler.go:271-273`, `:391-396`, `executor.go:162-164`) | `GoneIsTold`, liveness |
| `"expired"` | 24 hours have passed | `GoneIsTold`, liveness |
| `"call"` | a `ReEnqueueTask` failed, or its caller died before it: a released task is left to nobody (also finding 3) | liveness |
| `"claim"` | a claim that nobody answers for (finding 2) | liveness |
| `"reservation"` | an executor died with a reservation in its queue | liveness |

And `WaitExecution` starts at the last operation of the stream
(`execution_server.go:493-494`): if a cancelled task still runs, or the
handler of a lost run is late, an operation follows the final one and the
waiter that starts there does not see the final one.

What `Truthful` does not say: that there is one verdict, or none after a
result. There can be several, for the reasons above: a run that was claimed
again after its release may end, and publish its result, after another one's
re-enqueue has given up.

Also visible in the model, and not errors by anything the repository says:
`PublishOperationDone` returns the final error in every case, so that the branch of
`finishWithErrFn` that would say "do not retry" is not reached and a failure that was
published is still retried (`Fails`); a failed dispatch leaves the row in its
first stage, and perhaps the task in Redis (`ScheduleTask`,
`ScheduleReservations`).

## 7. The distributed cache

`PeerSet.tla` is `util/peerset`: preferred peers in order, then one fallback
peer for each preferred one that failed. `DistributedCache.tla` is
`backends/distributed` with the `cacheproxy` calls it makes.

| Module | Code |
|---|---|
| `local[n]` | the node's own cache, which survives a crash |
| `handoffs[n][p]` | `hintedHandoffsByPeer`, a channel of bounded length |
| `draining` | a running `handleHintedHandoffs` for a peer |
| `pc[o]`, `at[o]`, `ps[o]` | a request, its coordinator and its peer set |
| `writers[o]`, `unclosed[o]` | the writers of `multiWriteCloser` |
| `status[n]` | `"serving"`, `"stopped"` (after `Shutdown`: it no longer answers, but its process and its heartbeats go on) or `"crashed"` |
| `isolation` | whether the digest is in the CAS, where a node that has it takes no data (the `devnull` writer), or in the action cache |

A write opens its writers one by one (`OpenWriter`), sends the data, and closes
the writers in any order; between any two of these steps nodes fail and come back. A stream to
a node that fails is found broken when it is opened, written or closed. The
answer of a node that stored the data may be lost. The writes are one client's: it tries again after an error.
A read asks the peers in turn, one step per peer, then backfills.

* `Replicated`: an acknowledged write has as many copies as the replication
  factor says.
* `HandoffKept`: a preferred node that missed an acknowledged write has the
  digest, or some node keeps an order for it, or the order was lost in a way
  the code logs, or in a crash. The exception is a stand-in that is the
  coordinator itself (which writes to its own cache without the hint) or that has the digest
  already: then there is no order. `distributed_test.go:712-713` says that a
  restarted node "should receive hinted handoffs from the other peers"; its
  configuration has `DisableLocalLookup`, and its digests are new, so it does.
* `ReadSurvivesOne`: a read that began after an acknowledged write says
  "missing" only if two of the nodes it asked failed.
* `BackfillExact`: when a node has returned the digest, the list of targets
  (`GetBackfillTargets`) is of the preferred nodes that answered that they lack
  it. One copy is made, to the first of the list: `dedupeBackfills` keeps one
  order for a digest, whatever its target. With more than two replicas a read
  therefore restores one copy and leaves the others to later reads.
* `Delivered`: once a node serves for good, the orders kept for it are carried
  out or lost in one of the ways above.

## 8. Range leases

`NodeLiveness.tla` has the liveness records, epochs and the compare-and-swap
requests through Raft. `RangeLease.tla` extends it with the lease of one
range.

| Module | Code |
|---|---|
| `stored` | the replicated values: liveness records (key `n`) and the range lease record (`RangeKey`) |
| `proposals` | requests that may yet be applied |
| `call[n][k]` | a `SyncPropose` in progress, and its answer |
| `clock[n]`, `lastLivenessRecord[n]` | the fields of `Liveness` |
| `lease`, `leaseRecord[n]`, `acquiring` | `Store.leases`, the `leaseRecord` of a `Lease`, and who is in `ensureValidLease` |
| `meta` | whether the range contains the metarange, whose lease has an expiration and no epoch |
| `version[k]`, `horizon[k]` | times: the last expiration asked for, and the last one that has passed |

A call that ends in an error (`CallFails`) leaves its proposal where it is: it
is applied at any later time, or never. A restart (`Restart`) forgets
everything but `stored` and `proposals`, and starts with the epoch 0.
`retired[n]` records, for the properties, the epochs that a node held and gave
up; `granted` the values the lease record has had.

* `Fenced`: no node is valid again in an epoch that it or an earlier process
  of it held and gave up, whatever request is applied late.
* `Backed`: a node takes itself for valid only in the epoch of its stored
  record and for no longer than that record says.
* `Granted`: a node that serves a range was granted its lease, in an epoch it
  has not given up.
* `Leased`: a node that goes for the lease gets a valid one or is stopped by
  an error or a restart, also against others that go for it.

Not a property: that one node at a time holds a range. When a node's
compare-and-swap fails it keeps the other node's record and expects that one in
its next request, without a look at whether it is still valid; so it takes the lease over
while the former holder, who asks only whether the epoch is its own, still
serves. The Raft group's leadership, which decides who tries, is what keeps
this rare; it is external here (any node may try at any time). A lease of the
metarange does not name its holder, so the node that lost the
compare-and-swap takes the other's for its own. The repository states neither
as impossible.

## 9. Runs

The runs of the scheduler use one task: no step of the protocol relates two tasks except that
they share slots and queues (two tasks were used while the invariants of the
proofs were developed; the proofs are for any number). `Probes = 2` and
`MaxAttempts = 2` stand for 3 and 5: two probes are what it takes for two
executors to compete, two attempts for a retry and a give-up. `MaxQueued`
bounds how many reservations of one task wait in one executor, `Slot` how many
run. Deadlock is not checked: all tasks may be settled and nobody has anything
to do.

| Run | Instance | Result |
|---|---|---|
| `sched_exclusive` | 3 executors, all may crash and restart at any point; cancellation | `ExclusiveRun`, `AttemptsBounded`, `ImplementsLifecycle` hold; 85 thousand states under symmetry |
| `sched_faults` | 2 executors, one of which leaves or loses its registration; retry, cancel, lapse, disconnect, drain together | `TypeOK`, `NotForgotten` hold; 3.3 million states |
| `sched_live` | 3 stable executors; retry, cancel, lapse; fair | `ClaimHasKeeper`, `Settles` hold; 395 thousand states |
| `sched_stolen` | 3 stable executors, retry only | `ExclusiveRun` violated |
| `sched_stuck` | 2 stable executors, disconnect only | `ClaimHasKeeper` violated |
| `sched_lost` | 1 executor that leaves, retry | `NotForgotten` violated |
| `queue_fair` | 3 groups with 5 reservations, those of one recurring; 2 resources; both modes; shutdown at any point; fair | `TypeOK`, `WellFormed`, `CountsAll`, `NoOvercommit`, `QuietOnceDown`, `TurnsPass`, `Serves` hold; 101 thousand states |
| `queue_stop` | the same, tasks that may hang | `StopsHard` violated |
| `usage` | 2 servers, a group, an increment in each server; two collection periods in a usage period; late, flush, crash together | `TypeOK`, `NoOvercount`, `Accounted`, `FinalIsComplete` hold; 1.9 million states under symmetry |
| `execution` | one execution, 2 leases at once, 2 attempts, a failure or cancellation, and a failed `ReEnqueueTask` or `MarkExecutionFailed`; with and without a result in the action cache; fair | `TypeOK`, `GoneIsTold`, `Truthful`, `RowTold`, `Answered`, `Recorded` hold; 417 thousand states |
| `dcache` | 3 nodes, 2 replicas, a digest, a write and its retry, a read at any time at any node, 2 failures; both isolations; fair | `TypeOK`, `Replicated`, `HandoffKept`, `ReadSurvivesOne`, `BackfillExact`, `Delivered` hold; 788 thousand states |
| `range_lease` | 2 nodes, one range, both kinds of lease; 2 events (errors, restarts, expirations, releases, early renewals) at one node and 1 at the other; fair | `TypeOK`, `Fenced`, `Backed`, `Granted`, `Leased` hold; 794 thousand states |

Three executors are needed in `sched_stolen`: one releases, one claims, and
the third claims after the first one's re-enqueue. `NotForgotten` holds in
`sched_faults` because one executor is always registered there; `sched_lost`
shows what happens otherwise.

Fairness of the scheduler (`FairSpec`) is weak and per process: a handler or goroutine that can
take a step eventually takes it, and an executor that has a free slot and a
reservation takes it up (its queue is polled every 10 ms). A running task ends
(`CloseSend`): tasks have a timeout. Nothing is assumed about faults or about
executors joining, and `LeaseBreak` is only fair when the connection is gone.

In the queue the loop, the blocked sender and `Shutdown`'s two loops are
fair, being goroutines of their own. `FairSpec` adds that tasks end, as their
timeouts make them; `StubbornSpec`, for `queue_stop`, says so only of tasks
that were cancelled. Three groups are needed for `TurnsPass`: with two, the
next group and the front of the list are the same. The sizes are chosen so
that a large task fits only alone, some pairs fit, and each resource is
the scarce one for some pair. The queue has no deadlock check, since an
executor that has shut down stops.

In `usage` a collection period is one tick, counts arrive one tick after its
end, and clocks differ by one, so that the settling time is two: as short as
`SettlesInTime` allows. `KeyTTL` is five periods, as in the code. `MaxTime` is
four: then both periods with usage (`LastPeriod = 1`) can be settled, so that
the row is inserted for the one and updated for the other, and the first one's
keys can expire. Two servers are what it takes to flush the same counts at the same time, and
two increments to have one in Redis while the other one is late. Deadlock is
not checked, since the clock stops at its bound.

In `execution` two leases are open at once, since a release, a lapse and a
re-enqueue's unclaiming let a second executor claim the task while the first
one is still at it. `MaxAttempts` is two: an attempt that fails and one that
succeeds or is given up. `MaxFaults = 1` is one failure or cancellation, and
`MaxLostCalls = 1` a failure of the call that was to make it good; both may
happen. What needs no failure, the races between release, claim and
re-enqueue, is not bounded. With `MaxFaults = 2` the safety properties hold,
too (10 million states; too long for a run that is repeated), and they are
proved for any bounds. One operation at a time is on its way from an executor to
its handler: a second one would wait in gRPC, which changes no order. Progress
operations do not pile up: the stream is the set of its final operations with
the kind of the last one. `Probes = 1` is enough, as each re-enqueue adds
another reservation. `FairSpec` lets every process go on while it can, one condition for
each kind of process; connections of clients, cancellations and failures are not
fair.

In `dcache` two failures are a node that is down and a second event: a crash of
the coordinator, a lost answer, another node that fails. With three
nodes and two replicas there is a fallback node; a channel of handoffs has room
for one, so that it overflows with a retry. `FairSpec` says only that
heartbeats and handoffs go on: requests may hang, nodes need not return.

In `range_lease` `MaxEvents` bounds what happens beside the renewals that the
loops make: two events at one node (say, an error and a restart, with the
first request applied last) and one at its competitor. With a lease that expires there are more values and
`FewerForMeta` allows one event in all; it removes no step that fairness
requires, since no fair action counts as an event. `FairSpec` says that the
loops of `ensureValidLease` go on and that Raft answers requests that are
waited for; a proposal nobody waits for may stay for ever. Deadlock is not
checked in these three: everything may be done.

## 10. Proofs

TLAPS 1.4.5 proves, for every number of tasks, executors and slots, and every
value of the other constants that satisfies `ConstantsOK`:

| Theorem | Statement | Under |
|---|---|---|
| `TypeCorrect` (`SchedulerProofs`) | `Spec => []TypeOK` | any faults |
| `ClaimKept` (`SchedulerProofs`) | `Spec => []ClaimHasKeeper` | no crash, no disconnect |
| `TasksAreListed` (`SchedulerProofs`) | `Spec => []NotForgotten` | one executor stays registered; crash and retry not both |
| `Exclusive`, `AttemptsCounted` (`SchedulerExclusive`) | `Spec => []ExclusiveRun`, `Spec => []AttemptsBounded` | crash and cancel only |
| `Refinement` (`SchedulerRefinement`) | `Spec => ImplementsLifecycle` | crash and cancel only |

The assumption is the theorem's own hypothesis (`ASSUME Benign PROVE ...`).
`sched_stolen` shows that `Exclusive` fails when retries are added, and
`sched_stuck` that `ClaimKept` fails when disconnects are. `sched_lost` shows
that `TasksAreListed` fails when no executor stays registered; and with
`Faults = {"crash", "retry"}` TLC finds in the instance of `sched_faults` that
an executor which crashes between the answer to its release and its call of
`ReEnqueueTask` leaves the task to nobody (`task_leaser.go:138`).

For every finite set of groups, every set of reservations, every size and
capacity:

| Theorem (`ExecutorQueueProofs`) | Statement |
|---|---|
| `QueueConsistent` | `Spec => [](QueueTypeOK /\ WellFormed)` |
| `RoundRobin` | `Spec => TurnsPass` |
| `QuietAfterShutdown` | `Spec => []QuietOnceDown` |
| `QueueTypes` | `Spec => []TypeOK` |
| `CountIsExact` | `Spec => []CountsAll` |
| `FitsTogether` | `Spec => []NoOvercommit` |

For every set of servers, groups and increments, all durations and all faults
(`SettlesInTime` is used by the last two, and not by the others):

| Theorem (`UsageTrackerProofs`) | Statement |
|---|---|
| `UsageTypes` | `Spec => []TypeOK` |
| `NoDoubleBilling` | `Spec => []NoOvercount` |
| `AllAccounted` | `Spec => []Accounted` |
| `FinalRowsComplete` | `Spec => []FinalIsComplete` |

For any number of sessions, attempts, probes, failures and lost calls, with
and without the lookup of a cached result (`ExecutionConstantsOK`):

| Theorem (`ExecutionProofs`) | Statement |
|---|---|
| `TypeCorrect` | `Spec => []TypeOK` |
| `ResultsTrue` | `Spec => []Truthful` |
| `TaskGoneTold` | `Spec => []GoneIsTold` |
| `RowIsTold` | `Spec => []RowTold` |

For every set of nodes and keys, any number of errors, expirations and
restarts, and proposals delayed without bound:

| Theorem (`RangeLeaseProofs`) | Statement |
|---|---|
| `LeaseTypesHold` | `Spec => []TypeOK` |
| `EpochsAreFenced` | `Spec => []Fenced` |
| `LivenessIsBacked` | `Spec => []Backed` |
| `LeasesAreGranted` | `Spec => []Granted` |

For every set of nodes, digests and reads, every replication factor, and any
number of writes, failures and restarts:

| Theorem (`DistributedCacheProofs`) | Statement |
|---|---|
| `WritesAreReplicated` | `Spec => []Replicated` |
| `OrdersAreKept` | `Spec => []HandoffKept` |
| `ReadsSurvive` | `Spec => []ReadSurvivesOne` |
| `BackfillsAreExact` | `Spec => []BackfillExact /\ [][CopyIsMissing]_vars` |
| `CacheTypesHold` | `Spec => []TypeOK` |

They rest on `CacheConstantsOK`: `GetAllReplicas` lists every node once, there
are at least as many nodes as replicas, and there is a digest. The theorems about range leases
rest on `NodesHaveKeys` and `RangeKeyOK` (the keys of nodes and the range
differ) and `NoneIsNoRecord` (no value is not a liveness record).

*Types.* One step per action. `TypeOK` is inductive because it also says that
a drain in progress has its task and that a lease without a task is idle.

*New tasks.* `Fresh`: a task that was not inserted has no trace anywhere
(`Untouched` and `FreshStep`); the later invariants use it.

*Claims.* `KeeperInv` is types, `Fresh`, no broken connection, and the
property. `ReEnqueueEffect`, `ServerEffect` and `ClientEffect` say what each
step does to the claim of each task; a handler gives up being answerable only
in a step that clears the claim, or after it found the task gone.

*Exclusion.* `ExclusiveRun` is not inductive. `ExclusiveInv` strengthens it
with `LeaseInv`: `Quiet` (no drain is in progress, a client re-enqueues only a
task that is gone, and only the connections of idle clients are broken),
`Owner` (a handler that may act
on the claim implies that the task's claim is set or the task is gone),
`Unique` (at most one such handler per task that is not gone), `Session` (which pairs of
client and server states occur), `OneHolder` (at most one client was handed
the task) and `Counted` (`AttemptsBounded`, and attempts
are below the limit while the task is claimable). TLC checked these conjuncts before they were proved.

*Refinement.* From `ExclusiveInv`: the initial states map to the initial state
of `TaskLifecycle`, and each action maps to the abstract action named in the
step lemma (`InsertStep`, `CancelStep`, `ClientStep`, `ServerStep`,
`ExecutorStep`) or to a stutter.

*No task forgotten.* `NotForgotten` speaks of unclaimed tasks; the invariant
(`Listed`) speaks of all, so that it need not follow the claim: a task that is
not on the list has a lease that answers for it (`Carries`), either the handler
that holds or re-enqueues it or, after a clean release, the executor. Only
`LeaseGrant` takes a task off the list, and its handler then holds it. A handler
lets go of a task by re-enqueueing it, which lists it because an executor is
registered (`StableStays`, `ReEnqueueLists`); by finding it gone; or by
closing the stream as the executor asked (`ClosedCleanly`): after a finalize
the task is gone, after a release the executor re-enqueues it. The drain of an
executor that leaves is named in `NotForgotten` but the proof does not need it:
whatever a drain takes in hand is on the list, or a lease answers for it. That is
why a drain may be cut short.

*The queue.* `QueueInv` (types and `WellFormed`) is inductive. What
`RemoveAt` does to the positions of a list is the lemma everything rests on;
`DequeueEffect` states a dequeue in these terms, `DequeuePreserves` and
`DequeueTurns` follow from it. `QuietAfterShutdown` needs that the flag stays
set once `Shutdown` has begun. `FitsTogether` rests on an equation (`Loads`):
what is tracked of each resource is the sum of what the active reservations
use. A sum is a fold over a finite set, and what the proofs need of it, that it
does not depend on the order and that one element more adds its size, is
proved in the module from the definition of the fold. The equation holds only
if a reservation is not active twice nor in a queue while it is active
(`Apart`). `CountIsExact` is the same equation for the lengths of the queues.

*Usage.* That a period stays within its bound needs that a flush goes on only
from a period that is over (`Bounded`, by `SettledIsOver`: arithmetic with the
durations as parameters). `NoOvercount` is not inductive. `OnceInv` adds
`Placed` (an increment is in one buffer at one place), `Waiting` (what has not
been sent is nowhere beyond the buffer), `AtMostOnce` (the same bound for
Redis and for the counts that a flush has read), `Snapshot` (counts that were
read are those of the period about to be committed) and `Final` (a row is
final for what it counts). The step that matters is `flushCounts`: if it adds
a count, the row was not final for its period, so by `Final` the count was not
in the row. TLC checked `OnceInv` before it was proved.

*Nothing left out.* `Accounted` and `FinalIsComplete` are proved together
(`DueInv`). An increment that no fault hit has two halves, its count and its
group's place in the set of the period; each is buffered, in Redis, or done with
because the increment is billed (`CountKept`, `KeyKept`), and once the period is ripe both have
arrived (`Arrived`). A flush goes on only to periods that are settled, and a
settled period is ripe on every clock: that is `SettledIsRipe`, and the one
place where `SettlesInTime` is used. So what a flush reads of a ripe period is
all there will be, and each increment of it is billed, in a group the flush has
still to do, or in the counts it is about to commit (`FlushedAt`). Keys are
deleted only after the commit. A row is final up to a period only when the
flush has done all the periods before (`InOrderAt`, `FinalIsPast`): an older
one that it did not visit had no keys left, having outlived them.

*Executions.* `OneSession` and the frame lemmas (`SessionFrame`, `OtherFrame`)
say what each kind of step leaves alone, so that each invariant is about one
session and the rest. `Honesty`: what a session has on its way to the Redis
stream, in the executor, between it and its handler or in the handler, may be
said (`Fits`, `Okay`), and may be said ever after, since uploads and shared
results are not undone (`StepGrows`). `RowInv` is `RowTold` and that a
`MarkExecutionFailed` call that is about to update has published. `GoneIsTold`
is inductive given `Honesty`: a session comes to "finalizing" only from a
stream that was closed with its handler at the end of it, which has published
the final operation; or with nothing published, which is in `lost`.
For `Truthful`, `Removal`: the task is stored, or removed, or nobody has done
anything for it yet, and the insertion is made once; so a task that is gone is
not stored again. `VerdictInv`: a verdict that is published, or being published,
is about a task that is gone; the calls that delete come after a task was read
with as many attempts as are allowed (`ExhaustedInv`), and attempts are not
taken back while the task is stored. None of this needs that there be one
re-enqueue, or one lease, at a time. TLC checked these invariants before they
were proved.

*Leases.* `Fenced` speaks of one node's memory; the argument is about its
stored record. `FencedInv` says that every request raises the epoch or keeps
it (`Rising`), so that the stored epoch never goes back; that every epoch a
node gave up is covered by the stored one; and that a request under way is
what its node would still ask for (`Current`). A request that is applied and
answered then takes the stored record to the node's epoch, from an epoch that
is either lower, so that the node has not given up its present one, or its own.
`BackedInv` adds the order of expirations (`Later`, `Latest`): each request
asks for more than all before it, so a request that expects a record as late
as the one a node holds was made after the node got it, in the same epoch
(`Backing`). `GrantedInv` says that whatever a node may take for the lease is
in `granted`. TLC checked these invariants before they were proved.

*Writes of the distributed cache.* Copies never go away and an order is kept,
carried out or noted as dropped, in every step (`Grows`, by `TypesStep`), so
that what a closed writer has left behind (`ClosedOK`) stays. The rest is
counting. While a write opens its writers (`OpeningOK`), each peer tried is
the peer of a writer, or a preferred peer that failed, or a fallback peer that
failed, so writers and failed preferred peers are at most as many as the peers
tried, and fewer if a stand-in is missing; and the peer set never goes further
than the replication factor and the failed peers allow (`NextInRing`). With as
many writers as the replication factor demands both bounds meet, so no
stand-in is missing (`EnoughWriters`). The peers tried are distinct nodes
(`NewPeer`), so the writers stand for as many copies. A failure changes how
writers end, not their peers (`FailInv`). TLC checked the conjuncts of
`WriteInv` before they were proved.

*Reads of the distributed cache.* A read asks the preferred nodes in some
order, and then the fallback nodes in the order of the ring, one for each
preferred node that failed (`ReadPeersOK`). What it has heard so far is an
error or a "missing" from each node asked, and not both (`Heard`). A write that
the read must find left copies at its peers, which do not say "missing"
(`KnownOK`, by `Grows`); each preferred peer has a writer or failed, and then
the peer that stands in for the j-th failed one is the j-th fallback node
(`StandIns`, `WriteOrder`). So an acknowledged write has a copy on each
preferred peer that did not fail it and, if one did, on the first fallback peer
(`AckedCopies`). A read that says "missing" has asked all preferred peers, so
those with a copy failed it: two if none failed the write, and otherwise one,
whose failure takes the read on to the first fallback peer, which then failed
it, too (`Misses`). `BackfillExact` is about the moment at which a node has
returned the digest (`Returning`); `CopyIsMissing` says of the copy that is
made that it is to a target from a node that has the digest. The targets are the preferred nodes before
it without those that failed; that the loop which leaves them out (`Unfailed`,
a recursive function) returns exactly these is proved from the least peer at
which it would go wrong (`LeastNumber`, from the library's fact that the
natural numbers are well-founded), since the induction theorems are out of the
prover's reach. `CacheTypesHold` needs that the ring has as many places as there
are nodes (`NodesCounted`).

Only model-checked: `Settles`, `Serves`, `Answered`, `Recorded`, `Delivered` and
`Leased`, since liveness under fairness is out of the prover's reach. Every
other property of a passing run is stated by one of the theorems above. TLC
checked the invariants of every argument on the run's instance before they were
proved.

## 11. Findings

1. *A re-enqueue takes away somebody else's claim* (`sched_stolen`).
   `TaskLeaser.Close` releases the lease and then calls `ReEnqueueTask`, which
   removes the claim of the task again, whoever holds it by then
   (`scheduler_server.go:1489`). Two executors then run the task, and a
   finalize by one deletes it under the other.
2. *A claim nobody answers for* (`sched_stuck`). If the stream's context ends
   while `claimTask` waits for Redis, the claim can be set although
   `LeaseTask` believes it is not, and its deferred function does nothing. The
   task is blocked until its key expires after 24 hours.
3. *A released task on no list* (`sched_lost`). When no executor is registered
   at the moment of the re-enqueue, `enqueueTaskReservations` returns before
   it adds the task to the unclaimed set; executors that join later are not
   told of it.
4. *A shutdown that never cancels* (`queue_stop`). The goroutine that is to
   hard-stop an executor selects between the end of a context and a timer,
   and the context has the timer's delay as its own timeout
   (`priority_task_scheduler.go:221-233`). When the delay is over it may take
   the first for a graceful end; then the root context is never cancelled and
   `Shutdown` waits for tasks that hang until the process is killed.

## 12. Abstractions and limits

* The scheduler servers are one: a probe that is forwarded from the server
  that has the task to the one that has the executor is one step. The cached
  node list appears only through its effects (an executor that is dead but
  registered; a pool that has just become empty).
* `Scheduler` has one pool and one group; task sizes and the node count that
  fits are left out, so every executor fits every task.
* The unclaimed set has no scores: it is not trimmed at 10 000 entries nor
  aged after 2 hours. `NotForgotten` is about the code's logic within these
  limits.
* A probe goes to distinct executors; after failed probes the code can send a
  second one to the same executor, which has the effect of the re-enqueue that
  the model does contain (`MaxQueued = 2`).
* A task ID is scheduled once; an executor that comes back with its ID does so
  after the drain of its former life ended.
* Redis does not fail and the scheduler process does not crash. Key expiry has
  the effect of `CancelTask`.
* `sched[t] = "scheduled"` means that the task was tracked in the unclaimed
  set, even if the caller was then told of an expired deadline.
* Which result the client of the build is told is not part of `Scheduler`, but
  of `Execution`.
* Usage: an increment has one field, since `Increment`'s commands for several
  fields are buffered and sent alike. `EXPIRE` is modelled by when keys may go,
  at the earliest allowed time or any later one. There is one region. That
  counts are billed eventually is not stated.
* The heap of a group's queue is a FIFO queue: all priorities are 0 in the
  code, and insertion times are taken to be distinct.
* In `ExecutorQueue` what a goroutine does with its task between
  `trackTask` and `untrackTask` (lease, run) is left to `Scheduler`.
* Execution: the stages before COMPLETED are one kind of operation. The
  loss of a monitored Redis channel
  and the expiry of the Redis stream are left out, and so are the sizes and
  the routing that `Dispatch` looks up and that `markTaskComplete` updates.
  A worker that hangs for ever is not modelled: tasks have timeouts. The
  executors, their queues and connections are those of `Scheduler`; here a
  reservation is with anybody, and a drain is one reservation that is
  re-enqueued.
* Usage: a server's flushes do not overlap, since `Flush` is called by the
  goroutine of `StartPeriodicFlush`, and by `StopPeriodicFlush` when it has
  stopped that goroutine. The one other caller, the metrics collector's `Flush`,
  is called by tests only.
* `ExecutorQueue.Shutdown` has a deadline. Without one the code reports an
  unexpected event and cancels the root context (`priority_task_scheduler.go:215-219`);
  its caller, the health checker, always sets one (`healthcheck.go:106`).
* Distributed cache: an order of a hinted handoff leaves the channel and is sent
  in one step; each heartbeat starts a loop, and an error of one may leave
  another going (`SendFile`). Nodes that are up reach each other; the ring does not
  change; nothing is evicted. Each digest of a `FindMissing` or `GetMulti` is a
  read of its own. A digest is one object: a partial read that fails
  half way is a read that fails.
* Range lease: Raft is a set of proposals, each applied once or never, in any
  order. A `Lease` that is released is not one that a goroutine still
  acquires; a clear request is answered before the node's next acquisition. The unprotected
  access to `quitLease` is not modelled. Clocks do not matter: all nodes see
  the same expirations pass.

## 13. Not modelled

* **Registration of executors**, beyond its effects in `Scheduler`: the
  hazards at `scheduler_server.go:485` and `:498` (a handle that is replaced
  or removed by executor ID) need streams with identities.
* **Liveness.Release** (`nodeliveness`): called only by tests.
* **The rest of the Raft store** (replica commands, splits, the driver, the
  range cache): the consensus below it is a vendored library, and most
  commands are single batch writes. `Replica.cas` is modelled.
* **Runner pool, disk cache and LRU, chunk writer, build event handler**:
  within reach, and next in the plan.
* **Request handlers without state of their own** (remote cache services, webhooks, workflows,
  authentication, search, statistics), **operating-system work** (containers,
  workspaces, file systems) and **estimates** (task sizing, routing order): no
  protocol to check.
