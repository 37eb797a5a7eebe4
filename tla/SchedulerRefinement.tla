------------------------- MODULE SchedulerRefinement -------------------------
(***************************************************************************)
(* Scheduler implements TaskLifecycle as long as only executors crash and  *)
(* tasks are cancelled: every step of Redis, handlers and executors is one *)
(* step in the life of one task, or none.                                  *)
(***************************************************************************)
EXTENDS SchedulerExclusive

(* What TaskLifecycle sees of u stays the same. *)
SameView(u) ==
  /\ Status(u)' = Status(u)
  /\ Tries(u)' = Tries(u)
  /\ Granted(u)' = Granted(u)
  /\ Runners(u)' = Runners(u)

LifecycleNext == [Lifecycle!Next]_(Lifecycle!lifecycleVars)

LEMMA Stutter ==
  ASSUME \A u \in Task : SameView(u)
  PROVE  LifecycleNext
BY DEF SameView, Tries, LifecycleNext, Lifecycle!lifecycleVars

(* The view of a task depends on its record, on sched and on its leases. *)
LEMMA SameViewOf ==
  ASSUME TypeOK, NEW u \in Task, SameRecord(u),
         (sched'[u] = "new") <=> (sched[u] = "new"),
         \A l \in Lease : (ltask'[l] = u /\ server'[l] = "held")
                            <=> (ltask[l] = u /\ server[l] = "held"),
         \A l \in Lease : (ltask'[l] = u /\ client'[l] = "running")
                            <=> (ltask[l] = u /\ client[l] = "running")
  PROVE  SameView(u)
<1>1. Status(u)' = Status(u) /\ Tries(u)' = Tries(u)
  BY DEF Status, Tries, SameRecord
<1>2. Granted(u)' = Granted(u)
  BY DEF Granted
<1>3. Runners(u)' = Runners(u)
  BY DEF Runners
<1> QED
  BY <1>1, <1>2, <1>3 DEF SameView

(* One task moves: the functions TaskLifecycle is about change at t only.  *)
LEMMA OneView ==
  ASSUME NEW t \in Task, \A u \in Task : u # t => SameView(u)
  PROVE  /\ [u \in Task |-> Status(u)]' =
              [[u \in Task |-> Status(u)] EXCEPT ![t] = Status(t)']
         /\ [u \in Task |-> Tries(u)]' =
              [[u \in Task |-> Tries(u)] EXCEPT ![t] = Tries(t)']
         /\ [u \in Task |-> Granted(u)]' =
              [[u \in Task |-> Granted(u)] EXCEPT ![t] = Granted(t)']
         /\ [u \in Task |-> Runners(u)]' =
              [[u \in Task |-> Runners(u)] EXCEPT ![t] = Runners(t)']
BY DEF SameView

LEMMA InsertStep ==
  ASSUME ExclusiveInv, NEW t \in Task, ScheduleInsert(t)
  PROVE  LifecycleNext
<1> USE DEF ExclusiveInv, execVars, drainVars, leaseVars
<1>1. /\ Untouched(t) /\ sched[t] = "new" /\ sched'[t] = "inserted"
      /\ stored'[t] /\ ~claimed'[t] /\ attempts'[t] = 0
      /\ UNCHANGED <<ltask, client, server>>
  BY DEF ScheduleInsert, InsertTask, Fresh, Untouched, TypeOK, StoreTypeOK
<1>2. ASSUME NEW u \in Task, u # t
      PROVE  SameView(u)
  BY <1>2, SameViewOf, StoreFrame DEF ScheduleInsert, Undisturbed, TypeOK
<1>3. Status(t) = "new" /\ Status(t)' = "pending" /\ Tries(t)' = Tries(t)
  BY <1>1 DEF Status, Tries, Untouched
<1>4. Granted(t)' = Granted(t) /\ Runners(t)' = Runners(t)
  BY <1>1 DEF Granted, Runners
<1>5. Lifecycle!Submit(t)
  BY <1>2, <1>3, <1>4, OneView DEF Lifecycle!Submit, SameView
<1> QED
  BY <1>5 DEF LifecycleNext, Lifecycle!Next

LEMMA CancelStep ==
  ASSUME ExclusiveInv, NEW t \in Task, CancelTask(t)
  PROVE  LifecycleNext
<1> USE DEF ExclusiveInv, execVars, drainVars, leaseVars
<1>1. /\ sched[t] # "new" /\ ~stored'[t]
      /\ UNCHANGED <<sched, ltask, client, server>>
  BY DEF CancelTask, DeleteTask, Exists, Fresh, Untouched, TypeOK, StoreTypeOK
<1>2. ASSUME NEW u \in Task, u # t
      PROVE  SameView(u)
  BY <1>1, <1>2, SameViewOf, StoreFrame DEF CancelTask, Undisturbed
<1>3. Status(t) # "new" /\ Status(t)' = "gone" /\ Tries(t)' = 0
  BY <1>1 DEF Status, Tries
<1>4. Granted(t)' = (Granted(t) /\ TRUE) /\ Runners(t)' = Runners(t)
  BY <1>1 DEF Granted, Runners
<1>5. Lifecycle!Remove(t)
  BY <1>2, <1>3, <1>4, OneView DEF Lifecycle!Remove, SameView
<1> QED
  BY <1>5 DEF LifecycleNext, Lifecycle!Next

LEMMA ClientStep ==
  ASSUME Benign, ExclusiveInv, NEW l \in Lease, ClientNext(l)
  PROVE  LifecycleNext
<1> USE DEF ExclusiveInv, LeaseInv
<1>1. ASSUME NEW u \in Task, HandleTask(l, u)
      PROVE  LifecycleNext
  <2>1. /\ UNCHANGED <<storeVars, sched>>
        /\ client[l] # "running" /\ client'[l] # "running"
        /\ server[l] # "held" /\ server'[l] # "held"
        /\ \A m \in Lease : m # l =>
             /\ ltask'[m] = ltask[m] /\ client'[m] = client[m]
             /\ server'[m] = server[m]
    BY <1>1 DEF HandleTask, TypeOK
  <2>2. \A v \in Task : SameRecord(v)
    BY <2>1 DEF storeVars, SameRecord
  <2>3. \A v \in Task : SameView(v)
    BY <2>1, <2>2, SameViewOf
  <2> QED
    BY <2>3, Stutter
<1>2. ASSUME Claim(l) \/ CloseSend(l) \/ CloseRecv(l) \/ LeaserReEnqueue(l)
      PROVE  LifecycleNext
  <2> PICK t \in Task : t = ltask[l]
    BY <1>2, LeaseHasTask
    DEF Claim, CloseSend, CloseRecv, LeaserReEnqueue, ReEnqueueStep
  <2>1. /\ UNCHANGED <<sched, ltask, server>>
        /\ \A m \in Lease : m # l => client'[m] = client[m]
    BY <1>2, ClientEffect DEF TypeOK
  <2>2. \A u \in Task : SameRecord(u)
    <3>1. CASE UNCHANGED storeVars
      BY <3>1 DEF storeVars, SameRecord
    <3>2. CASE ~UNCHANGED storeVars
      <4>1. client[l] = "read" /\ ~stored[t]
        BY <1>2, <3>2, ClientEffect DEF Quiet, ReEnqueueStep
      <4>2. \A n, next : ReEnqueueTask(t, n, "read", next) => UNCHANGED storeVars
        BY <4>1 DEF ReEnqueueTask, Readable
      <4> QED
        BY <1>2, <3>2, <4>1, <4>2, ClientEffect
    <3> QED
      BY <3>1, <3>2
  <2>3. ASSUME NEW u \in Task, u # t
        PROVE  SameView(u)
    BY <2>1, <2>2, <2>3, SameViewOf
  <2>4. /\ Status(t)' = Status(t) /\ Tries(t)' = Tries(t)
        /\ Granted(t)' = Granted(t)
    BY <2>1, <2>2 DEF Status, Tries, Granted, SameRecord
  <2>5. CASE client[l] # "running" /\ client'[l] # "running"
    <3>1. SameView(t)
      BY <2>1, <2>2, <2>5, SameViewOf
    <3> QED
      BY <2>3, <3>1, Stutter
  <2>6. CASE client[l] # "running" /\ client'[l] = "running"
    <3>1. server[l] = "held"
      <4>1. Claim(l)
        BY <1>2, <2>6 DEF CloseSend, CloseRecv, LeaserReEnqueue, ClientGoes, TypeOK,
                         ReEnqueueStep
      <4> QED
        BY <2>6, <4>1 DEF Claim, ClientGoes, TypeOK
    <3>2. Granted(t) /\ Runners(t) = {}
      BY <2>6, <3>1 DEF Granted, Runners, OneHolder, Holder
    <3>3. Runners(t)' = {l}
      BY <2>1, <2>6, <3>2 DEF Runners
    <3>4. Lifecycle!Start(t, l)
      BY <2>1, <2>3, <2>4, <3>2, <3>3, OneView DEF Lifecycle!Start, SameView
    <3> QED
      BY <2>1, <3>4 DEF LifecycleNext, Lifecycle!Next
  <2>7. CASE client[l] = "running" /\ client'[l] # "running"
    <3>1. ASSUME NEW u \in Task
          PROVE  Runners(u)' = Runners(u) \ {l}
      <4>1. \A m \in Lease : (ltask'[m] = u /\ client'[m] = "running")
                         <=> (ltask[m] = u /\ client[m] = "running" /\ m # l)
        BY <2>1, <2>7
      <4>2. \A m : m \in Runners(u)' <=> m \in Runners(u) \ {l}
        BY <4>1 DEF Runners
      <4> QED
        BY <4>2, Zenon
    <3>2. \A u \in Task : /\ Status(u)' = Status(u) /\ Tries(u)' = Tries(u)
                          /\ Granted(u)' = Granted(u)
      BY <2>3, <2>4 DEF SameView
    <3>3. Lifecycle!Stop({l})
      BY <3>1, <3>2 DEF Lifecycle!Stop
    <3> QED
      BY <3>3 DEF LifecycleNext, Lifecycle!Next
  <2>8. CASE client[l] = "running" /\ client'[l] = "running"
    <3>1. SameView(t)
      BY <2>1, <2>2, <2>8, SameViewOf
    <3> QED
      BY <2>3, <3>1, Stutter
  <2> QED
    BY <2>5, <2>6, <2>7, <2>8
<1> QED
  BY <1>1, <1>2 DEF ClientNext

LEMMA ExecutorStep ==
  ASSUME Benign, ExclusiveInv, NEW e \in Executor, ExecutorNext(e)
  PROVE  LifecycleNext
<1> USE DEF ExclusiveInv, LeaseInv
<1>1. CASE Crash(e)
  <2>1. /\ UNCHANGED <<storeVars, sched, ltask, server>>
        /\ client' = [l \in Lease |-> IF Host(l) = e THEN "idle" ELSE client[l]]
    BY <1>1 DEF Crash
  <2>2. ASSUME NEW u \in Task
        PROVE  /\ Status(u)' = Status(u) /\ Tries(u)' = Tries(u)
               /\ Granted(u)' = Granted(u)
               /\ Runners(u)' = Runners(u) \ {l \in Lease : Host(l) = e}
    BY <2>1 DEF Status, Tries, Granted, Runners, storeVars
  <2>3. Lifecycle!Stop({l \in Lease : Host(l) = e})
    BY <2>2 DEF Lifecycle!Stop
  <2> QED
    BY <2>3 DEF LifecycleNext, Lifecycle!Next
<1>2. CASE ~Crash(e)
  <2>1. UNCHANGED <<storeVars, sched, leaseVars>>
    <3>1. \A t \in Task : ~DrainNext(e, t)
      BY ConstantsOK DEF DrainNext, NoReservation, Quiet
    <3> QED
      BY <1>2, <3>1
      DEF Benign, ExecutorNext, Shutdown, ReportShuttingDown, Exit, DrainReEnqueue,
          DrainAbort, RemoveConnectedExecutor, AddConnectedExecutor, Quiet
  <2>2. \A u \in Task : SameRecord(u)
    BY <2>1 DEF storeVars, SameRecord
  <2>3. \A u \in Task : SameView(u)
    BY <2>1, <2>2, SameViewOf DEF leaseVars
  <2> QED
    BY <2>3, Stutter
<1> QED
  BY <1>1, <1>2

LEMMA ServerStep ==
  ASSUME Benign, ExclusiveInv, NEW l \in Lease, ServerNext(l)
  PROVE  LifecycleNext
<1> USE DEF ExclusiveInv, LeaseInv
<1> PICK t \in Task : t = ltask[l]
  BY ServerFrame
<1>1. /\ UNCHANGED <<sched, ltask, client, broken>>
      /\ \A m \in Lease : m # l => server'[m] = server[m]
      /\ \A u \in Task : u # t => SameRecord(u)
  BY ServerFrame DEF ServerGoes, Undisturbed, TypeOK
<1>2. ASSUME NEW u \in Task, u # t
      PROVE  SameView(u)
  BY <1>1, <1>2, SameViewOf
<1>v. /\ [u \in Task |-> Status(u)]' =
           [[u \in Task |-> Status(u)] EXCEPT ![t] = Status(t)']
      /\ [u \in Task |-> Tries(u)]' =
           [[u \in Task |-> Tries(u)] EXCEPT ![t] = Tries(t)']
      /\ [u \in Task |-> Granted(u)]' =
           [[u \in Task |-> Granted(u)] EXCEPT ![t] = Granted(t)']
      /\ [u \in Task |-> Runners(u)]' =
           [[u \in Task |-> Runners(u)] EXCEPT ![t] = Runners(t)']
  BY <1>1, <1>2, OneView
<1>3. Runners(t)' = Runners(t) /\ sched[t] # "new" /\ sched'[t] # "new"
  BY <1>1 DEF Runners, Fresh, Untouched
<1>4. /\ claimed[t] \in BOOLEAN /\ claimed'[t] \in BOOLEAN
      /\ stored[t] \in BOOLEAN /\ stored'[t] \in BOOLEAN
      /\ attempts[t] \in Nat
  <2>1. TypeOK'
    BY TypingStep DEF Next
  <2> QED
    BY <1>1, <2>1 DEF TypeOK, StoreTypeOK
(* What the lease invariant says of t, seen from l.                        *)
<1>5. /\ Answerable(l) /\ stored[t] => claimed[t]
      /\ broken[l] => client[l] = "idle"
      /\ client[l] # "releasing"
      /\ server[l] \in {"claimed", "release"} /\ stored[t]
           => attempts[t] < MaxAttempts
  BY DEF Quiet, Owner, Counted
<1>6. server[l] = "held" => Granted(t) /\ Runners(t) \subseteq {l}
  BY DEF Granted, Runners, OneHolder, Holder
<1>7. ASSUME stored[t], server[l] \in {"claimed", "release"}
      PROVE  ~Granted(t) /\ Runners(t) = {}
  <2>1. ASSUME NEW m \in Lease, ltask[m] = t, server[m] = "held"
        PROVE  FALSE
    BY <1>7, <2>1 DEF Unique, Answerable
  <2> QED
    BY <1>7, <2>1 DEF Granted, Runners, Session
<1>8. ASSUME stored[t], ~claimed[t]
      PROVE  ~Granted(t) /\ Runners(t) = {}
  <2>1. ASSUME NEW m \in Lease, ltask[m] = t, server[m] = "held"
        PROVE  FALSE
    BY <1>8, <2>1 DEF Owner, Answerable
  <2> QED
    BY <1>8, <2>1 DEF Granted, Runners, Session
<1>9. Granted(t)' = (server'[l] = "held" \/ (server[l] # "held" /\ Granted(t)))
  <2>1. ASSUME NEW m \in Lease, m # l, ltask[m] = t, server[m] = "held"
        PROVE  server[l] # "held"
    BY <2>1 DEF OneHolder, Holder
  <2>2. ltask[l] = t /\ ltask' = ltask
    BY <1>1
  <2>3. \A m \in Lease : m # l => server'[m] = server[m]
    BY <1>1
  <2>4. CASE server'[l] = "held"
    BY <2>2, <2>4 DEF Granted
  <2>5. CASE server'[l] # "held" /\ server[l] = "held"
    BY <2>1, <2>2, <2>3, <2>5 DEF Granted
  <2>6. CASE server'[l] # "held" /\ server[l] # "held"
    BY <2>2, <2>3, <2>6 DEF Granted
  <2> QED
    BY <2>4, <2>5, <2>6 DEF Granted
(* The steps TaskLifecycle sees, and the others.                           *)
<1>u. /\ Status(t)' = Status(t) =>
           [u \in Task |-> Status(u)]' = [u \in Task |-> Status(u)]
      /\ Tries(t)' = Tries(t) =>
           [u \in Task |-> Tries(u)]' = [u \in Task |-> Tries(u)]
      /\ Granted(t)' = Granted(t) =>
           [u \in Task |-> Granted(u)]' = [u \in Task |-> Granted(u)]
      /\ [u \in Task |-> Runners(u)]' = [u \in Task |-> Runners(u)]
  <2>1. ASSUME NEW f, NEW e, e = f[t], NEW k, k = [f EXCEPT ![t] = e],
               f = [u \in Task |-> f[u]]
        PROVE  k = f
    BY <2>1
  <2>2. ASSUME Status(t)' = Status(t)
        PROVE  [u \in Task |-> Status(u)]' = [u \in Task |-> Status(u)]
    BY <1>v, <2>1, <2>2
  <2>3. ASSUME Tries(t)' = Tries(t)
        PROVE  [u \in Task |-> Tries(u)]' = [u \in Task |-> Tries(u)]
    BY <1>v, <2>1, <2>3
  <2>4. ASSUME Granted(t)' = Granted(t)
        PROVE  [u \in Task |-> Granted(u)]' = [u \in Task |-> Granted(u)]
    BY <1>v, <2>1, <2>4
  <2>5. [u \in Task |-> Runners(u)]' = [u \in Task |-> Runners(u)]
    BY <1>v, <1>3, <2>1
  <2> QED
    BY <2>2, <2>3, <2>4, <2>5
<1>10. CASE /\ stored[t] /\ stored'[t] /\ ~claimed[t] /\ claimed'[t]
            /\ attempts'[t] = attempts[t]
            /\ server[l] # "held" /\ server'[l] # "held"
  <2>1. /\ Status(t) = "pending" /\ Status(t)' = "leased"
        /\ Tries(t)' = Tries(t) /\ ~Granted(t) /\ ~Granted(t)'
        /\ Runners(t) = {}
    BY <1>3, <1>8, <1>9, <1>10 DEF Status, Tries
  <2>2. Granted(t)' = Granted(t)
    BY <2>1 DEF Granted
  <2>3. Lifecycle!Acquire(t)
    BY <1>1, <1>v, <1>u, <2>1, <2>2 DEF Lifecycle!Acquire
  <2> QED
    BY <1>1, <2>3 DEF LifecycleNext, Lifecycle!Next
<1>11. CASE /\ server[l] = "claimed" /\ server'[l] \in {"held", "read"}
            /\ stored[t] /\ stored'[t] /\ claimed'[t] = claimed[t]
            /\ attempts'[t] = attempts[t] + 1
  <2>1. /\ Status(t) = "leased" /\ Status(t)' = Status(t)
        /\ Tries(t) < MaxAttempts /\ Tries(t)' = Tries(t) + 1
        /\ ~Granted(t)
    BY <1>3, <1>5, <1>7, <1>11 DEF Status, Tries, Answerable
  <2>2. Granted(t)' \in BOOLEAN
    BY DEF Granted
  <2>3. Lifecycle!Grant(t)
    BY <1>1, <1>v, <1>u, <2>1, <2>2 DEF Lifecycle!Grant
  <2> QED
    BY <1>1, <2>3 DEF LifecycleNext, Lifecycle!Next
<1>12. CASE /\ server[l] = "held" /\ server'[l] # "held" /\ SameRecord(t)
            /\ ~stored[t] \/ broken[l]
  <2>1. Runners(t) = {} \/ Status(t) = "gone"
    <3>1. CASE stored[t]
      BY <1>5, <1>6, <1>12, <3>1 DEF Runners
    <3>2. CASE ~stored[t]
      BY <1>3, <3>2 DEF Status
    <3> QED
      BY <3>1, <3>2
  <2>2. Status(t)' = Status(t) /\ Tries(t)' = Tries(t)
    BY <1>3, <1>12 DEF Status, Tries, SameRecord
  <2>3. Granted(t)' = FALSE
    BY <1>9, <1>12 DEF Granted
  <2>4. Lifecycle!Revoke(t)
    BY <1>1, <1>v, <1>u, <2>1, <2>2, <2>3 DEF Lifecycle!Revoke
  <2> QED
    BY <1>1, <2>4 DEF LifecycleNext, Lifecycle!Next
<1>13. CASE ~stored'[t] /\ server'[l] # "held"
            /\ (server[l] = "held" \/ server[l] = "exhaust")
  <2>1. PICK told \in BOOLEAN : Granted(t)' = (Granted(t) /\ told)
    <3>1. CASE server[l] = "held"
      BY <1>9, <1>13, <3>1 DEF Granted
    <3>2. CASE server[l] # "held"
      BY <1>9, <1>13, <3>2 DEF Granted
    <3> QED
      BY <3>1, <3>2
  <2>2. Status(t) # "new" /\ Status(t)' = "gone" /\ Tries(t)' = 0
    BY <1>3, <1>13 DEF Status, Tries
  <2>3. Lifecycle!Remove(t)
    BY <1>1, <1>v, <1>u, <2>1, <2>2 DEF Lifecycle!Remove
  <2> QED
    BY <1>1, <2>3 DEF LifecycleNext, Lifecycle!Next
<1>14. CASE /\ server[l] = "release" /\ server'[l] = "probe"
            /\ stored[t] /\ stored'[t] /\ ~claimed'[t]
            /\ attempts'[t] = attempts[t]
  <2>1. /\ Status(t) = "leased" /\ Status(t)' = "pending"
        /\ Tries(t)' = Tries(t) /\ Tries(t) < MaxAttempts
        /\ ~Granted(t) /\ ~Granted(t)' /\ Runners(t) = {}
    BY <1>3, <1>5, <1>7, <1>9, <1>14 DEF Status, Tries, Answerable
  <2>2. Granted(t)' = Granted(t)
    BY <2>1 DEF Granted
  <2>3. Lifecycle!Return(t)
    BY <1>1, <1>v, <1>u, <2>1, <2>2 DEF Lifecycle!Return
  <2> QED
    BY <1>1, <2>3 DEF LifecycleNext, Lifecycle!Next
<1>15. CASE /\ server[l] # "held" /\ server'[l] # "held"
            /\ SameRecord(t) \/ (~stored[t] /\ ~stored'[t])
  <2>1. SameView(t)
    BY <1>3, <1>9, <1>15 DEF SameView, SameRecord, Status, Tries, Granted
  <2> QED
    BY <1>2, <2>1, Stutter
<1> QED
  BY <1>4, <1>5, <1>10, <1>11, <1>12, <1>13, <1>14, <1>15, ServerEffect
  DEF Benign, SameRecord, Answerable

LEMMA ImplementsInit == Init => Lifecycle!Init
<1> SUFFICES ASSUME Init PROVE Lifecycle!Init
  OBVIOUS
<1>1. \A t \in Task : /\ Status(t) = "new" /\ Tries(t) = 0
                      /\ ~Granted(t) /\ Runners(t) = {}
  BY DEF Init, StoreInit, Status, Tries, Granted, Runners
<1> QED
  BY <1>1 DEF Lifecycle!Init, Granted

LEMMA ImplementsStep ==
  Benign /\ ExclusiveInv /\ [Next]_vars => LifecycleNext
<1> SUFFICES ASSUME Benign, ExclusiveInv, [Next]_vars PROVE LifecycleNext
  OBVIOUS
<1> USE DEF ExclusiveInv
<1>1. CASE UNCHANGED vars
  <2>1. \A u \in Task : SameView(u)
    BY <1>1, SameViewOf DEF vars, storeVars, leaseVars, SameRecord
  <2> QED
    BY <2>1, Stutter
<1>2. ASSUME NEW t \in Task, ScheduleEnqueue(t)
      PROVE  LifecycleNext
  <2>1. \A u \in Task : SameRecord(u) /\ (sched'[u] = "new" <=> sched[u] = "new")
    BY <1>2 DEF ScheduleEnqueue, EnqueueTaskReservations, SameRecord, TypeOK
  <2>2. \A u \in Task : SameView(u)
    BY <1>2, <2>1, SameViewOf DEF ScheduleEnqueue, leaseVars
  <2> QED
    BY <2>2, Stutter
<1> QED
  BY <1>1, <1>2, InsertStep, CancelStep, ClientStep, ServerStep, ExecutorStep
  DEF Next, Disconnect, Benign

(* Redis, handlers and executors together implement the life of a task.    *)
THEOREM Refinement == ASSUME Benign PROVE Spec => ImplementsLifecycle
BY ImplementsInit, ImplementsStep, ExclusiveInvariance, PTL
DEF Spec, ImplementsLifecycle, Lifecycle!Spec, LifecycleNext
=============================================================================
