-------------------------- MODULE SchedulerExclusive --------------------------
(***************************************************************************)
(* With executors that crash and tasks that are cancelled, but without a   *)
(* late ping, a released lease, a cut connection or a draining executor, a *)
(* task is run by one executor at a time and is claimed at most            *)
(* MaxAttempts times.                                                      *)
(*                                                                         *)
(* A claim in Redis does not say whose it is, so ExclusiveRun is far from  *)
(* inductive: that two executors do not run the same task rests on every   *)
(* claim having one handler (Owner, Unique), on an executor that still     *)
(* believes in its lease having a handler that does (Session), and on no   *)
(* re-enqueue of a task somebody else holds (Quiet).                       *)
(***************************************************************************)
EXTENDS SchedulerProofs

Benign == Faults \subseteq {"crash", "cancel"}

(* No re-enqueue but that of a handler, or of an executor for a task that  *)
(* is gone; and only a dead executor has a broken connection.              *)
Quiet ==
  /\ \A e \in Executor : dstep[e] = "idle" /\ drain[e] = NoReservation
  /\ \A l \in Lease :
       /\ client[l] \in {"idle", "claiming", "running", "finalizing", "read"}
       /\ client[l] = "read" => ~stored[ltask[l]]
       /\ broken[l] => client[l] = "idle"

(* A handler that answers for a task has it claimed, and is the only one.  *)
Owner ==
  \A l \in Lease : Answerable(l) /\ stored[ltask[l]] => claimed[ltask[l]]

Unique ==
  \A l, m \in Lease :
    Answerable(l) /\ Answerable(m) /\ ltask[l] = ltask[m] /\ stored[ltask[l]]
      => l = m

(* The handler of a running task is in its loop, or the task is gone.      *)
Session ==
  \A l \in Lease : client[l] \in {"running", "finalizing"} =>
    \/ server[l] = "held"
    \/ server[l] \in {"closed", "failed"} /\ ~stored[ltask[l]]

Holder(l) == server[l] = "held" \/ client[l] = "running"

OneHolder ==
  \A l, m \in Lease : Holder(l) /\ Holder(m) /\ ltask[l] = ltask[m] => l = m

(* A task that can be claimed has attempts left.                           *)
Counted ==
  /\ AttemptsBounded
  /\ \A t \in Task : stored[t] /\ ~claimed[t] => attempts[t] < MaxAttempts
  /\ \A l \in Lease : server[l] \in {"claimed", "release"} /\ stored[ltask[l]]
                        => attempts[ltask[l]] < MaxAttempts

LeaseInv == Quiet /\ Owner /\ Unique /\ Session /\ OneHolder /\ Counted

ExclusiveInv == TypeOK /\ Fresh /\ LeaseInv

(* Executors may die and records may disappear.                            *)
LEMMA LossKeepsLeaseInv ==
  ASSUME ExclusiveInv, UNCHANGED <<ltask, server, drain, dstep>>,
         \A l \in Lease : client'[l] \in {client[l], "idle"},
         \A l \in Lease : broken'[l] => broken[l] \/ client'[l] = "idle",
         \A u \in Task : SameRecord(u) \/ ~stored'[u]
  PROVE  LeaseInv'
<1> USE DEF ExclusiveInv, LeaseInv
<1>0. \A l \in Lease : ltask[l] = NoTask => client[l] = "idle" /\ server[l] = "none"
  BY DEF TypeOK
<1>1. \A l \in Lease : ltask[l] \in Task \union {NoTask}
  BY DEF TypeOK
<1>2. Quiet'
  BY <1>0, <1>1 DEF Quiet, SameRecord
<1>3. Owner' /\ Unique' /\ Session' /\ OneHolder'
  BY <1>0, <1>1
  DEF Owner, Unique, Session, OneHolder, Holder, Answerable, SameRecord
<1>4. Counted'
  BY <1>0, <1>1 DEF Counted, AttemptsBounded, SameRecord
<1> QED
  BY <1>2, <1>3, <1>4

LEMMA InsertKeepsLeaseInv ==
  ASSUME ExclusiveInv, NEW t \in Task, ScheduleInsert(t)
  PROVE  LeaseInv'
<1> USE DEF ExclusiveInv, LeaseInv, drainVars, leaseVars
<1>1. /\ UNCHANGED <<ltask, server, client, broken, drain, dstep, claimed>>
      /\ \A l \in Lease : ltask[l] # t
      /\ ~claimed[t] /\ attempts'[t] = 0
      /\ \A u \in Task : u # t => SameRecord(u)
  <2>1. UNCHANGED <<ltask, server, client, broken, drain, dstep, claimed>>
    BY DEF ScheduleInsert, InsertTask
  <2>2. /\ \A l \in Lease : ltask[l] # t
        /\ ~claimed[t]
    BY DEF ScheduleInsert, Fresh, Untouched
  <2>3. attempts'[t] = 0
    BY DEF ScheduleInsert, InsertTask, TypeOK, StoreTypeOK
  <2>4. \A u \in Task : u # t => SameRecord(u)
    BY StoreFrame DEF ScheduleInsert, execVars, Undisturbed
  <2> QED
    BY <2>1, <2>2, <2>3, <2>4
<1>2. \A l \in Lease : ltask[l] \in Task =>
        /\ stored'[ltask[l]] = stored[ltask[l]]
        /\ attempts'[ltask[l]] = attempts[ltask[l]]
  BY <1>1 DEF SameRecord
<1>3. \A l \in Lease : client[l] # "idle" \/ server[l] # "none" => ltask[l] \in Task
  BY LeaseHasTask
<1>4. Quiet'
  BY <1>1, <1>2, <1>3 DEF Quiet
<1>5. Owner' /\ Unique' /\ Session' /\ OneHolder'
  BY <1>1, <1>2, <1>3 DEF Owner, Unique, Session, OneHolder, Holder, Answerable
<1>6. Counted'
  BY <1>1, <1>2, <1>3, ConstantsOK
  DEF Counted, AttemptsBounded, SameRecord, ConstantsOK
<1> QED
  BY <1>4, <1>5, <1>6

LEMMA HandleTaskKeepsLeaseInv ==
  ASSUME ExclusiveInv, NEW l \in Lease, NEW t \in Task, HandleTask(l, t)
  PROVE  LeaseInv'
<1> USE DEF ExclusiveInv, LeaseInv
<1>1. /\ UNCHANGED <<stored, claimed, attempts, drain, dstep>>
      /\ client'[l] = "claiming" /\ server'[l] = "opened" /\ ~broken'[l]
      /\ \A m \in Lease : m # l =>
           /\ ltask'[m] = ltask[m] /\ client'[m] = client[m]
           /\ server'[m] = server[m] /\ broken'[m] = broken[m]
  BY DEF HandleTask, storeVars, drainVars, TypeOK
<1>2. Quiet'
  BY <1>1 DEF Quiet
<1>3. Owner' /\ Unique' /\ Session' /\ OneHolder'
  BY <1>1 DEF Owner, Unique, Session, OneHolder, Holder, Answerable
<1>4. Counted'
  BY <1>1 DEF Counted, AttemptsBounded
<1> QED
  BY <1>2, <1>3, <1>4

LEMMA ClientKeepsLeaseInv ==
  ASSUME Benign, ExclusiveInv, NEW l \in Lease,
         Claim(l) \/ CloseSend(l) \/ CloseRecv(l) \/ LeaserReEnqueue(l)
  PROVE  LeaseInv'
<1> USE DEF ExclusiveInv, LeaseInv
<1>0. ltask[l] \in Task
  BY LeaseHasTask DEF Claim, CloseSend, CloseRecv, LeaserReEnqueue, ReEnqueueStep
<1>1. UNCHANGED <<stored, claimed, attempts>>
  <2>1. CASE Claim(l) \/ CloseSend(l) \/ CloseRecv(l)
    BY <2>1 DEF Claim, CloseSend, CloseRecv, storeVars
  <2>2. CASE LeaserReEnqueue(l)
    BY <2>2 DEF LeaserReEnqueue, Quiet, ReEnqueueTask, ReEnqueueStep, Readable,
                storeVars
  <2> QED
    BY <2>1, <2>2
<1>2. /\ \/ client[l] = "claiming" /\ client'[l] = "running" /\ server[l] = "held"
            /\ ~broken[l]
         \/ client'[l] = "idle"
         \/ client[l] = "running" /\ client'[l] = "finalizing"
         \/ client[l] = "finalizing" /\ client'[l] = "read"
            /\ (server[l] = "failed" \/ broken[l])
      /\ \A m \in Lease : m # l => client'[m] = client[m]
      /\ UNCHANGED <<ltask, server, broken, drain, dstep>>
  <2>1. CASE Claim(l)
    BY <2>1 DEF Claim, ClientGoes, drainVars, TypeOK
  <2>2. CASE CloseSend(l)
    BY <2>2 DEF CloseSend, ClientGoes, drainVars, TypeOK, Benign
  <2>3. CASE CloseRecv(l)
    BY <2>3 DEF CloseRecv, ClientGoes, drainVars, TypeOK, Quiet
  <2>4. CASE LeaserReEnqueue(l)
    <3>1. client[l] = "read" /\ ~stored[ltask[l]]
      BY <2>4 DEF LeaserReEnqueue, Quiet, ReEnqueueStep
    <3>2. ClientGoes(l, "idle")
      BY <2>4, <3>1 DEF LeaserReEnqueue, ReEnqueueTask, Readable
    <3> QED
      BY <3>2 DEF ClientGoes, drainVars, TypeOK
  <2> QED
    BY <2>1, <2>2, <2>3, <2>4
<1>3. Quiet'
  BY <1>1, <1>2 DEF Quiet, Session
<1>4. Owner' /\ Unique' /\ Session' /\ OneHolder'
  BY <1>1, <1>2 DEF Owner, Unique, Session, OneHolder, Holder, Answerable
<1>5. Counted'
  BY <1>1, <1>2 DEF Counted, AttemptsBounded
<1> QED
  BY <1>3, <1>4, <1>5

LEMMA ServerKeepsLeaseInv ==
  ASSUME Benign, ExclusiveInv, NEW l \in Lease, ServerNext(l)
  PROVE  LeaseInv'
<1> USE DEF ExclusiveInv, LeaseInv
<1> DEFINE t == ltask[l]
<1>1. /\ UNCHANGED <<ltask, client, broken, drain, dstep>>
      /\ \A m \in Lease : m # l => server'[m] = server[m]
      /\ t \in Task
      /\ \A u \in Task : u # t => SameRecord(u)
  BY ServerFrame DEF ServerGoes, drainVars, Undisturbed, TypeOK
<1>2. \A m \in Lease : client[m] # "idle" \/ server[m] # "none" => ltask[m] \in Task
  BY LeaseHasTask
<1>3. stored'[t] => stored[t]
  BY ServerEffect DEF SameRecord
<1>4. broken[l] => client[l] = "idle"
  BY DEF Quiet
<1>5. client[l] # "releasing"
  BY DEF Quiet
<1>6. server[l] = "held" /\ stored[t] => claimed[t]
  BY DEF Owner, Answerable
<1>7. Quiet'
  BY <1>1, <1>2, <1>3 DEF Quiet, SameRecord
<1>8. Session'
  <2>1. client[l] \in {"running", "finalizing"} =>
          \/ server'[l] = "held"
          \/ server'[l] \in {"closed", "failed"} /\ ~stored'[t]
    BY <1>4, <1>5, <1>6, ServerEffect DEF Session, SameRecord, Benign
  <2> QED
    BY <1>1, <1>2, <1>3, <2>1 DEF Session, SameRecord
<1>9. Owner' /\ Unique'
  <2>1. Answerable(l)' /\ stored'[t] =>
          /\ claimed'[t]
          /\ Answerable(l) \/ ~claimed[t]
    BY <1>5, ServerEffect DEF Answerable, SameRecord, Owner
  <2>2. stored'[t] /\ claimed[t] /\ ~claimed'[t] => Answerable(l)
    BY ServerEffect DEF Answerable, SameRecord
  <2>3. \A m \in Lease : m # l => (Answerable(m)' <=> Answerable(m))
    BY <1>1 DEF Answerable
  <2>4. ASSUME NEW m \in Lease, m # l, Answerable(m), ltask[m] = t, stored'[t]
        PROVE  claimed[t] /\ ~Answerable(l)
    BY <1>3, <2>4 DEF Owner, Unique
  <2>5. Owner'
    <3>1. ASSUME NEW m \in Lease, Answerable(m)', stored'[ltask[m]]
          PROVE  claimed'[ltask[m]]
      <4>1. CASE m = l
        BY <2>1, <3>1, <4>1, <1>1
      <4>2. CASE m # l /\ ltask[m] = t
        BY <2>2, <2>3, <2>4, <3>1, <4>2
      <4>3. CASE m # l /\ ltask[m] # t
        <5>1. Answerable(m) /\ ltask[m] \in Task
          BY <1>2, <2>3, <3>1, <4>3 DEF Answerable
        <5> QED
          BY <1>1, <3>1, <4>3, <5>1 DEF Owner, SameRecord
      <4> QED
        BY <4>1, <4>2, <4>3
    <3> QED
      BY <1>1, <3>1 DEF Owner
  <2>6. Unique'
    <3>1. ASSUME NEW m \in Lease, NEW k \in Lease, Answerable(m)', Answerable(k)',
                 ltask[m] = ltask[k], stored'[ltask[m]], m # l, k # l
          PROVE  m = k
      <4>1. ltask[m] \in Task /\ Answerable(m) /\ Answerable(k)
        BY <1>2, <2>3, <3>1 DEF Answerable
      <4> QED
        BY <1>1, <1>3, <3>1, <4>1 DEF Unique, SameRecord
    <3>2. ASSUME NEW m \in Lease, m # l, Answerable(m)', Answerable(l)',
                 ltask[m] = t, stored'[t]
          PROVE  FALSE
      BY <2>1, <2>3, <2>4, <3>2
    <3> QED
      BY <1>1, <3>1, <3>2 DEF Unique
  <2> QED
    BY <2>5, <2>6
<1>10. OneHolder'
  <2>1. ASSUME NEW m \in Lease, m # l, Holder(m), ltask[m] = t
        PROVE  server'[l] # "held" \/ Holder(l)
    <3>1. SUFFICES ASSUME server[l] = "claimed", stored[t]
                   PROVE  FALSE
      BY ServerEffect DEF Holder
    <3>2. server[m] = "held"
      BY <2>1, <3>1 DEF Holder, Session
    <3> QED
      BY <2>1, <3>1, <3>2 DEF Unique, Answerable
  <2>2. Holder(l)' => server'[l] = "held" \/ client[l] = "running"
    BY <1>1 DEF Holder
  <2>3. \A m \in Lease : m # l => (Holder(m)' <=> Holder(m))
    BY <1>1 DEF Holder
  <2> QED
    BY <1>1, <2>1, <2>2, <2>3 DEF OneHolder, Holder
<1>11. Counted'
  <2>1. attempts[t] \in Nat /\ MaxAttempts \in Nat
    BY <1>1, ConstantsOK DEF TypeOK, StoreTypeOK, ConstantsOK
  <2>2. stored'[t] => attempts'[t] <= MaxAttempts
    BY <1>1, <1>3, <2>1, ServerEffect DEF Counted, AttemptsBounded, SameRecord
  <2>3. stored'[t] /\ ~claimed'[t] => attempts'[t] < MaxAttempts
    BY <1>1, <1>3, <1>5, <2>1, ServerEffect
    DEF Counted, AttemptsBounded, SameRecord, Owner, Answerable
  <2>4. server'[l] \in {"claimed", "release"} /\ stored'[t]
          => attempts'[t] < MaxAttempts
    BY <1>1, <1>3, <2>1, ServerEffect DEF Counted, AttemptsBounded, SameRecord
  <2>5. ASSUME NEW m \in Lease, m # l, server[m] \in {"claimed", "release"},
               ltask[m] = t, stored'[t]
        PROVE  attempts'[t] < MaxAttempts
    <3>1. attempts[t] < MaxAttempts
      BY <1>3, <2>5 DEF Counted
    <3>2. server[l] # "claimed"
      BY <1>3, <2>5 DEF Unique, Answerable
    <3>3. attempts'[t] = attempts[t]
      BY <2>5, <3>2, ServerEffect DEF SameRecord
    <3> QED
      BY <3>1, <3>3
  <2> QED
    <3>1. \A u \in Task : stored'[u] =>
            /\ attempts'[u] <= MaxAttempts
            /\ ~claimed'[u] => attempts'[u] < MaxAttempts
      BY <1>1, <2>2, <2>3 DEF Counted, AttemptsBounded, SameRecord
    <3>2. ASSUME NEW m \in Lease, server'[m] \in {"claimed", "release"},
                 stored'[ltask[m]]
          PROVE  attempts'[ltask[m]] < MaxAttempts
      <4>1. CASE ltask[m] = t
        BY <1>1, <2>4, <2>5, <3>2, <4>1
      <4>2. CASE ltask[m] # t
        <5>1. server[m] = server'[m] /\ ltask[m] \in Task
          BY <1>1, <1>2, <3>2, <4>2
        <5> QED
          BY <1>1, <3>2, <4>2, <5>1 DEF Counted, SameRecord
      <4> QED
        BY <4>1, <4>2
    <3> QED
      BY <1>1, <3>1, <3>2 DEF Counted, AttemptsBounded
<1> QED
  BY <1>7, <1>8, <1>9, <1>10, <1>11

LEMMA ExecutorKeepsLeaseInv ==
  ASSUME Benign, ExclusiveInv, NEW e \in Executor, ExecutorNext(e)
  PROVE  LeaseInv'
<1> USE DEF ExclusiveInv, LeaseInv
<1>1. CASE Crash(e)
  BY <1>1, LossKeepsLeaseInv DEF Crash, drainVars, storeVars, SameRecord
<1>2. CASE ~Crash(e)
  <2>1. dstep[e] = "idle" /\ drain[e] = NoReservation
    BY DEF Quiet
  <2>2. UNCHANGED <<storeVars, drainVars, leaseVars>>
    <3>1. \A t \in Task : ~DrainNext(e, t)
      BY <2>1, ConstantsOK DEF DrainNext, NoReservation
    <3> QED
      BY <1>2, <2>1, <3>1
      DEF Benign, ExecutorNext, Shutdown, ReportShuttingDown, Exit, DrainReEnqueue,
          DrainAbort, RemoveConnectedExecutor, AddConnectedExecutor
  <2> QED
    BY <2>2, LossKeepsLeaseInv DEF drainVars, leaseVars, storeVars, SameRecord
<1> QED
  BY <1>1, <1>2

LEMMA LeaseInvStep == Benign /\ ExclusiveInv /\ [Next]_vars => LeaseInv'
<1> SUFFICES ASSUME Benign, ExclusiveInv, [Next]_vars PROVE LeaseInv'
  OBVIOUS
<1> USE DEF ExclusiveInv
<1>1. CASE UNCHANGED vars
  BY <1>1, LossKeepsLeaseInv
  DEF vars, drainVars, leaseVars, storeVars, SameRecord
<1>2. ASSUME NEW t \in Task, ScheduleInsert(t)
      PROVE  LeaseInv'
  BY <1>2, InsertKeepsLeaseInv
<1>3. ASSUME NEW t \in Task, ScheduleEnqueue(t) \/ CancelTask(t)
      PROVE  LeaseInv'
  <2>1. \A u \in Task : SameRecord(u) \/ ~stored'[u]
    <3>1. CASE ScheduleEnqueue(t)
      BY <3>1 DEF ScheduleEnqueue, EnqueueTaskReservations, SameRecord
    <3>2. CASE CancelTask(t)
      <4>1. ~stored'[t]
        BY <3>2 DEF CancelTask, DeleteTask, TypeOK, StoreTypeOK
      <4>2. \A u \in Task : u # t => SameRecord(u)
        BY <3>2, StoreFrame DEF CancelTask, execVars, Undisturbed
      <4> QED
        BY <4>1, <4>2
    <3> QED
      BY <1>3, <3>1, <3>2
  <2>2. UNCHANGED <<drainVars, leaseVars>>
    BY <1>3 DEF ScheduleEnqueue, CancelTask
  <2> QED
    BY <2>1, <2>2, LossKeepsLeaseInv DEF drainVars, leaseVars
<1>4. ASSUME NEW l \in Lease, ClientNext(l)
      PROVE  LeaseInv'
  BY <1>4, ClientKeepsLeaseInv, HandleTaskKeepsLeaseInv DEF ClientNext
<1>5. ASSUME NEW l \in Lease, ServerNext(l)
      PROVE  LeaseInv'
  BY <1>5, ServerKeepsLeaseInv
<1>6. ASSUME NEW e \in Executor, ExecutorNext(e)
      PROVE  LeaseInv'
  BY <1>6, ExecutorKeepsLeaseInv
<1> QED
  BY <1>1, <1>2, <1>3, <1>4, <1>5, <1>6 DEF Next, Disconnect, Benign

LEMMA ExclusiveInvariance == ASSUME Benign PROVE Spec => []ExclusiveInv
<1>1. Init => ExclusiveInv
  <2>1. Init => LeaseInv
    BY ConstantsOK
    DEF Init, StoreInit, LeaseInv, Quiet, Owner, Unique, Session, OneHolder, Holder,
        Counted, AttemptsBounded, Answerable, ConstantsOK
  <2> QED
    BY <2>1, TypingInit, FreshInit DEF ExclusiveInv
<1>2. ExclusiveInv /\ [Next]_vars => ExclusiveInv'
  BY TypingStep, FreshStep, LeaseInvStep DEF ExclusiveInv
<1> QED
  BY <1>1, <1>2, PTL DEF Spec

(* Two executors never run the same task at the same time.                 *)
THEOREM Exclusive == ASSUME Benign PROVE Spec => []ExclusiveRun
<1>1. ExclusiveInv => ExclusiveRun
  BY DEF ExclusiveInv, LeaseInv, OneHolder, Holder, ExclusiveRun
<1> QED
  BY <1>1, ExclusiveInvariance, PTL

(* A task is claimed at most MaxAttempts times before it is given up.      *)
THEOREM AttemptsCounted == ASSUME Benign PROVE Spec => []AttemptsBounded
<1>1. ExclusiveInv => AttemptsBounded
  BY DEF ExclusiveInv, LeaseInv, Counted
<1> QED
  BY <1>1, ExclusiveInvariance, PTL
=============================================================================
