--------------------------- MODULE ExecutionProofs ---------------------------
(***************************************************************************)
(* Theorems about Execution, for any number of sessions, of attempts, of   *)
(* re-enqueues under way and of failures: TypeCorrect, ResultsTrue,        *)
(* RowIsTold and TaskGoneTold.                                             *)
(*                                                                         *)
(* None of the promises is inductive.  They rest on                        *)
(*   Honesty      what a session holds, of which the one thing that may be *)
(*                published is true, and an executor that is closing well  *)
(*                has its final operation on its way or published;         *)
(*   RowInv       the row, and MarkExecutionFailed calls about to write    *)
(*                it, say what was published;                              *)
(*   Removal      until it is stored the task has no traces, so that who   *)
(*                removes a key has removed the task, or somebody had;     *)
(*   VerdictInv   a verdict on its way, or published, is of a task that is *)
(*                gone;                                                    *)
(*   ExhaustedInv and "gave up" of one with its attempts used up.          *)
(* A step is one of one session (SessionNext) or of none (OtherNext); what *)
(* each of them leaves alone is said once, in SessionFrame and OtherFrame. *)
(***************************************************************************)
EXTENDS Execution, TLAPS

(* The types, by who keeps what. *)
SchedTypes ==
  /\ stored \in [{TaskID} -> BOOLEAN] /\ claimed \in [{TaskID} -> BOOLEAN]
  /\ attempts \in [{TaskID} -> Nat]
  /\ reservations \in Nat
  /\ calls \in [CallStep -> Nat]
  /\ removed \in {"no", "executor", "scheduler", "client", "expiry"}
  /\ exhausted \in BOOLEAN

MarkTypes == marks \in [{"publishing", "updating"} -> [Verdict -> Nat]]

SessionTypes ==
  /\ lease \in [Session -> {"none", "claimed", "held"}]
  /\ exec \in [Session -> {"none", "granted", "checking", "looking up", "preparing", "running",
                 "uploading", "completing", "closing", "failing", "finalizing",
                 "releasing"}]
  /\ sent \in [Session -> Operation \union {"none"}]
  /\ handler \in [Session -> {"none", "receiving", "publishing", "updating", "broken"}]
  /\ lastOp \in [Session -> Final \union {"none"}]
  /\ ahead \in BOOLEAN
  /\ \A l \in Session :
       /\ handler[l] \in {"none", "broken"} => sent[l] = "none" /\ lastOp[l] = "none"
       /\ Streaming(l) => handler[l] # "none"
       /\ lease[l] = "claimed" => exec[l] = "none" /\ handler[l] = "none"

OtherTypes ==
  /\ told \subseteq Final
  /\ row \in Operation \union {"none"}
  /\ cached \in RunResult \union {"none"}
  /\ {over, due, uploaded} \subseteq BOOLEAN
  /\ client \in {"none", "dispatching", "scheduling", "executing", "waiting",
                 "answered", "error"}
  /\ lost \subseteq Loss

FaultTypes == faults \in 0..MaxFaults

Types == SchedTypes /\ MarkTypes /\ SessionTypes /\ OtherTypes /\ FaultTypes

(* The parts together are the type invariant. *)
LEMMA TypesOK == Types <=> TypeOK
BY DEF Types, SchedTypes, MarkTypes, SessionTypes, OtherTypes, FaultTypes, TypeOK

(* A step that leaves its part alone leaves its types alone. *)
LEMMA Frames ==
  ASSUME Types
  PROVE  /\ UNCHANGED schedVars => SchedTypes'
         /\ UNCHANGED marks => MarkTypes'
         /\ UNCHANGED <<lease, runVars, handlerVars>> => SessionTypes'
         /\ UNCHANGED <<streamVars, row, cacheVars, client, lost>> => OtherTypes'
<1>1. UNCHANGED schedVars => SchedTypes'
  BY DEF Types, SchedTypes, schedVars, storeVars
<1>2. UNCHANGED marks => MarkTypes'
  BY DEF Types, MarkTypes
<1>3. UNCHANGED <<lease, runVars, handlerVars>> => SessionTypes'
  BY DEF Types, SessionTypes, runVars, handlerVars, Streaming
<1>4. UNCHANGED <<streamVars, row, cacheVars, client, lost>> => OtherTypes'
  BY DEF Types, OtherTypes, streamVars, cacheVars
<1> QED
  BY <1>1, <1>2, <1>3, <1>4
-----------------------------------------------------------------------------
(* The steps that are of no session. *)
OtherNext ==
  \/ ClientNext \/ WaitExecution \/ ClaimRefused \/ ReadTask \/ DeleteExhausted
  \/ UnclaimTask \/ EnqueueTaskReservations \/ ReEnqueueFails \/ Drain
  \/ ReservationLost \/ Cancel \/ Expire
  \/ \E r \in Verdict : MarkPublish(r) \/ MarkUpdate(r) \/ MarkFails(r)
  \/ UNCHANGED vars

(* The steps of one session. *)
SessionNext(l) ==
  ExecutorNext(l) \/ HandlerNext(l) \/ LeaseNext(l) \/ Failures(l)
    \/ FlushWrite(l) \/ Progress(l)

(* There are no others. *)
LEMMA TwoKinds ==
  ASSUME [Next]_vars PROVE OtherNext \/ \E l \in Session : SessionNext(l)
BY DEF Next, SchedulerNext, MarkNext, OtherNext, SessionNext

(* Which steps of a session change what. *)
LEMMA SessionFrame ==
  ASSUME NEW l \in Session, SessionNext(l)
  PROVE  /\ UNCHANGED marks
         /\ Fault \/ UNCHANGED faults
         /\ told' = told \/ PublishProgress(l) \/ Publish(l)
         /\ UNCHANGED row \/ Update(l) \/ FlushWrite(l)
         /\ UNCHANGED cached \/ Complete(l)
         /\ UNCHANGED removed \/ LeaseFinalize(l)
         /\ UNCHANGED <<stored, attempts>> \/ Store!DeleteTask(TaskID) \/ Grant(l)
         /\ \/ UNCHANGED calls
            \/ Grant(l) \/ LeaseLapses(l) \/ LeaseFinalize(l) \/ LeaseRelease(l) \/ CloseUnclean(l)
         /\ UNCHANGED ahead \/ \E as \in {"none", "broken"} : HandlerEnds(l, as)
<1> USE DEF SessionNext, ExecutorNext, HandlerNext, LeaseNext, Failures, schedVars, storeVars,
        streamVars, cacheVars, handlerVars,
        Start, StartFails, Refuse, CheckCache, GetActionResult, Prepare, Progress, Run,
        UploadOutputs, Complete, Fails, CloseAndRecv, Crash, LeaseLost, StopsAtOnce,
        Receive, PublishProgress, Publish, Update, FlushWrite, RecvFails, HandlerFails,
        Claim, ClaimLost, Grant, LeaseTaskGone, LeaseLapses, LeaseFinalize, LeaseRelease,
        CloseUnclean
<1>1. UNCHANGED marks /\ (Fault \/ UNCHANGED faults)
  BY DEF HandlerEnds
<1>2. told' = told \/ PublishProgress(l) \/ Publish(l)
  BY DEF HandlerEnds
<1>3. UNCHANGED row \/ Update(l) \/ FlushWrite(l)
  BY DEF HandlerEnds
<1>4. UNCHANGED cached \/ Complete(l)
  BY DEF HandlerEnds
<1>5. UNCHANGED removed \/ LeaseFinalize(l)
  BY DEF HandlerEnds
<1>6. UNCHANGED <<stored, attempts>> \/ Store!DeleteTask(TaskID) \/ Grant(l)
  BY DEF HandlerEnds, Store!ReleaseClaim
<1>7. \/ UNCHANGED calls
      \/ Grant(l) \/ LeaseLapses(l) \/ LeaseFinalize(l) \/ LeaseRelease(l) \/ CloseUnclean(l)
  BY DEF HandlerEnds
<1>8. UNCHANGED ahead \/ HandlerEnds(l, "none") \/ HandlerEnds(l, "broken")
  OBVIOUS
<1> QED
  BY <1>1, <1>2, <1>3, <1>4, <1>5, <1>6, <1>7, <1>8

(* Which of the other steps change what. *)
LEMMA OtherFrame ==
  ASSUME OtherNext
  PROVE  /\ UNCHANGED <<lease, runVars, handlerVars>>
         /\ Fault \/ UNCHANGED faults
         /\ \/ UNCHANGED marks \/ DeleteExhausted \/ Cancel
            \/ \E r \in Verdict : MarkPublish(r) \/ MarkUpdate(r) \/ MarkFails(r)
         /\ told' = told \/ \E r \in Verdict : MarkPublish(r)
         /\ row' \in {row, "in progress"} \/ \E r \in Verdict : MarkUpdate(r)
         /\ UNCHANGED cached
         /\ UNCHANGED removed \/ DeleteExhausted \/ Cancel \/ Expire
         /\ \/ UNCHANGED <<stored, attempts>>
            \/ Store!InsertTask(TaskID) \/ Store!DeleteTask(TaskID)
         /\ UNCHANGED calls \/ ReadTask \/ UnclaimTask \/ Drain \/ \E s \in CallStep : CallEnds(s)
<1> USE DEF OtherNext, ClientNext, schedVars, storeVars, streamVars, cacheVars, vars,
        ExecuteCached, InsertExecution, ScheduleTask, ScheduleReservations, ProcessOpUpdate,
        WaitExecution, ClaimRefused, ReadTask, DeleteExhausted, UnclaimTask,
        EnqueueTaskReservations, ReEnqueueFails, Drain, ReservationLost, Cancel, Expire,
        MarkPublish, MarkUpdate, MarkFails, CallLost
<1>1. UNCHANGED <<lease, runVars, handlerVars>>
  OBVIOUS
<1>2. Fault \/ UNCHANGED faults
  OBVIOUS
<1>3. \/ UNCHANGED marks \/ DeleteExhausted \/ Cancel
      \/ \E r \in Verdict : MarkPublish(r) \/ MarkUpdate(r) \/ MarkFails(r)
  OBVIOUS
<1>4. told' = told \/ \E r \in Verdict : MarkPublish(r)
  OBVIOUS
<1>5. row' \in {row, "in progress"} \/ \E r \in Verdict : MarkUpdate(r)
  OBVIOUS
<1>6. UNCHANGED cached
  OBVIOUS
<1>7. UNCHANGED removed \/ DeleteExhausted \/ Cancel \/ Expire
  OBVIOUS
<1>8. \/ UNCHANGED <<stored, attempts>>
      \/ Store!InsertTask(TaskID) \/ Store!DeleteTask(TaskID)
  BY DEF Store!ReleaseClaim
<1>9. UNCHANGED calls \/ ReadTask \/ UnclaimTask \/ Drain \/ \E s \in CallStep : CallEnds(s)
  BY DEF CallStep
<1> QED
  BY <1>1, <1>2, <1>3, <1>4, <1>5, <1>6, <1>7, <1>8, <1>9

-----------------------------------------------------------------------------
(* The types.  Calls are counted up and, while there are any, down. *)
LEMMA CallsTyped ==
  ASSUME calls \in [CallStep -> Nat]
  PROVE  /\ \A at \in CallStep : CallEnds(at) => calls' \in [CallStep -> Nat]
         /\ \A from, to \in CallStep : from # to /\ CallGoes(from, to) => calls' \in [CallStep -> Nat]
         /\ \A n \in Nat : ReEnqueueCalled(n) => calls' \in [CallStep -> Nat]
<1>1. ASSUME NEW at \in CallStep, CallEnds(at) PROVE calls' \in [CallStep -> Nat]
  <2>1. calls[at] - 1 \in Nat
    BY <1>1 DEF CallEnds
  <2> QED
    BY <1>1, <2>1 DEF CallEnds
<1>2. ASSUME NEW from \in CallStep, NEW to \in CallStep, from # to, CallGoes(from, to)
      PROVE  calls' \in [CallStep -> Nat]
  BY <1>2 DEF CallGoes
<1>3. ASSUME NEW n \in Nat, ReEnqueueCalled(n) PROVE calls' \in [CallStep -> Nat]
  BY <1>3 DEF ReEnqueueCalled, CallStep
<1> QED
  BY <1>1, <1>2, <1>3

(* So are those of MarkExecutionFailed. *)
LEMMA MarksTyped ==
  ASSUME MarkTypes, NEW r \in Verdict
  PROVE  /\ MarkCalled(r) => MarkTypes'
         /\ MarkPublish(r) => MarkTypes'
         /\ MarkUpdate(r) => MarkTypes'
         /\ MarkFails(r) => MarkTypes'
<1>1. ASSUME MarkCalled(r) PROVE MarkTypes'
  BY <1>1 DEF MarkCalled, MarkTypes
<1>2. ASSUME MarkPublish(r) PROVE MarkTypes'
  BY <1>2 DEF MarkPublish, MarkTypes
<1>3. ASSUME MarkUpdate(r) PROVE MarkTypes'
  BY <1>3 DEF MarkUpdate, MarkTypes
<1>4. ASSUME MarkFails(r) PROVE MarkTypes'
  BY <1>4 DEF MarkFails, MarkTypes
<1> QED
  BY <1>1, <1>2, <1>3, <1>4

(* Faults are bounded. *)
LEMMA FaultsTyped ==
  ASSUME FaultTypes, Fault \/ UNCHANGED faults PROVE FaultTypes'
BY ExecutionConstantsOK DEF Fault, FaultTypes, ExecutionConstantsOK

(* The commands of TaskStore keep the types of the key. *)
StoreTypes ==
  /\ stored \in [{TaskID} -> BOOLEAN] /\ claimed \in [{TaskID} -> BOOLEAN]
  /\ attempts \in [{TaskID} -> Nat]
  /\ reservations \in Nat

LEMMA StoreTyped ==
  ASSUME SchedTypes
  PROVE  /\ Store!InsertTask(TaskID) => StoreTypes'
         /\ Store!DeleteTask(TaskID) => StoreTypes'
         /\ Store!ReleaseClaim(TaskID) => StoreTypes'
<1>1. Store!InsertTask(TaskID) => StoreTypes'
  BY DEF SchedTypes, StoreTypes, Store!InsertTask
<1>2. Store!DeleteTask(TaskID) => StoreTypes'
  BY DEF SchedTypes, StoreTypes, Store!DeleteTask
<1>3. Store!ReleaseClaim(TaskID) => StoreTypes'
  BY DEF SchedTypes, StoreTypes, Store!ReleaseClaim
<1> QED
  BY <1>1, <1>2, <1>3

(* Every step keeps the types of the scheduler's part, ... *)
LEMMA SchedTyped ==
  ASSUME Types, Next PROVE SchedTypes'
<1> USE DEF SchedTypes, StoreTypes
<1>0. SchedTypes /\ calls \in [CallStep -> Nat]
  BY DEF Types
<1>1. ASSUME NEW l \in Session,
             ExecutorNext(l) \/ HandlerNext(l) \/ ClaimLost(l) \/ StartFails(l) \/ Refuse(l)
               \/ Fails(l) \/ Crash(l) \/ LeaseLost(l) \/ HandlerFails(l) \/ FlushWrite(l)
               \/ Progress(l) \/ LeaseTaskGone(l)
      PROVE  UNCHANGED schedVars
  BY <1>1 DEF ExecutorNext, HandlerNext, ClaimLost, StartFails, Refuse, Fails, Crash,
     LeaseLost, HandlerFails, FlushWrite, Progress, LeaseTaskGone, StopsAtOnce, HandlerEnds,
     Start, CheckCache, GetActionResult, Prepare, Run, UploadOutputs, Complete, CloseAndRecv,
     PublishProgress, Receive, Publish, Update, RecvFails
<1>2. MarkNext \/ ExecuteCached \/ InsertExecution \/ ProcessOpUpdate \/ WaitExecution
        \/ (\E r \in Verdict : MarkFails(r)) => UNCHANGED schedVars
  BY DEF MarkNext, MarkPublish, MarkUpdate, MarkFails, ExecuteCached, InsertExecution,
     ProcessOpUpdate, WaitExecution
<1>3. UNCHANGED schedVars => SchedTypes'
  BY <1>0 DEF schedVars, storeVars
<1>4. ASSUME ScheduleTask PROVE SchedTypes'
  BY <1>0, <1>4, StoreTyped DEF ScheduleTask, storeVars
<1>5. Reserve => reservations' \in Nat
  BY <1>0, ExecutionConstantsOK DEF Reserve, ExecutionConstantsOK
<1>6. ASSUME ScheduleReservations PROVE SchedTypes'
  BY <1>0, <1>5, <1>6 DEF ScheduleReservations, storeVars
<1>7. ASSUME NEW l \in Session, Claim(l) PROVE SchedTypes'
  BY <1>0, <1>7 DEF Claim
<1>8. ASSUME ClaimRefused PROVE SchedTypes'
  BY <1>0, <1>8 DEF ClaimRefused, storeVars
<1>9. ASSUME NEW l \in Session, Grant(l) PROVE SchedTypes'
  <2>1. attempts' \in [{TaskID} -> Nat]
    BY <1>0, <1>9 DEF Grant, Store!CountAttempt
  <2>2. calls' \in [CallStep -> Nat]
    BY <1>0, <1>9, CallsTyped DEF Grant
  <2>3. exhausted' \in BOOLEAN
    BY <1>0, <1>9 DEF Grant
  <2> QED
    BY <1>0, <1>9, <2>1, <2>2, <2>3 DEF Grant
<1>10. ASSUME NEW l \in Session, LeaseLapses(l) \/ LeaseFinalize(l) \/ LeaseRelease(l) \/ CloseUnclean(l)
       PROVE  SchedTypes'
  <2>1. calls' \in [CallStep -> Nat]
    BY <1>0, <1>10, CallsTyped DEF LeaseLapses, LeaseFinalize, LeaseRelease, CloseUnclean
  <2> QED
    BY <1>0, <1>10, <2>1, StoreTyped DEF LeaseLapses, LeaseFinalize, LeaseRelease, CloseUnclean,
       storeVars, Removes
<1>11. ASSUME ReadTask \/ DeleteExhausted \/ UnclaimTask \/ EnqueueTaskReservations
              \/ ReEnqueueFails \/ Drain
       PROVE  SchedTypes'
  <2>1. {"reading", "deleting", "unclaiming", "enqueueing"} \subseteq CallStep
    BY DEF CallStep
  <2>2. calls' \in [CallStep -> Nat]
    BY <1>0, <1>11, <2>1, CallsTyped DEF ReadTask, DeleteExhausted, UnclaimTask, EnqueueTaskReservations,
       ReEnqueueFails, Drain
  <2>3. ASSUME ReadTask \/ ReEnqueueFails PROVE SchedTypes'
    BY <1>0, <2>2, <2>3 DEF ReadTask, ReEnqueueFails, storeVars
  <2>4. ASSUME DeleteExhausted PROVE SchedTypes'
    BY <1>0, <2>2, <2>4, StoreTyped DEF DeleteExhausted, Removes
  <2>5. ASSUME UnclaimTask PROVE SchedTypes'
    BY <1>0, <2>2, <2>5, StoreTyped DEF UnclaimTask
  <2>6. ASSUME EnqueueTaskReservations PROVE SchedTypes'
    BY <1>0, <1>5, <2>2, <2>6 DEF EnqueueTaskReservations, storeVars
  <2>7. ASSUME Drain PROVE SchedTypes'
    BY <1>0, <2>2, <2>7 DEF Drain, storeVars
  <2> QED
    BY <1>11, <2>3, <2>4, <2>5, <2>6, <2>7
<1>12. ASSUME ReservationLost PROVE SchedTypes'
  BY <1>0, <1>12 DEF ReservationLost, storeVars
<1>13. ASSUME Cancel \/ Expire PROVE SchedTypes'
  BY <1>0, <1>13, StoreTyped DEF Cancel, Expire, Removes
<1> QED
  BY <1>1, <1>2, <1>3, <1>4, <1>6, <1>7, <1>8, <1>9, <1>10, <1>11, <1>12, <1>13
  DEF Next, LeaseNext, SchedulerNext, ClientNext, Failures

(* ... of the MarkExecutionFailed calls, ... *)
LEMMA MarkTyped ==
  ASSUME Types, Next PROVE MarkTypes'
<1>1. UNCHANGED marks => MarkTypes'
  BY Frames
<1>2. MarkTypes /\ "gave up" \in Verdict /\ "cancelled" \in Verdict
  BY DEF Types, Verdict
<1>3. DeleteExhausted \/ Cancel => MarkTypes'
  BY <1>2, MarksTyped DEF DeleteExhausted, Cancel
<1>4. ASSUME NEW r \in Verdict, MarkPublish(r) \/ MarkUpdate(r) \/ MarkFails(r)
      PROVE  MarkTypes'
  BY <1>2, <1>4, MarksTyped
<1> QED
  BY <1>1, <1>3, <1>4, TwoKinds, SessionFrame, OtherFrame

(* ... of the faults, ... *)
LEMMA FaultTyped ==
  ASSUME Types, Next PROVE FaultTypes'
BY TwoKinds, SessionFrame, OtherFrame, FaultsTyped DEF Types

(* ... of the execution's part, ... *)
LEMMA OtherTyped ==
  ASSUME Types, Next PROVE OtherTypes'
<1>0. OtherTypes
  BY DEF Types
<1> USE DEF OtherTypes
<1>1. ASSUME NEW l \in Session,
             \/ Start(l) \/ StartFails(l) \/ CheckCache(l) \/ GetActionResult(l) \/ Prepare(l)
             \/ Progress(l) \/ Run(l) \/ Fails(l) \/ CloseAndRecv(l) \/ Crash(l) \/ LeaseLost(l)
             \/ Receive(l) \/ RecvFails(l) \/ HandlerFails(l) \/ LeaseNext(l) \/ LeaseLapses(l)
      PROVE  UNCHANGED <<streamVars, row, cacheVars, client, lost>>
  BY <1>1 DEF LeaseNext, Claim, Grant, LeaseTaskGone, LeaseFinalize,
     LeaseRelease, CloseUnclean, LeaseLapses, StartFails, Fails, Crash,
     LeaseLost, HandlerFails, Progress, StopsAtOnce, HandlerEnds,
     Start, CheckCache, GetActionResult, Prepare, Run, CloseAndRecv, Receive, RecvFails
<1>2. ClaimRefused \/ ReadTask \/ DeleteExhausted \/ UnclaimTask \/ EnqueueTaskReservations
        \/ Drain \/ Cancel => UNCHANGED <<streamVars, row, cacheVars, client, lost>>
  BY DEF ClaimRefused, ReadTask, DeleteExhausted, UnclaimTask, EnqueueTaskReservations,
     Drain, Cancel
<1>3. UNCHANGED <<streamVars, row, cacheVars, client, lost>> => OtherTypes'
  BY Frames
<1>4. ASSUME NEW l \in Session, ClaimLost(l) \/ Refuse(l) PROVE OtherTypes'
  BY <1>0, <1>4 DEF ClaimLost, Refuse, Loses, Loss, streamVars, cacheVars
<1>5. ReEnqueueFails \/ ReservationLost \/ Expire => OtherTypes'
  BY <1>0 DEF ReEnqueueFails, ReservationLost, Expire, CallLost, Loses, Loss, streamVars, cacheVars
<1>6. ASSUME NEW r \in Verdict, MarkFails(r) PROVE OtherTypes'
  BY <1>0, <1>6 DEF MarkFails, CallLost, Loses, Loss, streamVars, cacheVars
<1>7. \A op : PublishOp(op) => told' \subseteq Final /\ {over', due'} \subseteq BOOLEAN
  BY <1>0 DEF PublishOp
<1>8. ASSUME NEW op \in Operation \union {"none"}, UpdateExecution(op)
      PROVE  row' \in Operation \union {"none"}
  BY <1>0, <1>8 DEF UpdateExecution
<1>9. Verdict \subseteq Operation
  BY DEF Operation, Final
<1>10. ASSUME NEW r \in Verdict, MarkPublish(r) PROVE OtherTypes'
  BY <1>0, <1>7, <1>10 DEF MarkPublish, cacheVars
<1>11. ASSUME NEW r \in Verdict, MarkUpdate(r) PROVE OtherTypes'
  BY <1>0, <1>8, <1>9, <1>11 DEF MarkUpdate, streamVars, cacheVars
<1>12. \A l \in Session : lastOp[l] \in Operation \union {"none"}
  BY DEF Types, SessionTypes, Operation
<1>13. ASSUME NEW l \in Session, PublishProgress(l) \/ Publish(l) PROVE OtherTypes'
  BY <1>0, <1>7, <1>13 DEF PublishProgress, Publish, cacheVars
<1>14. ASSUME NEW l \in Session, Update(l) \/ FlushWrite(l) PROVE OtherTypes'
  BY <1>0, <1>8, <1>12, <1>14 DEF Update, FlushWrite, streamVars, cacheVars
<1>15. ASSUME NEW l \in Session, UploadOutputs(l) \/ Complete(l) PROVE OtherTypes'
  BY <1>0, <1>15 DEF UploadOutputs, Complete, streamVars, cacheVars
<1>16. ClientNext => OtherTypes'
  BY <1>0 DEF ClientNext, ExecuteCached, InsertExecution, ScheduleTask, ScheduleReservations,
     ProcessOpUpdate, ClientGoes, Operation, streamVars, cacheVars
<1>17. WaitExecution => OtherTypes'
  BY <1>0 DEF WaitExecution, ClientGoes, cacheVars
<1> QED
  BY <1>1, <1>2, <1>3, <1>4, <1>5, <1>6, <1>10, <1>11, <1>13, <1>14, <1>15, <1>16, <1>17
  DEF Next, ExecutorNext, HandlerNext, Failures, SchedulerNext, MarkNext

(* ... and of the sessions. *)
LEMMA SessionTyped ==
  ASSUME Types, Next PROVE SessionTypes'
<1>0. SessionTypes
  BY DEF Types
<1>1. ASSUME NEW l \in Session, FlushWrite(l) PROVE UNCHANGED <<lease, runVars, handlerVars>>
  BY <1>1 DEF FlushWrite
<1>2. ClientNext \/ WaitExecution \/ ClaimRefused \/ ReadTask \/ DeleteExhausted
        \/ UnclaimTask \/ EnqueueTaskReservations \/ ReEnqueueFails \/ Drain
        \/ ReservationLost \/ Cancel \/ Expire
      => UNCHANGED <<lease, runVars, handlerVars>>
  BY DEF ClientNext, ExecuteCached, InsertExecution, ScheduleTask, ScheduleReservations,
     ProcessOpUpdate, WaitExecution, ClaimRefused, ReadTask, DeleteExhausted, UnclaimTask,
     EnqueueTaskReservations, ReEnqueueFails, Drain, ReservationLost, Cancel, Expire
<1>3. MarkNext \/ (\E r \in Verdict : MarkFails(r)) => UNCHANGED <<lease, runVars, handlerVars>>
  BY DEF MarkNext, MarkPublish, MarkUpdate, MarkFails
<1>4. UNCHANGED <<lease, runVars, handlerVars>> => SessionTypes'
  BY Frames
<1> SUFFICES ASSUME NEW l \in Session,
                    \/ ExecutorNext(l) \/ HandlerNext(l) \/ LeaseNext(l)
                    \/ Failures(l) \/ Progress(l)
             PROVE  SessionTypes'
  BY <1>1, <1>2, <1>3, <1>4 DEF Next, SchedulerNext
<1> USE DEF SessionTypes, Streaming
<1>5. Claim(l) => SessionTypes'
  BY <1>0 DEF Claim, Free, Over, runVars, handlerVars
<1>6. ClaimLost(l) => SessionTypes'
  BY <1>0 DEF ClaimLost, runVars, handlerVars
<1>7. Grant(l) => SessionTypes'
  BY <1>0 DEF Grant, handlerVars
<1>8. LeaseTaskGone(l) \/ LeaseLapses(l) => SessionTypes'
  BY <1>0 DEF LeaseTaskGone, LeaseLapses, runVars, handlerVars
<1>9. LeaseFinalize(l) \/ LeaseRelease(l) \/ CloseUnclean(l) => SessionTypes'
  BY <1>0 DEF LeaseFinalize, LeaseRelease, CloseUnclean, handlerVars
<1>10. Receive(l) \/ PublishProgress(l) => SessionTypes'
  BY <1>0 DEF Receive, PublishProgress, Final, handlerVars
<1>11. Publish(l) \/ Update(l) => SessionTypes'
  BY <1>0 DEF Publish, Update, runVars
<1>12. Start(l) => SessionTypes'
  BY <1>0 DEF Start, Goes
<1>13. StartFails(l) \/ Refuse(l) \/ Run(l) \/ UploadOutputs(l) => SessionTypes'
  BY <1>0 DEF StartFails, Refuse, Run, UploadOutputs, Goes, handlerVars
<1>14. Crash(l) \/ LeaseLost(l) => SessionTypes'
  BY <1>0 DEF Crash, LeaseLost, StopsAtOnce
<1>15. CloseAndRecv(l) => SessionTypes'
  BY <1>0 DEF CloseAndRecv, Goes
<1>16. Fails(l) => SessionTypes'
  BY <1>0 DEF Fails, Goes, Operation, Final, handlerVars
<1>17. ASSUME NEW as \in {"none", "broken"}, HandlerEnds(l, as), Handling(l),
              as = "none" => ~Streaming(l)
       PROVE  SessionTypes'
  <2>1. ahead' \in BOOLEAN
    BY <1>17 DEF HandlerEnds
  <2>2. lease[l] # "claimed"
    BY <1>0, <1>17 DEF Handling
  <2> QED
    BY <1>0, <1>17, <2>1, <2>2 DEF HandlerEnds, Handling
<1>18. RecvFails(l) \/ HandlerFails(l) => SessionTypes'
  BY <1>17 DEF RecvFails, HandlerFails
<1>19. CheckCache(l) => SessionTypes'
  BY <1>0 DEF CheckCache, SendAndGo, Goes, Operation, handlerVars
<1>20. Prepare(l) => SessionTypes'
  BY <1>0 DEF Prepare, SendAndGo, Goes, Operation, handlerVars
<1>21. Progress(l) => SessionTypes'
  BY <1>0 DEF Progress, SendAndGo, Goes, Operation, handlerVars
<1>22. Complete(l) => SessionTypes'
  BY <1>0 DEF Complete, SendAndGo, Goes, Operation, Final, RunResult, handlerVars
<1>23. GetActionResult(l) => SessionTypes'
  BY <1>0 DEF GetActionResult, SendAndGo, Goes, Operation, Final, handlerVars
<1> QED
  BY <1>5, <1>6, <1>7, <1>8, <1>9, <1>10, <1>11, <1>12, <1>13, <1>14, <1>15, <1>16,
     <1>18, <1>19, <1>20, <1>21, <1>22, <1>23
  DEF ExecutorNext, HandlerNext, LeaseNext, Failures

(* The types are an invariant. *)
LEMMA TypesInit == Init => Types
<1> SUFFICES ASSUME Init PROVE Types
  OBVIOUS
<1>1. SchedTypes /\ MarkTypes
  BY DEF Init, SchedTypes, MarkTypes
<1>2. SessionTypes
  BY DEF Init, SessionTypes, Streaming
<1>3. uploaded \in BOOLEAN
  BY DEF Init
<1>4. OtherTypes
  BY <1>3 DEF Init, OtherTypes, RunResult
<1>5. FaultTypes
  BY ExecutionConstantsOK DEF Init, FaultTypes, ExecutionConstantsOK
<1> QED
  BY <1>1, <1>2, <1>4, <1>5 DEF Types

LEMMA TypesStep == ASSUME Types, [Next]_vars PROVE Types'
<1>1. CASE UNCHANGED vars
  <2>1. UNCHANGED faults => FaultTypes'
    BY FaultsTyped DEF Types
  <2> QED
    BY <1>1, <2>1, Frames DEF vars, Types
<1>2. CASE Next
  BY <1>2, SchedTyped, MarkTyped, SessionTyped, OtherTyped, FaultTyped DEF Types
<1> QED
  BY <1>1, <1>2

LEMMA TypesAlways == Spec => []Types
BY TypesInit, TypesStep, PTL DEF Spec

(* TypeCorrect: every variable keeps to its type, no counter of calls goes  *)
(* below zero, and a handler that has ended holds no operation.            *)
THEOREM TypeCorrect == Spec => []TypeOK
BY TypesAlways, TypesOK, PTL
-----------------------------------------------------------------------------
(* What only grows: what was published or lost stays so, what is true of a *)
(* result stays true, and a task that is gone stays away.                  *)
Grows ==
  /\ told \subseteq told' /\ lost \subseteq lost'
  /\ uploaded => uploaded'
  /\ cached = "shared" => cached' = "shared"
  /\ Gone => Gone'
  /\ exhausted => exhausted'

(* Every step is so. *)
LEMMA StepGrows ==
  ASSUME Types, [Next]_vars PROVE Grows
<1>1. ASSUME NEW l \in Session,
             \/ Start(l) \/ StartFails(l) \/ CheckCache(l) \/ GetActionResult(l) \/ Prepare(l)
             \/ Progress(l) \/ Run(l) \/ Fails(l) \/ CloseAndRecv(l) \/ Crash(l) \/ LeaseLost(l)
             \/ Receive(l) \/ RecvFails(l) \/ HandlerFails(l)
             \/ Claim(l) \/ LeaseTaskGone(l)
             \/ LeaseRelease(l) \/ CloseUnclean(l) \/ LeaseLapses(l)
             \/ Update(l) \/ FlushWrite(l)
      PROVE  UNCHANGED <<told, lost, cacheVars, removed, exhausted>>
  BY <1>1 DEF Claim, LeaseTaskGone,
     LeaseRelease, CloseUnclean, LeaseLapses, StartFails, Fails, Crash,
     LeaseLost, HandlerFails, Progress, StopsAtOnce, HandlerEnds, Update, FlushWrite,
     Start, CheckCache, GetActionResult, Prepare, Run, CloseAndRecv, Receive, RecvFails,
     streamVars, schedVars
<1>2. ClaimRefused \/ ReadTask \/ UnclaimTask \/ EnqueueTaskReservations \/ Drain
        \/ ClientNext \/ WaitExecution
      => UNCHANGED <<told, lost, cacheVars, removed, exhausted>>
  BY DEF ClaimRefused, ReadTask, UnclaimTask, EnqueueTaskReservations, Drain, ClientNext,
     ExecuteCached, InsertExecution, ScheduleTask, ScheduleReservations,
     ProcessOpUpdate, WaitExecution, streamVars, schedVars
<1>3. UNCHANGED vars => UNCHANGED <<told, lost, cacheVars, removed, exhausted>>
  BY DEF vars, streamVars, schedVars
<1>4. UNCHANGED <<told, lost, cacheVars, removed, exhausted>> => Grows
  BY DEF Grows, cacheVars, Gone
<1>5. ASSUME NEW l \in Session, ClaimLost(l) \/ Refuse(l) PROVE Grows
  BY <1>5 DEF ClaimLost, Refuse, Loses, Grows, Gone, cacheVars, streamVars, schedVars
<1>6. \A by \in {"executor", "scheduler", "client", "expiry"} : Removes(by) => (Gone => Gone')
  BY DEF Removes, Gone
<1>7. ASSUME NEW l \in Session, Grant(l) \/ LeaseFinalize(l) PROVE Grows
  <2>1. Gone => Gone'
    BY <1>6, <1>7 DEF Grant, LeaseFinalize, Gone
  <2>2. exhausted => exhausted'
    BY <1>7 DEF Grant, LeaseFinalize
  <2> QED
    BY <1>7, <2>1, <2>2 DEF Grant, LeaseFinalize, Grows, cacheVars, streamVars
<1>8. ReEnqueueFails \/ ReservationLost => Grows
  BY DEF ReEnqueueFails, ReservationLost, CallLost, Loses, Grows, Gone, cacheVars, streamVars
<1>9. DeleteExhausted \/ Cancel \/ Expire => Grows
  <2>1. DeleteExhausted \/ Cancel \/ Expire => (Gone => Gone')
    BY <1>6 DEF DeleteExhausted, Cancel, Expire
  <2>2. DeleteExhausted \/ Cancel \/ Expire
          => UNCHANGED <<told, cacheVars, exhausted>> /\ lost \subseteq lost'
    BY DEF DeleteExhausted, Cancel, Expire, Loses, streamVars
  <2> QED
    BY <2>1, <2>2 DEF Grows, cacheVars
<1>10. ASSUME NEW r \in Verdict, MarkPublish(r) \/ MarkUpdate(r) \/ MarkFails(r) PROVE Grows
  BY <1>10 DEF MarkPublish, MarkUpdate, MarkFails, PublishOp, CallLost, Loses, Grows, Gone,
     cacheVars, streamVars, schedVars
<1>11. ASSUME NEW l \in Session, PublishProgress(l) \/ Publish(l) PROVE Grows
  <2>1. \A op : PublishOp(op) => told \subseteq told'
    BY DEF PublishOp
  <2>2. told \subseteq told'
    BY <1>11, <2>1 DEF PublishProgress, Publish
  <2>3. UNCHANGED <<lost, cacheVars, removed, exhausted>>
    BY <1>11 DEF PublishProgress, Publish, schedVars
  <2> QED
    BY <2>2, <2>3 DEF Grows, Gone, cacheVars
<1>12. ASSUME NEW l \in Session, UploadOutputs(l) \/ Complete(l) PROVE Grows
  BY <1>12 DEF UploadOutputs, Complete, Grows, Gone, streamVars, schedVars
<1> QED
  BY <1>1, <1>2, <1>3, <1>4, <1>5, <1>7, <1>8, <1>9, <1>10, <1>11, <1>12
  DEF Next, ExecutorNext, HandlerNext, LeaseNext, Failures, SchedulerNext, MarkNext
-----------------------------------------------------------------------------
(* Honesty.                                                                *)

Results == RunResult \union {"cached"}

(* The operation may be published by a handler. *)
Okay(op) ==
  /\ op \notin Verdict
  /\ op \in Results => uploaded
  /\ op = "cached" => cached = "shared"

(* What the run and the handler of a session hold. *)
Fits(l) ==
  /\ Okay(sent[l]) /\ Okay(lastOp[l])
  /\ exec[l] = "completing" => uploaded
  /\ handler[l] \in {"receiving", "updating"} /\ lastOp[l] \in Final => lastOp[l] \in told
  /\ exec[l] = "closing" /\ handler[l] # "broken" =>
       sent[l] \in Final \/ (sent[l] = "none" /\ lastOp[l] \in Final)
  /\ exec[l] = "finalizing" => told # {} \/ "mute" \in lost

Honesty ==
  /\ \A l \in Session : Fits(l)
  /\ \A op \in told \ Verdict : Okay(op)
  /\ cached \in {"none", "shared"}
  /\ cached = "shared" => uploaded

(* What may be published may always be, and progress and errors always may. *)
LEMMA OkayStays ==
  ASSUME Types, [Next]_vars
  PROVE  /\ \A op : Okay(op) => Okay(op)'
         /\ Okay("none")' /\ Okay("in progress")' /\ Okay("failed")'
<1>1. \A op : Okay(op) =>
        op \notin Verdict /\ (op \in Results => uploaded') /\ (op = "cached" => cached' = "shared")
  BY StepGrows DEF Okay, Grows
<1> QED
  BY <1>1 DEF Okay, Verdict, Results, RunResult

(* The run and the stream of a session are as before. *)
Same(k) ==
  /\ exec'[k] = exec[k] /\ sent'[k] = sent[k]
  /\ handler'[k] = handler[k] /\ lastOp'[k] = lastOp[k]

(* Then they still fit the rest. *)
LEMMA FitsStays ==
  ASSUME Types, [Next]_vars, NEW k \in Session, Fits(k), Same(k)
  PROVE  Fits(k)'
<1>1. told \subseteq told' /\ lost \subseteq lost' /\ (uploaded => uploaded')
  BY StepGrows DEF Grows
<1>2. Okay(sent[k])' /\ Okay(lastOp[k])'
  BY StepGrows DEF Grows, Fits, Same, Okay
<1>3. told # {} => told' # {}
  BY <1>1
<1> QED
  BY <1>1, <1>2, <1>3 DEF Fits, Same

(* A step of one session leaves the others alone. *)
LEMMA OneSession ==
  ASSUME Types, NEW l \in Session, SessionNext(l)
  PROVE  \A k \in Session \ {l} : Same(k) /\ lease'[k] = lease[k]
<1> USE DEF Same, Types, SessionTypes
<1>1. Start(l) \/ StartFails(l) \/ CheckCache(l) \/ GetActionResult(l) \/ Prepare(l)
             \/ Progress(l) \/ Run(l) \/ Fails(l) \/ UploadOutputs(l) \/ Complete(l) \/ Refuse(l)
      => \A k \in Session \ {l} : Same(k) /\ lease'[k] = lease[k]
  BY DEF Start, StartFails, CheckCache, GetActionResult, Prepare, Progress, Run, Fails,
     UploadOutputs, Complete, Refuse, SendAndGo, Goes, handlerVars
<1>2. CloseAndRecv(l) \/ Crash(l) \/ LeaseLost(l) \/ RecvFails(l) \/ HandlerFails(l)
      => \A k \in Session \ {l} : Same(k) /\ lease'[k] = lease[k]
  BY DEF CloseAndRecv, Crash, LeaseLost, RecvFails, HandlerFails, StopsAtOnce, HandlerEnds, Goes
<1>3. Receive(l) \/ PublishProgress(l) \/ Publish(l) \/ Update(l) \/ FlushWrite(l)
      => \A k \in Session \ {l} : Same(k) /\ lease'[k] = lease[k]
  BY DEF Receive, PublishProgress, Publish, Update, FlushWrite, runVars, handlerVars
<1>4. Claim(l) \/ ClaimLost(l) \/ Grant(l) \/ LeaseTaskGone(l) \/ LeaseFinalize(l)
             \/ LeaseRelease(l) \/ CloseUnclean(l) \/ LeaseLapses(l)
      => \A k \in Session \ {l} : Same(k) /\ lease'[k] = lease[k]
  BY DEF Claim, ClaimLost, Grant, LeaseTaskGone, LeaseFinalize, LeaseRelease, CloseUnclean,
     LeaseLapses, runVars, handlerVars
<1> QED
  BY <1>1, <1>2, <1>3, <1>4 DEF SessionNext, ExecutorNext, HandlerNext, LeaseNext, Failures

(* A step of a session leaves it fit. *)
LEMMA FitsStep ==
  ASSUME Types, NEW l \in Session, Fits(l), SessionNext(l),
         cached \in {"none", "shared"}, cached = "shared" => uploaded
  PROVE  Fits(l)'
<1>0. Next
  BY DEF SessionNext, Next, SchedulerNext
<1>1. told \subseteq told' /\ lost \subseteq lost' /\ (uploaded => uploaded')
  BY <1>0, StepGrows DEF Grows
<1>2. /\ \A op : Okay(op) => Okay(op)'
      /\ Okay("none")' /\ Okay("in progress")' /\ Okay("failed")'
  BY <1>0, OkayStays
<1> USE DEF Fits, SessionTypes
<1>3. Start(l) => Fits(l)'
  BY <1>1, <1>2 DEF Start, Goes, Types, Final, RunResult, Verdict
<1>4. StartFails(l) \/ Run(l) \/ UploadOutputs(l) => Fits(l)'
  BY <1>1, <1>2 DEF StartFails, Run, UploadOutputs, Goes, Types, handlerVars
<1>5. Refuse(l) => Fits(l)'
  BY <1>1, <1>2 DEF Refuse, Loses, Goes, Types, handlerVars
<1>6. CheckCache(l) \/ Prepare(l) \/ Progress(l) => Fits(l)'
  BY <1>1, <1>2 DEF CheckCache, Prepare, Progress, SendAndGo, Goes, Types, handlerVars
<1>7. Okay("cached")' \/ cached # "shared"
  BY <1>1, <1>0, StepGrows DEF Okay, Grows, Verdict
<1>8. GetActionResult(l) => Fits(l)'
  BY <1>1, <1>2, <1>7 DEF GetActionResult, SendAndGo, Goes, Types, handlerVars, Final
<1>9. Complete(l) => \A res \in RunResult : Okay(res)'
  BY <1>1 DEF Complete, SendAndGo, Goes, Okay, RunResult, Verdict
<1>10. Complete(l) => Fits(l)'
  BY <1>1, <1>2, <1>9 DEF Complete, SendAndGo, Goes, Types, handlerVars, Final
<1>11. Fails(l) => Fits(l)'
  BY <1>1, <1>2 DEF Fails, Goes, Types, handlerVars
<1>12. CloseAndRecv(l) => Fits(l)'
  BY <1>1, <1>2 DEF CloseAndRecv, Goes, Types
<1>13. Crash(l) \/ LeaseLost(l) => Fits(l)'
  BY <1>1, <1>2 DEF Crash, LeaseLost, StopsAtOnce, Types
<1>14. RecvFails(l) \/ HandlerFails(l) => Fits(l)'
  BY <1>1, <1>2 DEF RecvFails, HandlerFails, HandlerEnds, Streaming, Types
<1>15. Receive(l) => Fits(l)'
  BY <1>1, <1>2 DEF Receive, Types
<1>16. PublishProgress(l) => Fits(l)'
  BY <1>1, <1>2 DEF PublishProgress, Types, handlerVars, Final, RunResult, Verdict
<1>17. Publish(l) => Fits(l)'
  BY <1>1, <1>2 DEF Publish, PublishOp, runVars, Types
<1>18. Update(l) => Fits(l)'
  BY <1>1, <1>2 DEF Update, runVars, Types
<1>19. FlushWrite(l) \/ LeaseTaskGone(l) \/ LeaseLapses(l) \/ Claim(l) \/ ClaimLost(l) => Fits(l)'
  BY <1>1, <1>2 DEF FlushWrite, LeaseTaskGone, LeaseLapses, Claim, ClaimLost, runVars, handlerVars, Types
<1>20. Grant(l) \/ LeaseFinalize(l) \/ LeaseRelease(l) \/ CloseUnclean(l) => Fits(l)'
  BY <1>1, <1>2 DEF Grant, LeaseFinalize, LeaseRelease, CloseUnclean, handlerVars, Types
<1> QED
  BY <1>3, <1>4, <1>5, <1>6, <1>8, <1>10, <1>11, <1>12, <1>13, <1>14, <1>15, <1>16, <1>17,
     <1>18, <1>19, <1>20 DEF SessionNext, ExecutorNext, HandlerNext, LeaseNext, Failures

(* What becomes of the MarkExecutionFailed calls. *)
LEMMA MarkStep ==
  ASSUME [Next]_vars
  PROVE  \/ UNCHANGED marks
         \/ DeleteExhausted /\ MarkCalled("gave up")
         \/ Cancel /\ MarkCalled("cancelled")
         \/ \E r \in Verdict : MarkPublish(r) \/ MarkUpdate(r) \/ MarkFails(r)
<1>1. (DeleteExhausted => MarkCalled("gave up")) /\ (Cancel => MarkCalled("cancelled"))
  BY DEF DeleteExhausted, Cancel
<1> QED
  BY <1>1, TwoKinds, SessionFrame, OtherFrame

(* What is published. *)
LEMMA ToldStep ==
  ASSUME [Next]_vars
  PROVE  \/ told' = told
         \/ \E l \in Session : /\ handler[l] = "publishing"
                              /\ told' = told \union ({lastOp[l]} \intersect Final)
         \/ \E r \in Verdict : MarkPublish(r) /\ told' = told \union {r}
<1>1. \A l \in Session : PublishProgress(l) => told' = told
  BY DEF PublishProgress, PublishOp, Final, RunResult, Verdict
<1>2. \A l \in Session :
        Publish(l) => handler[l] = "publishing" /\ told' = told \union ({lastOp[l]} \intersect Final)
  BY DEF Publish, PublishOp
<1>3. \A r \in Verdict : MarkPublish(r) => told' = told \union {r}
  BY DEF MarkPublish, PublishOp, Final
<1> QED
  BY <1>1, <1>2, <1>3, TwoKinds, SessionFrame, OtherFrame

(* Honesty is an invariant. *)
LEMMA HonestyStep ==
  ASSUME Types, Honesty, [Next]_vars PROVE Honesty'
<1>1. \A k \in Session : Fits(k)'
  <2>1. ASSUME NEW l \in Session, SessionNext(l), NEW k \in Session PROVE Fits(k)'
    <3>1. CASE k = l
      BY <2>1, <3>1, FitsStep DEF Honesty, SessionNext
    <3>2. CASE k # l
      BY <2>1, <3>2, OneSession, FitsStays DEF Honesty, SessionNext
    <3> QED
      BY <3>1, <3>2
  <2>2. ASSUME OtherNext, NEW k \in Session PROVE Fits(k)'
    BY <2>2, OtherFrame, FitsStays DEF Honesty, Same, runVars, handlerVars
  <2> QED
    BY <2>1, <2>2, TwoKinds
<1>2. \A op : Okay(op) => Okay(op)'
  BY OkayStays
<1>3. \A op \in told' \ Verdict : Okay(op)'
  BY <1>2, ToldStep DEF Honesty, Fits
<1>4. UNCHANGED cached \/ \E l \in Session : Complete(l)
  BY TwoKinds, SessionFrame, OtherFrame
<1>5. uploaded => uploaded'
  BY StepGrows DEF Grows
<1>6. ASSUME NEW l \in Session, Complete(l) PROVE cached' \in {"shared", cached} /\ uploaded
  <2>1. exec[l] = "completing"
    BY <1>6 DEF Complete, SendAndGo, Goes
  <2> QED
    BY <1>6, <2>1 DEF Complete, Honesty, Fits
<1>7. cached' \in {"none", "shared"} /\ (cached' = "shared" => uploaded')
  BY <1>4, <1>5, <1>6 DEF Honesty
<1> QED
  BY <1>1, <1>3, <1>7 DEF Honesty

LEMMA HonestyInit == Init => Honesty
  BY DEF Init, Honesty, Fits, Okay, Results, RunResult, Verdict, Final

LEMMA HonestyAlways == Spec => []Honesty
<1>1. Types /\ Honesty /\ [Next]_vars => Honesty'
  BY HonestyStep
<1> QED
  BY <1>1, HonestyInit, TypesAlways, PTL DEF Spec
-----------------------------------------------------------------------------
(* The row.                                                                *)

RowInv ==
  /\ RowTold
  /\ \A r \in Verdict : marks["updating"][r] > 0 => r \in told

(* A handler that is publishing goes on, or fails. *)
LEMMA PublishingStays ==
  ASSUME Types, [Next]_vars, NEW l \in Session, handler[l] = "publishing"
  PROVE  \/ handler'[l] = "publishing" /\ lastOp'[l] = lastOp[l]
         \/ told' = told \union ({lastOp[l]} \intersect Final)
         \/ row = lastOp[l] /\ lastOp[l] \in Final => ahead'
<1>1. CASE OtherNext
  BY <1>1, OtherFrame DEF handlerVars
<1>2. ASSUME NEW k \in Session, k # l, SessionNext(k)
      PROVE  handler'[l] = "publishing" /\ lastOp'[l] = lastOp[l]
  BY <1>2, OneSession DEF SessionNext, Same
<1>3. Publish(l) => told' = told \union ({lastOp[l]} \intersect Final)
  BY DEF Publish, PublishOp
<1>4. RecvFails(l) \/ HandlerFails(l) => (row = lastOp[l] /\ lastOp[l] \in Final => ahead')
  BY DEF RecvFails, HandlerFails, HandlerEnds
<1>5. ASSUME SessionNext(l)
      PROVE  \/ Publish(l) \/ RecvFails(l) \/ HandlerFails(l)
             \/ handler'[l] = "publishing" /\ lastOp'[l] = lastOp[l]
  BY <1>5 DEF SessionNext, ExecutorNext, HandlerNext, LeaseNext, Failures, Claim, Grant, LeaseFinalize,
     LeaseRelease, CloseUnclean, LeaseLapses, Types, SessionTypes,
     ClaimLost, StartFails, Refuse, Fails, Crash, Free, Over,
     LeaseLost, FlushWrite, Progress, LeaseTaskGone, StopsAtOnce,
     Start, CheckCache, GetActionResult, Prepare, Run, UploadOutputs, Complete, CloseAndRecv,
     Receive, PublishProgress, Update, handlerVars
<1> QED
  BY <1>1, <1>2, <1>3, <1>4, <1>5, TwoKinds

(* A handler that failed ahead of publishing has failed for good. *)
LEMMA AheadStays == ASSUME Types, [Next]_vars, ahead PROVE ahead'
<1>1. CASE OtherNext
  BY <1>1, OtherFrame DEF handlerVars
<1>2. ASSUME NEW l \in Session, SessionNext(l) PROVE ahead'
  BY <1>2, SessionFrame DEF HandlerEnds
<1> QED
  BY <1>1, <1>2, TwoKinds

(* What is written to the row. *)
LEMMA RowStep ==
  ASSUME [Next]_vars
  PROVE  \/ row' = row \/ row' = "in progress"
         \/ \E l \in Session : (Update(l) \/ FlushWrite(l)) /\ UpdateExecution(lastOp[l])
         \/ \E r \in Verdict : MarkUpdate(r)
<1>1. \A l \in Session : Update(l) \/ FlushWrite(l) => UpdateExecution(lastOp[l])
  BY DEF Update, FlushWrite
<1> QED
  BY <1>1, TwoKinds, SessionFrame, OtherFrame

(* An operation was published, or is about to be, or its handler failed. *)
Covered(op) ==
  \/ op \in told \/ ahead
  \/ \E l \in Session : lastOp[l] = op /\ handler[l] = "publishing"

(* For what is in the row, this stays so. *)
LEMMA CoveredStays ==
  ASSUME Types, [Next]_vars, NEW op \in Final, Covered(op), op = row PROVE Covered(op)'
<1>1. told \subseteq told'
  BY StepGrows DEF Grows
<1>2. CASE op \in told \/ ahead
  BY <1>1, <1>2, AheadStays DEF Covered
<1>3. ASSUME NEW l \in Session, lastOp[l] = op, handler[l] = "publishing" PROVE Covered(op)'
  BY <1>1, <1>3, PublishingStays DEF Covered
<1> QED
  BY <1>2, <1>3 DEF Covered

(* RowInv is an invariant. *)
LEMMA RowInvStep ==
  ASSUME Types, Honesty, RowInv, [Next]_vars PROVE RowInv'
<1>1. told \subseteq told'
  BY StepGrows DEF Grows
<1>2. ASSUME row' = row PROVE RowTold'
  <2>1. row \in Final => Covered(row)
    BY DEF RowInv, RowTold, Covered
  <2>2. row \in Final =>
          \/ row \in told' \/ ahead'
          \/ \E l \in Session : lastOp'[l] = row /\ handler'[l] = "publishing"
    BY <2>1, CoveredStays DEF Covered
  <2> QED
    BY <1>2, <2>2 DEF RowTold
<1>3. ASSUME row' = "in progress" PROVE RowTold'
  BY <1>3 DEF RowTold, Final, RunResult, Verdict
<1>4. ASSUME NEW l \in Session, Update(l) \/ FlushWrite(l), UpdateExecution(lastOp[l]), row' # row
      PROVE  RowTold'
  <2>1. row' = lastOp[l]
    BY <1>4 DEF UpdateExecution
  <2>2. lastOp[l] \in Final /\ handler[l] # "publishing" => lastOp[l] \in told
    BY <1>4 DEF Honesty, Fits, Update, FlushWrite, Handling
  <2>3. handler[l] = "publishing" => handler'[l] = "publishing" /\ lastOp'[l] = lastOp[l]
    BY <1>4 DEF Update, FlushWrite, handlerVars
  <2> QED
    BY <1>1, <2>1, <2>2, <2>3 DEF RowTold
<1>5. ASSUME NEW r \in Verdict, MarkUpdate(r), row' # row PROVE RowTold'
  BY <1>1, <1>5 DEF MarkUpdate, UpdateExecution, RowInv, RowTold
<1>6. RowTold'
  BY <1>2, <1>3, <1>4, <1>5, RowStep DEF RowInv
<1>7. ASSUME NEW r \in Verdict, marks'["updating"][r] > 0 PROVE r \in told'
  <2>1. CASE UNCHANGED marks
    BY <1>1, <1>7, <2>1 DEF RowInv
  <2>2. ASSUME NEW q \in Verdict, MarkPublish(q) PROVE r \in told'
    <3>1. CASE q = r
      BY <2>2, <3>1 DEF MarkPublish, PublishOp, Final
    <3>2. CASE q # r
      BY <1>1, <1>7, <2>2, <3>2 DEF MarkPublish, Types, MarkTypes, RowInv
    <3> QED
      BY <3>1, <3>2
  <2>3. ASSUME NEW q \in Verdict, MarkUpdate(q) \/ MarkFails(q) PROVE r \in told'
    <3>1. marks["updating"][r] > 0
      BY <1>7, <2>3 DEF MarkUpdate, MarkFails, Types, MarkTypes
    <3> QED
      BY <1>1, <3>1 DEF RowInv
  <2>4. ASSUME NEW q \in Verdict, MarkCalled(q) PROVE r \in told'
    <3>1. marks["updating"][r] > 0
      BY <1>7, <2>4 DEF MarkCalled, Types, MarkTypes
    <3> QED
      BY <1>1, <3>1 DEF RowInv
  <2> QED
    BY <2>1, <2>2, <2>3, <2>4, MarkStep DEF Verdict
<1> QED
  BY <1>6, <1>7 DEF RowInv

LEMMA RowInvInit == Init => RowInv
<1>1. Init => \A r \in Verdict : ~(marks["updating"][r] > 0)
  BY DEF Init
<1>2. Init => row \notin Final
  BY DEF Init, Final, RunResult, Verdict
<1> QED
  BY <1>1, <1>2 DEF RowInv, RowTold

LEMMA RowInvAlways == Spec => []RowInv
<1>1. Types /\ Honesty /\ RowInv /\ [Next]_vars => RowInv'
  BY RowInvStep
<1> QED
  BY <1>1, RowInvInit, TypesAlways, HonestyAlways, PTL DEF Spec

(* RowIsTold: what the row says at the end of an execution was published,  *)
(* or is about to be, unless the handler that wrote it early has failed.   *)
THEOREM RowIsTold == Spec => []RowTold
<1>1. RowInv => RowTold
  BY DEF RowInv
<1> QED
  BY <1>1, RowInvAlways, PTL
-----------------------------------------------------------------------------
(* The task's removal.                                                     *)

(* Who removes the task. *)
LEMMA RemovalStep ==
  ASSUME [Next]_vars
  PROVE  \/ UNCHANGED removed
         \/ \E l \in Session : exec[l] = "finalizing"
         \/ DeleteExhausted \/ Cancel \/ Expire
<1>1. \A l \in Session : LeaseFinalize(l) => exec[l] = "finalizing"
  BY DEF LeaseFinalize
<1> QED
  BY <1>1, TwoKinds, SessionFrame, OtherFrame

(* GoneIsTold is an invariant given Honesty. *)
LEMMA ToldInit == Init => GoneIsTold
  BY DEF Init, GoneIsTold, Gone

LEMMA ToldKept ==
  ASSUME Types, Honesty, GoneIsTold, [Next]_vars PROVE GoneIsTold'
<1>1. told \subseteq told' /\ lost \subseteq lost'
  BY StepGrows DEF Grows
<1>2. told # {} => told' # {}
  BY <1>1
<1>3. lost \intersect {"mark", "mute", "expired"} # {} => lost' \intersect {"mark", "mute", "expired"} # {}
  BY <1>1
<1>4. ASSUME NEW r \in Verdict, marks["publishing"][r] > 0
      PROVE  told' # {} \/ "mark" \in lost' \/ \E q \in Verdict : marks'["publishing"][q] > 0
  <2>1. ASSUME NEW q \in Verdict, MarkPublish(q) PROVE told' # {}
    BY <2>1 DEF MarkPublish, PublishOp, Final
  <2>2. ASSUME NEW q \in Verdict, MarkFails(q) PROVE "mark" \in lost'
    BY <2>2 DEF MarkFails, CallLost, Loses
  <2>3. ASSUME NEW q \in Verdict, MarkUpdate(q) PROVE marks'["publishing"][r] > 0
    BY <1>4, <2>3 DEF MarkUpdate, Types, MarkTypes
  <2>4. ASSUME NEW q \in Verdict, MarkCalled(q) PROVE marks'["publishing"][r] > 0
    BY <1>4, <2>4 DEF MarkCalled, Types, MarkTypes
  <2> QED
    BY <1>4, <2>1, <2>2, <2>3, <2>4, MarkStep DEF Verdict
<1>5. ASSUME NEW r \in Verdict, MarkCalled(r) PROVE marks'["publishing"][r] > 0
  BY <1>5 DEF MarkCalled, Types, MarkTypes
<1>6. DeleteExhausted \/ Cancel => \E q \in Verdict : marks'["publishing"][q] > 0
  BY <1>5 DEF DeleteExhausted, Cancel, Verdict
<1>7. Expire => "expired" \in lost'
  BY DEF Expire, Loses
<1>8. \A l \in Session : exec[l] = "finalizing" => told' # {} \/ "mute" \in lost'
  BY <1>1, <1>2 DEF Honesty, Fits
<1>9. CASE UNCHANGED removed
  BY <1>2, <1>3, <1>4, <1>9 DEF GoneIsTold, Gone
<1> QED
  BY <1>6, <1>7, <1>8, <1>9, RemovalStep DEF GoneIsTold

(* TaskGoneTold: a task leaves the scheduler only with its end published   *)
(* or about to be, but for the three losses that GoneIsTold names.         *)
THEOREM TaskGoneTold == Spec => []GoneIsTold
<1>1. Types /\ Honesty /\ GoneIsTold /\ [Next]_vars => GoneIsTold'
  BY ToldKept
<1> QED
  BY <1>1, ToldInit, TypesAlways, HonestyAlways, PTL DEF Spec
-----------------------------------------------------------------------------
(* The verdicts.                                                           *)

(* There is no trace of the task. *)
Untouched ==
  /\ ~claimed[TaskID] /\ attempts[TaskID] = 0 /\ reservations = 0
  /\ \A s \in CallStep : calls[s] = 0
  /\ \A l \in Session : lease[l] = "none" /\ exec[l] = "none"

(* Before it is stored, it leaves none. *)
Removal ==
  /\ stored[TaskID] => ~Gone
  /\ stored[TaskID] \/ Gone \/ Untouched
  /\ client \in {"none", "dispatching"} => ~stored[TaskID] /\ ~Gone
  /\ client = "scheduling" => stored[TaskID] \/ Gone

(* Removal is an invariant. *)
LEMMA RemovalInit == Init => Removal
  BY DEF Init, Removal, Untouched, Gone

(* Whoever removes the task has found it, or knows that it was there. *)
LEMMA RemoverKnows ==
  ASSUME Types, DeleteExhausted \/ Cancel \/ Expire
  PROVE  /\ stored[TaskID] \/ ~Untouched
         /\ \E by \in {"scheduler", "client", "expiry"} : Removes(by)
         /\ Store!DeleteTask(TaskID) /\ UNCHANGED client
<1>0. "deleting" \in CallStep
  BY DEF CallStep
<1>1. DeleteExhausted => calls["deleting"] # 0
  <2>1. calls["deleting"] \in Nat
    BY <1>0 DEF Types, SchedTypes
  <2>2. DeleteExhausted => calls["deleting"] > 0
    BY DEF DeleteExhausted, CallEnds
  <2> QED
    BY <2>1, <2>2
<1>2. Cancel \/ Expire => stored[TaskID] \/ claimed[TaskID] \/ attempts[TaskID] > 0
  BY DEF Cancel, Expire, Store!Exists, Store!Readable
<1>3. stored[TaskID] \/ ~Untouched
  BY <1>0, <1>1, <1>2 DEF Untouched
<1>4. \/ Removes("scheduler") \/ Removes("client") \/ Removes("expiry")
  BY DEF DeleteExhausted, Cancel, Expire
<1>5. Store!DeleteTask(TaskID) /\ UNCHANGED client
  BY DEF DeleteExhausted, Cancel, Expire
<1> QED
  BY <1>3, <1>4, <1>5

LEMMA RemovalKept ==
  ASSUME Types, Removal, [Next]_vars PROVE Removal'
<1>0. SchedTypes
  BY DEF Types
<1>1. UNCHANGED <<schedVars, lease, exec, client>> => Removal'
  BY DEF Removal, Untouched, Gone, schedVars, storeVars
<1>2. ASSUME NEW l \in Session, HandlerNext(l) \/ HandlerFails(l) \/ FlushWrite(l)
      PROVE  UNCHANGED <<schedVars, lease, exec, client>>
  BY <1>2 DEF HandlerNext, PublishProgress, Receive, Publish, Update, RecvFails, HandlerFails,
     HandlerEnds, FlushWrite, runVars
<1>3. \/ \E r \in Verdict : MarkPublish(r) \/ MarkUpdate(r) \/ MarkFails(r)
      \/ UNCHANGED vars
      => UNCHANGED <<schedVars, lease, exec, client>>
  BY DEF MarkPublish, MarkUpdate, MarkFails, runVars, vars
<1>4. UNCHANGED <<stored, removed, client>> /\ ~Untouched => Removal'
  BY DEF Removal, Gone
<1>5. ASSUME NEW l \in Session,
             \/ ExecutorNext(l) \/ StartFails(l) \/ Refuse(l) \/ Fails(l) \/ Crash(l)
             \/ LeaseLost(l) \/ Progress(l)
      PROVE  UNCHANGED <<stored, removed, client>> /\ exec[l] # "none"
  BY <1>5 DEF ExecutorNext, Start, CheckCache, GetActionResult, Prepare, Run, UploadOutputs,
     Complete, CloseAndRecv, StartFails, Refuse, Fails, Crash, LeaseLost, StopsAtOnce, Progress,
     SendAndGo, Goes, Streaming, schedVars, storeVars
<1>6. ASSUME NEW l \in Session,
             \/ ClaimLost(l) \/ Grant(l) \/ LeaseTaskGone(l) \/ LeaseLapses(l)
             \/ LeaseRelease(l) \/ CloseUnclean(l)
      PROVE  UNCHANGED <<stored, removed, client>> /\ (lease[l] # "none" \/ exec[l] # "none")
  BY <1>6 DEF ClaimLost, Grant, LeaseTaskGone, LeaseLapses, LeaseRelease, CloseUnclean,
     Store!ReleaseClaim, schedVars, storeVars
<1>7. ASSUME NEW l \in Session, Claim(l)
      PROVE  UNCHANGED <<stored, removed, client>> /\ reservations # 0
  BY <1>0, <1>7 DEF Claim
<1>8. ClaimRefused \/ Drain \/ ReservationLost
      => UNCHANGED <<stored, removed, client>> /\ reservations # 0
  BY <1>0 DEF ClaimRefused, Drain, ReservationLost, storeVars
<1>9. ReadTask \/ UnclaimTask \/ EnqueueTaskReservations \/ ReEnqueueFails
      => UNCHANGED <<stored, removed, client>> /\ \E s \in CallStep : calls[s] # 0
  BY <1>0 DEF ReadTask, UnclaimTask, EnqueueTaskReservations, ReEnqueueFails, CallGoes, CallEnds,
     CallStep, Store!ReleaseClaim, storeVars
<1>10. ASSUME NEW by \in {"executor", "scheduler", "client", "expiry"},
              Store!DeleteTask(TaskID), Removes(by), UNCHANGED client,
              stored[TaskID] \/ ~Untouched
       PROVE  Removal'
  <2>1. ~stored'[TaskID]
    BY <1>0, <1>10 DEF Store!DeleteTask, SchedTypes
  <2>2. Gone'
    BY <1>10 DEF Removes, Gone, Removal
  <2>3. client \notin {"none", "dispatching"}
    BY <1>10 DEF Removal
  <2> QED
    BY <1>10, <2>1, <2>2, <2>3 DEF Removal
<1>11. ASSUME NEW l \in Session, LeaseFinalize(l) PROVE Removal'
  <2>1. ~Untouched
    BY <1>11 DEF LeaseFinalize, Untouched
  <2>2. CASE claimed[TaskID]
    BY <1>10, <1>11, <2>1, <2>2 DEF LeaseFinalize
  <2>3. CASE ~claimed[TaskID]
    BY <1>4, <1>11, <2>1, <2>3 DEF LeaseFinalize, storeVars
  <2> QED
    BY <2>2, <2>3
<1>12. DeleteExhausted \/ Cancel \/ Expire => Removal'
  BY <1>10, RemoverKnows
<1>14. ExecuteCached \/ InsertExecution \/ ProcessOpUpdate \/ WaitExecution => Removal'
  <2>1. ExecuteCached \/ InsertExecution \/ ProcessOpUpdate \/ WaitExecution
          => /\ UNCHANGED <<schedVars, lease, exec>>
             /\ client' \in {"none", "dispatching", "scheduling"} =>
                  client' = "dispatching" /\ client = "none"
    BY DEF ExecuteCached, InsertExecution, ProcessOpUpdate, WaitExecution, ClientGoes, runVars
  <2> QED
    BY <2>1 DEF Removal, Untouched, Gone, schedVars, storeVars
<1>15. ScheduleTask => Removal'
  <2>1. ASSUME Store!InsertTask(TaskID), ClientGoes({"dispatching"}, "scheduling"), UNCHANGED removed
        PROVE  Removal'
    <3>1. stored'[TaskID]
      BY <1>0, <2>1 DEF Store!InsertTask, SchedTypes
    <3> QED
      BY <2>1, <3>1 DEF Removal, ClientGoes, Gone
  <2>2. ASSUME UNCHANGED <<schedVars, lease, exec>>, ClientGoes({"dispatching"}, "error")
        PROVE  Removal'
    BY <2>2 DEF Removal, Untouched, Gone, ClientGoes, schedVars, storeVars
  <2> QED
    BY <2>1, <2>2 DEF ScheduleTask, schedVars, runVars
<1>16. ScheduleReservations => Removal'
  <2>1. ScheduleReservations => /\ UNCHANGED <<stored, removed>> /\ client = "scheduling"
                                /\ client' \in {"executing", "error"}
    BY DEF ScheduleReservations, ClientGoes, storeVars
  <2> QED
    BY <2>1 DEF Removal, Gone
<1>17. OtherNext => Removal'
  BY <1>1, <1>3, <1>4, <1>8, <1>9, <1>12, <1>14, <1>15, <1>16 DEF OtherNext, ClientNext, Untouched
<1>18. ASSUME NEW l \in Session, SessionNext(l) PROVE Removal'
  BY <1>1, <1>2, <1>4, <1>5, <1>6, <1>7, <1>11, <1>18
  DEF SessionNext, LeaseNext, Failures, HandlerNext, Untouched
<1> QED
  BY <1>17, <1>18, TwoKinds

LEMMA RemovalAlways == Spec => []Removal
<1>1. Types /\ Removal /\ [Next]_vars => Removal'
  BY RemovalKept
<1> QED
  BY <1>1, RemovalInit, TypesAlways, PTL DEF Spec

(* Where a MarkExecutionFailed call comes from. *)
LEMMA MarksBack ==
  ASSUME Types, [Next]_vars, NEW s \in {"publishing", "updating"}, NEW r \in Verdict,
         marks'[s][r] > 0
  PROVE  \/ \E q \in {"publishing", "updating"} : marks[q][r] > 0
         \/ DeleteExhausted /\ r = "gave up"
         \/ Cancel /\ r = "cancelled"
<1> USE DEF Types, MarkTypes
<1>1. ASSUME NEW v \in Verdict, MarkPublish(v)
      PROVE  \E q \in {"publishing", "updating"} : marks[q][r] > 0
  <2>1. CASE v = r
    BY <1>1, <2>1 DEF MarkPublish
  <2>2. CASE v # r
    BY <1>1, <2>2 DEF MarkPublish
  <2> QED
    BY <2>1, <2>2
<1>2. ASSUME NEW v \in Verdict, MarkUpdate(v) \/ MarkFails(v) PROVE marks[s][r] > 0
  BY <1>2 DEF MarkUpdate, MarkFails
<1>3. ASSUME NEW v \in Verdict, MarkCalled(v), v # r PROVE marks[s][r] > 0
  BY <1>3 DEF MarkCalled
<1>4. "gave up" \in Verdict /\ "cancelled" \in Verdict
  BY DEF Verdict
<1> QED
  BY <1>1, <1>2, <1>3, <1>4, MarkStep

(* Verdicts are of a task that is gone. *)
VerdictInv ==
  /\ \A s \in {"publishing", "updating"}, r \in Verdict : marks[s][r] > 0 => Gone
  /\ told \intersect Verdict # {} => Gone

LEMMA VerdictInit == Init => VerdictInv
<1>1. Init => \A s \in {"publishing", "updating"}, r \in Verdict : ~(marks[s][r] > 0)
  BY DEF Init
<1>2. Init => told = {}
  BY DEF Init
<1> QED
  BY <1>1, <1>2 DEF VerdictInv

LEMMA VerdictKept ==
  ASSUME Types, Honesty, Removal, VerdictInv, [Next]_vars PROVE VerdictInv'
<1>1. Gone => Gone'
  BY StepGrows DEF Grows
<1>2. DeleteExhausted \/ Cancel => Gone'
  BY RemoverKnows DEF Removal, Removes, Gone
<1>3. ASSUME NEW s \in {"publishing", "updating"}, NEW r \in Verdict, marks'[s][r] > 0 PROVE Gone'
  BY <1>1, <1>2, <1>3, MarksBack DEF VerdictInv
<1>4. ASSUME NEW r \in Verdict, MarkPublish(r) PROVE Gone'
  BY <1>1, <1>4 DEF MarkPublish, VerdictInv
<1>5. \A l \in Session : lastOp[l] \notin Verdict
  BY DEF Honesty, Fits, Okay
<1>6. told' \intersect Verdict # {} => told \intersect Verdict # {} \/ \E r \in Verdict : MarkPublish(r)
  BY <1>5, ToldStep
<1>7. told' \intersect Verdict # {} => Gone'
  BY <1>1, <1>4, <1>6 DEF VerdictInv
<1> QED
  BY <1>3, <1>7 DEF VerdictInv

(* The attempts are used up when the task is to be given up. *)
ExhaustedInv ==
  /\ stored[TaskID] /\ attempts[TaskID] >= MaxAttempts => exhausted
  /\ calls["deleting"] > 0 => exhausted
  /\ \A s \in {"publishing", "updating"} : marks[s]["gave up"] > 0 => exhausted
  /\ "gave up" \in told => exhausted

LEMMA ExhaustedInit == Init => ExhaustedInv
<1>1. Init => \A s \in {"publishing", "updating"} : ~(marks[s]["gave up"] > 0)
  <2>1. Init => \A s \in {"publishing", "updating"} : marks[s] = [r \in Verdict |-> 0]
    BY DEF Init
  <2>2. Init => \A s \in {"publishing", "updating"} : marks[s]["gave up"] = 0
    BY <2>1 DEF Verdict
  <2>3. 0 \in Nat /\ ~(0 > 0)
    OBVIOUS
  <2> QED
    BY <2>2, <2>3
<1>2. Init => told = {} /\ ~stored[TaskID] /\ ~(calls["deleting"] > 0)
  BY DEF Init, CallStep
<1> QED
  BY <1>1, <1>2 DEF ExhaustedInv

(* Where a call that deletes the task comes from. *)
LEMMA CallsBack ==
  ASSUME Types, [Next]_vars, calls'["deleting"] > 0
  PROVE  \/ calls["deleting"] > 0
         \/ stored[TaskID] /\ attempts[TaskID] >= MaxAttempts
<1> USE DEF Types, SchedTypes, CallStep
<1>1. ASSUME NEW l \in Session, SessionNext(l)
      PROVE  UNCHANGED calls \/ \E n \in Nat : ReEnqueueCalled(n)
  <2>1. \/ Grant(l) \/ LeaseLapses(l) \/ LeaseFinalize(l) \/ LeaseRelease(l) \/ CloseUnclean(l)
        \/ UNCHANGED calls
    BY <1>1, SessionFrame
  <2> QED
    BY <2>1 DEF Grant, LeaseLapses, LeaseFinalize, LeaseRelease, CloseUnclean
<1>2. UnclaimTask => CallGoes("unclaiming", "enqueueing")
  BY DEF UnclaimTask
<1>3. ASSUME NEW n \in Nat, ReEnqueueCalled(n) PROVE calls["deleting"] > 0
  BY <1>3 DEF ReEnqueueCalled
<1>4. ASSUME NEW s \in CallStep, CallEnds(s) PROVE calls["deleting"] > 0
  BY <1>4 DEF CallEnds
<1>5. CallGoes("unclaiming", "enqueueing") \/ CallGoes("reading", "unclaiming") => calls["deleting"] > 0
  BY DEF CallGoes
<1>6. Drain => ReEnqueueCalled(1)
  BY DEF Drain
<1>7. ReadTask => \/ CallEnds("reading") \/ CallGoes("reading", "unclaiming")
                  \/ stored[TaskID] /\ attempts[TaskID] >= MaxAttempts
  BY DEF ReadTask, Store!Readable
<1> QED
  BY <1>1, <1>2, <1>3, <1>4, <1>5, <1>6, <1>7, TwoKinds, OtherFrame

LEMMA ExhaustedKept ==
  ASSUME Types, Honesty, ExhaustedInv, [Next]_vars PROVE ExhaustedInv'
<1>1. exhausted => exhausted'
  BY StepGrows DEF Grows
<1>2. calls'["deleting"] > 0 => exhausted'
  BY <1>1, CallsBack DEF ExhaustedInv
<1>3. DeleteExhausted => exhausted
  BY DEF DeleteExhausted, CallEnds, ExhaustedInv
<1>4. ASSUME NEW s \in {"publishing", "updating"}, marks'[s]["gave up"] > 0 PROVE exhausted'
  <2>1. "gave up" \in Verdict /\ "gave up" # "cancelled"
    BY DEF Verdict
  <2>2. \/ \E q \in {"publishing", "updating"} : marks[q]["gave up"] > 0
        \/ DeleteExhausted
    BY <1>4, <2>1, MarksBack
  <2> QED
    BY <1>1, <1>3, <2>2 DEF ExhaustedInv
<1>5. \A l \in Session : lastOp[l] # "gave up"
  BY DEF Honesty, Fits, Okay, Verdict
<1>6. MarkPublish("gave up") => exhausted
  BY DEF MarkPublish, ExhaustedInv
<1>7. "gave up" \in told' => exhausted'
  BY <1>1, <1>5, <1>6, ToldStep DEF ExhaustedInv
<1>8. \/ UNCHANGED <<stored, attempts>>
      \/ Store!InsertTask(TaskID) \/ Store!DeleteTask(TaskID)
      \/ \E l \in Session : Grant(l)
  BY TwoKinds, SessionFrame, OtherFrame
<1>9. SchedTypes /\ MaxAttempts > 0
  BY ExecutionConstantsOK DEF Types, ExecutionConstantsOK
<1>10. Store!InsertTask(TaskID) => ~(attempts'[TaskID] >= MaxAttempts)
  BY <1>9, ExecutionConstantsOK DEF Store!InsertTask, SchedTypes, ExecutionConstantsOK
<1>11. Store!DeleteTask(TaskID) => ~stored'[TaskID]
  BY <1>9 DEF Store!DeleteTask, SchedTypes
<1>12. ASSUME NEW l \in Session, Grant(l)
       PROVE  stored'[TaskID] /\ attempts'[TaskID] >= MaxAttempts => exhausted'
  BY <1>12 DEF Grant, Store!Readable
<1>13. stored'[TaskID] /\ attempts'[TaskID] >= MaxAttempts => exhausted'
  BY <1>1, <1>8, <1>10, <1>11, <1>12 DEF ExhaustedInv
<1> QED
  BY <1>2, <1>4, <1>7, <1>13 DEF ExhaustedInv

(* ResultsTrue: what the client is told is true (Truthful).                *)
THEOREM ResultsTrue == Spec => []Truthful
<1>1. Types /\ Honesty /\ Removal /\ VerdictInv /\ [Next]_vars => VerdictInv'
  BY VerdictKept
<1>2. Types /\ Honesty /\ ExhaustedInv /\ [Next]_vars => ExhaustedInv'
  BY ExhaustedKept
<1>3. Honesty /\ Removal /\ VerdictInv /\ ExhaustedInv => Truthful
  <2> SUFFICES ASSUME Honesty, Removal, VerdictInv, ExhaustedInv PROVE Truthful
    OBVIOUS
  <2>1. told \intersect (RunResult \union {"cached"}) # {} => uploaded
    BY DEF Honesty, Okay, Results, RunResult, Verdict
  <2>2. "cached" \in told => cached = "shared"
    BY DEF Honesty, Okay, Verdict
  <2>3. told \intersect Verdict # {} => Gone /\ ~stored[TaskID]
    BY DEF VerdictInv, Removal
  <2> QED
    BY <2>1, <2>2, <2>3 DEF Truthful, ExhaustedInv
<1> QED
  BY <1>1, <1>2, <1>3, VerdictInit, ExhaustedInit, TypesAlways, HonestyAlways, RemovalAlways, PTL
  DEF Spec
=============================================================================
