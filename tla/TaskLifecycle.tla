---------------------------- MODULE TaskLifecycle ----------------------------
(***************************************************************************)
(* What the scheduler promises about a task, without saying how: it is     *)
(* pending or leased until it is gone, a lease is granted to one worker at *)
(* a time, at most MaxAttempts times, and a lease returns to the pending   *)
(* tasks only when nobody runs the task any more.  Module Scheduler        *)
(* implements this as long as only executors crash and tasks are cancelled.*)
(***************************************************************************)
EXTENDS Naturals

CONSTANTS
  Task,         \* the IDs of tasks
  Worker,       \* whoever may run a task
  MaxAttempts   \* how often a task may be tried

VARIABLES
  status,       \* status[t]: "new", "pending", "leased" or "gone"
  tries,        \* tries[t]: how often t has been tried, 0 when it is gone
  granted,      \* granted[t]: a worker was told, or is being told, to run t
  runner        \* runner[t]: the workers that run t

lifecycleVars == <<status, tries, granted, runner>>

Init ==
  /\ status = [t \in Task |-> "new"]
  /\ tries = [t \in Task |-> 0]
  /\ granted = [t \in Task |-> FALSE]
  /\ runner = [t \in Task |-> {}]

Submit(t) ==
  /\ status[t] = "new"
  /\ status' = [status EXCEPT ![t] = "pending"]
  /\ UNCHANGED <<tries, granted, runner>>

(* The task is reserved for one worker; nobody runs it. *)
Acquire(t) ==
  /\ status[t] = "pending" /\ ~granted[t] /\ runner[t] = {}
  /\ status' = [status EXCEPT ![t] = "leased"]
  /\ UNCHANGED <<tries, granted, runner>>

(* The try counts even if the worker is not told. *)
Grant(t) ==
  /\ status[t] = "leased" /\ ~granted[t] /\ tries[t] < MaxAttempts
  /\ tries' = [tries EXCEPT ![t] = @ + 1]
  /\ \E told \in BOOLEAN : granted' = [granted EXCEPT ![t] = told]
  /\ UNCHANGED <<status, runner>>

(* The task may be gone by the time the worker hears of its grant. *)
Start(t, w) ==
  /\ granted[t] /\ runner[t] = {}
  /\ runner' = [runner EXCEPT ![t] = {w}]
  /\ UNCHANGED <<status, tries, granted>>

(* Workers stop, one at the end of its run or several in a crash. *)
Stop(W) ==
  /\ runner' = [t \in Task |-> runner[t] \ W]
  /\ UNCHANGED <<status, tries, granted>>

(* A grant is withdrawn only from a worker that has stopped, or for a task *)
(* that is gone.                                                           *)
Revoke(t) ==
  /\ runner[t] = {} \/ status[t] = "gone"
  /\ granted' = [granted EXCEPT ![t] = FALSE]
  /\ UNCHANGED <<status, tries, runner>>

Return(t) ==
  /\ status[t] = "leased" /\ ~granted[t] /\ runner[t] = {}
  /\ tries[t] < MaxAttempts
  /\ status' = [status EXCEPT ![t] = "pending"]
  /\ UNCHANGED <<tries, granted, runner>>

(* Finalized, given up or cancelled. *)
Remove(t) ==
  /\ status[t] # "new"
  /\ status' = [status EXCEPT ![t] = "gone"]
  /\ tries' = [tries EXCEPT ![t] = 0]
  /\ \E told \in BOOLEAN : granted' = [granted EXCEPT ![t] = granted[t] /\ told]
  /\ UNCHANGED runner

Next ==
  \/ \E t \in Task :
       \/ Submit(t) \/ Acquire(t) \/ Grant(t) \/ Revoke(t) \/ Return(t) \/ Remove(t)
       \/ \E w \in Worker : Start(t, w)
  \/ \E W \in SUBSET Worker : Stop(W)

Spec == Init /\ [][Next]_lifecycleVars
=============================================================================
