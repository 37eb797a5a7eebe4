------------------------------ MODULE TaskStore ------------------------------
(***************************************************************************)
(* The state the scheduler servers share through Redis: one hash per task  *)
(* ("task/<id>") and the pool's sorted set of unclaimed task IDs.  Every    *)
(* operator below is one Redis command or one Lua script, so it is atomic; *)
(* the handlers that combine them are in module Scheduler.                 *)
(***************************************************************************)
EXTENDS Naturals

CONSTANTS
  Task          \* the IDs of tasks

VARIABLES
  stored,       \* stored[t]: the hash of t has its taskProto field
  claimed,      \* claimed[t]: the hash of t has the "claimed" field
  attempts,     \* attempts[t]: the attemptCount field, 0 when it is absent
  unclaimed     \* the pool's "unclaimedTasks" sorted set, scores left out

storeVars == <<stored, claimed, attempts, unclaimed>>

StoreTypeOK ==
  /\ stored \in [Task -> BOOLEAN]
  /\ claimed \in [Task -> BOOLEAN]
  /\ attempts \in [Task -> Nat]
  /\ unclaimed \in SUBSET Task

StoreInit ==
  /\ stored = [t \in Task |-> FALSE]
  /\ claimed = [t \in Task |-> FALSE]
  /\ attempts = [t \in Task |-> 0]
  /\ unclaimed = {}

(* EXISTS: Redis keeps a hash for as long as it has one field, so a key    *)
(* holding nothing but a counter exists although there is no task in it.   *)
Exists(t) == stored[t] \/ claimed[t] \/ attempts[t] > 0

(* Mutant of Readable: any key counts as a task. *)
ReadableKey(t) == Exists(t)

(* readTask: the task is found when its taskProto field is there. *)
Readable(t) == stored[t]

(* insertTask: HSET of the task's fields, attemptCount = 0. *)
InsertTask(t) ==
  /\ stored' = [stored EXCEPT ![t] = TRUE]
  /\ attempts' = [attempts EXCEPT ![t] = 0]
  /\ UNCHANGED <<claimed, unclaimed>>

(* deleteTask: DEL of the whole hash, whether or not it is claimed. *)
DeleteTask(t) ==
  /\ stored' = [stored EXCEPT ![t] = FALSE]
  /\ claimed' = [claimed EXCEPT ![t] = FALSE]
  /\ attempts' = [attempts EXCEPT ![t] = 0]
  /\ UNCHANGED unclaimed

(* Mutant of CanClaim: the script forgets to look at the claimed field. *)
CanClaimTwice(t) == Exists(t)

(* redisAcquireClaim, when it returns 1. *)
CanClaim(t) == Exists(t) /\ ~claimed[t]

AcquireClaim(t) ==
  /\ claimed' = [claimed EXCEPT ![t] = TRUE]
  /\ UNCHANGED <<stored, attempts, unclaimed>>

(* redisReleaseClaim: removes the field if it is there.  Nothing says whose *)
(* claim it is.                                                            *)
ReleaseClaim(t) ==
  /\ claimed' = [claimed EXCEPT ![t] = FALSE]
  /\ UNCHANGED <<stored, attempts, unclaimed>>

(* claimTask, second command: HINCRBY creates the hash if there is none. *)
CountAttempt(t) == attempts' = [attempts EXCEPT ![t] = @ + 1]
=============================================================================
