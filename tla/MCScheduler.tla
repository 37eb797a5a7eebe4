----------------------------- MODULE MCScheduler -----------------------------
(* Instances of Scheduler for TLC. *)
EXTENDS Scheduler, TLC

(* Executors are interchangeable when all of them are unstable, slots and  *)
(* tasks always are.                                                       *)
SymmetricPool ==
  Permutations(Executor) \union Permutations(Slot) \union Permutations(Task)
=============================================================================
