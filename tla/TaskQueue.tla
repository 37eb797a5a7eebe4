------------------------------ MODULE TaskQueue ------------------------------
(***************************************************************************)
(* taskQueue: the reservations waiting in an executor.  There is a FIFO    *)
(* queue for each group that has any; the queues are in a list, and a      *)
(* cursor goes round the list to take turns.  A FIFO queue is the code's   *)
(* heap: all priorities are 0, so that it is ordered by insertion time.    *)
(***************************************************************************)
EXTENDS Integers, SequencesExt

CONSTANTS
  Group,        \* the groups that tasks belong to
  Reservation,  \* task reservations
  GroupOf,      \* the group of each reservation
  NoGroup       \* stands for a nil cursor

ASSUME QueueConstantsOK ==
  /\ NoGroup \notin Group /\ IsFiniteSet(Group)
  /\ GroupOf \in [Reservation -> Group]

VARIABLES
  pqs,          \* the list of groups with a queue
  fifo,         \* fifo[g]: the queue of g, empty when g has none
  currentPQ,    \* the group whose turn it is
  numTasks      \* the number of reservations in all queues

queueVars == <<pqs, fifo, currentPQ, numTasks>>

QueueTypeOK ==
  /\ pqs \in Seq(Group)
  /\ fifo \in [Group -> Seq(Reservation)]
  /\ currentPQ \in Group \union {NoGroup}
  /\ numTasks \in Nat

QueueInit ==
  /\ pqs = <<>>
  /\ fifo = [g \in Group |-> <<>>]
  /\ currentPQ = NoGroup
  /\ numTasks = 0

(* The place of g in the list. *)
Place(g) == CHOOSE i \in DOMAIN pqs : pqs[i] = g

(* A group that has no queue gets one at the end of the list. *)
Enqueue(r) ==
  LET g == GroupOf[r]
  IN /\ fifo' = [fifo EXCEPT ![g] = Append(@, r)]
     /\ numTasks' = numTasks + 1
     /\ IF fifo[g] = <<>>
        THEN /\ pqs' = Append(pqs, g)
             /\ currentPQ' = IF currentPQ = NoGroup THEN g ELSE currentPQ
        ELSE UNCHANGED <<pqs, currentPQ>>

Peek == Head(fifo[currentPQ])

(* Mutant of NextTurn: the cursor goes on from the list after the removal, *)
(* in which the current group has no successor any more.                   *)
NextTurnLate(list) ==
  IF list = <<>> THEN NoGroup
  ELSE IF currentPQ \in ToSet(list) /\ Place(currentPQ) < Len(pqs)
       THEN pqs[Place(currentPQ) + 1] ELSE list[1]

(* The cursor moves to the next group of the old list, or from its end to  *)
(* the front of the new one.                                               *)
NextTurn(list) ==
  IF Place(currentPQ) < Len(pqs) THEN pqs[Place(currentPQ) + 1]
  ELSE IF list = <<>> THEN NoGroup ELSE list[1]

(* Mutant of Dequeue: a group keeps its empty queue. *)
DequeueKeeps ==
  /\ fifo' = [fifo EXCEPT ![currentPQ] = Tail(@)]
  /\ UNCHANGED pqs
  /\ currentPQ' = NextTurn(pqs)
  /\ numTasks' = numTasks - 1

(* Mutant of Dequeue: the number of tasks is not updated. *)
DequeueUncounted ==
  /\ fifo' = [fifo EXCEPT ![currentPQ] = Tail(@)]
  /\ pqs' = IF Len(fifo[currentPQ]) = 1
            THEN RemoveAt(pqs, Place(currentPQ)) ELSE pqs
  /\ currentPQ' = NextTurn(pqs')
  /\ UNCHANGED numTasks

(* Takes the reservation Peek shows; a group whose queue is then empty     *)
(* leaves the list.                                                        *)
Dequeue ==
  /\ fifo' = [fifo EXCEPT ![currentPQ] = Tail(@)]
  /\ pqs' = IF Len(fifo[currentPQ]) = 1
            THEN RemoveAt(pqs, Place(currentPQ)) ELSE pqs
  /\ currentPQ' = NextTurn(pqs')
  /\ numTasks' = numTasks - 1

(* The list has each group that has reservations, once; the cursor is on   *)
(* the list, and nil only when there is nothing to take.                   *)
WellFormed ==
  /\ \A i, j \in DOMAIN pqs : pqs[i] = pqs[j] => i = j
  /\ \A g \in Group : g \in ToSet(pqs) <=> fifo[g] # <<>>
  /\ currentPQ = NoGroup <=> pqs = <<>>
  /\ currentPQ # NoGroup => currentPQ \in ToSet(pqs)

(* How many turns of other groups come before the turn of g. *)
TurnsBefore(g) ==
  IF Place(g) >= Place(currentPQ) THEN Place(g) - Place(currentPQ)
  ELSE Place(g) - Place(currentPQ) + Len(pqs)
=============================================================================
