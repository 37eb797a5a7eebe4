---------------------------- MODULE CommandBuffer ----------------------------
(***************************************************************************)
(* CommandBuffer: increments of counts and additions to sets that a server *)
(* keeps in memory and sends to Redis now and then.                        *)
(*                                                                         *)
(* For each increment it is known how many times it was added to its count *)
(* in Redis, so that what is lost or added twice shows, and amounts do not *)
(* matter.                                                                 *)
(***************************************************************************)
EXTENDS Integers, FiniteSets

CONSTANTS
  Server,       \* the servers, each with a buffer
  Increment     \* the increments of counts: HINCRBY

VARIABLES
  hincr,        \* hincr[s]: the increments in the buffer of s
  sadd,         \* sadd[s]: the members in the buffer of s
  sentIncrements, \* of the flush in progress: HINCRBY not yet executed,
  sentMembers,    \* and SADD not yet executed
  isShuttingDown,
  hash,         \* hash[i]: how many times i was added to its count in Redis
  members       \* the members in the sets in Redis

bufferVars == <<hincr, sadd, sentIncrements, sentMembers, isShuttingDown>>
redisVars == <<hash, members>>

BufferTypeOK(Member) ==
  /\ hincr \in [Server -> SUBSET Increment]
  /\ sadd \in [Server -> SUBSET Member]
  /\ sentIncrements \in [Server -> SUBSET Increment]
  /\ sentMembers \in [Server -> SUBSET Member]
  /\ isShuttingDown \in [Server -> BOOLEAN]
  /\ hash \in [Increment -> Nat]
  /\ members \in SUBSET Member

BufferInit ==
  /\ hincr = [s \in Server |-> {}]
  /\ sadd = [s \in Server |-> {}]
  /\ sentIncrements = [s \in Server |-> {}]
  /\ sentMembers = [s \in Server |-> {}]
  /\ isShuttingDown = [s \in Server |-> FALSE]
  /\ hash = [i \in Increment |-> 0]
  /\ members = {}

(* While the server is shutting down, commands are not buffered. *)
HIncrBy(s, i) ==
  IF isShuttingDown[s]
  THEN hash' = [hash EXCEPT ![i] = @ + 1] /\ UNCHANGED hincr
  ELSE hincr' = [hincr EXCEPT ![s] = @ \union {i}] /\ UNCHANGED hash

SAdd(s, m) ==
  IF isShuttingDown[s]
  THEN members' = members \union {m} /\ UNCHANGED sadd
  ELSE sadd' = [sadd EXCEPT ![s] = @ \union {m}] /\ UNCHANGED members

Flushing(s) == sentIncrements[s] # {} \/ sentMembers[s] # {}

(* The contents of the buffer become a pipeline of commands; new commands  *)
(* can be buffered from now on.  A server has one flush at a time: Flush is *)
(* called by the goroutine of StartPeriodicFlush, and by StopPeriodicFlush *)
(* after it has stopped that goroutine.                                    *)
Flush(s) ==
  /\ ~Flushing(s)
  /\ hincr[s] # {} \/ sadd[s] # {}
  /\ sentIncrements' = [sentIncrements EXCEPT ![s] = hincr[s]]
  /\ sentMembers' = [sentMembers EXCEPT ![s] = sadd[s]]
  /\ hincr' = [hincr EXCEPT ![s] = {}]
  /\ sadd' = [sadd EXCEPT ![s] = {}]
  /\ UNCHANGED <<isShuttingDown, redisVars>>

(* Redis executes one command of the pipeline: the increments of one count, or  *)
(* a member.  A pipeline is not atomic, and a Ring client sends each shard *)
(* its part of it, so that there is no order between keys.                 *)
ExecHIncrBy(s, incs) ==
  /\ incs \subseteq sentIncrements[s] /\ incs # {}
  /\ hash' = [i \in Increment |-> IF i \in incs THEN hash[i] + 1 ELSE hash[i]]
  /\ sentIncrements' = [sentIncrements EXCEPT ![s] = @ \ incs]
  /\ UNCHANGED <<hincr, sadd, sentMembers, isShuttingDown, members>>

ExecSAdd(s, m) ==
  /\ m \in sentMembers[s]
  /\ members' = members \union {m}
  /\ sentMembers' = [sentMembers EXCEPT ![s] = @ \ {m}]
  /\ UNCHANGED <<hincr, sadd, sentIncrements, isShuttingDown, hash>>

(* A flush that fails drops the commands that are left. *)
FlushFails(s) ==
  /\ Flushing(s)
  /\ sentIncrements' = [sentIncrements EXCEPT ![s] = {}]
  /\ sentMembers' = [sentMembers EXCEPT ![s] = {}]
  /\ UNCHANGED <<hincr, sadd, isShuttingDown, redisVars>>

(* A flush in progress is waited for; the last one follows. *)
StopPeriodicFlush(s) ==
  /\ ~isShuttingDown[s] /\ ~Flushing(s)
  /\ isShuttingDown' = [isShuttingDown EXCEPT ![s] = TRUE]
  /\ UNCHANGED <<hincr, sadd, sentIncrements, sentMembers, redisVars>>

(* The server dies, and another one takes its place. *)
Lose(s) ==
  /\ hincr' = [hincr EXCEPT ![s] = {}]
  /\ sadd' = [sadd EXCEPT ![s] = {}]
  /\ sentIncrements' = [sentIncrements EXCEPT ![s] = {}]
  /\ sentMembers' = [sentMembers EXCEPT ![s] = {}]
  /\ isShuttingDown' = [isShuttingDown EXCEPT ![s] = FALSE]
  /\ UNCHANGED redisVars
=============================================================================
