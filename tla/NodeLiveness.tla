----------------------------- MODULE NodeLiveness -----------------------------
(***************************************************************************)
(* The liveness records of the Raft store's nodes.  A node holds an epoch  *)
(* as long as it keeps renewing its record, by compare-and-swap requests   *)
(* proposed to Raft.  An error leaves it open whether the proposal will be *)
(* applied: it may be, long after the node has given it up or restarted.   *)
(* Time is abstracted to the order of expirations: version numbers those   *)
(* of a key, and the ones up to horizon have passed.                       *)
(***************************************************************************)
EXTENDS Naturals

CONSTANTS
  Node,         \* the nodes, and the keys of their liveness records
  Key,          \* the keys that are compared and swapped
  None,         \* the empty value: no record, or one with nothing set
  MaxEvents     \* bound: MaxEvents[n] restarts, errors, expirations,
                \* releases and renewals ahead of time of node n

ASSUME NodesHaveKeys == Node \subseteq Key /\ MaxEvents \in [Node -> Nat]

VARIABLES
  stored,       \* stored[k]: the value of key k, replicated by Raft
  proposals,    \* compare-and-swap requests that may yet be applied
  call,         \* call[n][k]: the request of n that is under way for k
  clock,        \* clock[n]: the Lamport clock, the node's epoch
  lastLivenessRecord,
  version,      \* version[k]: the last expiration requested for key k
  horizon,      \* horizon[k]: the last one that has passed
  events,       \* counts what MaxEvents bounds
  retired       \* history: retired[n]: the epochs n held and gave up, by a
                \* restart or because it found its record changed

raftVars     == <<stored, proposals, call>>
livenessVars == <<clock, lastLivenessRecord, retired>>
timeVars     == <<version, horizon, events>>
nodeVars     == <<raftVars, livenessVars, timeVars>>

LivenessRecord == [epoch : Nat, expiration : Nat]

ASSUME NoneIsNoRecord == None \notin LivenessRecord

Idle == [at |-> "idle"]

LivenessTypeOK ==
  /\ stored \in [Key -> [epoch : Nat, expiration : Nat] \union {None}
                        \union [epoch : Nat, node : Node] \union [expiration : Nat]]
  /\ \A p \in proposals : p.node \in Node /\ p.key \in {p.node} \union (Key \ Node)
  /\ \A n \in Node, k \in Key : call[n][k].at \in {"idle", "waiting", "answered"}
  /\ clock \in [Node -> Nat]
  /\ lastLivenessRecord \in [Node -> LivenessRecord \union {None}]
  /\ version \in [Key -> Nat]
  /\ \A k \in Key : horizon[k] \in 0..version[k]
  /\ \A n \in Node : events[n] \in 0..MaxEvents[n]
  /\ retired \in [Node -> SUBSET Nat]

LivenessInit ==
  /\ stored = [k \in Key |-> None]
  /\ proposals = {}
  /\ call = [n \in Node |-> [k \in Key |-> Idle]]
  /\ clock = [n \in Node |-> 0]
  /\ lastLivenessRecord = [n \in Node |-> None]
  /\ version = [k \in Key |-> 0] /\ horizon = version
  /\ events = [n \in Node |-> 0]
  /\ retired = [n \in Node |-> {}]

Event(n) == events[n] < MaxEvents[n] /\ events' = [events EXCEPT ![n] = @ + 1]
-----------------------------------------------------------------------------
(* Compare-and-swap through Raft.                                          *)

(* The node expects to find the record it knows. *)
SendCasRequest(n, k, record, new) ==
  LET p == [node |-> n, key |-> k, expected |-> record, new |-> new]
  IN /\ call[n][k] = Idle
     /\ proposals' = proposals \union {p}
     /\ call' = [call EXCEPT ![n][k] = [at |-> "waiting", p |-> p]]
     /\ UNCHANGED stored

Waiting(p) == call[p.node][p.key] = [at |-> "waiting", p |-> p]

(* Replica.cas; the answer is for whoever still waits for it. *)
Cas(p) ==
  /\ p \in proposals
  /\ proposals' = proposals \ {p}
  /\ stored' = IF stored[p.key] = p.expected
               THEN [stored EXCEPT ![p.key] = p.new] ELSE stored
  /\ call' = IF Waiting(p)
             THEN [call EXCEPT ![p.node][p.key] =
                     [at |-> "answered", p |-> p, found |-> stored[p.key]]]
             ELSE call
  /\ UNCHANGED <<livenessVars, timeVars>>

Answered(n, k) == call[n][k].at = "answered"

Swapped(n, k) == call[n][k].found = call[n][k].p.expected

EndCall(n, k) ==
  /\ call' = [call EXCEPT ![n][k] = Idle]
  /\ UNCHANGED <<stored, proposals>>

(* SyncPropose returns an error, before or after the request is applied. *)
CallFails(n, k) ==
  /\ call[n][k] # Idle /\ Event(n)
  /\ EndCall(n, k)
  /\ UNCHANGED <<livenessVars, version, horizon>>
-----------------------------------------------------------------------------
(* The liveness record of node n, under key n.                             *)

LivenessValid(n) ==
  /\ lastLivenessRecord[n] \in LivenessRecord
  /\ lastLivenessRecord[n].epoch = clock[n]
  /\ lastLivenessRecord[n].expiration > horizon[n]

(* renewLease, whose loop goes on until the record is valid. *)
RenewLiveness(n) ==
  /\ SendCasRequest(n, n, lastLivenessRecord[n],
                    [epoch |-> clock[n], expiration |-> version[n] + 1])
  /\ version' = [version EXCEPT ![n] = @ + 1]
  /\ UNCHANGED <<livenessVars, horizon>>

(* ensureValidLease: called by renewNodeLiveness until it succeeds. *)
LeaseLiveness(n) == ~LivenessValid(n) /\ RenewLiveness(n) /\ UNCHANGED events

(* keepLeaseAlive renews before the expiration. *)
KeepLivenessAlive(n) == LivenessValid(n) /\ Event(n) /\ RenewLiveness(n)

(* Mutant of Witness: the other record's epoch is used again. *)
NoWitness(n, epoch) == clock[n]

(* LamportClock.Witness *)
Witness(n, epoch) == IF epoch < clock[n] THEN clock[n] ELSE epoch + 1

(* The epoch of n, if n holds it. *)
HeldEpoch(n) ==
  IF lastLivenessRecord[n] # None /\ lastLivenessRecord[n].epoch = clock[n]
  THEN {clock[n]} ELSE {}

(* Mutant of LivenessAnswer: the request is taken to have succeeded. *)
LivenessAnswerUnread(n) ==
  /\ Answered(n, n)
  /\ EndCall(n, n)
  /\ lastLivenessRecord' = [lastLivenessRecord EXCEPT ![n] = call[n][n].p.new]
  /\ UNCHANGED <<clock, retired, timeVars>>

(* The rest of renewLease.  A record that was found in the place of the    *)
(* expected one is kept, to be expected by the next request, which goes    *)
(* for a higher epoch.                                                     *)
LivenessAnswer(n) ==
  LET found == call[n][n].found
  IN /\ Answered(n, n)
     /\ EndCall(n, n)
     /\ \/ /\ Swapped(n, n)
           /\ lastLivenessRecord' = [lastLivenessRecord EXCEPT ![n] = call[n][n].p.new]
           /\ UNCHANGED <<clock, retired>>
        \/ /\ ~Swapped(n, n)
           /\ lastLivenessRecord' = [lastLivenessRecord EXCEPT ![n] = found]
           /\ clock' = [clock EXCEPT ![n] =
                          Witness(n, IF found = None THEN 0 ELSE found.epoch)]
           /\ retired' = [retired EXCEPT ![n] = @ \union HeldEpoch(n)]
     /\ UNCHANGED timeVars

(* The process of node n dies and is started again. *)
RestartLiveness(n) ==
  /\ Event(n)
  /\ clock' = [clock EXCEPT ![n] = 0]
  /\ lastLivenessRecord' = [lastLivenessRecord EXCEPT ![n] = None]
  /\ retired' = [retired EXCEPT ![n] = @ \union HeldEpoch(n)]
  /\ call' = [call EXCEPT ![n] = [k \in Key |-> Idle]]
  /\ UNCHANGED <<stored, proposals, version, horizon>>

Expire(n, k) ==
  /\ Event(n)
  /\ \E x \in (horizon[k] + 1)..version[k] : horizon' = [horizon EXCEPT ![k] = x]
  /\ UNCHANGED <<raftVars, livenessVars, version>>

LivenessNext(n) ==
  \/ LeaseLiveness(n) \/ KeepLivenessAlive(n) \/ LivenessAnswer(n)
  \/ CallFails(n, n)
-----------------------------------------------------------------------------
(* Properties.                                                             *)

(* A node is never valid again in an epoch that it, or an earlier process  *)
(* of it, held and gave up: whatever request of old is applied late, the   *)
(* epoch moves on (renewLease, TestEpochChangeOnLease).                    *)
Fenced ==
  \A n \in Node : LivenessValid(n) => lastLivenessRecord[n].epoch \notin retired[n]

(* A node takes itself for valid in the epoch of its stored record, and    *)
(* for no longer than that record says: never by a record that has been    *)
(* replaced, or that was never applied (renewLease, cas).                  *)
Backed ==
  \A n \in Node : LivenessValid(n) =>
    /\ stored[n] # None
    /\ stored[n].epoch = lastLivenessRecord[n].epoch
    /\ stored[n].expiration >= lastLivenessRecord[n].expiration
=============================================================================
