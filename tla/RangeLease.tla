------------------------------ MODULE RangeLease ------------------------------
(***************************************************************************)
(* The lease of one range of the Raft store.  A node that is, or was, the  *)
(* leader of the range's Raft group writes its node ID and epoch into the  *)
(* range's lease record, and goes by it for as long as the epoch is its    *)
(* own (module NodeLiveness).  The range that holds the liveness records   *)
(* themselves, the metarange, has a lease with an expiration instead.      *)
(***************************************************************************)
EXTENDS NodeLiveness

CONSTANT RangeKey       \* LocalRangeLeaseKey of the range

ASSUME RangeKeyOK == RangeKey \in Key \ Node

VARIABLES
  meta,         \* the range contains the metarange
  lease,        \* the nodes whose store has a Lease for the range
  leaseRecord,  \* leaseRecord[n]: what the Lease of n takes for the record
  acquiring,    \* the nodes whose Lease is in ensureValidLease
  granted       \* history: the values the record has had

rangeVars == <<meta, lease, leaseRecord, acquiring, granted>>
vars == <<nodeVars, rangeVars>>

EpochLease == [epoch : Nat, node : Node]

TypeOK ==
  /\ LivenessTypeOK
  /\ meta \in BOOLEAN
  /\ acquiring \subseteq lease /\ lease \subseteq Node
  /\ leaseRecord \in [Node -> EpochLease \union [expiration : Nat] \union {None}]

Init ==
  /\ LivenessInit
  /\ meta \in BOOLEAN
  /\ lease = {}
  /\ leaseRecord = [n \in Node |-> None]
  /\ acquiring = {}
  /\ granted = {}

(* Mutant of VerifyLease: the node of the record is not looked at. *)
VerifyEpoch(n) ==
  /\ leaseRecord[n] # None
  /\ IF meta
     THEN leaseRecord[n].expiration > horizon[RangeKey]
     ELSE /\ LivenessValid(n)
          /\ leaseRecord[n].epoch = lastLivenessRecord[n].epoch

VerifyLease(n) ==
  /\ leaseRecord[n] # None
  /\ IF meta
     THEN leaseRecord[n].expiration > horizon[RangeKey]
     ELSE /\ leaseRecord[n].node = n
          /\ LivenessValid(n)
          /\ leaseRecord[n].epoch = lastLivenessRecord[n].epoch

(* RangeIsActive: the node serves requests for the range. *)
Active(n) == n \in lease /\ VerifyLease(n)

(* Mutant of MaybeAcquireRangeLease: the new Lease is not stored. *)
MaybeAcquireUnstored(n) ==
  /\ n \notin acquiring /\ ~Active(n)
  /\ acquiring' = acquiring \union {n}
  /\ leaseRecord' = IF n \in lease THEN leaseRecord
                    ELSE [leaseRecord EXCEPT ![n] = None]
  /\ UNCHANGED <<nodeVars, meta, lease, granted>>

(* The leader of the range, who is not always the same, finds its lease    *)
(* invalid.                                                                *)
MaybeAcquireRangeLease(n) ==
  /\ n \notin acquiring /\ ~Active(n)
  /\ acquiring' = acquiring \union {n}
  /\ lease' = lease \union {n}
  /\ leaseRecord' = IF n \in lease THEN leaseRecord
                    ELSE [leaseRecord EXCEPT ![n] = None]
  /\ UNCHANGED <<nodeVars, meta, granted>>

(* assembleLeaseRequest, and the request.  An epoch is leased first, if    *)
(* there is none.                                                          *)
RenewRangeLease(n) ==
  /\ IF meta
     THEN /\ version' = [version EXCEPT ![RangeKey] = @ + 1]
          /\ SendCasRequest(n, RangeKey, leaseRecord[n],
                            [expiration |-> version'[RangeKey]])
     ELSE LET new == [epoch |-> lastLivenessRecord[n].epoch, node |-> n]
          IN /\ LivenessValid(n) /\ new # leaseRecord[n]
             /\ SendCasRequest(n, RangeKey, leaseRecord[n], new)
             /\ UNCHANGED version
  /\ UNCHANGED <<livenessVars, horizon, rangeVars>>

(* The loop of ensureValidLease. *)
AcquireLease(n) ==
  /\ n \in acquiring /\ ~VerifyLease(n)
  /\ RenewRangeLease(n) /\ UNCHANGED events

(* keepLeaseAlive, for a lease with an expiration. *)
KeepLeaseAlive(n) ==
  /\ meta /\ Active(n) /\ n \notin acquiring
  /\ Event(n) /\ RenewRangeLease(n)

(* Mutant of RangeLeaseAnswer: the lease that was found is not kept. *)
RangeLeaseAnswerDropped(n) ==
  /\ Answered(n, RangeKey) /\ EndCall(n, RangeKey)
  /\ leaseRecord' = IF Swapped(n, RangeKey) /\ call[n][RangeKey].p.new # None
                    THEN [leaseRecord EXCEPT ![n] = call[n][RangeKey].p.new]
                    ELSE leaseRecord
  /\ UNCHANGED <<livenessVars, timeVars, meta, lease, acquiring, granted>>

(* The rest of renewLease: the lease is this node's, or another one was    *)
(* found, which is kept.  After clearLease the Lease is not used again.    *)
RangeLeaseAnswer(n) ==
  /\ Answered(n, RangeKey) /\ EndCall(n, RangeKey)
  /\ LET p == call[n][RangeKey].p
     IN leaseRecord' =
          IF p.new = None THEN leaseRecord
          ELSE [leaseRecord EXCEPT ![n] =
                  IF Swapped(n, RangeKey) THEN p.new ELSE call[n][RangeKey].found]
  /\ UNCHANGED <<livenessVars, timeVars, meta, lease, acquiring, granted>>

Acquired(n) ==
  /\ n \in acquiring /\ VerifyLease(n) /\ call[n][RangeKey] = Idle
  /\ acquiring' = acquiring \ {n}
  /\ UNCHANGED <<nodeVars, meta, lease, leaseRecord, granted>>

(* An error: maybeAcquireRangeLease tries again if the node still leads. *)
LeaseFails(n) ==
  /\ CallFails(n, RangeKey)
  /\ acquiring' \in {acquiring, acquiring \ {n}}
  /\ UNCHANGED <<meta, lease, leaseRecord, granted>>

(* releaseRangeLease, when the range is removed from the node. *)
ReleaseRangeLease(n) ==
  /\ n \in lease \ acquiring /\ call[n][RangeKey] = Idle
  /\ Event(n)
  /\ lease' = lease \ {n}
  /\ IF VerifyLease(n)
     THEN SendCasRequest(n, RangeKey, leaseRecord[n], None)
     ELSE UNCHANGED raftVars
  /\ UNCHANGED <<livenessVars, version, horizon, meta, leaseRecord, acquiring,
                 granted>>

Restart(n) ==
  /\ RestartLiveness(n)
  /\ lease' = lease \ {n}
  /\ leaseRecord' = [leaseRecord EXCEPT ![n] = None]
  /\ acquiring' = acquiring \ {n}
  /\ UNCHANGED <<meta, granted>>

Apply(p) ==
  /\ Cas(p)
  /\ granted' = granted \union ({stored'[RangeKey]} \ {None})
  /\ UNCHANGED <<meta, lease, leaseRecord, acquiring>>

RangeNext(n) ==
  \/ MaybeAcquireRangeLease(n) \/ AcquireLease(n) \/ KeepLeaseAlive(n)
  \/ RangeLeaseAnswer(n) \/ Acquired(n) \/ LeaseFails(n) \/ ReleaseRangeLease(n)
  \/ Restart(n)

Next ==
  \/ \E n \in Node : RangeNext(n) \/ (LivenessNext(n) /\ UNCHANGED rangeVars)
  \/ \E n \in Node : \E k \in {n, RangeKey} : Expire(n, k) /\ UNCHANGED rangeVars
  \/ \E p \in proposals : Apply(p)

Spec == Init /\ [][Next]_vars

(* Renewals go on until they succeed, and Raft answers.                    *)
FairSpec ==
  /\ Spec
  /\ \A n \in Node :
       /\ WF_vars((LeaseLiveness(n) \/ LivenessAnswer(n)) /\ UNCHANGED rangeVars)
       /\ WF_vars(AcquireLease(n) \/ RangeLeaseAnswer(n) \/ Acquired(n))
  /\ WF_vars(\E p \in proposals : Waiting(p) /\ Apply(p))
-----------------------------------------------------------------------------
(* Properties.                                                             *)

(* A node that serves a range other than the metarange has been granted    *)
(* its lease, in an epoch that is neither released nor of an earlier life  *)
(* of the node (verifyLease, renewLease).                                  *)
Granted ==
  \A n \in Node : Active(n) /\ ~meta =>
    /\ [epoch |-> clock[n], node |-> n] \in granted
    /\ clock[n] \notin retired[n]

(* A node that goes for the lease ends up with a valid one, against other  *)
(* nodes that go for it, or is stopped by an error or a restart.           *)
Leased == \A n \in Node : n \in acquiring ~> n \notin acquiring
=============================================================================
