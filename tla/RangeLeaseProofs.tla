--------------------------- MODULE RangeLeaseProofs ---------------------------
(***************************************************************************)
(* Proofs about leases: types, that epochs are fenced, that a range is     *)
(* served only under a lease that was granted, and that a node goes by its *)
(* stored record, for every set of nodes and keys, and however long        *)
(* requests are delayed.                                                   *)
(***************************************************************************)
EXTENDS RangeLease, TLAPS

(* What may be stored under a key. *)
Value(k) == IF k \in Node THEN LivenessRecord \union {None}
            ELSE EpochLease \union [expiration : Nat] \union {None}

Request(n, k) == [node : {n}, key : {k}, expected : Value(k), new : Value(k)]

Progress(n, k) ==
  {Idle} \union [at : {"waiting"}, p : Request(n, k)]
         \union [at : {"answered"}, p : Request(n, k), found : Value(k)]

Keys(n) == {n} \union (Key \ Node)

AnyValue == UNION {Value(k) : k \in Key}

AnyProgress == UNION {Progress(n, k) : n \in Node, k \in Key}

StoredTypes == stored \in [Key -> AnyValue]
               /\ \A k \in Key : stored[k] \in Value(k)

ProposalTypes ==
  \A p \in proposals : \E n \in Node : \E k \in Keys(n) : p \in Request(n, k)

CallTypes ==
  /\ call \in [Node -> [Key -> AnyProgress]]
  /\ \A n \in Node, k \in Key : call[n][k] \in Progress(n, k)

NodeTypes ==
  /\ clock \in [Node -> Nat]
  /\ lastLivenessRecord \in [Node -> LivenessRecord \union {None}]
  /\ retired \in [Node -> SUBSET Nat]

TimeTypes ==
  /\ version \in [Key -> Nat] /\ horizon \in [Key -> Nat]
  /\ \A k \in Key : horizon[k] <= version[k]
  /\ events \in [Node -> Nat] /\ \A n \in Node : events[n] <= MaxEvents[n]

LeaseTypes ==
  /\ meta \in BOOLEAN
  /\ acquiring \subseteq lease /\ lease \subseteq Node
  /\ leaseRecord \in [Node -> EpochLease \union [expiration : Nat] \union {None}]

TypeInv ==
  StoredTypes /\ ProposalTypes /\ CallTypes /\ NodeTypes /\ TimeTypes /\ LeaseTypes
-----------------------------------------------------------------------------
(* The invariant behind Fenced.                                            *)

Holds(n) ==
  lastLivenessRecord[n] # None /\ lastLivenessRecord[n].epoch = clock[n]

(* The stored record has reached epoch e, whence it never goes back. *)
Covered(n, e) == stored[n] # None /\ e <= stored[n].epoch

Safe(n) == Covered(n, clock[n]) /\ clock[n] \notin retired[n]

Rising(p) ==
  p.key \in Node =>
    p.new # None /\ (p.expected # None => p.expected.epoch <= p.new.epoch)

(* A request that is under way is still the one the node would make. *)
Current(n) ==
  call[n][n] # Idle =>
    /\ call[n][n].p.expected = lastLivenessRecord[n]
    /\ call[n][n].p.new # None
    /\ call[n][n].p.new.epoch = clock[n]

EpochsOf(n) ==
  /\ lastLivenessRecord[n] # None => lastLivenessRecord[n].epoch <= clock[n]
  /\ Holds(n) => Safe(n)
  /\ \A e \in retired[n] : Covered(n, e)
  /\ Current(n)
  /\ Answered(n, n) /\ Swapped(n, n) => Safe(n)

FencedInv ==
  /\ \A p \in proposals : Rising(p)
  /\ \A n \in Node : EpochsOf(n)
-----------------------------------------------------------------------------
(* The invariant behind Granted: what a node may take for the lease has    *)
(* been the value of the record.                                           *)
Known == granted \union {None}

LeaseCall(n) ==
  Answered(n, RangeKey) =>
    /\ call[n][RangeKey].found \in Known
    /\ Swapped(n, RangeKey) => call[n][RangeKey].p.new \in Known

GrantedInv ==
  /\ ~meta => \A p \in proposals : p.key = RangeKey => p.new \in EpochLease \union {None}
  /\ ~meta => granted \subseteq EpochLease
  /\ stored[RangeKey] \in Known
  /\ \A n \in Node : leaseRecord[n] \in Known /\ LeaseCall(n)
-----------------------------------------------------------------------------
(* Lemmas about requests.                                                  *)

(* What setting the call of one node for one key does (SyncPropose). *)
LEMMA CallUpdate ==
  ASSUME CallTypes, NEW n \in Node, NEW k \in Key, NEW s \in Progress(n, k),
         call' = [call EXCEPT ![n][k] = s]
  PROVE  /\ CallTypes'
         /\ call'[n][k] = s
         /\ \A m \in Node, j \in Key : m # n \/ j # k => call'[m][j] = call[m][j]
<1>1. s \in AnyProgress
  BY DEF AnyProgress
<1>2. call \in [Node -> [Key -> AnyProgress]]
  BY DEF CallTypes
<1>3. call' \in [Node -> [Key -> AnyProgress]]
  BY <1>1, <1>2
<1>4. /\ call'[n][k] = s
      /\ \A m \in Node, j \in Key : m # n \/ j # k => call'[m][j] = call[m][j]
  BY <1>2
<1>5. \A m \in Node, j \in Key : call'[m][j] \in Progress(m, j)
  BY <1>4 DEF CallTypes
<1> QED
  BY <1>3, <1>4, <1>5 DEF CallTypes

(* What a compare-and-swap request adds (SyncPropose of assembleCASRequest). *)
LEMMA SendTypes ==
  ASSUME StoredTypes, ProposalTypes, CallTypes,
         NEW n \in Node, NEW k \in Keys(n), NEW record \in Value(k),
         NEW new \in Value(k), SendCasRequest(n, k, record, new)
  PROVE  /\ (StoredTypes /\ ProposalTypes /\ CallTypes)'
         /\ \A m \in Node, j \in Key : m # n \/ j # k => call'[m][j] = call[m][j]
<1> DEFINE p == [node |-> n, key |-> k, expected |-> record, new |-> new]
<1>1. p \in Request(n, k)
  BY DEF Request
<1>2. k \in Key
  BY NodesHaveKeys DEF Keys
<1>3. [at |-> "waiting", p |-> p] \in Progress(n, k)
  BY <1>1 DEF Progress
<1>4. /\ proposals' = proposals \union {p}
      /\ call' = [call EXCEPT ![n][k] = [at |-> "waiting", p |-> p]]
      /\ UNCHANGED stored
  BY DEF SendCasRequest
<1> HIDE DEF p
<1>5. CallTypes' /\ \A m \in Node, j \in Key : m # n \/ j # k => call'[m][j] = call[m][j]
  BY <1>2, <1>3, <1>4, CallUpdate
<1>6. ProposalTypes'
  BY <1>1, <1>4 DEF ProposalTypes, Keys
<1>7. StoredTypes'
  BY <1>4 DEF StoredTypes
<1> QED
  BY <1>5, <1>6, <1>7

(* What the end of a call changes, whatever its outcome. *)
LEMMA EndTypes ==
  ASSUME StoredTypes, ProposalTypes, CallTypes,
         NEW n \in Node, NEW k \in Key, EndCall(n, k)
  PROVE  /\ (StoredTypes /\ ProposalTypes /\ CallTypes)'
         /\ call'[n][k] = Idle
         /\ \A m \in Node, j \in Key : m # n \/ j # k => call'[m][j] = call[m][j]
<1>1. Idle \in Progress(n, k)
  BY DEF Progress
<1>2. /\ call' = [call EXCEPT ![n][k] = Idle]
      /\ UNCHANGED <<stored, proposals>>
  BY DEF EndCall
<1>3. /\ CallTypes' /\ call'[n][k] = Idle
      /\ \A m \in Node, j \in Key : m # n \/ j # k => call'[m][j] = call[m][j]
  BY <1>1, <1>2, CallUpdate
<1>4. (StoredTypes /\ ProposalTypes)'
  BY <1>2 DEF StoredTypes, ProposalTypes
<1> QED
  BY <1>3, <1>4

(* An answered call is a request of its node with the value it found. *)
LEMMA AnswerTypes ==
  ASSUME CallTypes, NEW n \in Node, NEW k \in Key, Answered(n, k)
  PROVE  /\ call[n][k].p \in Request(n, k)
         /\ call[n][k].p.new \in Value(k) /\ call[n][k].p.expected \in Value(k)
         /\ call[n][k].found \in Value(k)
<1>1. call[n][k] \in Progress(n, k) /\ call[n][k].at = "answered"
  BY DEF CallTypes, Answered
<1>2. call[n][k] \in [at : {"answered"}, p : Request(n, k), found : Value(k)]
  BY <1>1 DEF Progress, Idle
<1>3. call[n][k].p \in Request(n, k) /\ call[n][k].found \in Value(k)
  BY <1>2
<1>4. call[n][k].p.new \in Value(k) /\ call[n][k].p.expected \in Value(k)
  BY <1>3 DEF Request
<1> QED
  BY <1>3, <1>4

(* Applying a request changes the value of its key only, to the new value  *)
(* if the expected one is found, and answers the call that waits for it    *)
(* (Replica.cas).                                                          *)
LEMMA CasEffect ==
  ASSUME StoredTypes, ProposalTypes, CallTypes, NEW p, Cas(p)
  PROVE  /\ (StoredTypes /\ ProposalTypes /\ CallTypes)'
         /\ p \in proposals /\ proposals' \subseteq proposals
         /\ p.node \in Node /\ p.key \in Keys(p.node) /\ p.key \in Key
         /\ p.expected \in Value(p.key) /\ p.new \in Value(p.key)
         /\ \A k \in Key : k # p.key => stored'[k] = stored[k]
         /\ stored'[p.key] = IF stored[p.key] = p.expected THEN p.new
                             ELSE stored[p.key]
         /\ \A n \in Node, k \in Key :
              \/ call'[n][k] = call[n][k]
              \/ /\ n = p.node /\ k = p.key
                 /\ call[n][k] = [at |-> "waiting", p |-> p]
                 /\ call'[n][k] = [at |-> "answered", p |-> p, found |-> stored[k]]
<1>0. PICK n \in Node : \E k \in Keys(n) : p \in Request(n, k)
  BY DEF Cas, ProposalTypes
<1>1. PICK k \in Keys(n) : p \in Request(n, k)
  BY <1>0
<1>2. k \in Key
  BY NodesHaveKeys DEF Keys
<1>3. /\ p.node = n /\ p.key = k
      /\ p.expected \in Value(k) /\ p.new \in Value(k)
  BY <1>1 DEF Request
<1>4. /\ p \in proposals /\ proposals' \subseteq proposals
      /\ stored' = IF stored[k] = p.expected THEN [stored EXCEPT ![k] = p.new]
                   ELSE stored
      /\ call' = IF call[n][k] = [at |-> "waiting", p |-> p]
                 THEN [call EXCEPT ![n][k] =
                         [at |-> "answered", p |-> p, found |-> stored[k]]]
                 ELSE call
  BY <1>3 DEF Cas, Waiting
<1>5. /\ \A j \in Key : j # k => stored'[j] = stored[j]
      /\ stored'[k] = IF stored[k] = p.expected THEN p.new ELSE stored[k]
  BY <1>2, <1>4 DEF StoredTypes
<1>6. \A j \in Key : stored'[j] \in Value(j)
  BY <1>2, <1>3, <1>5 DEF StoredTypes
<1>7. stored' \in [Key -> AnyValue]
  <2>1. p.new \in AnyValue
    BY <1>2, <1>3 DEF AnyValue
  <2> QED
    BY <2>1, <1>4 DEF StoredTypes
<1>8. ProposalTypes'
  BY <1>4 DEF ProposalTypes
<1>9. [at |-> "answered", p |-> p, found |-> stored[k]] \in Progress(n, k)
  BY <1>1, <1>2 DEF Progress, StoredTypes
<1>10. CASE call[n][k] = [at |-> "waiting", p |-> p]
  <2>1. /\ CallTypes'
        /\ call'[n][k] = [at |-> "answered", p |-> p, found |-> stored[k]]
        /\ \A m \in Node, j \in Key : m # n \/ j # k => call'[m][j] = call[m][j]
    BY <1>2, <1>4, <1>9, <1>10, CallUpdate
  <2> QED
    BY <2>1, <1>1, <1>2, <1>3, <1>4, <1>5, <1>6, <1>7, <1>8, <1>10 DEF StoredTypes
<1>11. CASE call[n][k] # [at |-> "waiting", p |-> p]
  <2>1. UNCHANGED call
    BY <1>4, <1>11
  <2>2. CallTypes'
    BY <2>1 DEF CallTypes
  <2> QED
    BY <2>1, <2>2, <1>1, <1>2, <1>3, <1>4, <1>5, <1>6, <1>7, <1>8 DEF StoredTypes
<1> QED
  BY <1>10, <1>11
-----------------------------------------------------------------------------
(* Types.                                                                  *)

RaftTypes == StoredTypes /\ ProposalTypes /\ CallTypes

LEMMA RaftUnchanged ==
  ASSUME RaftTypes, UNCHANGED raftVars
  PROVE  RaftTypes'
BY DEF RaftTypes, raftVars, StoredTypes, ProposalTypes, CallTypes

(* The value a node expects to find is a value of its key. *)
LEMMA Expectations ==
  ASSUME NodeTypes, LeaseTypes, NEW n \in Node
  PROVE  /\ lastLivenessRecord[n] \in Value(n)
         /\ leaseRecord[n] \in Value(RangeKey)
         /\ n \in Keys(n) /\ RangeKey \in Keys(n)
         /\ n \in Key /\ RangeKey \in Key /\ RangeKey \notin Node /\ n # RangeKey
BY NodesHaveKeys, RangeKeyOK DEF NodeTypes, LeaseTypes, Value, Keys

LEMMA EventTypes ==
  ASSUME TimeTypes, NEW n \in Node, Event(n), UNCHANGED <<version, horizon>>
  PROVE  TimeTypes'
<1>1. events' = [events EXCEPT ![n] = @ + 1] /\ events[n] < MaxEvents[n]
  BY DEF Event
<1>2. events \in [Node -> Nat] /\ \A m \in Node : events[m] <= MaxEvents[m]
  BY DEF TimeTypes
<1>3. events' \in [Node -> Nat]
  BY <1>1, <1>2
<1>4. MaxEvents \in [Node -> Nat]
  BY NodesHaveKeys
<1>5. \A m \in Node : events'[m] <= MaxEvents[m]
  BY <1>1, <1>2, <1>4
<1> QED
  BY <1>3, <1>5 DEF TimeTypes

(* renewLease of nodeliveness *)
LEMMA RenewLivenessTypes ==
  ASSUME RaftTypes, NodeTypes, TimeTypes, LeaseTypes, NEW n \in Node,
         RenewLiveness(n), UNCHANGED events \/ Event(n)
  PROVE  RaftTypes' /\ NodeTypes' /\ TimeTypes'
<1> DEFINE new == [epoch |-> clock[n], expiration |-> version[n] + 1]
<1>1. new \in Value(n)
  BY NodesHaveKeys DEF Value, LivenessRecord, NodeTypes, TimeTypes
<1>2. SendCasRequest(n, n, lastLivenessRecord[n], new)
  BY DEF RenewLiveness
<1>3. RaftTypes'
  BY <1>1, <1>2, Expectations, SendTypes DEF RaftTypes
<1>4. NodeTypes'
  BY DEF RenewLiveness, livenessVars, NodeTypes
<1>5. /\ version' = [version EXCEPT ![n] = @ + 1]
      /\ UNCHANGED horizon
  BY DEF RenewLiveness
<1>6. TimeTypes'
  <2>1. /\ version' \in [Key -> Nat] /\ horizon' \in [Key -> Nat]
        /\ \A k \in Key : horizon'[k] <= version'[k]
    BY <1>5, NodesHaveKeys DEF TimeTypes
  <2>2. events' \in [Node -> Nat] /\ \A m \in Node : events'[m] <= MaxEvents[m]
    BY NodesHaveKeys DEF TimeTypes, Event
  <2> QED
    BY <2>1, <2>2 DEF TimeTypes
<1> QED
  BY <1>3, <1>4, <1>6

(* renewLease of rangelease *)
LEMMA RenewRangeTypes ==
  ASSUME RaftTypes, NodeTypes, TimeTypes, LeaseTypes, NEW n \in Node,
         RenewRangeLease(n), UNCHANGED events \/ Event(n)
  PROVE  RaftTypes' /\ NodeTypes' /\ TimeTypes' /\ LeaseTypes'
<1>1. LeaseTypes' /\ NodeTypes'
  BY DEF RenewRangeLease, rangeVars, livenessVars, LeaseTypes, NodeTypes
<1>2. events' \in [Node -> Nat] /\ \A m \in Node : events'[m] <= MaxEvents[m]
  BY NodesHaveKeys DEF TimeTypes, Event
<1>3. CASE meta
  <2> DEFINE new == [expiration |-> version'[RangeKey]]
  <2>1. /\ version' = [version EXCEPT ![RangeKey] = @ + 1]
        /\ SendCasRequest(n, RangeKey, leaseRecord[n], new)
        /\ UNCHANGED horizon
    BY <1>3 DEF RenewRangeLease
  <2>2. /\ version' \in [Key -> Nat] /\ horizon' \in [Key -> Nat]
        /\ \A k \in Key : horizon'[k] <= version'[k]
    BY <2>1, RangeKeyOK DEF TimeTypes
  <2>3. new \in Value(RangeKey)
    BY <2>2, RangeKeyOK DEF Value
  <2>4. RaftTypes'
    BY <2>1, <2>3, Expectations, SendTypes DEF RaftTypes
  <2> QED
    BY <1>1, <1>2, <2>2, <2>4 DEF TimeTypes
<1>4. CASE ~meta
  <2> DEFINE new == [epoch |-> lastLivenessRecord[n].epoch, node |-> n]
  <2>1. /\ LivenessValid(n) /\ UNCHANGED <<version, horizon>>
        /\ SendCasRequest(n, RangeKey, leaseRecord[n], new)
    BY <1>4 DEF RenewRangeLease
  <2>2. new \in Value(RangeKey)
    BY <2>1, RangeKeyOK DEF Value, EpochLease, LivenessValid, LivenessRecord
  <2>3. RaftTypes'
    BY <2>1, <2>2, Expectations, SendTypes DEF RaftTypes
  <2> QED
    BY <1>1, <1>2, <2>1, <2>3 DEF TimeTypes
<1> QED
  BY <1>3, <1>4

(* renewLease of nodeliveness, after the answer *)
LEMMA LivenessAnswerTypes ==
  ASSUME RaftTypes, NodeTypes, LeaseTypes, NEW n \in Node, LivenessAnswer(n)
  PROVE  RaftTypes' /\ NodeTypes'
<1>1. Answered(n, n) /\ EndCall(n, n)
  BY DEF LivenessAnswer
<1>2. RaftTypes'
  BY <1>1, Expectations, EndTypes DEF RaftTypes
<1>3. /\ call[n][n].p.new \in LivenessRecord \union {None}
      /\ call[n][n].found \in LivenessRecord \union {None}
  BY <1>1, Expectations, AnswerTypes DEF RaftTypes, Value
<1>4. HeldEpoch(n) \in SUBSET Nat
  BY DEF HeldEpoch, NodeTypes
<1>5. CASE Swapped(n, n)
  BY <1>2, <1>3, <1>5 DEF LivenessAnswer, NodeTypes
<1>6. CASE ~Swapped(n, n)
  <2> DEFINE found == call[n][n].found
             e == IF found = None THEN 0 ELSE found.epoch
  <2>1. e \in Nat
    BY <1>3 DEF LivenessRecord
  <2>2. Witness(n, e) \in Nat
    BY <2>1 DEF Witness, NodeTypes
  <2>3. /\ lastLivenessRecord' = [lastLivenessRecord EXCEPT ![n] = found]
        /\ clock' = [clock EXCEPT ![n] = Witness(n, e)]
        /\ retired' = [retired EXCEPT ![n] = @ \union HeldEpoch(n)]
    BY <1>6 DEF LivenessAnswer
  <2> HIDE DEF e
  <2>4. retired' \in [Node -> SUBSET Nat]
    BY <1>4, <2>3 DEF NodeTypes
  <2> QED
    BY <1>2, <1>3, <2>2, <2>3, <2>4 DEF NodeTypes
<1> QED
  BY <1>5, <1>6

(* renewLease of rangelease, after the answer *)
LEMMA RangeAnswerTypes ==
  ASSUME RaftTypes, LeaseTypes, NEW n \in Node, RangeLeaseAnswer(n)
  PROVE  RaftTypes' /\ LeaseTypes'
<1>1. Answered(n, RangeKey) /\ EndCall(n, RangeKey)
  BY DEF RangeLeaseAnswer
<1>2. RaftTypes'
  BY <1>1, RangeKeyOK, EndTypes DEF RaftTypes
<1> DEFINE Values == EpochLease \union [expiration : Nat] \union {None}
<1>3. call[n][RangeKey].p.new \in Values /\ call[n][RangeKey].found \in Values
  BY <1>1, RangeKeyOK, AnswerTypes DEF RaftTypes, Value
<1>4. \/ UNCHANGED leaseRecord
      \/ leaseRecord' = [leaseRecord EXCEPT ![n] = call[n][RangeKey].p.new]
      \/ leaseRecord' = [leaseRecord EXCEPT ![n] = call[n][RangeKey].found]
  BY DEF RangeLeaseAnswer
<1>5. UNCHANGED <<meta, lease, acquiring>>
  BY DEF RangeLeaseAnswer
<1>6. leaseRecord \in [Node -> Values]
  BY DEF LeaseTypes
<1> HIDE DEF Values
<1>7. leaseRecord' \in [Node -> Values]
  BY <1>3, <1>4, <1>6
<1> QED
  BY <1>2, <1>5, <1>7 DEF LeaseTypes, Values

LEMMA CallFailsTypes ==
  ASSUME RaftTypes, NodeTypes, TimeTypes, NEW n \in Node, NEW k \in Key,
         CallFails(n, k)
  PROVE  RaftTypes' /\ NodeTypes' /\ TimeTypes'
<1>1. /\ Event(n) /\ EndCall(n, k)
      /\ UNCHANGED <<clock, lastLivenessRecord, retired, version, horizon>>
  BY DEF CallFails, livenessVars
<1>2. RaftTypes'
  BY <1>1, EndTypes DEF RaftTypes
<1>3. TimeTypes'
  BY <1>1, EventTypes
<1> QED
  BY <1>1, <1>2, <1>3 DEF NodeTypes

(* A new process has no calls under way. *)
LEMMA RestartTypes ==
  ASSUME RaftTypes, NodeTypes, TimeTypes, NEW n \in Node, RestartLiveness(n)
  PROVE  /\ RaftTypes' /\ NodeTypes' /\ TimeTypes'
         /\ \A k \in Key : call'[n][k] = Idle
         /\ \A m \in Node, k \in Key : m # n => call'[m][k] = call[m][k]
<1>1. /\ Event(n) /\ UNCHANGED <<stored, proposals, version, horizon>>
      /\ clock' = [clock EXCEPT ![n] = 0]
      /\ lastLivenessRecord' = [lastLivenessRecord EXCEPT ![n] = None]
      /\ retired' = [retired EXCEPT ![n] = @ \union HeldEpoch(n)]
      /\ call' = [call EXCEPT ![n] = [k \in Key |-> Idle]]
  BY DEF RestartLiveness
<1>2. TimeTypes'
  BY <1>1, EventTypes
<1>3. HeldEpoch(n) \in SUBSET Nat
  BY DEF HeldEpoch, NodeTypes
<1>4. NodeTypes'
  <2>1. clock' \in [Node -> Nat]
    BY <1>1 DEF NodeTypes
  <2>2. lastLivenessRecord' \in [Node -> LivenessRecord \union {None}]
    BY <1>1 DEF NodeTypes
  <2>3. retired' \in [Node -> SUBSET Nat]
    BY <1>1, <1>3 DEF NodeTypes
  <2> QED
    BY <2>1, <2>2, <2>3 DEF NodeTypes
<1>5. \A m \in Node, k \in Key : Idle \in Progress(m, k) /\ Idle \in AnyProgress
  <2>1. \A m \in Node, k \in Key : Idle \in Progress(m, k)
    BY DEF Progress
  <2> QED
    BY <2>1 DEF AnyProgress
<1>6. call \in [Node -> [Key -> AnyProgress]]
  BY DEF RaftTypes, CallTypes
<1>7. /\ \A k \in Key : call'[n][k] = Idle
      /\ \A m \in Node, k \in Key : m # n => call'[m][k] = call[m][k]
  BY <1>1, <1>6
<1>8. [k \in Key |-> Idle] \in [Key -> AnyProgress]
  BY <1>5
<1>9. call' \in [Node -> [Key -> AnyProgress]]
  BY <1>1, <1>6, <1>8
<1>10. CallTypes'
  BY <1>5, <1>7, <1>9 DEF RaftTypes, CallTypes
<1>11. (StoredTypes /\ ProposalTypes)'
  BY <1>1 DEF RaftTypes, StoredTypes, ProposalTypes
<1> QED
  BY <1>2, <1>4, <1>7, <1>10, <1>11 DEF RaftTypes

LEMMA ExpireTypes ==
  ASSUME TimeTypes, NEW n \in Node, NEW k \in Key, Expire(n, k)
  PROVE  TimeTypes'
<1>1. PICK x \in (horizon[k] + 1)..version[k] : horizon' = [horizon EXCEPT ![k] = x]
  BY DEF Expire
<1>2. /\ version \in [Key -> Nat] /\ horizon \in [Key -> Nat]
      /\ \A j \in Key : horizon[j] <= version[j]
  BY DEF TimeTypes
<1>3. x \in Nat /\ x <= version[k]
  BY <1>2
<1>4. Event(n) /\ UNCHANGED version
  BY DEF Expire
<1>5. horizon' \in [Key -> Nat] /\ \A j \in Key : horizon'[j] <= version'[j]
  BY <1>1, <1>2, <1>3, <1>4
<1>6. events' = [events EXCEPT ![n] = @ + 1] /\ events[n] < MaxEvents[n]
  BY <1>4 DEF Event
<1>7. /\ events \in [Node -> Nat] /\ \A m \in Node : events[m] <= MaxEvents[m]
      /\ MaxEvents \in [Node -> Nat]
  BY NodesHaveKeys DEF TimeTypes
<1>8. events' \in [Node -> Nat]
  BY <1>6, <1>7
<1>9. \A m \in Node : events'[m] <= MaxEvents[m]
  BY <1>6, <1>7
<1> QED
  BY <1>2, <1>4, <1>5, <1>8, <1>9 DEF TimeTypes

(* releaseRangeLease *)
LEMMA ReleaseTypes ==
  ASSUME RaftTypes, NodeTypes, TimeTypes, LeaseTypes, NEW n \in Node,
         ReleaseRangeLease(n)
  PROVE  RaftTypes' /\ NodeTypes' /\ TimeTypes' /\ LeaseTypes'
<1>1. /\ Event(n) /\ lease' = lease \ {n} /\ n \notin acquiring
      /\ UNCHANGED <<livenessVars, version, horizon, meta, leaseRecord, acquiring>>
  BY DEF ReleaseRangeLease
<1>2. TimeTypes'
  BY <1>1, EventTypes
<1>3. NodeTypes' /\ LeaseTypes'
  BY <1>1 DEF NodeTypes, LeaseTypes, livenessVars
<1>4. CASE VerifyLease(n)
  <2>1. SendCasRequest(n, RangeKey, leaseRecord[n], None)
    BY <1>4 DEF ReleaseRangeLease
  <2>2. None \in Value(RangeKey)
    BY RangeKeyOK DEF Value
  <2>3. RaftTypes'
    BY <2>1, <2>2, Expectations, SendTypes DEF RaftTypes
  <2> QED
    BY <1>2, <1>3, <2>3
<1>5. CASE ~VerifyLease(n)
  <2>1. UNCHANGED raftVars
    BY <1>5 DEF ReleaseRangeLease
  <2> QED
    BY <1>2, <1>3, <2>1, RaftUnchanged
<1> QED
  BY <1>4, <1>5

LEMMA TypesStep ==
  ASSUME TypeInv, [Next]_vars
  PROVE  TypeInv'
<1> USE DEF TypeInv
<1>0. RaftTypes /\ NodeTypes /\ TimeTypes /\ LeaseTypes
  BY DEF RaftTypes
<1> SUFFICES RaftTypes' /\ NodeTypes' /\ TimeTypes' /\ LeaseTypes'
  BY DEF RaftTypes
<1>1. ASSUME NEW n \in Node, MaybeAcquireRangeLease(n)
      PROVE  RaftTypes' /\ NodeTypes' /\ TimeTypes' /\ LeaseTypes'
  <2>1. UNCHANGED <<raftVars, livenessVars, timeVars>>
    BY <1>1 DEF MaybeAcquireRangeLease, nodeVars
  <2>2. LeaseTypes'
    BY <1>1 DEF MaybeAcquireRangeLease, LeaseTypes
  <2> QED
    BY <1>0, <2>1, <2>2, RaftUnchanged
    DEF NodeTypes, TimeTypes, livenessVars, timeVars
<1>2. ASSUME NEW n \in Node, AcquireLease(n) \/ KeepLeaseAlive(n)
      PROVE  RaftTypes' /\ NodeTypes' /\ TimeTypes' /\ LeaseTypes'
  <2>1. RenewRangeLease(n) /\ (UNCHANGED events \/ Event(n))
    BY <1>2 DEF AcquireLease, KeepLeaseAlive
  <2> QED
    BY <1>0, <2>1, RenewRangeTypes
<1>3. ASSUME NEW n \in Node, RangeLeaseAnswer(n)
      PROVE  RaftTypes' /\ NodeTypes' /\ TimeTypes' /\ LeaseTypes'
  <2>1. UNCHANGED <<livenessVars, timeVars>>
    BY <1>3 DEF RangeLeaseAnswer
  <2> QED
    BY <1>0, <1>3, <2>1, RangeAnswerTypes
    DEF NodeTypes, TimeTypes, livenessVars, timeVars
<1>4. ASSUME NEW n \in Node, Acquired(n)
      PROVE  RaftTypes' /\ NodeTypes' /\ TimeTypes' /\ LeaseTypes'
  <2>1. UNCHANGED <<raftVars, livenessVars, timeVars>>
    BY <1>4 DEF Acquired, nodeVars
  <2>2. LeaseTypes'
    BY <1>4 DEF Acquired, LeaseTypes
  <2> QED
    BY <1>0, <2>1, <2>2, RaftUnchanged
    DEF NodeTypes, TimeTypes, livenessVars, timeVars
<1>5. ASSUME NEW n \in Node, LeaseFails(n)
      PROVE  RaftTypes' /\ NodeTypes' /\ TimeTypes' /\ LeaseTypes'
  <2>1. CallFails(n, RangeKey) /\ RangeKey \in Key
    BY <1>5, RangeKeyOK DEF LeaseFails
  <2>2. LeaseTypes'
    BY <1>5 DEF LeaseFails, LeaseTypes
  <2> QED
    BY <1>0, <2>1, <2>2, CallFailsTypes
<1>6. ASSUME NEW n \in Node, ReleaseRangeLease(n)
      PROVE  RaftTypes' /\ NodeTypes' /\ TimeTypes' /\ LeaseTypes'
  BY <1>0, <1>6, ReleaseTypes
<1>7. ASSUME NEW n \in Node, Restart(n)
      PROVE  RaftTypes' /\ NodeTypes' /\ TimeTypes' /\ LeaseTypes'
  <2>1. LeaseTypes'
    BY <1>7 DEF Restart, LeaseTypes
  <2> QED
    BY <1>0, <1>7, <2>1, RestartTypes DEF Restart
<1>8. ASSUME NEW n \in Node, LivenessNext(n), UNCHANGED rangeVars
      PROVE  RaftTypes' /\ NodeTypes' /\ TimeTypes' /\ LeaseTypes'
  <2>1. LeaseTypes'
    BY <1>8 DEF rangeVars, LeaseTypes
  <2>2. CASE LeaseLiveness(n) \/ KeepLivenessAlive(n)
    <3>1. RenewLiveness(n) /\ (UNCHANGED events \/ Event(n))
      BY <2>2 DEF LeaseLiveness, KeepLivenessAlive
    <3> QED
      BY <1>0, <2>1, <3>1, RenewLivenessTypes
  <2>3. CASE LivenessAnswer(n)
    <3>1. UNCHANGED timeVars
      BY <2>3 DEF LivenessAnswer
    <3>2. TimeTypes'
      BY <3>1 DEF TimeTypes, timeVars
    <3> QED
      BY <1>0, <2>1, <2>3, <3>2, LivenessAnswerTypes
  <2>4. CASE CallFails(n, n)
    BY <1>0, <2>1, <2>4, Expectations, CallFailsTypes
  <2> QED
    BY <1>8, <2>2, <2>3, <2>4 DEF LivenessNext
<1>9. ASSUME NEW n \in Node, NEW k \in {n, RangeKey}, Expire(n, k),
             UNCHANGED rangeVars
      PROVE  RaftTypes' /\ NodeTypes' /\ TimeTypes' /\ LeaseTypes'
  <2>1. k \in Key
    BY Expectations, <1>0
  <2>2. TimeTypes'
    BY <1>0, <1>9, <2>1, ExpireTypes
  <2>3. UNCHANGED <<raftVars, livenessVars>>
    BY <1>9 DEF Expire
  <2>4. NodeTypes' /\ LeaseTypes'
    BY <1>9, <2>3 DEF NodeTypes, LeaseTypes, livenessVars, rangeVars
  <2> QED
    BY <1>0, <2>2, <2>3, <2>4, RaftUnchanged
<1>10. ASSUME NEW p \in proposals, Apply(p)
       PROVE  RaftTypes' /\ NodeTypes' /\ TimeTypes' /\ LeaseTypes'
  <2>1. Cas(p) /\ UNCHANGED <<livenessVars, timeVars, meta, lease, leaseRecord, acquiring>>
    BY <1>10 DEF Apply, Cas
  <2>2. RaftTypes'
    BY <2>1, CasEffect DEF RaftTypes
  <2>3. NodeTypes' /\ TimeTypes' /\ LeaseTypes'
    BY <2>1 DEF NodeTypes, TimeTypes, LeaseTypes, livenessVars, timeVars
  <2> QED
    BY <2>2, <2>3
<1>11. CASE UNCHANGED vars
  <2>1. UNCHANGED <<raftVars, livenessVars, timeVars, rangeVars>>
    BY <1>11 DEF vars, nodeVars
  <2>2. NodeTypes' /\ TimeTypes' /\ LeaseTypes'
    BY <2>1 DEF NodeTypes, TimeTypes, LeaseTypes, livenessVars, timeVars, rangeVars
  <2> QED
    BY <1>0, <2>1, <2>2, RaftUnchanged
<1> QED
  BY <1>1, <1>2, <1>3, <1>4, <1>5, <1>6, <1>7, <1>8, <1>9, <1>10, <1>11
  DEF Next, RangeNext

LEMMA TypesInit == Init => TypeInv
<1> SUFFICES ASSUME Init PROVE TypeInv
  OBVIOUS
<1>1. \A k \in Key : None \in Value(k) /\ None \in AnyValue
  <2>1. \A k \in Key : None \in Value(k)
    BY DEF Value
  <2> QED
    BY <2>1 DEF AnyValue
<1>2. StoredTypes /\ ProposalTypes
  BY <1>1 DEF Init, LivenessInit, StoredTypes, ProposalTypes
<1>3. \A n \in Node, k \in Key : Idle \in Progress(n, k) /\ Idle \in AnyProgress
  <2>1. \A n \in Node, k \in Key : Idle \in Progress(n, k)
    BY DEF Progress
  <2> QED
    BY <2>1 DEF AnyProgress
<1>4. CallTypes
  BY <1>3 DEF Init, LivenessInit, CallTypes
<1>5. NodeTypes /\ TimeTypes /\ LeaseTypes
  BY NodesHaveKeys DEF Init, LivenessInit, NodeTypes, TimeTypes, LeaseTypes
<1> QED
  BY <1>2, <1>4, <1>5 DEF TypeInv

LEMMA TypesAlways == Spec => []TypeInv
<1>1. TypeInv /\ [Next]_vars => TypeInv'
  BY TypesStep
<1> QED
  BY <1>1, TypesInit, PTL DEF Spec

(* The variables of leases have their types (module RangeLease). *)
THEOREM LeaseTypesHold == Spec => []TypeOK
<1>1. ASSUME TypeInv PROVE TypeOK
  <2>1. stored \in [Key -> [epoch : Nat, expiration : Nat] \union {None}
                     \union [epoch : Nat, node : Node] \union [expiration : Nat]]
    <3>1. \A k \in Key : stored[k] \in [epoch : Nat, expiration : Nat] \union {None}
                     \union [epoch : Nat, node : Node] \union [expiration : Nat]
      BY <1>1 DEF TypeInv, StoredTypes, Value, LivenessRecord, EpochLease
    <3> QED
      BY <1>1, <3>1 DEF TypeInv, StoredTypes
  <2>2. \A p \in proposals : p.node \in Node /\ p.key \in {p.node} \union (Key \ Node)
    BY <1>1 DEF TypeInv, ProposalTypes, Request, Keys
  <2>3. \A n \in Node, k \in Key : call[n][k].at \in {"idle", "waiting", "answered"}
    BY <1>1 DEF TypeInv, CallTypes, Progress, Idle
  <2>4. /\ \A k \in Key : horizon[k] \in 0..version[k]
        /\ \A n \in Node : events[n] \in 0..MaxEvents[n]
    BY <1>1, NodesHaveKeys DEF TypeInv, TimeTypes
  <2> QED
    BY <1>1, <2>1, <2>2, <2>3, <2>4
    DEF TypeInv, TypeOK, LivenessTypeOK, NodeTypes, TimeTypes, LeaseTypes
<1> QED
  BY <1>1, TypesAlways, PTL
-----------------------------------------------------------------------------
(* Fenced.                                                                 *)

(* A step that asks for no liveness record, and changes none. *)
LEMMA FencedElsewhere ==
  ASSUME FencedInv, UNCHANGED <<stored, livenessVars>>,
         \A n \in Node : call'[n][n] = call[n][n] \/ call'[n][n] = Idle,
         \A p \in proposals' : p \in proposals \/ p.key \notin Node
  PROVE  FencedInv'
<1>1. \A p \in proposals' : Rising(p)
  BY DEF FencedInv, Rising
<1>2. ASSUME NEW n \in Node PROVE EpochsOf(n)'
  <2>1. EpochsOf(n)
    BY DEF FencedInv
  <2>2. UNCHANGED <<stored, clock, lastLivenessRecord, retired>>
    BY DEF livenessVars
  <2>3. CASE call'[n][n] = call[n][n]
    BY <2>1, <2>2, <2>3
    DEF EpochsOf, Holds, Safe, Covered, Current, Answered, Swapped
  <2>4. CASE call'[n][n] = Idle
    BY <2>1, <2>2, <2>4
    DEF EpochsOf, Holds, Safe, Covered, Current, Answered, Swapped, Idle
  <2> QED
    BY <1>2, <2>3, <2>4
<1> QED
  BY <1>1, <1>2 DEF FencedInv, Rising

(* A request for the range. *)
LEMMA FencedRangeSend ==
  ASSUME TypeInv, FencedInv, NEW n \in Node, NEW record, NEW new,
         SendCasRequest(n, RangeKey, record, new), UNCHANGED livenessVars
  PROVE  FencedInv'
<1>1. call \in [Node -> [Key -> AnyProgress]]
  BY DEF TypeInv, CallTypes
<1>2. \A m \in Node : call'[m][m] = call[m][m]
  BY <1>1, NodesHaveKeys, RangeKeyOK DEF SendCasRequest
<1>3. \A p \in proposals' : p \in proposals \/ p.key \notin Node
  BY RangeKeyOK DEF SendCasRequest
<1>4. UNCHANGED stored
  BY DEF SendCasRequest
<1> QED
  BY <1>2, <1>3, <1>4, FencedElsewhere

(* The end of a call, if the node has not changed. *)
LEMMA FencedCallFails ==
  ASSUME TypeInv, FencedInv, NEW n \in Node, NEW k \in Key, CallFails(n, k)
  PROVE  FencedInv'
<1>1. EndCall(n, k) /\ UNCHANGED livenessVars
  BY DEF CallFails
<1>2. \A m \in Node : call'[m][m] = call[m][m] \/ call'[m][m] = Idle
  BY <1>1, EndTypes, NodesHaveKeys DEF TypeInv
<1>3. UNCHANGED <<stored, proposals>>
  BY <1>1 DEF EndCall
<1> QED
  BY <1>1, <1>2, <1>3, FencedElsewhere

(* A node asks for its own epoch, which is not below that of the record it *)
(* expects.                                                                *)
LEMMA FencedRenew ==
  ASSUME TypeInv, FencedInv, NEW n \in Node, RenewLiveness(n)
  PROVE  FencedInv'
<1> DEFINE new == [epoch |-> clock[n], expiration |-> version[n] + 1]
           p == [node |-> n, key |-> n, expected |-> lastLivenessRecord[n],
                 new |-> new]
<1>1. /\ proposals' = proposals \union {p}
      /\ call' = [call EXCEPT ![n][n] = [at |-> "waiting", p |-> p]]
      /\ UNCHANGED <<stored, clock, lastLivenessRecord, retired>>
  BY DEF RenewLiveness, SendCasRequest, livenessVars
<1>2. new # None /\ new.epoch = clock[n] /\ clock[n] \in Nat
  <2>1. new \in LivenessRecord
    BY NodesHaveKeys DEF TypeInv, NodeTypes, TimeTypes, LivenessRecord
  <2> QED
    BY <2>1, NoneIsNoRecord DEF TypeInv, NodeTypes
<1> HIDE DEF new
<1>3. EpochsOf(n)
  BY DEF FencedInv
<1>4. Rising(p)
  BY <1>2, <1>3 DEF EpochsOf, Rising
<1>5. \A q \in proposals' : Rising(q)
  BY <1>1, <1>4 DEF FencedInv
<1>6. /\ call'[n][n] = [at |-> "waiting", p |-> p]
      /\ \A m \in Node : m # n => call'[m][m] = call[m][m]
  BY <1>1, NodesHaveKeys DEF TypeInv, CallTypes
<1>7. EpochsOf(n)'
  <2>1. Current(n)'
    BY <1>1, <1>2, <1>6 DEF Current
  <2>2. ~Answered(n, n)'
    BY <1>6 DEF Answered
  <2> QED
    BY <1>1, <1>3, <2>1, <2>2 DEF EpochsOf, Holds, Safe, Covered
<1>8. ASSUME NEW m \in Node, m # n PROVE EpochsOf(m)'
  <2>1. EpochsOf(m) /\ call'[m][m] = call[m][m]
    BY <1>6, <1>8 DEF FencedInv
  <2> QED
    BY <1>1, <2>1 DEF EpochsOf, Holds, Safe, Covered, Current, Answered, Swapped
<1> QED
  BY <1>5, <1>7, <1>8 DEF FencedInv, Rising

(* The clock moves beyond a record that was found instead of the expected  *)
(* one; an epoch that is given up was covered by the stored record.        *)
LEMMA FencedAnswer ==
  ASSUME TypeInv, FencedInv, NEW n \in Node, LivenessAnswer(n)
  PROVE  FencedInv'
<1> DEFINE found == call[n][n].found
           new == call[n][n].p.new
<1>1. Answered(n, n) /\ EndCall(n, n) /\ UNCHANGED <<stored, proposals>>
  BY DEF LivenessAnswer, EndCall
<1>2. /\ call'[n][n] = Idle
      /\ \A m \in Node : m # n => call'[m][m] = call[m][m]
  BY <1>1, EndTypes, NodesHaveKeys DEF TypeInv
<1>3. EpochsOf(n)
  BY DEF FencedInv
<1>4. /\ found \in LivenessRecord \union {None}
      /\ clock[n] \in Nat
  BY <1>1, Expectations, AnswerTypes DEF TypeInv, Value, NodeTypes
<1>5. Current(n)' /\ ~Answered(n, n)'
  BY <1>2 DEF Current, Answered, Idle
<1>6. CASE Swapped(n, n)
  <2>1. /\ lastLivenessRecord' = [lastLivenessRecord EXCEPT ![n] = new]
        /\ UNCHANGED <<clock, retired>>
    BY <1>6 DEF LivenessAnswer
  <2>2. lastLivenessRecord'[n] = new
        /\ \A m \in Node : m # n => lastLivenessRecord'[m] = lastLivenessRecord[m]
    BY <2>1 DEF TypeInv, NodeTypes
  <2>3. new # None /\ new.epoch = clock[n] /\ Safe(n)
    BY <1>1, <1>3, <1>6 DEF EpochsOf, Current, Answered, Idle
  <2>4. EpochsOf(n)'
    BY <1>1, <1>3, <1>4, <1>5, <2>1, <2>2, <2>3 DEF EpochsOf, Holds, Safe, Covered
  <2>5. ASSUME NEW m \in Node, m # n PROVE EpochsOf(m)'
    <3>1. EpochsOf(m)
      BY DEF FencedInv
    <3> QED
      BY <1>1, <1>2, <2>1, <2>2, <2>5, <3>1
      DEF EpochsOf, Holds, Safe, Covered, Current, Answered, Swapped
  <2> QED
    BY <1>1, <2>4, <2>5 DEF FencedInv, Rising
<1>7. CASE ~Swapped(n, n)
  <2> DEFINE e == IF found = None THEN 0 ELSE found.epoch
  <2>1. /\ lastLivenessRecord' = [lastLivenessRecord EXCEPT ![n] = found]
        /\ clock' = [clock EXCEPT ![n] = Witness(n, e)]
        /\ retired' = [retired EXCEPT ![n] = @ \union HeldEpoch(n)]
    BY <1>7 DEF LivenessAnswer
  <2>2. e \in Nat /\ (found # None => found.epoch = e)
    BY <1>4 DEF LivenessRecord
  <2> HIDE DEF e
  <2>3. e < Witness(n, e)
    BY <1>4, <2>2 DEF Witness
  <2>4. /\ lastLivenessRecord'[n] = found
        /\ clock'[n] = Witness(n, e)
        /\ retired'[n] = retired[n] \union HeldEpoch(n)
    BY <2>1 DEF TypeInv, NodeTypes
  <2>5. \A m \in Node : m # n =>
          /\ lastLivenessRecord'[m] = lastLivenessRecord[m]
          /\ clock'[m] = clock[m] /\ retired'[m] = retired[m]
    BY <2>1 DEF TypeInv, NodeTypes
  <2>6. lastLivenessRecord'[n] # None => lastLivenessRecord'[n].epoch < clock'[n]
    BY <2>2, <2>3, <2>4
  <2>7. Witness(n, e) \in Nat
    BY <1>4, <2>2 DEF Witness
  <2>8. \A f \in retired'[n] : Covered(n, f)'
    BY <1>1, <1>3, <2>4 DEF EpochsOf, HeldEpoch, Holds, Safe, Covered
  <2>9. EpochsOf(n)'
    <3>1. ~Holds(n)'
      BY <2>2, <2>3, <2>4, <2>7 DEF Holds
    <3>2. lastLivenessRecord'[n] # None => lastLivenessRecord'[n].epoch <= clock'[n]
      BY <2>2, <2>3, <2>4, <2>7
    <3> QED
      BY <1>5, <2>8, <3>1, <3>2 DEF EpochsOf
  <2>10. ASSUME NEW m \in Node, m # n PROVE EpochsOf(m)'
    <3>1. EpochsOf(m)
      BY DEF FencedInv
    <3> QED
      BY <1>1, <1>2, <2>5, <2>10, <3>1
      DEF EpochsOf, Holds, Safe, Covered, Current, Answered, Swapped
  <2> QED
    BY <1>1, <2>9, <2>10 DEF FencedInv, Rising
<1> QED
  BY <1>6, <1>7

LEMMA FencedRestart ==
  ASSUME TypeInv, FencedInv, NEW n \in Node, RestartLiveness(n)
  PROVE  FencedInv'
<1>1. /\ UNCHANGED <<stored, proposals>>
      /\ clock' = [clock EXCEPT ![n] = 0]
      /\ lastLivenessRecord' = [lastLivenessRecord EXCEPT ![n] = None]
      /\ retired' = [retired EXCEPT ![n] = @ \union HeldEpoch(n)]
  BY DEF RestartLiveness
<1>2. /\ call'[n][n] = Idle
      /\ \A m \in Node : m # n => call'[m][m] = call[m][m]
  BY RestartTypes, NodesHaveKeys DEF TypeInv, RaftTypes
<1>3. /\ lastLivenessRecord'[n] = None
      /\ retired'[n] = retired[n] \union HeldEpoch(n)
  BY <1>1 DEF TypeInv, NodeTypes
<1>4. \A m \in Node : m # n =>
        /\ lastLivenessRecord'[m] = lastLivenessRecord[m]
        /\ clock'[m] = clock[m] /\ retired'[m] = retired[m]
  BY <1>1 DEF TypeInv, NodeTypes
<1>5. EpochsOf(n)
  BY DEF FencedInv
<1>6. \A f \in retired'[n] : Covered(n, f)'
  BY <1>1, <1>3, <1>5 DEF EpochsOf, HeldEpoch, Holds, Safe, Covered
<1>7. EpochsOf(n)'
  BY <1>2, <1>3, <1>6 DEF EpochsOf, Holds, Current, Answered, Idle
<1>8. ASSUME NEW m \in Node, m # n PROVE EpochsOf(m)'
  <2>1. EpochsOf(m)
    BY DEF FencedInv
  <2> QED
    BY <1>1, <1>2, <1>4, <1>8, <2>1
    DEF EpochsOf, Holds, Safe, Covered, Current, Answered, Swapped
<1> QED
  BY <1>1, <1>7, <1>8 DEF FencedInv, Rising

(* Whatever request is applied, the stored epoch does not go back, and a   *)
(* request that is still current brings it to the epoch of its node, which *)
(* that node has not given up.                                             *)
LEMMA FencedCas ==
  ASSUME TypeInv, FencedInv, NEW p, Cas(p)
  PROVE  FencedInv'
<1>1. UNCHANGED <<clock, lastLivenessRecord, retired>>
  BY DEF Cas, livenessVars
<1>2. /\ p \in proposals /\ proposals' \subseteq proposals
      /\ p.key \in Keys(p.node) /\ p.node \in Node
      /\ p.expected \in Value(p.key) /\ p.new \in Value(p.key)
      /\ \A k \in Key : k # p.key => stored'[k] = stored[k]
      /\ stored'[p.key] = IF stored[p.key] = p.expected THEN p.new
                          ELSE stored[p.key]
      /\ \A m \in Node, k \in Key :
           \/ call'[m][k] = call[m][k]
           \/ /\ m = p.node /\ k = p.key
              /\ call[m][k] = [at |-> "waiting", p |-> p]
              /\ call'[m][k] = [at |-> "answered", p |-> p, found |-> stored[k]]
  BY CasEffect DEF TypeInv
<1>3. \A q \in proposals' : Rising(q)
  BY <1>2 DEF FencedInv
<1>4. ASSUME NEW n \in Node PROVE EpochsOf(n)'
  <2>1. EpochsOf(n) /\ n \in Key
    BY NodesHaveKeys DEF FencedInv
  <2>2. /\ stored[n] \in LivenessRecord \union {None}
        /\ lastLivenessRecord[n] \in LivenessRecord \union {None}
        /\ clock[n] \in Nat /\ retired[n] \subseteq Nat
    BY <2>1 DEF TypeInv, StoredTypes, NodeTypes, Value
  <2>3. \/ stored'[n] = stored[n]
        \/ /\ p.key = n /\ stored[n] = p.expected /\ stored'[n] = p.new
           /\ p.new \in LivenessRecord /\ p.new # None
           /\ p.expected # None => p.expected.epoch <= p.new.epoch
    BY <1>2, <2>1 DEF FencedInv, Rising, Value
  <2>4. \A e \in Nat : Covered(n, e) => Covered(n, e)'
    <3>1. CASE stored'[n] = stored[n]
      BY <3>1 DEF Covered
    <3>2. CASE stored'[n] # stored[n]
      <4>1. /\ stored[n] = p.expected /\ stored'[n] = p.new
            /\ p.new \in LivenessRecord /\ p.new # None
            /\ p.expected # None => p.expected.epoch <= p.new.epoch
        BY <2>3, <3>2
      <4>2. p.new.epoch \in Nat /\ (stored[n] # None => stored[n].epoch \in Nat)
        BY <2>2, <4>1 DEF LivenessRecord
      <4> QED
        BY <4>1, <4>2 DEF Covered
    <3> QED
      BY <3>1, <3>2
  <2>5. Safe(n) => Safe(n)'
    BY <1>1, <2>2, <2>4 DEF Safe
  <2>6. \A e \in retired'[n] : Covered(n, e)'
    BY <1>1, <2>1, <2>2, <2>4 DEF EpochsOf
  <2>7. Current(n)' /\ (Answered(n, n) /\ Swapped(n, n) => Safe(n))'
    <3>1. CASE call'[n][n] = call[n][n]
      BY <1>1, <2>1, <2>5, <3>1 DEF EpochsOf, Current, Answered, Swapped
    <3>2. CASE call'[n][n] # call[n][n]
      <4>1. /\ p.key = n /\ call[n][n] = [at |-> "waiting", p |-> p]
            /\ call'[n][n] = [at |-> "answered", p |-> p, found |-> stored[n]]
        BY <1>2, <2>1, <3>2
      <4>2. /\ p.expected = lastLivenessRecord[n]
            /\ p.new # None /\ p.new.epoch = clock[n]
        BY <2>1, <4>1 DEF EpochsOf, Current, Idle
      <4>3. Current(n)'
        BY <1>1, <4>1, <4>2 DEF Current
      <4>4. ASSUME stored[n] = p.expected PROVE Safe(n)'
        <5>1. stored'[n] = p.new
          BY <1>2, <4>1, <4>4
        <5>2. Covered(n, clock[n])'
          BY <1>1, <2>2, <4>2, <5>1 DEF Covered
        <5>3. clock[n] \notin retired[n]
          <6>1. CASE stored[n] = None
            BY <2>1, <6>1 DEF EpochsOf, Covered
          <6>2. CASE stored[n] # None /\ stored[n].epoch = clock[n]
            BY <2>1, <4>2, <4>4, <6>2 DEF EpochsOf, Holds, Safe
          <6>3. CASE stored[n] # None /\ stored[n].epoch # clock[n]
            <7>1. stored[n].epoch \in Nat
              BY <2>2, <6>3 DEF LivenessRecord
            <7>2. stored[n].epoch < clock[n]
              BY <2>1, <2>2, <4>2, <4>4, <6>3, <7>1 DEF EpochsOf
            <7> QED
              BY <2>1, <2>2, <7>1, <7>2 DEF EpochsOf, Covered
          <6> QED
            BY <6>1, <6>2, <6>3
        <5> QED
          BY <1>1, <5>2, <5>3 DEF Safe
      <4>5. Swapped(n, n)' => stored[n] = p.expected
        BY <4>1 DEF Swapped
      <4> QED
        BY <4>3, <4>4, <4>5
    <3> QED
      BY <3>1, <3>2
  <2> QED
    BY <1>1, <2>1, <2>5, <2>6, <2>7 DEF EpochsOf, Holds
<1> QED
  BY <1>3, <1>4 DEF FencedInv, Rising

LEMMA FencedStep ==
  ASSUME TypeInv, FencedInv, [Next]_vars
  PROVE  FencedInv'
<1>1. ASSUME NEW n \in Node, MaybeAcquireRangeLease(n) \/ Acquired(n)
      PROVE  FencedInv'
  <2>1. UNCHANGED <<stored, proposals, call, livenessVars>>
    BY <1>1 DEF MaybeAcquireRangeLease, Acquired, nodeVars, raftVars
  <2> QED
    BY <2>1, FencedElsewhere
<1>2. ASSUME NEW n \in Node, RenewRangeLease(n) PROVE FencedInv'
  <2>1. PICK new : SendCasRequest(n, RangeKey, leaseRecord[n], new)
    BY <1>2 DEF RenewRangeLease
  <2>2. UNCHANGED livenessVars
    BY <1>2 DEF RenewRangeLease
  <2> QED
    BY <2>1, <2>2, FencedRangeSend
<1>3. ASSUME NEW n \in Node, AcquireLease(n) \/ KeepLeaseAlive(n)
      PROVE  FencedInv'
  BY <1>2, <1>3 DEF AcquireLease, KeepLeaseAlive
<1>4. ASSUME NEW n \in Node, RangeLeaseAnswer(n) PROVE FencedInv'
  <2>1. EndCall(n, RangeKey) /\ UNCHANGED livenessVars /\ RangeKey \in Key
    BY <1>4, RangeKeyOK DEF RangeLeaseAnswer
  <2>2. \A m \in Node : call'[m][m] = call[m][m] \/ call'[m][m] = Idle
    BY <2>1, EndTypes, NodesHaveKeys DEF TypeInv
  <2>3. UNCHANGED <<stored, proposals>>
    BY <2>1 DEF EndCall
  <2> QED
    BY <2>1, <2>2, <2>3, FencedElsewhere
<1>5. ASSUME NEW n \in Node, LeaseFails(n) PROVE FencedInv'
  BY <1>5, RangeKeyOK, FencedCallFails DEF LeaseFails
<1>6. ASSUME NEW n \in Node, ReleaseRangeLease(n) PROVE FencedInv'
  <2>1. UNCHANGED livenessVars
    BY <1>6 DEF ReleaseRangeLease
  <2>2. CASE VerifyLease(n)
    <3>1. SendCasRequest(n, RangeKey, leaseRecord[n], None)
      BY <1>6, <2>2 DEF ReleaseRangeLease
    <3> QED
      BY <2>1, <3>1, FencedRangeSend
  <2>3. CASE ~VerifyLease(n)
    <3>1. UNCHANGED <<stored, proposals, call>>
      BY <1>6, <2>3 DEF ReleaseRangeLease, raftVars
    <3> QED
      BY <2>1, <3>1, FencedElsewhere
  <2> QED
    BY <2>2, <2>3
<1>7. ASSUME NEW n \in Node, Restart(n) PROVE FencedInv'
  BY <1>7, FencedRestart DEF Restart
<1>8. ASSUME NEW n \in Node, LivenessNext(n) PROVE FencedInv'
  <2>1. CASE LeaseLiveness(n) \/ KeepLivenessAlive(n)
    BY <2>1, FencedRenew DEF LeaseLiveness, KeepLivenessAlive
  <2>2. CASE LivenessAnswer(n)
    BY <2>2, FencedAnswer
  <2>3. CASE CallFails(n, n)
    BY <2>3, NodesHaveKeys, FencedCallFails
  <2> QED
    BY <1>8, <2>1, <2>2, <2>3 DEF LivenessNext
<1>9. ASSUME NEW n \in Node, NEW k \in {n, RangeKey}, Expire(n, k)
      PROVE  FencedInv'
  <2>1. UNCHANGED <<stored, proposals, call, livenessVars>>
    BY <1>9 DEF Expire, raftVars
  <2> QED
    BY <2>1, FencedElsewhere
<1>10. ASSUME NEW p \in proposals, Apply(p) PROVE FencedInv'
  BY <1>10, FencedCas DEF Apply
<1>11. CASE UNCHANGED vars
  <2>1. UNCHANGED <<stored, proposals, call, livenessVars>>
    BY <1>11 DEF vars, nodeVars, raftVars
  <2> QED
    BY <2>1, FencedElsewhere
<1> QED
  BY <1>1, <1>3, <1>4, <1>5, <1>6, <1>7, <1>8, <1>9, <1>10, <1>11
  DEF Next, RangeNext

LEMMA FencedInit == Init => FencedInv
<1> SUFFICES ASSUME Init PROVE FencedInv
  OBVIOUS
<1>1. \A n \in Node : /\ lastLivenessRecord[n] = None /\ retired[n] = {}
                      /\ call[n][n] = Idle
  BY NodesHaveKeys DEF Init, LivenessInit
<1>2. proposals = {}
  BY DEF Init, LivenessInit
<1> QED
  BY <1>1, <1>2 DEF FencedInv, EpochsOf, Holds, Current, Answered, Idle

LEMMA FencedAlways == Spec => [](TypeInv /\ FencedInv)
<1>1. TypeInv /\ FencedInv /\ [Next]_vars => (TypeInv /\ FencedInv)'
  BY TypesStep, FencedStep
<1>2. Init => TypeInv /\ FencedInv
  BY TypesInit, FencedInit
<1> QED
  BY <1>1, <1>2, PTL DEF Spec

(* No node is valid again in an epoch that it gave up, however late its    *)
(* requests of old are applied (renewLease, Replica.cas).                  *)
THEOREM EpochsAreFenced == Spec => []Fenced
<1>1. FencedInv => Fenced
  BY NoneIsNoRecord DEF FencedInv, EpochsOf, Holds, Safe, Fenced, LivenessValid
<1> QED
  BY <1>1, FencedAlways, PTL
-----------------------------------------------------------------------------
(* Granted.                                                                *)

(* A step in which no request is applied: what was known stays known, and  *)
(* a lease record changes to a known value only.                           *)
LEMMA GrantedElsewhere ==
  ASSUME GrantedInv, UNCHANGED <<meta, granted, stored>>,
         \A n \in Node : leaseRecord'[n] \in Known,
         \A n \in Node : \/ call'[n][RangeKey] = call[n][RangeKey]
                         \/ call'[n][RangeKey].at # "answered",
         ~meta => \A p \in proposals' :
           p \in proposals \/ p.key # RangeKey \/ p.new \in EpochLease \union {None}
  PROVE  GrantedInv'
<1>1. Known' = Known
  BY DEF Known
<1>2. \A n \in Node : LeaseCall(n)'
  BY <1>1 DEF GrantedInv, LeaseCall, Answered, Swapped
<1>3. ~meta' => \A p \in proposals' :
        p.key = RangeKey => p.new \in EpochLease \union {None}
  BY DEF GrantedInv
<1> QED
  BY <1>1, <1>2, <1>3 DEF GrantedInv

(* A step that does not touch the range, on the side of the range. *)
LEMMA GrantedUnchanged ==
  ASSUME GrantedInv, UNCHANGED <<meta, granted, stored, leaseRecord>>,
         \A n \in Node : \/ call'[n][RangeKey] = call[n][RangeKey]
                         \/ call'[n][RangeKey].at # "answered",
         \A p \in proposals' : p \in proposals \/ p.key # RangeKey
  PROVE  GrantedInv'
<1>1. \A n \in Node : leaseRecord'[n] \in Known
  BY DEF GrantedInv
<1> QED
  BY <1>1, GrantedElsewhere

(* Requests for the lease of a range other than the metarange name an      *)
(* epoch, or nothing.                                                      *)
LEMMA GrantedSend ==
  ASSUME TypeInv, GrantedInv, NEW n \in Node, NEW record, NEW new,
         SendCasRequest(n, RangeKey, record, new),
         ~meta => new \in EpochLease \union {None},
         UNCHANGED <<meta, granted, leaseRecord>>
  PROVE  GrantedInv'
<1> DEFINE p == [node |-> n, key |-> RangeKey, expected |-> record, new |-> new]
<1>1. /\ proposals' = proposals \union {p}
      /\ call' = [call EXCEPT ![n][RangeKey] = [at |-> "waiting", p |-> p]]
      /\ UNCHANGED stored
  BY DEF SendCasRequest
<1>2. \A m \in Node : \/ call'[m][RangeKey] = call[m][RangeKey]
                      \/ call'[m][RangeKey].at # "answered"
  BY <1>1, RangeKeyOK DEF TypeInv, CallTypes
<1>3. ~meta => \A q \in proposals' :
        q \in proposals \/ q.new \in EpochLease \union {None}
  BY <1>1
<1>4. \A m \in Node : leaseRecord'[m] \in Known
  BY DEF GrantedInv
<1> QED
  BY <1>1, <1>2, <1>3, <1>4, GrantedElsewhere

LEMMA GrantedRenew ==
  ASSUME TypeInv, GrantedInv, NEW n \in Node, RenewRangeLease(n)
  PROVE  GrantedInv'
<1>1. UNCHANGED <<meta, granted, leaseRecord>>
  BY DEF RenewRangeLease, rangeVars
<1>2. CASE meta
  <2>1. SendCasRequest(n, RangeKey, leaseRecord[n],
                       [expiration |-> version'[RangeKey]])
    BY <1>2 DEF RenewRangeLease
  <2> QED
    BY <1>1, <1>2, <2>1, GrantedSend
<1>3. CASE ~meta
  <2> DEFINE new == [epoch |-> lastLivenessRecord[n].epoch, node |-> n]
  <2>1. LivenessValid(n) /\ SendCasRequest(n, RangeKey, leaseRecord[n], new)
    BY <1>3 DEF RenewRangeLease
  <2>2. new \in EpochLease
    BY <2>1 DEF LivenessValid, LivenessRecord, EpochLease
  <2> HIDE DEF new
  <2> QED
    BY <1>1, <2>1, <2>2, GrantedSend
<1> QED
  BY <1>2, <1>3

(* The answer to a request is the lease a node goes by: the one it asked   *)
(* for, which was applied, or the one that was found.                      *)
LEMMA GrantedAnswer ==
  ASSUME TypeInv, GrantedInv, NEW n \in Node, RangeLeaseAnswer(n)
  PROVE  GrantedInv'
<1>1. /\ Answered(n, RangeKey) /\ EndCall(n, RangeKey)
      /\ UNCHANGED <<meta, granted, stored, proposals>>
  BY DEF RangeLeaseAnswer, EndCall
<1>2. \A m \in Node : call'[m][RangeKey] = call[m][RangeKey] \/ call'[m][RangeKey] = Idle
  BY <1>1, RangeKeyOK, EndTypes DEF TypeInv
<1>3. /\ call[n][RangeKey].found \in Known
      /\ Swapped(n, RangeKey) => call[n][RangeKey].p.new \in Known
  BY <1>1 DEF GrantedInv, LeaseCall
<1>4. \/ UNCHANGED leaseRecord
      \/ /\ Swapped(n, RangeKey)
         /\ leaseRecord' = [leaseRecord EXCEPT ![n] = call[n][RangeKey].p.new]
      \/ leaseRecord' = [leaseRecord EXCEPT ![n] = call[n][RangeKey].found]
  BY DEF RangeLeaseAnswer
<1>5. \A m \in Node : leaseRecord'[m] \in Known
  BY <1>3, <1>4 DEF GrantedInv, TypeInv, LeaseTypes
<1>6. Idle.at # "answered"
  BY DEF Idle
<1> QED
  BY <1>1, <1>2, <1>5, <1>6, GrantedElsewhere

(* Whatever is stored for the lease is granted with the same step. *)
LEMMA GrantedApply ==
  ASSUME TypeInv, GrantedInv, NEW p, Apply(p)
  PROVE  GrantedInv'
<1>1. /\ Cas(p) /\ UNCHANGED <<meta, leaseRecord>>
      /\ granted' = granted \union ({stored'[RangeKey]} \ {None})
  BY DEF Apply
<1>2. /\ p \in proposals /\ proposals' \subseteq proposals
      /\ \A k \in Key : k # p.key => stored'[k] = stored[k]
      /\ stored'[p.key] = IF stored[p.key] = p.expected THEN p.new
                          ELSE stored[p.key]
      /\ \A m \in Node, k \in Key :
           \/ call'[m][k] = call[m][k]
           \/ /\ m = p.node /\ k = p.key
              /\ call[m][k] = [at |-> "waiting", p |-> p]
              /\ call'[m][k] = [at |-> "answered", p |-> p, found |-> stored[k]]
  BY <1>1, CasEffect DEF TypeInv
<1>3. stored'[RangeKey] \in Known' /\ Known \subseteq Known'
  BY <1>1 DEF Known
<1>4. ~meta => granted' \subseteq EpochLease
  <2>1. stored'[RangeKey] = stored[RangeKey] \/
        (p.key = RangeKey /\ stored'[RangeKey] = p.new)
    BY <1>2, RangeKeyOK
  <2>2. ~meta => stored'[RangeKey] \in EpochLease \union {None}
    BY <1>2, <2>1 DEF GrantedInv, Known
  <2> QED
    BY <1>1, <2>2 DEF GrantedInv
<1>5. ~meta' => \A q \in proposals' :
        q.key = RangeKey => q.new \in EpochLease \union {None}
  BY <1>1, <1>2 DEF GrantedInv
<1>6. ASSUME NEW n \in Node PROVE LeaseCall(n)'
  <2>1. CASE call'[n][RangeKey] = call[n][RangeKey]
    BY <1>3, <2>1 DEF GrantedInv, LeaseCall, Answered, Swapped
  <2>2. CASE call'[n][RangeKey] # call[n][RangeKey]
    <3>1. /\ p.key = RangeKey
          /\ call'[n][RangeKey] =
               [at |-> "answered", p |-> p, found |-> stored[RangeKey]]
      BY <1>2, <2>2, RangeKeyOK
    <3>2. stored[RangeKey] \in Known'
      BY <1>3 DEF GrantedInv
    <3>3. stored[RangeKey] = p.expected => p.new \in Known'
      BY <1>2, <1>3, <3>1
    <3> QED
      BY <3>1, <3>2, <3>3 DEF LeaseCall, Swapped
  <2> QED
    BY <2>1, <2>2
<1>7. \A n \in Node : leaseRecord'[n] \in Known'
  BY <1>1, <1>3 DEF GrantedInv
<1> QED
  BY <1>1, <1>3, <1>4, <1>5, <1>6, <1>7 DEF GrantedInv

LEMMA GrantedStep ==
  ASSUME TypeInv, GrantedInv, [Next]_vars
  PROVE  GrantedInv'
<1>0. None \in Known /\ leaseRecord \in [Node -> EpochLease \union [expiration : Nat] \union {None}]
  BY DEF Known, TypeInv, LeaseTypes
<1>1. ASSUME NEW n \in Node, MaybeAcquireRangeLease(n) PROVE GrantedInv'
  <2>1. /\ UNCHANGED <<meta, granted, stored, proposals, call>>
        /\ leaseRecord' = leaseRecord \/ leaseRecord' = [leaseRecord EXCEPT ![n] = None]
    BY <1>1 DEF MaybeAcquireRangeLease, nodeVars, raftVars
  <2>2. \A m \in Node : leaseRecord'[m] \in Known
    BY <1>0, <2>1 DEF GrantedInv
  <2> QED
    BY <2>1, <2>2, GrantedElsewhere
<1>2. ASSUME NEW n \in Node, AcquireLease(n) \/ KeepLeaseAlive(n)
      PROVE  GrantedInv'
  BY <1>2, GrantedRenew DEF AcquireLease, KeepLeaseAlive
<1>3. ASSUME NEW n \in Node, RangeLeaseAnswer(n) PROVE GrantedInv'
  BY <1>3, GrantedAnswer
<1>4. ASSUME NEW n \in Node, Acquired(n) PROVE GrantedInv'
  <2>1. UNCHANGED <<meta, granted, stored, proposals, call, leaseRecord>>
    BY <1>4 DEF Acquired, nodeVars, raftVars
  <2> QED
    BY <2>1, GrantedUnchanged
<1>5. ASSUME NEW n \in Node, NEW k \in Key, EndCall(n, k),
             UNCHANGED <<meta, granted, leaseRecord>>
      PROVE  GrantedInv'
  <2>1. \A m \in Node : call'[m][RangeKey] = call[m][RangeKey] \/ call'[m][RangeKey] = Idle
    BY <1>5, RangeKeyOK, EndTypes DEF TypeInv
  <2>2. Idle.at # "answered" /\ UNCHANGED <<stored, proposals>>
    BY <1>5 DEF Idle, EndCall
  <2> QED
    BY <1>5, <2>1, <2>2, GrantedUnchanged
<1>6. ASSUME NEW n \in Node, LeaseFails(n) PROVE GrantedInv'
  BY <1>5, <1>6, RangeKeyOK DEF LeaseFails, CallFails
<1>7. ASSUME NEW n \in Node, ReleaseRangeLease(n) PROVE GrantedInv'
  <2>1. UNCHANGED <<meta, granted, leaseRecord>>
    BY <1>7 DEF ReleaseRangeLease
  <2>2. CASE VerifyLease(n)
    <3>1. SendCasRequest(n, RangeKey, leaseRecord[n], None)
      BY <1>7, <2>2 DEF ReleaseRangeLease
    <3> QED
      BY <2>1, <3>1, GrantedSend
  <2>3. CASE ~VerifyLease(n)
    <3>1. UNCHANGED <<stored, proposals, call>>
      BY <1>7, <2>3 DEF ReleaseRangeLease, raftVars
    <3> QED
      BY <2>1, <3>1, GrantedUnchanged
  <2> QED
    BY <2>2, <2>3
<1>8. ASSUME NEW n \in Node, Restart(n) PROVE GrantedInv'
  <2>1. RestartLiveness(n) /\ UNCHANGED <<meta, granted>>
        /\ leaseRecord' = [leaseRecord EXCEPT ![n] = None]
    BY <1>8 DEF Restart
  <2>2. /\ \A k \in Key : call'[n][k] = Idle
        /\ \A m \in Node, k \in Key : m # n => call'[m][k] = call[m][k]
    BY <2>1, RestartTypes DEF TypeInv, RaftTypes
  <2>3. \A m \in Node : \/ call'[m][RangeKey] = call[m][RangeKey]
                        \/ call'[m][RangeKey].at # "answered"
    BY <2>2, RangeKeyOK DEF Idle
  <2>4. \A m \in Node : leaseRecord'[m] \in Known
    BY <1>0, <2>1 DEF GrantedInv
  <2>5. UNCHANGED <<stored, proposals>>
    BY <2>1 DEF RestartLiveness
  <2> QED
    BY <2>1, <2>3, <2>4, <2>5, GrantedElsewhere
<1>9. ASSUME NEW n \in Node, LivenessNext(n), UNCHANGED rangeVars
      PROVE  GrantedInv'
  <2>1. UNCHANGED <<meta, granted, leaseRecord>> /\ n \in Key /\ n # RangeKey
    BY <1>9, NodesHaveKeys, RangeKeyOK DEF rangeVars
  <2>2. ASSUME RenewLiveness(n) PROVE GrantedInv'
    <3>1. UNCHANGED stored /\ \A p \in proposals' : p \in proposals \/ p.key # RangeKey
      BY <2>1, <2>2 DEF RenewLiveness, SendCasRequest
    <3>2. \A m \in Node : call'[m][RangeKey] = call[m][RangeKey]
      BY <2>1, <2>2, RangeKeyOK DEF RenewLiveness, SendCasRequest, TypeInv, CallTypes
    <3> QED
      BY <2>1, <3>1, <3>2, GrantedUnchanged
  <2>3. CASE LeaseLiveness(n) \/ KeepLivenessAlive(n)
    BY <2>2, <2>3 DEF LeaseLiveness, KeepLivenessAlive
  <2>4. CASE LivenessAnswer(n)
    BY <1>5, <2>1, <2>4 DEF LivenessAnswer
  <2>5. CASE CallFails(n, n)
    BY <1>5, <2>1, <2>5 DEF CallFails
  <2> QED
    BY <1>9, <2>3, <2>4, <2>5 DEF LivenessNext
<1>10. ASSUME NEW n \in Node, NEW k \in {n, RangeKey}, Expire(n, k),
              UNCHANGED rangeVars
       PROVE  GrantedInv'
  <2>1. UNCHANGED <<meta, granted, stored, proposals, call, leaseRecord>>
    BY <1>10 DEF Expire, raftVars, rangeVars
  <2> QED
    BY <2>1, GrantedUnchanged
<1>11. ASSUME NEW p \in proposals, Apply(p) PROVE GrantedInv'
  BY <1>11, GrantedApply
<1>12. CASE UNCHANGED vars
  <2>1. UNCHANGED <<meta, granted, stored, proposals, call, leaseRecord>>
    BY <1>12 DEF vars, nodeVars, raftVars, rangeVars
  <2> QED
    BY <2>1, GrantedUnchanged
<1> QED
  BY <1>1, <1>2, <1>3, <1>4, <1>6, <1>7, <1>8, <1>9, <1>10, <1>11, <1>12
  DEF Next, RangeNext

LEMMA GrantedInit == Init => GrantedInv
<1> SUFFICES ASSUME Init PROVE GrantedInv
  OBVIOUS
<1>1. /\ proposals = {} /\ granted = {}
      /\ stored[RangeKey] = None
      /\ \A n \in Node : leaseRecord[n] = None /\ call[n][RangeKey] = Idle
  BY RangeKeyOK DEF Init, LivenessInit
<1> QED
  BY <1>1 DEF GrantedInv, Known, LeaseCall, Answered, Idle

(* A range other than the metarange is served only by a node that was      *)
(* granted its lease, in an epoch the node has not given up (verifyLease,  *)
(* renewLease).                                                            *)
THEOREM LeasesAreGranted == Spec => []Granted
<1>1. TypeInv /\ FencedInv /\ GrantedInv => Granted
  <2> SUFFICES ASSUME TypeInv, FencedInv, GrantedInv, NEW n \in Node,
                      Active(n), ~meta
               PROVE  /\ [epoch |-> clock[n], node |-> n] \in granted
                      /\ clock[n] \notin retired[n]
    BY DEF Granted
  <2>1. /\ leaseRecord[n] # None /\ leaseRecord[n].node = n
        /\ LivenessValid(n)
        /\ leaseRecord[n].epoch = lastLivenessRecord[n].epoch
    BY DEF Active, VerifyLease
  <2>2. lastLivenessRecord[n].epoch = clock[n] /\ lastLivenessRecord[n] # None
    BY <2>1, NoneIsNoRecord DEF LivenessValid
  <2>3. leaseRecord[n] \in granted /\ leaseRecord[n] \in EpochLease
    BY <2>1 DEF GrantedInv, Known
  <2>4. leaseRecord[n] = [epoch |-> clock[n], node |-> n]
    BY <2>1, <2>2, <2>3 DEF EpochLease
  <2>5. clock[n] \notin retired[n]
    BY <2>2 DEF FencedInv, EpochsOf, Holds, Safe
  <2> QED
    BY <2>3, <2>4, <2>5
<1>2. TypeInv /\ GrantedInv /\ [Next]_vars => GrantedInv'
  BY GrantedStep
<1> QED
  BY <1>1, <1>2, GrantedInit, FencedAlways, PTL DEF Spec
-----------------------------------------------------------------------------
(* Backed.  The expirations that were asked for order the requests of a    *)
(* node: a request that expects a record as late as the one the node holds *)
(* was made in the node's present epoch.                                   *)

Later(p) ==
  p.key \in Node =>
    /\ p.new.expiration <= version[p.key]
    /\ p.expected # None => p.expected.expiration < p.new.expiration

(* No record is later than the last request, which is the one under way. *)
Latest(n) ==
  /\ stored[n] # None => stored[n].expiration <= version[n]
  /\ lastLivenessRecord[n] # None => lastLivenessRecord[n].expiration <= version[n]
  /\ call[n][n] # Idle => call[n][n].p.new.expiration = version[n]
  /\ Answered(n, n) =>
       /\ call[n][n].found # None => call[n][n].found.expiration <= version[n]
       /\ Swapped(n, n) => stored[n] = call[n][n].p.new

Backing(n) ==
  /\ stored[n] # None
  /\ stored[n].epoch = clock[n]
  /\ stored[n].expiration >= lastLivenessRecord[n].expiration
  /\ \A p \in proposals :
       /\ p.key = n /\ p.expected # None
       /\ p.expected.expiration >= lastLivenessRecord[n].expiration
       => p.new.epoch = clock[n]

BackedInv ==
  /\ \A p \in proposals : Later(p)
  /\ \A n \in Node : Latest(n) /\ (Holds(n) => Backing(n))

(* Requests for liveness records, and the values compared, are records. *)
LEMMA LivenessRequest ==
  ASSUME TypeInv, FencedInv, NEW p \in proposals, p.key \in Node
  PROVE  /\ p.new \in LivenessRecord /\ p.new.epoch \in Nat /\ p.new.expiration \in Nat
         /\ p.expected \in LivenessRecord \union {None}
         /\ p.expected # None => p.expected.expiration \in Nat
<1>1. PICK n \in Node : \E k \in Keys(n) : p \in Request(n, k)
  BY DEF TypeInv, ProposalTypes
<1>2. p.new \in Value(p.key) /\ p.expected \in Value(p.key)
  BY <1>1 DEF Request
<1>3. p.new # None
  BY DEF FencedInv, Rising
<1>4. p.new \in LivenessRecord /\ p.expected \in LivenessRecord \union {None}
  BY <1>2, <1>3 DEF Value
<1> QED
  BY <1>4 DEF LivenessRecord

LEMMA BackedElsewhere ==
  ASSUME BackedInv, UNCHANGED <<stored, livenessVars>>,
         \A n \in Node : version'[n] = version[n],
         \A n \in Node : call'[n][n] = call[n][n] \/ call'[n][n] = Idle,
         \A p \in proposals' : p \in proposals \/ p.key \notin Node
  PROVE  BackedInv'
<1>1. \A p \in proposals' : Later(p)'
  BY DEF BackedInv, Later
<1>2. ASSUME NEW n \in Node PROVE (Latest(n) /\ (Holds(n) => Backing(n)))'
  <2>1. Latest(n) /\ (Holds(n) => Backing(n)) /\ version'[n] = version[n]
    BY DEF BackedInv
  <2>2. UNCHANGED <<stored, clock, lastLivenessRecord>>
    BY DEF livenessVars
  <2>3. Latest(n)'
    BY <2>1, <2>2 DEF Latest, Answered, Swapped, Idle
  <2>4. (Holds(n) => Backing(n))'
    BY <2>1, <2>2 DEF Holds, Backing
  <2> QED
    BY <2>3, <2>4
<1> QED
  BY <1>1, <1>2 DEF BackedInv

LEMMA BackedRangeSend ==
  ASSUME TypeInv, BackedInv, NEW n \in Node, NEW record, NEW new,
         SendCasRequest(n, RangeKey, record, new), UNCHANGED livenessVars,
         \A m \in Node : version'[m] = version[m]
  PROVE  BackedInv'
<1>1. \A m \in Node : call'[m][m] = call[m][m]
  BY NodesHaveKeys, RangeKeyOK DEF SendCasRequest, TypeInv, CallTypes
<1>2. \A p \in proposals' : p \in proposals \/ p.key \notin Node
  BY RangeKeyOK DEF SendCasRequest
<1>3. UNCHANGED stored
  BY DEF SendCasRequest
<1> QED
  BY <1>1, <1>2, <1>3, BackedElsewhere

LEMMA BackedEndCall ==
  ASSUME TypeInv, BackedInv, NEW n \in Node, NEW k \in Key, EndCall(n, k),
         UNCHANGED <<livenessVars, version>>
  PROVE  BackedInv'
<1>1. \A m \in Node : call'[m][m] = call[m][m] \/ call'[m][m] = Idle
  BY EndTypes, NodesHaveKeys DEF TypeInv
<1>2. UNCHANGED <<stored, proposals>>
  BY DEF EndCall
<1> QED
  BY <1>1, <1>2, BackedElsewhere

(* A new request asks for a later expiration than any before it. *)
LEMMA BackedRenew ==
  ASSUME TypeInv, FencedInv, BackedInv, NEW n \in Node, RenewLiveness(n)
  PROVE  BackedInv'
<1> DEFINE new == [epoch |-> clock[n], expiration |-> version[n] + 1]
           p == [node |-> n, key |-> n, expected |-> lastLivenessRecord[n],
                 new |-> new]
<1>1. /\ proposals' = proposals \union {p}
      /\ call' = [call EXCEPT ![n][n] = [at |-> "waiting", p |-> p]]
      /\ version' = [version EXCEPT ![n] = @ + 1]
      /\ UNCHANGED <<stored, clock, lastLivenessRecord>>
  BY DEF RenewLiveness, SendCasRequest, livenessVars
<1>2. /\ \A m \in Node : version[m] \in Nat
      /\ version'[n] = version[n] + 1
      /\ \A m \in Node : m # n => version'[m] = version[m]
  BY <1>1, NodesHaveKeys DEF TypeInv, TimeTypes
<1>3. /\ call'[n][n] = [at |-> "waiting", p |-> p]
      /\ \A m \in Node : m # n => call'[m][m] = call[m][m]
  BY <1>1, NodesHaveKeys DEF TypeInv, CallTypes
<1>4. /\ stored[n] # None => stored[n].expiration \in Nat
      /\ lastLivenessRecord[n] # None => lastLivenessRecord[n].expiration \in Nat
  BY NodesHaveKeys DEF TypeInv, StoredTypes, Value, NodeTypes, LivenessRecord
<1>5. Latest(n)
  BY DEF BackedInv
<1>6. ASSUME NEW q, q = p PROVE Later(q)'
  <2>1. /\ q.key = n /\ q.new.expiration = version[n] + 1
        /\ q.expected = lastLivenessRecord[n]
    BY <1>6
  <2> QED
    BY <1>2, <1>4, <1>5, <2>1 DEF Latest, Later
<1>7. ASSUME NEW q \in proposals PROVE Later(q)'
  <2>1. Later(q)
    BY DEF BackedInv
  <2>2. CASE q.key \in Node
    BY <1>2, <2>1, <2>2, LivenessRequest DEF Later
  <2>3. CASE q.key \notin Node
    BY <2>3 DEF Later
  <2> QED
    BY <2>2, <2>3
<1>8. Latest(n)'
  BY <1>1, <1>2, <1>3, <1>4, <1>5 DEF Latest, Answered
<1>9. (Holds(n) => Backing(n))'
  BY <1>1 DEF BackedInv, Holds, Backing
<1>10. ASSUME NEW m \in Node, m # n
       PROVE  (Latest(m) /\ (Holds(m) => Backing(m)))'
  <2>1. Latest(m) /\ (Holds(m) => Backing(m))
    BY DEF BackedInv
  <2>2. Latest(m)'
    BY <1>1, <1>2, <1>3, <1>10, <2>1 DEF Latest, Answered, Swapped
  <2>3. (Holds(m) => Backing(m))'
    BY <1>1, <1>10, <2>1 DEF Holds, Backing
  <2> QED
    BY <2>2, <2>3
<1>11. \A q \in proposals' : Later(q)'
  BY <1>1, <1>6, <1>7
<1> QED
  BY <1>8, <1>9, <1>10, <1>11 DEF BackedInv

(* A node that obtains its record finds it stored, and no request expects  *)
(* one as late; after a failure it does not hold its epoch.                *)
LEMMA BackedAnswer ==
  ASSUME TypeInv, FencedInv, BackedInv, NEW n \in Node, LivenessAnswer(n)
  PROVE  BackedInv'
<1> DEFINE found == call[n][n].found
           new == call[n][n].p.new
<1>1. /\ Answered(n, n) /\ EndCall(n, n)
      /\ UNCHANGED <<stored, proposals, version>>
  BY DEF LivenessAnswer, EndCall, timeVars
<1>2. /\ call'[n][n] = Idle
      /\ \A m \in Node : m # n => call'[m][m] = call[m][m]
  BY <1>1, EndTypes, NodesHaveKeys DEF TypeInv
<1>3. EpochsOf(n) /\ Latest(n)
  BY DEF FencedInv, BackedInv
<1>4. /\ found \in LivenessRecord \union {None}
      /\ new \in LivenessRecord \union {None}
      /\ clock[n] \in Nat /\ version[n] \in Nat
  BY <1>1, Expectations, AnswerTypes DEF TypeInv, Value, NodeTypes, TimeTypes
<1>5. call[n][n] # Idle /\ ~Answered(n, n)'
  BY <1>1, <1>2 DEF Answered, Idle
<1>6. \A q \in proposals' : Later(q)'
  BY <1>1 DEF BackedInv, Later
<1>7. ASSUME NEW m \in Node, m # n,
             lastLivenessRecord'[m] = lastLivenessRecord[m], clock'[m] = clock[m]
      PROVE  (Latest(m) /\ (Holds(m) => Backing(m)))'
  <2>1. Latest(m) /\ (Holds(m) => Backing(m)) /\ call'[m][m] = call[m][m]
    BY <1>2, <1>7 DEF BackedInv
  <2>2. Latest(m)'
    BY <1>1, <1>7, <2>1 DEF Latest, Answered, Swapped
  <2>3. (Holds(m) => Backing(m))'
    BY <1>1, <1>7, <2>1 DEF Holds, Backing
  <2> QED
    BY <2>2, <2>3
<1>8. CASE Swapped(n, n)
  <2>1. /\ lastLivenessRecord' = [lastLivenessRecord EXCEPT ![n] = new]
        /\ UNCHANGED clock
    BY <1>8 DEF LivenessAnswer
  <2>2. lastLivenessRecord'[n] = new
        /\ \A m \in Node : m # n => lastLivenessRecord'[m] = lastLivenessRecord[m]
    BY <2>1 DEF TypeInv, NodeTypes
  <2>3. /\ new # None /\ new.epoch = clock[n] /\ new.expiration = version[n]
        /\ stored[n] = new
    BY <1>1, <1>3, <1>5, <1>8 DEF EpochsOf, Current, Latest
  <2>4. Latest(n)'
    BY <1>1, <1>2, <1>4, <1>5, <2>2, <2>3 DEF Latest
  <2>5. ASSUME NEW q \in proposals, q.key = n, q.expected # None
        PROVE  q.expected.expiration < new.expiration
    <3>1. /\ q.new.expiration \in Nat /\ q.expected.expiration \in Nat
          /\ q.new.expiration <= version[n]
          /\ q.expected.expiration < q.new.expiration
      BY <2>5, LivenessRequest DEF BackedInv, Later
    <3> QED
      BY <1>4, <2>3, <3>1
  <2>6. Backing(n)'
    <3>1. \A q \in proposals' :
            ~(/\ q.key = n /\ q.expected # None
              /\ q.expected.expiration >= lastLivenessRecord'[n].expiration)
      <4>1. ASSUME NEW q \in proposals, q.key = n, q.expected # None
            PROVE  ~(q.expected.expiration >= lastLivenessRecord'[n].expiration)
        <5>1. q.expected.expiration \in Nat
          BY <4>1, LivenessRequest
        <5> QED
          BY <1>4, <2>2, <2>3, <2>5, <4>1, <5>1
      <4> QED
        BY <1>1, <4>1
    <3>2. stored'[n] = new /\ clock'[n] = clock[n]
      BY <1>1, <2>1, <2>3
    <3>3. stored'[n].expiration >= lastLivenessRecord'[n].expiration
      BY <1>4, <2>2, <2>3, <3>2
    <3> QED
      BY <2>3, <3>1, <3>2, <3>3 DEF Backing
  <2> QED
    BY <1>6, <1>7, <2>1, <2>2, <2>4, <2>6 DEF BackedInv
<1>9. CASE ~Swapped(n, n)
  <2> DEFINE e == IF found = None THEN 0 ELSE found.epoch
  <2>1. /\ lastLivenessRecord' = [lastLivenessRecord EXCEPT ![n] = found]
        /\ clock' = [clock EXCEPT ![n] = Witness(n, e)]
    BY <1>9 DEF LivenessAnswer
  <2>2. e \in Nat /\ (found # None => found.epoch = e)
    BY <1>4 DEF LivenessRecord
  <2> HIDE DEF e
  <2>3. e < Witness(n, e) /\ Witness(n, e) \in Nat
    BY <1>4, <2>2 DEF Witness
  <2>4. /\ lastLivenessRecord'[n] = found /\ clock'[n] = Witness(n, e)
        /\ \A m \in Node : m # n => /\ lastLivenessRecord'[m] = lastLivenessRecord[m]
                                    /\ clock'[m] = clock[m]
    BY <2>1 DEF TypeInv, NodeTypes
  <2>5. ~Holds(n)'
    BY <2>2, <2>3, <2>4 DEF Holds
  <2>6. Latest(n)'
    BY <1>1, <1>2, <1>3, <1>5, <2>4 DEF Latest
  <2> QED
    BY <1>6, <1>7, <2>4, <2>5, <2>6 DEF BackedInv
<1> QED
  BY <1>8, <1>9

LEMMA BackedRestart ==
  ASSUME TypeInv, BackedInv, NEW n \in Node, RestartLiveness(n)
  PROVE  BackedInv'
<1>1. /\ UNCHANGED <<stored, proposals, version>>
      /\ clock' = [clock EXCEPT ![n] = 0]
      /\ lastLivenessRecord' = [lastLivenessRecord EXCEPT ![n] = None]
  BY DEF RestartLiveness
<1>2. /\ call'[n][n] = Idle
      /\ \A m \in Node : m # n => call'[m][m] = call[m][m]
  BY RestartTypes, NodesHaveKeys DEF TypeInv, RaftTypes
<1>3. /\ lastLivenessRecord'[n] = None
      /\ \A m \in Node : m # n => /\ lastLivenessRecord'[m] = lastLivenessRecord[m]
                                  /\ clock'[m] = clock[m]
  BY <1>1 DEF TypeInv, NodeTypes
<1>4. Latest(n)' /\ ~Holds(n)'
  BY <1>1, <1>2, <1>3 DEF BackedInv, Latest, Holds, Answered, Idle
<1>5. ASSUME NEW m \in Node, m # n
      PROVE  (Latest(m) /\ (Holds(m) => Backing(m)))'
  <2>1. Latest(m) /\ (Holds(m) => Backing(m))
    BY DEF BackedInv
  <2>2. Latest(m)'
    BY <1>1, <1>2, <1>3, <1>5, <2>1 DEF Latest, Answered, Swapped
  <2>3. (Holds(m) => Backing(m))'
    BY <1>1, <1>3, <1>5, <2>1 DEF Holds, Backing
  <2> QED
    BY <2>2, <2>3
<1>6. \A q \in proposals' : Later(q)'
  BY <1>1 DEF BackedInv, Later
<1> QED
  BY <1>4, <1>5, <1>6 DEF BackedInv

(* A request that replaces the record of a node that holds its epoch was   *)
(* made in that epoch; none replaces a record before its node reads the    *)
(* answer.                                                                 *)
LEMMA BackedCas ==
  ASSUME TypeInv, FencedInv, BackedInv, NEW p, Cas(p)
  PROVE  BackedInv'
<1>1. UNCHANGED <<clock, lastLivenessRecord, version>>
  BY DEF Cas, livenessVars, timeVars
<1>2. /\ p \in proposals /\ proposals' \subseteq proposals
      /\ \A k \in Key : k # p.key => stored'[k] = stored[k]
      /\ stored'[p.key] = IF stored[p.key] = p.expected THEN p.new
                          ELSE stored[p.key]
      /\ \A m \in Node, k \in Key :
           \/ call'[m][k] = call[m][k]
           \/ /\ m = p.node /\ k = p.key
              /\ call[m][k] = [at |-> "waiting", p |-> p]
              /\ call'[m][k] = [at |-> "answered", p |-> p, found |-> stored[k]]
  BY CasEffect DEF TypeInv
<1>3. \A q \in proposals' : Later(q)'
  BY <1>1, <1>2 DEF BackedInv, Later
<1>4. ASSUME NEW n \in Node PROVE (Latest(n) /\ (Holds(n) => Backing(n)))'
  <2>1. /\ Latest(n) /\ (Holds(n) => Backing(n)) /\ EpochsOf(n)
        /\ n \in Key /\ version[n] \in Nat
    BY NodesHaveKeys DEF BackedInv, FencedInv, TypeInv, TimeTypes
  <2>2. /\ stored[n] \in LivenessRecord \union {None}
        /\ stored[n] # None => stored[n].expiration \in Nat
    BY <2>1 DEF TypeInv, StoredTypes, Value, LivenessRecord
  <2>3. lastLivenessRecord[n] # None => lastLivenessRecord[n].expiration \in Nat
    BY DEF TypeInv, NodeTypes, LivenessRecord
  <2>4. CASE stored'[n] = stored[n]
    <3>1. (Holds(n) => Backing(n))'
      BY <1>1, <1>2, <2>1, <2>4 DEF Holds, Backing
    <3>2. CASE call'[n][n] = call[n][n]
      <4>1. Latest(n)'
        BY <1>1, <2>1, <2>4, <3>2 DEF Latest, Answered, Swapped
      <4> QED
        BY <3>1, <4>1
    <3>3. CASE call'[n][n] # call[n][n]
      <4>1. /\ p.key = n /\ call[n][n] = [at |-> "waiting", p |-> p]
            /\ call'[n][n] = [at |-> "answered", p |-> p, found |-> stored[n]]
        BY <1>2, <2>1, <3>3
      <4>2. p.new.expiration = version[n]
        BY <2>1, <4>1 DEF Latest, Idle
      <4>3. stored[n] = p.expected => stored'[n] = p.new
        BY <1>2, <4>1
      <4>4. Latest(n)'
        BY <1>1, <2>1, <2>4, <4>1, <4>2, <4>3 DEF Latest, Answered, Swapped
      <4> QED
        BY <3>1, <4>4
    <3> QED
      BY <3>2, <3>3
  <2>5. CASE stored'[n] # stored[n]
    <3>1. p.key = n /\ stored[n] = p.expected /\ stored'[n] = p.new
      BY <1>2, <2>1, <2>5
    <3>2. /\ p.new \in LivenessRecord /\ p.new # None
          /\ p.new.expiration \in Nat
          /\ p.new.expiration <= version[n]
          /\ p.expected # None =>
               /\ p.expected.expiration \in Nat
               /\ p.expected.expiration < p.new.expiration
      BY <1>2, <3>1, LivenessRequest, NoneIsNoRecord DEF BackedInv, Later
    <3>3. (Holds(n) => Backing(n))'
      <4> SUFFICES ASSUME Holds(n)' PROVE Backing(n)'
        OBVIOUS
      <4>1. Holds(n) /\ Backing(n) /\ lastLivenessRecord[n] # None
        BY <1>1, <2>1 DEF Holds
      <4>2. p.new.epoch = clock[n]
        BY <1>2, <3>1, <4>1 DEF Backing
      <4>3. p.new.expiration >= lastLivenessRecord[n].expiration
        BY <2>3, <3>1, <3>2, <4>1 DEF Backing
      <4> QED
        BY <1>1, <1>2, <3>1, <3>2, <4>1, <4>2, <4>3 DEF Backing
    <3>4. CASE call'[n][n] = call[n][n]
      <4>1. ~(Answered(n, n) /\ Swapped(n, n))
        <5> SUFFICES ASSUME Answered(n, n), Swapped(n, n) PROVE FALSE
          OBVIOUS
        <5>1. call[n][n] # Idle
          BY DEF Answered, Idle
        <5>2. stored[n] = call[n][n].p.new /\ call[n][n].p.new.expiration = version[n]
          BY <2>1, <5>1 DEF Latest
        <5>3. stored[n] # None
          BY <2>1, <5>1, <5>2 DEF EpochsOf, Current
        <5> QED
          BY <2>1, <2>2, <3>1, <3>2, <5>2, <5>3
      <4>2. Latest(n)'
        BY <1>1, <2>1, <3>1, <3>2, <3>4, <4>1 DEF Latest, Answered, Swapped
      <4> QED
        BY <3>3, <4>2
    <3>5. CASE call'[n][n] # call[n][n]
      <4>1. /\ call[n][n] = [at |-> "waiting", p |-> p]
            /\ call'[n][n] = [at |-> "answered", p |-> p, found |-> stored[n]]
        BY <1>2, <2>1, <3>5
      <4>2. p.new.expiration = version[n]
        BY <2>1, <4>1 DEF Latest, Idle
      <4>3. Latest(n)'
        BY <1>1, <2>1, <3>1, <3>2, <4>1, <4>2 DEF Latest, Answered, Swapped
      <4> QED
        BY <3>3, <4>3
    <3> QED
      BY <3>4, <3>5
  <2> QED
    BY <2>4, <2>5
<1> QED
  BY <1>3, <1>4 DEF BackedInv

LEMMA BackedStep ==
  ASSUME TypeInv, FencedInv, BackedInv, [Next]_vars
  PROVE  BackedInv'
<1>1. ASSUME UNCHANGED <<stored, proposals, call, livenessVars, version>>
      PROVE  BackedInv'
  BY <1>1, BackedElsewhere
<1>2. ASSUME NEW n \in Node, MaybeAcquireRangeLease(n) \/ Acquired(n)
      PROVE  BackedInv'
  BY <1>1, <1>2
  DEF MaybeAcquireRangeLease, Acquired, nodeVars, raftVars, timeVars
<1>3. ASSUME NEW n \in Node, RenewRangeLease(n) PROVE BackedInv'
  <2>1. PICK new : SendCasRequest(n, RangeKey, leaseRecord[n], new)
    BY <1>3 DEF RenewRangeLease
  <2>2. /\ UNCHANGED livenessVars
        /\ \A m \in Node : version'[m] = version[m]
    BY <1>3, NodesHaveKeys, RangeKeyOK DEF RenewRangeLease, TypeInv, TimeTypes
  <2> QED
    BY <2>1, <2>2, BackedRangeSend
<1>4. ASSUME NEW n \in Node, AcquireLease(n) \/ KeepLeaseAlive(n)
      PROVE  BackedInv'
  BY <1>3, <1>4 DEF AcquireLease, KeepLeaseAlive
<1>5. ASSUME NEW n \in Node, RangeLeaseAnswer(n) PROVE BackedInv'
  BY <1>5, RangeKeyOK, BackedEndCall DEF RangeLeaseAnswer, timeVars
<1>6. ASSUME NEW n \in Node, LeaseFails(n) PROVE BackedInv'
  BY <1>6, RangeKeyOK, BackedEndCall DEF LeaseFails, CallFails
<1>7. ASSUME NEW n \in Node, ReleaseRangeLease(n) PROVE BackedInv'
  <2>1. UNCHANGED <<livenessVars, version>>
    BY <1>7 DEF ReleaseRangeLease
  <2>2. CASE VerifyLease(n)
    <3>1. SendCasRequest(n, RangeKey, leaseRecord[n], None)
      BY <1>7, <2>2 DEF ReleaseRangeLease
    <3> QED
      BY <2>1, <3>1, BackedRangeSend
  <2>3. CASE ~VerifyLease(n)
    BY <1>1, <1>7, <2>1, <2>3 DEF ReleaseRangeLease, raftVars
  <2> QED
    BY <2>2, <2>3
<1>8. ASSUME NEW n \in Node, Restart(n) PROVE BackedInv'
  BY <1>8, BackedRestart DEF Restart
<1>9. ASSUME NEW n \in Node, LivenessNext(n) PROVE BackedInv'
  <2>1. CASE LeaseLiveness(n) \/ KeepLivenessAlive(n)
    BY <2>1, BackedRenew DEF LeaseLiveness, KeepLivenessAlive
  <2>2. CASE LivenessAnswer(n)
    BY <2>2, BackedAnswer
  <2>3. CASE CallFails(n, n)
    BY <2>3, NodesHaveKeys, BackedEndCall DEF CallFails
  <2> QED
    BY <1>9, <2>1, <2>2, <2>3 DEF LivenessNext
<1>10. ASSUME NEW n \in Node, NEW k \in {n, RangeKey}, Expire(n, k)
       PROVE  BackedInv'
  BY <1>1, <1>10 DEF Expire, raftVars
<1>11. ASSUME NEW p \in proposals, Apply(p) PROVE BackedInv'
  BY <1>11, BackedCas DEF Apply
<1>12. CASE UNCHANGED vars
  BY <1>1, <1>12 DEF vars, nodeVars, raftVars, timeVars
<1> QED
  BY <1>2, <1>4, <1>5, <1>6, <1>7, <1>8, <1>9, <1>10, <1>11, <1>12
  DEF Next, RangeNext

LEMMA BackedInit == Init => BackedInv
<1> SUFFICES ASSUME Init PROVE BackedInv
  OBVIOUS
<1>1. /\ proposals = {}
      /\ \A n \in Node : /\ stored[n] = None /\ lastLivenessRecord[n] = None
                         /\ call[n][n] = Idle
  BY NodesHaveKeys DEF Init, LivenessInit
<1> QED
  BY <1>1 DEF BackedInv, Latest, Holds, Answered, Idle

(* A node is valid in the epoch of its stored record, and for no longer    *)
(* than that record says (renewLease, Replica.cas).                        *)
THEOREM LivenessIsBacked == Spec => []Backed
<1>1. FencedInv /\ BackedInv => Backed
  <2> SUFFICES ASSUME BackedInv, NEW n \in Node, LivenessValid(n)
               PROVE  /\ stored[n] # None
                      /\ stored[n].epoch = lastLivenessRecord[n].epoch
                      /\ stored[n].expiration >= lastLivenessRecord[n].expiration
    BY DEF Backed
  <2>1. Holds(n)
    BY NoneIsNoRecord DEF LivenessValid, Holds
  <2> QED
    BY <2>1 DEF BackedInv, Backing, Holds
<1>2. TypeInv /\ FencedInv /\ BackedInv /\ [Next]_vars => BackedInv'
  BY BackedStep
<1> QED
  BY <1>1, <1>2, BackedInit, FencedAlways, PTL DEF Spec
===============================================================================
