------------------------ MODULE DistributedCacheProofs ------------------------
(***************************************************************************)
(* Proofs about the distributed cache, for every number of nodes, digests, *)
(* requests and failures.  Writes: an acknowledged write has all its       *)
(* copies, and each preferred node that missed it has an order kept for    *)
(* it.  Reads: a read finds such a write unless two nodes fail it, and     *)
(* backfills the nodes that lack the digest and no others.                 *)
(***************************************************************************)
EXTENDS DistributedCache, FiniteSetTheorems, SequenceTheorems, WellFoundedInduction,
        NaturalsInduction, TLAPS

Grown == {"writing", "closing", "ok"}

WriteState == {"idle", "opening", "error"} \union Grown

StoreTypes ==
  /\ local \in [Node -> SUBSET Digest]
  /\ handoffs \in [Node -> [Node -> Seq(Digest)]]

OpTypes ==
  /\ DOMAIN pc = Op /\ DOMAIN digest = Op /\ DOMAIN ps = Op
  /\ \A o \in WriteOp : pc[o] \in WriteState
  /\ \A o \in Op : pc[o] # "idle" => digest[o] \in Digest

WriterTypes ==
  /\ writers \in [WriteOp -> SUBSET Writer]
  /\ unclosed \in [WriteOp -> SUBSET Writer]
  /\ \A o \in WriteOp : unclosed[o] \subseteq writers[o]

CacheTypes == StoreTypes /\ OpTypes /\ WriterTypes

(* What becomes of an order for d that was meant for p. *)
Keeps(p, d) ==
  \/ d \in local[p]
  \/ \E n \in Node : d \in ToSet(handoffs[n][p])
  \/ <<p, d>> \in dropped

(* Copies stay, and orders are carried out, kept or noted as dropped. *)
Grows ==
  /\ \A n \in Node : local[n] \subseteq local'[n]
  /\ \A p \in Node, d \in Digest : Keeps(p, d) => Keeps(p, d)'
-----------------------------------------------------------------------------
(* The invariant of a write.                                               *)

Peers(o) == {w.peer : w \in writers[o]}

(* The first i nodes of the ring's order have been tried. *)
Tried(o) == {GetAllReplicas[digest[o]][k] : k \in 1..ps[o].i}

AnyPeerSet == [preferred : Seq(Node), fallback : Seq(Node), failed : Seq(Node),
               i : Nat]

PeerSetOK(o) ==
  /\ ps[o] \in AnyPeerSet
  /\ ps[o].preferred = Preferred(digest[o])
  /\ ps[o].fallback = Fallback(digest[o])
  /\ ps[o].i <= Len(GetAllReplicas[digest[o]])

(* The node that was to stand in for the j-th failed peer failed, too. *)
NoStandIn(o, j) == \A w \in writers[o] : w.handoff # ps[o].failed[j]

(* Each node tried is a writer's, is a failed peer, or has failed as a     *)
(* fallback node; and there are no more fallback nodes than failed peers.  *)
OpeningOK(o) ==
  /\ IsFiniteSet(writers[o])
  /\ Cardinality(writers[o]) <= Cardinality(Peers(o))
  /\ Peers(o) \subseteq Tried(o)
  /\ ps[o].i <= ReplicationFactor + Len(ps[o].failed)
  /\ Cardinality(writers[o]) + Len(ps[o].failed) <= ps[o].i
  /\ (\E j \in 1..(ps[o].i - ReplicationFactor) : NoStandIn(o, j))
       => Cardinality(writers[o]) + Len(ps[o].failed) < ps[o].i

GrownOK(o) ==
  /\ ReplicationFactor <= Cardinality(Peers(o))
  /\ \A p \in ToSet(ps[o].failed) : \E w \in writers[o] : w.handoff = p

(* A writer that was closed without an error has left its copy and its     *)
(* order.                                                                  *)
ClosedOK(o, w) ==
  /\ w.via # "broken" /\ digest[o] \in local[w.peer]
  /\ w.via = "stream" /\ w.handoff # NoNode => Keeps(w.handoff, digest[o])

WriteInv(o) ==
  /\ pc[o] \in {"idle", "error"} => writers[o] = {}
  /\ pc[o] \notin {"idle", "error"} => PeerSetOK(o)
  /\ pc[o] = "opening" => OpeningOK(o)
  /\ pc[o] \in Grown => GrownOK(o)
  /\ pc[o] \in {"opening", "writing"} => unclosed[o] = writers[o]
  /\ pc[o] = "ok" => unclosed[o] = {} /\ o \notin closeFailed
  /\ \A w \in writers[o] : w.via = "devnull" => digest[o] \in local[w.peer]
  /\ o \notin closeFailed =>
       \A w \in writers[o] \ unclosed[o] : ClosedOK(o, w)

CacheInv == CacheTypes /\ \A o \in WriteOp : WriteInv(o)
-----------------------------------------------------------------------------
(* Sequences and the order of the nodes.                                   *)

LEMMA Listed ==
  ASSUME NEW S, NEW l \in Seq(S)
  PROVE  /\ Len(l) \in Nat
         /\ \A i \in 1..Len(l) : l[i] \in S
         /\ \A x : x \in ToSet(l) <=> \E i \in 1..Len(l) : l[i] = x
<1>1. Len(l) \in Nat /\ DOMAIN l = 1..Len(l) /\ \A i \in 1..Len(l) : l[i] \in S
  BY LenProperties, ElementOfSeq
<1> QED
  BY <1>1 DEF ToSet

LEMMA Appended ==
  ASSUME NEW S, NEW l \in Seq(S), NEW e \in S
  PROVE  \A x : x \in ToSet(Append(l, e)) <=> x \in ToSet(l) \/ x = e
<1>1. /\ Append(l, e) \in Seq(S) /\ Len(Append(l, e)) = Len(l) + 1
      /\ \A i \in 1..Len(l) : Append(l, e)[i] = l[i]
      /\ Append(l, e)[Len(l) + 1] = e
  BY AppendProperties
<1>2. Len(l) \in Nat /\ \A x : x \in ToSet(l) <=> \E i \in 1..Len(l) : l[i] = x
  BY Listed
<1>3. \A x : x \in ToSet(Append(l, e))
               <=> \E i \in 1..Len(Append(l, e)) : Append(l, e)[i] = x
  BY <1>1, Listed
<1> QED
  BY <1>1, <1>2, <1>3

LEMMA TookHead ==
  ASSUME NEW S, NEW l \in Seq(S), l # <<>>
  PROVE  /\ Head(l) \in S /\ Tail(l) \in Seq(S)
         /\ \A x \in ToSet(l) : x = Head(l) \/ x \in ToSet(Tail(l))
<1>1. /\ Head(l) \in S /\ Tail(l) \in Seq(S) /\ Len(Tail(l)) = Len(l) - 1
      /\ \A i \in 1..Len(Tail(l)) : Tail(l)[i] = l[i + 1]
  BY HeadTailProperties
<1>2. Head(l) = l[1]
  OBVIOUS
<1>3. Len(l) \in Nat /\ \A x : x \in ToSet(l) <=> \E i \in 1..Len(l) : l[i] = x
  BY Listed
<1>4. \A x : x \in ToSet(Tail(l)) <=> \E i \in 1..Len(Tail(l)) : Tail(l)[i] = x
  BY <1>1, Listed
<1> SUFFICES ASSUME NEW x \in ToSet(l), x # Head(l) PROVE x \in ToSet(Tail(l))
  BY <1>1
<1>5. PICK i \in 1..Len(l) : l[i] = x
  BY <1>3
<1>6. i - 1 \in 1..Len(Tail(l)) /\ Tail(l)[i - 1] = x
  BY <1>1, <1>2, <1>3, <1>5
<1> QED
  BY <1>4, <1>6

LEMMA RingOrder ==
  ASSUME NEW d \in Digest
  PROVE  LET R == GetAllReplicas[d]
         IN /\ R \in Seq(Node) /\ Len(R) \in Nat
            /\ ReplicationFactor \in Nat \ {0} /\ ReplicationFactor <= Len(R)
            /\ \A j, k \in 1..Len(R) : R[j] = R[k] => j = k
            /\ \A n \in Node : \E k \in 1..Len(R) : R[k] = n
            /\ \A k \in 1..Len(R) : R[k] \in Node
            /\ Preferred(d) \in Seq(Node)
            /\ Len(Preferred(d)) = ReplicationFactor
            /\ \A k \in 1..ReplicationFactor : Preferred(d)[k] = R[k]
            /\ Fallback(d) \in Seq(Node)
            /\ Len(Fallback(d)) = Len(R) - ReplicationFactor
            /\ \A k \in 1..(Len(R) - ReplicationFactor) :
                 Fallback(d)[k] = R[ReplicationFactor + k]
<1> DEFINE R == GetAllReplicas[d]
<1>1. /\ R \in Seq(Node) /\ ToSet(R) = Node /\ IsInjective(R)
      /\ ReplicationFactor \in Nat \ {0} /\ ReplicationFactor <= Len(R)
  BY CacheConstantsOK
<1>2. Len(R) \in Nat /\ DOMAIN R = 1..Len(R) /\ \A k \in 1..Len(R) : R[k] \in Node
  BY <1>1, LenProperties, ElementOfSeq
<1>3. \A n \in Node : \E k \in 1..Len(R) : R[k] = n
  BY <1>1, <1>2 DEF ToSet
<1>4. \A j, k \in 1..Len(R) : R[j] = R[k] => j = k
  BY <1>1, <1>2 DEF IsInjective
<1> HIDE DEF R
<1>5. /\ SubSeq(R, 1, ReplicationFactor) \in Seq(Node)
      /\ Len(SubSeq(R, 1, ReplicationFactor)) = ReplicationFactor
      /\ \A k \in 1..ReplicationFactor : SubSeq(R, 1, ReplicationFactor)[k] = R[k]
  <2>1. 1 \in Int /\ ReplicationFactor \in Int
        /\ \A k \in 1..ReplicationFactor : R[k] \in Node
    BY <1>1, <1>2
  <2>2. /\ SubSeq(R, 1, ReplicationFactor) \in Seq(Node)
        /\ Len(SubSeq(R, 1, ReplicationFactor))
             = IF 1 <= ReplicationFactor THEN ReplicationFactor - 1 + 1 ELSE 0
        /\ \A k \in 1..(ReplicationFactor - 1 + 1) :
             SubSeq(R, 1, ReplicationFactor)[k] = R[1 + k - 1]
    BY <2>1, SubSeqProperties
  <2> QED
    BY <1>1, <2>2
<1> DEFINE L == Len(R)
<1>6. ReplicationFactor \in Nat /\ L \in Nat /\ ReplicationFactor <= L
  BY <1>1, <1>2
<1> HIDE DEF L
<1>7. /\ L - (ReplicationFactor + 1) + 1 = L - ReplicationFactor
      /\ \A k \in 1..(L - ReplicationFactor) :
           ReplicationFactor + 1 + k - 1 = ReplicationFactor + k
      /\ ~(ReplicationFactor + 1 <= L) => L - ReplicationFactor = 0
  BY <1>6
<1> DEFINE F == SubSeq(R, ReplicationFactor + 1, Len(R))
<1>8. F \in Seq(Node) /\ Len(F) = L - ReplicationFactor
      /\ \A k \in 1..(L - ReplicationFactor) : F[k] = R[ReplicationFactor + k]
  <2>1. ReplicationFactor + 1 \in Int /\ L \in Int
        /\ \A k \in (ReplicationFactor + 1)..L : R[k] \in Node
    BY <1>1, <1>2 DEF L
  <2>2. /\ SubSeq(R, ReplicationFactor + 1, L) \in Seq(Node)
        /\ Len(SubSeq(R, ReplicationFactor + 1, L))
             = IF ReplicationFactor + 1 <= L THEN L - (ReplicationFactor + 1) + 1 ELSE 0
        /\ \A k \in 1..(L - (ReplicationFactor + 1) + 1) :
             SubSeq(R, ReplicationFactor + 1, L)[k] = R[ReplicationFactor + 1 + k - 1]
    BY <2>1, SubSeqProperties
  <2>3. Len(F) = L - ReplicationFactor
    BY <1>7, <2>2 DEF L
  <2>4. \A k \in 1..(L - ReplicationFactor) : F[k] = R[ReplicationFactor + k]
    BY <1>7, <2>2 DEF L
  <2> QED
    BY <2>2, <2>3, <2>4 DEF L
<1> QED
  BY <1>1, <1>2, <1>3, <1>4, <1>5, <1>8 DEF R, L, Preferred, Fallback

LEMMA NodesFinite ==
  ASSUME NEW d \in Digest
  PROVE  IsFiniteSet(Node)
<1> DEFINE R == GetAllReplicas[d]
<1>1. Len(R) \in Nat /\ R \in [1..Len(R) -> Node]
      /\ \A n \in Node : \E k \in 1..Len(R) : R[k] = n
  BY RingOrder, LenProperties
<1> HIDE DEF R
<1>2. R \in Surjection(1..Len(R), Node)
  BY <1>1 DEF Surjection
<1>3. IsFiniteSet(1..Len(R))
  BY <1>1, FS_Interval
<1> QED
  BY <1>2, <1>3, FS_Surjection

(* The next peer of a write is the next node of the ring's order; a        *)
(* fallback peer stands in for the failed peer of the same number.         *)
LEMMA NextInRing ==
  ASSUME NEW o \in WriteOp, digest[o] \in Digest, PeerSetOK(o), HasNextPeer(ps[o])
  PROVE  LET R == GetAllReplicas[digest[o]]
             i == ps[o].i
             p == NextPeer(ps[o])
         IN /\ i < Len(R) /\ p = R[i + 1] /\ p \in Node
            /\ i < ReplicationFactor =>
                 p \in ToSet(ps[o].preferred) /\ HintedHandoff(ps[o]) = NoNode
            /\ i >= ReplicationFactor =>
                 /\ p \notin ToSet(ps[o].preferred)
                 /\ i - ReplicationFactor + 1 \in 1..Len(ps[o].failed)
                 /\ HintedHandoff(ps[o]) = ps[o].failed[i - ReplicationFactor + 1]
                 /\ HintedHandoff(ps[o]) \in Node
<1> DEFINE R == GetAllReplicas[digest[o]]
           i == ps[o].i
           F == ps[o].failed
           L == Len(R)
           rf == ReplicationFactor
<1>1. /\ R \in Seq(Node) /\ L \in Nat /\ rf \in Nat /\ rf <= L
      /\ \A j, k \in 1..L : R[j] = R[k] => j = k
      /\ \A k \in 1..L : R[k] \in Node
  BY RingOrder
<1>2. /\ ps[o].preferred \in Seq(Node) /\ Len(ps[o].preferred) = rf
      /\ \A k \in 1..rf : ps[o].preferred[k] = R[k]
      /\ Len(ps[o].fallback) = L - rf
      /\ \A k \in 1..(L - rf) : ps[o].fallback[k] = R[rf + k]
  <2>1. ps[o].preferred = Preferred(digest[o]) /\ ps[o].fallback = Fallback(digest[o])
    BY DEF PeerSetOK
  <2>2. /\ Preferred(digest[o]) \in Seq(Node) /\ Len(Preferred(digest[o])) = rf
        /\ \A k \in 1..rf : Preferred(digest[o])[k] = R[k]
    BY RingOrder
  <2>3. /\ Len(Fallback(digest[o])) = L - rf
        /\ \A k \in 1..(L - rf) : Fallback(digest[o])[k] = R[rf + k]
    BY RingOrder
  <2> QED
    BY <2>1, <2>2, <2>3
<1>3. i \in Nat /\ i <= L /\ Len(F) \in Nat /\ \A k \in 1..Len(F) : F[k] \in Node
  <2>1. i \in Nat /\ i <= L /\ F \in Seq(Node)
    BY DEF PeerSetOK, AnyPeerSet
  <2> HIDE DEF F, i, L
  <2> QED
    BY <2>1, Listed
<1>4. \A x : x \in ToSet(ps[o].preferred) <=> \E k \in 1..rf : R[k] = x
  <2>1. \A x : x \in ToSet(ps[o].preferred)
                 <=> \E k \in 1..Len(ps[o].preferred) : ps[o].preferred[k] = x
    BY <1>2, Listed
  <2> HIDE DEF R
  <2> QED
    BY <1>2, <2>1
<1> HIDE DEF R, i, F, L, rf
<1>5. FallbackIndex(ps[o]) = i - rf + 1
  BY <1>2 DEF FallbackIndex, i
<1>6. i < rf \/ (i - rf + 1 <= L - rf /\ i - rf + 1 <= Len(F))
  BY <1>2, <1>5 DEF HasNextPeer, i, F
<1>7. NextPeer(ps[o]) = IF i < rf THEN R[i + 1] ELSE ps[o].fallback[i - rf + 1]
  BY <1>1, <1>2, <1>3, <1>5 DEF NextPeer, i
<1>8. HintedHandoff(ps[o]) = IF i < rf THEN NoNode ELSE F[i - rf + 1]
  BY <1>2, <1>5 DEF HintedHandoff, i, F
<1>9. i < L /\ i + 1 \in 1..L /\ i + 1 \in Nat
  BY <1>1, <1>3, <1>6
<1>10. CASE i < rf
  <2>1. i + 1 \in 1..rf
    BY <1>1, <1>3, <1>10
  <2>2. NextPeer(ps[o]) = R[i + 1] /\ HintedHandoff(ps[o]) = NoNode
    BY <1>7, <1>8, <1>10
  <2>3. R[i + 1] \in Node /\ R[i + 1] \in ToSet(ps[o].preferred)
    BY <1>1, <1>4, <1>9, <2>1
  <2> QED
    BY <1>1, <1>3, <1>9, <1>10, <2>2, <2>3 DEF R, i, F, L, rf
<1>11. CASE ~(i < rf)
  <2>1. i - rf + 1 \in 1..(L - rf) /\ i - rf + 1 \in 1..Len(F)
        /\ rf + (i - rf + 1) = i + 1
    BY <1>1, <1>3, <1>6, <1>11
  <2>2. NextPeer(ps[o]) = R[i + 1]
    <3>1. NextPeer(ps[o]) = ps[o].fallback[i - rf + 1]
      BY <1>7, <1>11
    <3>2. ps[o].fallback[i - rf + 1] = R[rf + (i - rf + 1)]
      BY <1>2, <2>1
    <3> QED
      BY <2>1, <3>1, <3>2
  <2>3. HintedHandoff(ps[o]) = F[i - rf + 1] /\ F[i - rf + 1] \in Node
    BY <1>3, <1>8, <1>11, <2>1
  <2>4. R[i + 1] \in Node
    BY <1>1, <1>9
  <2>5. \A k \in 1..rf : k \in 1..L /\ k # i + 1
    BY <1>1, <1>3, <1>11
  <2>6. R[i + 1] \notin ToSet(ps[o].preferred)
    BY <1>1, <1>4, <1>9, <2>5
  <2> QED
    BY <1>1, <1>3, <1>9, <1>11, <2>1, <2>2, <2>3, <2>4, <2>6 DEF R, i, F, L, rf
<1> QED
  BY <1>10, <1>11
-----------------------------------------------------------------------------
(* What a node keeps: types, and that copies and orders are not lost.      *)

LEMMA StoreEffect ==
  ASSUME StoreTypes, NEW p, NEW d \in Digest, Store(p, d)
  PROVE  /\ local' \in [Node -> SUBSET Digest]
         /\ \A n \in Node : local[n] \subseteq local'[n]
         /\ p \in Node => d \in local'[p]
BY DEF StoreTypes, Store

LEMMA KeptMore ==
  ASSUME \A n \in Node : local[n] \subseteq local'[n],
         \A n, p \in Node : ToSet(handoffs[n][p]) \subseteq ToSet(handoffs'[n][p]),
         dropped \subseteq dropped'
  PROVE  Grows
BY DEF Grows, Keeps

LEMMA StoreUnchanged ==
  ASSUME StoreTypes, UNCHANGED <<local, handoffs, dropped>>
  PROVE  StoreTypes' /\ Grows
BY KeptMore DEF StoreTypes

(* An order that is received is kept, or noted as dropped. *)
LEMMA RecvEffect ==
  ASSUME StoreTypes, NEW n \in Node, NEW p \in Node \union {NoNode},
         NEW d \in Digest, RecvHintedHandoff(n, p, d)
  PROVE  /\ handoffs' \in [Node -> [Node -> Seq(Digest)]]
         /\ \A m, q \in Node : ToSet(handoffs[m][q]) \subseteq ToSet(handoffs'[m][q])
         /\ dropped \subseteq dropped'
         /\ p # NoNode => d \in ToSet(handoffs'[n][p]) \/ <<p, d>> \in dropped'
<1>1. CASE p = NoNode
  BY <1>1 DEF RecvHintedHandoff, StoreTypes
<1>2. CASE p # NoNode /\ Len(handoffs[n][p]) < maxHintedHandoffsPerPeer
  <2>1. p \in Node /\ handoffs[n][p] \in Seq(Digest)
    BY <1>2 DEF StoreTypes
  <2>2. handoffs' = [handoffs EXCEPT ![n][p] = Append(handoffs[n][p], d)]
        /\ dropped' = dropped
    BY <1>2 DEF RecvHintedHandoff
  <2>3. Append(handoffs[n][p], d) \in Seq(Digest)
    BY <2>1, AppendProperties
  <2>4. handoffs' \in [Node -> [Node -> Seq(Digest)]]
        /\ handoffs'[n][p] = Append(handoffs[n][p], d)
        /\ \A m, q \in Node : <<m, q>> # <<n, p>> => handoffs'[m][q] = handoffs[m][q]
    BY <2>1, <2>2, <2>3 DEF StoreTypes
  <2>5. \A x : x \in ToSet(handoffs'[n][p]) <=> x \in ToSet(handoffs[n][p]) \/ x = d
    BY <2>1, <2>4, Appended
  <2> QED
    BY <2>2, <2>4, <2>5
<1>3. CASE p # NoNode /\ ~(Len(handoffs[n][p]) < maxHintedHandoffsPerPeer)
  BY <1>3 DEF RecvHintedHandoff, StoreTypes
<1> QED
  BY <1>1, <1>2, <1>3

LEMMA CloseStores ==
  ASSUME StoreTypes, OpTypes, WriterTypes, NEW o \in WriteOp, NEW w \in unclosed[o],
         CloseWriter(o, w)
  PROVE  StoreTypes' /\ Grows
<1>1. /\ digest[o] \in Digest
      /\ w.peer \in Node /\ w.handoff \in Node \union {NoNode}
      /\ w.via \in {"local", "stream", "devnull", "broken"}
  BY DEF CloseWriter, OpTypes, WriterTypes, Writer, Op
<1>2. CASE w.via = "stream"
  <2>1. Store(w.peer, digest[o]) /\ RecvHintedHandoff(w.peer, w.handoff, digest[o])
    BY <1>2 DEF CloseWriter
  <2>2. /\ local' \in [Node -> SUBSET Digest]
        /\ \A n \in Node : local[n] \subseteq local'[n]
    BY <1>1, <2>1, StoreEffect
  <2>3. /\ handoffs' \in [Node -> [Node -> Seq(Digest)]]
        /\ \A m, q \in Node : ToSet(handoffs[m][q]) \subseteq ToSet(handoffs'[m][q])
        /\ dropped \subseteq dropped'
    BY <1>1, <2>1, RecvEffect
  <2> QED
    BY <2>2, <2>3, KeptMore DEF StoreTypes
<1>3. CASE w.via = "local"
  <2>1. Store(w.peer, digest[o]) /\ UNCHANGED <<handoffs, dropped>>
    BY <1>3 DEF CloseWriter
  <2>2. /\ local' \in [Node -> SUBSET Digest]
        /\ \A n \in Node : local[n] \subseteq local'[n]
    BY <1>1, <2>1, StoreEffect
  <2> QED
    BY <2>1, <2>2, KeptMore DEF StoreTypes
<1>4. CASE w.via \in {"devnull", "broken"}
  <2>1. UNCHANGED <<local, handoffs, dropped>>
    BY <1>4 DEF CloseWriter
  <2> QED
    BY <2>1, StoreUnchanged
<1> QED
  BY <1>1, <1>2, <1>3, <1>4

LEMMA BackfillStores ==
  ASSUME StoreTypes, OpTypes, NEW o \in ReadOp, BackfillPeers(o)
  PROVE  StoreTypes' /\ Grows
<1>1. digest[o] \in Digest
  BY DEF BackfillPeers, OpTypes, Op
<1>2. handoffs' = handoffs /\ dropped' = dropped
  BY DEF BackfillPeers, AnswerRead, handoffVars
<1>3. local' = local \/ Store(BackfillTargets(ps[o])[1], digest[o])
  BY DEF BackfillPeers
<1>4. local' \in [Node -> SUBSET Digest] /\ \A n \in Node : local[n] \subseteq local'[n]
  BY <1>1, <1>3, StoreEffect DEF StoreTypes
<1> QED
  BY <1>2, <1>4, KeptMore DEF StoreTypes

(* An order that leaves the channel has been carried out, or is dropped. *)
LEMMA SendStores ==
  ASSUME StoreTypes, NEW n \in Node, NEW p \in Node, SendFile(n, p)
  PROVE  StoreTypes' /\ Grows
<1> DEFINE l == handoffs[n][p]
<1>1. l \in Seq(Digest) /\ l # <<>>
  BY DEF SendFile, StoreTypes
<1>2. /\ Head(l) \in Digest /\ Tail(l) \in Seq(Digest)
      /\ \A x \in ToSet(l) : x = Head(l) \/ x \in ToSet(Tail(l))
  BY <1>1, TookHead
<1>3. handoffs' = [handoffs EXCEPT ![n][p] = Tail(l)]
  BY DEF SendFile
<1>4. /\ handoffs' \in [Node -> [Node -> Seq(Digest)]]
      /\ handoffs'[n][p] = Tail(l)
      /\ \A m, q \in Node : <<m, q>> # <<n, p>> => handoffs'[m][q] = handoffs[m][q]
  BY <1>2, <1>3 DEF StoreTypes
<1>5. \/ Store(p, Head(l)) /\ dropped' = dropped
      \/ local' = local /\ dropped' = dropped \union {<<p, Head(l)>>}
  BY DEF SendFile
<1>6. /\ local' \in [Node -> SUBSET Digest]
      /\ \A m \in Node : local[m] \subseteq local'[m]
      /\ Head(l) \in local'[p] \/ <<p, Head(l)>> \in dropped'
      /\ dropped \subseteq dropped'
  BY <1>2, <1>5, StoreEffect DEF StoreTypes
<1>7. \A m, q \in Node : \A x \in ToSet(handoffs[m][q]) :
        x \in ToSet(handoffs'[m][q]) \/ x \in local'[q] \/ <<q, x>> \in dropped'
  <2> SUFFICES ASSUME NEW m \in Node, NEW q \in Node, NEW x \in ToSet(handoffs[m][q])
               PROVE x \in ToSet(handoffs'[m][q]) \/ x \in local'[q]
                       \/ <<q, x>> \in dropped'
    OBVIOUS
  <2>1. CASE m = n /\ q = p
    <3>1. x = Head(l) \/ x \in ToSet(Tail(l))
      BY <1>2, <2>1
    <3> QED
      BY <1>4, <1>6, <2>1, <3>1
  <2>2. CASE ~(m = n /\ q = p)
    BY <1>4, <2>2
  <2> QED
    BY <2>1, <2>2
<1>8. Grows
  BY <1>6, <1>7 DEF Grows, Keeps
<1> QED
  BY <1>4, <1>6, <1>8 DEF StoreTypes

LEMMA CrashStores ==
  ASSUME StoreTypes, NEW n \in Node, Crash(n)
  PROVE  StoreTypes' /\ Grows
<1>1. /\ local' = local
      /\ handoffs' = [handoffs EXCEPT ![n] = [p \in Node |-> <<>>]]
      /\ dropped' = dropped \union UNION {{p} \X ToSet(handoffs[n][p]) : p \in Node}
  BY DEF Crash
<1>2. [p \in Node |-> <<>>] \in [Node -> Seq(Digest)]
  BY EmptySeq
<1>3. /\ handoffs' \in [Node -> [Node -> Seq(Digest)]]
      /\ \A m \in Node : m # n => handoffs'[m] = handoffs[m]
  BY <1>1, <1>2 DEF StoreTypes
<1>4. \A q \in Node : \A x \in ToSet(handoffs[n][q]) : <<q, x>> \in dropped'
  BY <1>1
<1>5. Grows
  BY <1>1, <1>3, <1>4 DEF Grows, Keeps
<1> QED
  BY <1>1, <1>3, <1>5 DEF StoreTypes
-----------------------------------------------------------------------------
(* Types of the requests and the writers.                                  *)

LEMMA ReadsAreNotWrites == \A r \in ReadOp, o \in WriteOp : r # o
BY CacheConstantsOK DEF WriteOp

(* A request moves on: from a state that is not idle, or with a digest. *)
LEMMA Moved ==
  ASSUME OpTypes, NEW o \in Op, NEW s,
         o \in WriteOp => s \in WriteState,
         pc' = [pc EXCEPT ![o] = s], DOMAIN ps' = Op,
         \/ digest' = digest /\ pc[o] # "idle"
         \/ \E d \in Digest : digest' = [digest EXCEPT ![o] = d]
  PROVE  OpTypes'
<1>1. DOMAIN pc' = Op /\ DOMAIN digest' = Op
  BY DEF OpTypes
<1>2. pc'[o] = s /\ \A q \in Op : q # o => pc'[q] = pc[q]
  BY DEF OpTypes
<1>3. digest'[o] \in Digest /\ \A q \in Op : q # o => digest'[q] = digest[q]
  BY DEF OpTypes
<1>4. \A q \in WriteOp : pc'[q] \in WriteState
  BY <1>2 DEF OpTypes, Op
<1>5. \A q \in Op : pc'[q] # "idle" => digest'[q] \in Digest
  BY <1>2, <1>3 DEF OpTypes
<1> QED
  BY <1>1, <1>4, <1>5 DEF OpTypes

LEMMA Stayed ==
  ASSUME OpTypes, UNCHANGED <<pc, digest>>, DOMAIN ps' = Op
  PROVE  OpTypes'
BY DEF OpTypes

Breaks(n, w) ==
  IF w.peer = n /\ w.via = "stream" THEN [w EXCEPT !.via = "broken"] ELSE w

LEMMA BreaksKeeps ==
  ASSUME NEW n, NEW w \in Writer
  PROVE  /\ Breaks(n, w) \in Writer
         /\ Breaks(n, w).peer = w.peer /\ Breaks(n, w).handoff = w.handoff
         /\ Breaks(n, w) = w \/ Breaks(n, w).via = "broken"
<1>1. /\ w.peer \in Node /\ w.handoff \in Node \union {NoNode}
      /\ w = [peer |-> w.peer, via |-> w.via, handoff |-> w.handoff]
  BY DEF Writer
<1>2. [peer |-> w.peer, via |-> "broken", handoff |-> w.handoff] \in Writer
  BY <1>1 DEF Writer
<1>3. [w EXCEPT !.via = "broken"]
        = [peer |-> w.peer, via |-> "broken", handoff |-> w.handoff]
  BY <1>1
<1> QED
  BY <1>1, <1>2, <1>3 DEF Breaks

(* What a failure does to a write that goes on. *)
LEMMA FailWriters ==
  ASSUME WriterTypes, NEW n, NEW s, NEW ended, Fail(n, s, ended)
  PROVE  /\ \A o \in WriteOp : o \in ended => writers'[o] = {} /\ unclosed'[o] = {}
         /\ \A o \in WriteOp : o \notin ended =>
              /\ unclosed'[o] = {Breaks(n, w) : w \in unclosed[o]}
              /\ writers'[o] = (writers[o] \ unclosed[o]) \union unclosed'[o]
         /\ WriterTypes'
<1>1. unclosed' = [o \in WriteOp |-> IF o \in ended THEN {}
                                     ELSE {Breaks(n, w) : w \in unclosed[o]}]
  BY DEF Fail, Breaks
<1>2. writers' = [o \in WriteOp |->
                    IF o \in ended THEN {}
                    ELSE (writers[o] \ unclosed[o])
                           \union {Breaks(n, w) : w \in unclosed[o]}]
  BY DEF Fail, Breaks
<1>3. \A o \in WriteOp : o \in ended => writers'[o] = {} /\ unclosed'[o] = {}
  BY <1>1, <1>2
<1>4. \A o \in WriteOp : o \notin ended =>
        /\ unclosed'[o] = {Breaks(n, w) : w \in unclosed[o]}
        /\ writers'[o] = (writers[o] \ unclosed[o]) \union unclosed'[o]
  BY <1>1, <1>2
<1>5. \A o \in WriteOp : unclosed'[o] \subseteq Writer
  <2>1. \A o \in WriteOp : \A w \in unclosed[o] : Breaks(n, w) \in Writer
    BY BreaksKeeps DEF WriterTypes
  <2> QED
    BY <1>3, <1>4, <2>1
<1>6. \A o \in WriteOp : writers'[o] \subseteq Writer /\ unclosed'[o] \subseteq writers'[o]
  BY <1>3, <1>4, <1>5 DEF WriterTypes
<1>7. DOMAIN writers' = WriteOp /\ DOMAIN unclosed' = WriteOp
  BY <1>1, <1>2
<1>8. writers' \in [WriteOp -> SUBSET Writer] /\ unclosed' \in [WriteOp -> SUBSET Writer]
  BY <1>1, <1>2, <1>5, <1>6, <1>7
<1> QED
  BY <1>3, <1>4, <1>6, <1>8 DEF WriterTypes

LEMMA FailOps ==
  ASSUME OpTypes, NEW n, NEW s, NEW ended, Fail(n, s, ended),
         \A o \in Op : o \in ended => pc[o] # "idle"
  PROVE  OpTypes'
<1>1. /\ pc' = [o \in Op |-> IF o \in ended THEN "error" ELSE pc[o]]
      /\ ps' = [o \in Op |-> IF o \in ended THEN NoPeers ELSE ps[o]]
      /\ digest' = digest
  BY DEF Fail
<1>2. \A o \in WriteOp : pc'[o] \in WriteState
  BY <1>1 DEF OpTypes, WriteState, Op
<1>3. \A o \in Op : pc'[o] # "idle" => digest'[o] \in Digest
  BY <1>1 DEF OpTypes
<1> QED
  BY <1>1, <1>2, <1>3 DEF OpTypes

LEMMA OpenTypes ==
  ASSUME OpTypes, WriterTypes, NEW o \in WriteOp, WriteInv(o), OpenWriter(o)
  PROVE  OpTypes' /\ WriterTypes'
<1>1. digest[o] \in Digest /\ PeerSetOK(o) /\ HasNextPeer(ps[o]) /\ unclosed[o] = writers[o]
  BY DEF OpenWriter, WriteInv, OpTypes, Op
<1>2. NextPeer(ps[o]) \in Node /\ HintedHandoff(ps[o]) \in Node \union {NoNode}
  <2>1. ps[o].i \in Nat /\ ReplicationFactor \in Nat
    BY <1>1, CacheConstantsOK DEF PeerSetOK, AnyPeerSet
  <2>2. ps[o].i < ReplicationFactor \/ ps[o].i >= ReplicationFactor
    BY <2>1
  <2> QED
    BY <1>1, <2>2, NextInRing
<1>3. OpTypes'
  <2>1. DOMAIN ps' = Op /\ pc' = pc /\ digest' = digest
    BY DEF OpenWriter, OpTypes, opVars
  <2> QED
    BY <2>1, Stayed
<1>4. PICK via \in RemoteWriter(o, NextPeer(ps[o])) :
        IF via = "error"
        THEN UNCHANGED <<writers, unclosed>>
        ELSE LET w == [peer |-> NextPeer(ps[o]), via |-> via,
                       handoff |-> HintedHandoff(ps[o])]
             IN /\ writers' = [writers EXCEPT ![o] = @ \union {w}]
                /\ unclosed' = [unclosed EXCEPT ![o] = @ \union {w}]
  BY DEF OpenWriter
<1>5. via \in {"local", "broken", "error", "devnull", "stream"}
  BY DEF RemoteWriter
<1>6. CASE via = "error"
  BY <1>3, <1>4, <1>6 DEF WriterTypes
<1>7. CASE via # "error"
  <2> DEFINE w == [peer |-> NextPeer(ps[o]), via |-> via,
                   handoff |-> HintedHandoff(ps[o])]
  <2>1. w \in Writer
    BY <1>2, <1>5, <1>7 DEF Writer
  <2>2. /\ writers' = [writers EXCEPT ![o] = writers[o] \union {w}]
        /\ unclosed' = [unclosed EXCEPT ![o] = unclosed[o] \union {w}]
    BY <1>4, <1>7
  <2> HIDE DEF w
  <2> QED
    BY <1>3, <2>1, <2>2 DEF WriterTypes
<1> QED
  BY <1>6, <1>7

LEMMA AnswerWriteTypes ==
  ASSUME OpTypes, WriterTypes, NEW o \in WriteOp, NEW a \in {"ok", "error"},
         pc[o] # "idle", AnswerWrite(o, a)
  PROVE  OpTypes' /\ WriterTypes'
<1>1. pc' = [pc EXCEPT ![o] = a] /\ digest' = digest /\ DOMAIN ps' = Op
  BY DEF AnswerWrite, Answer, OpTypes
<1>2. OpTypes'
  BY <1>1, Moved DEF WriteState, Grown, Op
<1>3. /\ writers' = [writers EXCEPT ![o] = IF a = "ok" THEN @ ELSE {}]
      /\ unclosed' = [unclosed EXCEPT ![o] = {}]
  BY DEF AnswerWrite
<1> QED
  BY <1>2, <1>3 DEF WriterTypes

LEMMA AnswerReadTypes ==
  ASSUME OpTypes, WriterTypes, NEW o \in ReadOp, NEW a, pc[o] # "idle", AnswerRead(o, a)
  PROVE  OpTypes' /\ WriterTypes'
<1>1. pc' = [pc EXCEPT ![o] = a] /\ digest' = digest /\ DOMAIN ps' = Op
  BY DEF AnswerRead, Answer, OpTypes
<1>2. OpTypes'
  BY <1>1, Moved, ReadsAreNotWrites DEF Op
<1> QED
  BY <1>2 DEF AnswerRead, writeVars, WriterTypes

LEMMA TypesStep ==
  ASSUME CacheInv, [Next]_vars
  PROVE  CacheTypes' /\ Grows
<1> USE DEF CacheInv, CacheTypes
<1>1. ASSUME UNCHANGED <<local, handoffs, dropped>> PROVE StoreTypes' /\ Grows
  BY <1>1, StoreUnchanged
<1>2. ASSUME UNCHANGED <<writers, unclosed>> PROVE WriterTypes'
  BY <1>2 DEF WriterTypes
<1>3. ASSUME UNCHANGED <<pc, digest, ps>> PROVE OpTypes'
  BY <1>3 DEF OpTypes
<1>4. ASSUME NEW o \in WriteOp, NEW n \in Node, NEW d \in Digest, StartWrite(o, n, d)
      PROVE  CacheTypes' /\ Grows
  <2>1. pc' = [pc EXCEPT ![o] = "opening"] /\ digest' = [digest EXCEPT ![o] = d]
        /\ DOMAIN ps' = Op
    BY <1>4 DEF StartWrite, Begin, OpTypes
  <2>2. OpTypes'
    BY <2>1, Moved DEF WriteState, Op
  <2>3. UNCHANGED <<local, handoffs, dropped, writers, unclosed>>
    BY <1>4 DEF StartWrite, handoffVars, writeVars
  <2> QED
    BY <1>1, <1>2, <2>2, <2>3
<1>5. ASSUME NEW o \in WriteOp, OpenWriter(o) PROVE CacheTypes' /\ Grows
  <2>1. UNCHANGED <<local, handoffs, dropped>>
    BY <1>5 DEF OpenWriter, handoffVars
  <2> QED
    BY <1>1, <1>5, <2>1, OpenTypes
<1>6. ASSUME NEW o \in WriteOp, AllOpened(o) \/ WriteData(o) \/ EndWrite(o)
      PROVE  CacheTypes' /\ Grows
  <2>1. pc[o] # "idle" /\ UNCHANGED <<local, handoffs, dropped>>
    BY <1>6 DEF AllOpened, WriteData, EndWrite, AnswerWrite, handoffVars
  <2>2. \/ AnswerWrite(o, "ok") \/ AnswerWrite(o, "error")
        \/ /\ \E s \in {"writing", "closing"} : Go(o, s)
           /\ UNCHANGED <<ps, writers, unclosed>>
    BY <1>6 DEF AllOpened, WriteData, EndWrite, writeVars
  <2>3. CASE AnswerWrite(o, "ok") \/ AnswerWrite(o, "error")
    BY <1>1, <2>1, <2>3, AnswerWriteTypes
  <2>4. CASE \E s \in {"writing", "closing"} : Go(o, s)
             /\ UNCHANGED <<ps, writers, unclosed>>
    <3>1. PICK s \in {"writing", "closing"} : Go(o, s)
      BY <2>4
    <3>2. pc' = [pc EXCEPT ![o] = s] /\ digest' = digest /\ DOMAIN ps' = Op
      BY <2>4, <3>1 DEF Go, opVars, OpTypes
    <3>3. OpTypes'
      BY <2>1, <3>2, Moved DEF WriteState, Grown, Op
    <3> QED
      BY <1>1, <1>2, <2>1, <2>4, <3>3
  <2> QED
    BY <2>2, <2>3, <2>4
<1>7. ASSUME NEW o \in WriteOp, NEW w \in unclosed[o], CloseWriter(o, w)
      PROVE  CacheTypes' /\ Grows
  <2>1. StoreTypes' /\ Grows
    BY <1>7, CloseStores
  <2>2. OpTypes'
    BY <1>3, <1>7 DEF CloseWriter, opVars
  <2>3. writers' = writers /\ unclosed' = [unclosed EXCEPT ![o] = @ \ {w}]
    BY <1>7 DEF CloseWriter
  <2> QED
    BY <2>1, <2>2, <2>3 DEF WriterTypes
<1>8. ASSUME NEW o \in ReadOp, NEW n \in Node, NEW d \in Digest, StartRead(o, n, d)
      PROVE  CacheTypes' /\ Grows
  <2>1. pc' = [pc EXCEPT ![o] = "asking"] /\ digest' = [digest EXCEPT ![o] = d]
        /\ DOMAIN ps' = Op
    BY <1>8 DEF StartRead, Begin, OpTypes
  <2>2. OpTypes'
    BY <2>1, Moved, ReadsAreNotWrites DEF Op
  <2>3. UNCHANGED <<local, handoffs, dropped, writers, unclosed>>
    BY <1>8 DEF StartRead, handoffVars, writeVars
  <2> QED
    BY <1>1, <1>2, <2>2, <2>3
<1>9. ASSUME NEW o \in ReadOp, AskPeer(o) PROVE CacheTypes' /\ Grows
  <2>1. UNCHANGED <<local, handoffs, dropped, writers, unclosed>>
    BY <1>9 DEF AskPeer, handoffVars, writeVars
  <2>2. DOMAIN ps' = Op /\ pc[o] # "idle"
    BY <1>9 DEF AskPeer, OpTypes
  <2>3. /\ pc' = pc \/ pc' = [pc EXCEPT ![o] = "backfilling"]
        /\ digest' = digest
    BY <1>9 DEF AskPeer, Go, opVars
  <2>4. OpTypes'
    BY <2>2, <2>3, Moved, Stayed, ReadsAreNotWrites DEF Op
  <2> QED
    BY <1>1, <1>2, <2>1, <2>4
<1>10. ASSUME NEW o \in ReadOp, AllAsked(o) PROVE CacheTypes' /\ Grows
  <2>1. pc[o] # "idle" /\ AnswerRead(o, "missing") /\ UNCHANGED <<local, handoffs, dropped>>
    BY <1>10 DEF AllAsked, AnswerRead, handoffVars
  <2> QED
    BY <1>1, <2>1, AnswerReadTypes
<1>11. ASSUME NEW o \in ReadOp, BackfillPeers(o) PROVE CacheTypes' /\ Grows
  <2>1. pc[o] # "idle" /\ AnswerRead(o, "ok")
    BY <1>11 DEF BackfillPeers
  <2> QED
    BY <1>11, <2>1, AnswerReadTypes, BackfillStores
<1>12. ASSUME NEW n \in Node, NEW p \in Node,
              SendHeartbeat(n, p) \/ SendFile(n, p) \/ HandedOff(n, p)
       PROVE  CacheTypes' /\ Grows
  <2>1. UNCHANGED <<pc, digest, ps, writers, unclosed>>
    BY <1>12 DEF SendHeartbeat, SendFile, HandedOff, opVars, writeVars
  <2>2. SendFile(n, p) \/ UNCHANGED <<local, handoffs, dropped>>
    BY <1>12 DEF SendHeartbeat, HandedOff
  <2>3. StoreTypes' /\ Grows
    BY <1>1, <2>2, SendStores
  <2> QED
    BY <1>2, <1>3, <2>1, <2>3
<1>13. ASSUME NEW n \in Node, Shutdown(n) PROVE CacheTypes' /\ Grows
  <2>1. Fail(n, "stopped", {}) /\ UNCHANGED <<local, handoffs, dropped>>
    BY <1>13 DEF Shutdown, handoffVars
  <2>2. OpTypes' /\ WriterTypes'
    BY <2>1, FailOps, FailWriters
  <2> QED
    BY <1>1, <2>1, <2>2
<1>14. ASSUME NEW n \in Node, Crash(n) PROVE CacheTypes' /\ Grows
  <2> DEFINE ended == {o \in Op : at[o] = n /\ InFlight(o)}
  <2>1. Fail(n, "crashed", ended)
    BY <1>14 DEF Crash
  <2>2. \A o \in Op : o \in ended => pc[o] # "idle"
    BY DEF InFlight
  <2>3. ASSUME NEW S, S = ended PROVE OpTypes' /\ WriterTypes'
    BY <2>1, <2>2, <2>3, FailOps, FailWriters
  <2> QED
    BY <1>14, <2>3, CrashStores
<1>15. ASSUME NEW n \in Node, StartListening(n) PROVE CacheTypes' /\ Grows
  BY <1>1, <1>2, <1>3, <1>15 DEF StartListening, handoffVars, opVars, writeVars
<1>16. ASSUME UNCHANGED vars PROVE CacheTypes' /\ Grows
  BY <1>1, <1>2, <1>3, <1>16 DEF vars, handoffVars, opVars, writeVars
<1> QED
  BY <1>4, <1>5, <1>6, <1>7, <1>8, <1>9, <1>10, <1>11, <1>12, <1>13, <1>14, <1>15,
     <1>16 DEF Next
-----------------------------------------------------------------------------
(* The invariant of a write, step by step.                                 *)

LEMMA WriteElsewhere ==
  ASSUME CacheInv, Grows, NEW o \in WriteOp,
         pc'[o] = pc[o], digest'[o] = digest[o], ps'[o] = ps[o],
         writers'[o] = writers[o], unclosed'[o] = unclosed[o],
         o \in closeFailed' <=> o \in closeFailed
  PROVE  WriteInv(o)'
<1>1. WriteInv(o)
  BY DEF CacheInv
<1>2. writers[o] # {} => digest[o] \in Digest
  BY <1>1 DEF CacheInv, CacheTypes, OpTypes, WriteInv, Op
<1>3. \A w \in writers[o] : w.peer \in Node /\ w.handoff \in Node \union {NoNode}
  BY DEF CacheInv, CacheTypes, WriterTypes, Writer
<1>4. PeerSetOK(o) => PeerSetOK(o)'
  BY DEF PeerSetOK
<1>5. OpeningOK(o) => OpeningOK(o)'
  BY DEF OpeningOK, Peers, Tried, NoStandIn
<1>6. GrownOK(o) => GrownOK(o)'
  BY DEF GrownOK, Peers
<1>7. \A w \in writers[o] : digest[o] \in local[w.peer] => digest[o] \in local'[w.peer]
  BY <1>3 DEF Grows
<1>8. \A w \in writers[o] : ClosedOK(o, w) => ClosedOK(o, w)'
  BY <1>2, <1>3, <1>7 DEF ClosedOK, Grows
<1> QED
  BY <1>1, <1>4, <1>5, <1>6, <1>7, <1>8 DEF WriteInv

LEMMA StartInv ==
  ASSUME CacheInv, NEW o \in WriteOp, NEW n \in Node, NEW d \in Digest,
         StartWrite(o, n, d)
  PROVE  WriteInv(o)'
<1> DEFINE new == NewPeerSet(Preferred(d), Fallback(d))
<1>1. /\ pc'[o] = "opening" /\ digest'[o] = d /\ ps'[o] = new
      /\ writers'[o] = writers[o] /\ unclosed'[o] = unclosed[o]
  BY DEF StartWrite, Begin, writeVars, CacheInv, CacheTypes, OpTypes, Op
<1>2. writers[o] = {} /\ unclosed[o] = {}
  BY DEF StartWrite, Begin, CacheInv, WriteInv, CacheTypes, WriterTypes
<1>3. /\ Preferred(d) \in Seq(Node) /\ Fallback(d) \in Seq(Node)
      /\ Len(GetAllReplicas[d]) \in Nat /\ ReplicationFactor \in Nat \ {0}
  BY RingOrder
<1>4. <<>> \in Seq(Node) /\ Len(<<>>) = 0
  BY EmptySeq
<1>5. PeerSetOK(o)'
  BY <1>1, <1>3, <1>4 DEF PeerSetOK, AnyPeerSet, NewPeerSet
<1>6. OpeningOK(o)'
  <2>1. Peers(o)' = {} /\ writers'[o] = {}
    BY <1>1, <1>2 DEF Peers
  <2>2. IsFiniteSet({}) /\ Cardinality({}) = 0
    BY FS_EmptySet
  <2>3. ps'[o].i = 0 /\ ps'[o].failed = <<>> /\ Len(ps'[o].failed) = 0
    BY <1>1, <1>4 DEF NewPeerSet
  <2>4. 1..(ps'[o].i - ReplicationFactor) = {}
    BY <1>3, <2>3
  <2> QED
    BY <1>3, <2>1, <2>2, <2>3, <2>4 DEF OpeningOK
<1> QED
  BY <1>1, <1>2, <1>5, <1>6 DEF WriteInv, Grown

LEMMA Advanced ==
  ASSUME NEW s \in AnyPeerSet
  PROVE  /\ Advance(s) \in AnyPeerSet /\ Advance(s).i = s.i + 1
         /\ Advance(s).failed = s.failed
         /\ Advance(s).preferred = s.preferred /\ Advance(s).fallback = s.fallback
<1>1. s.i + 1 \in Nat
  BY DEF AnyPeerSet
<1>2. Advance(s) = [s EXCEPT !.i = s.i + 1]
  BY DEF Advance
<1> QED
  BY <1>1, <1>2 DEF AnyPeerSet

(* The peer set after a peer has been tried: it failed, or it did not. *)
LEMMA Tries ==
  ASSUME NEW o \in WriteOp, digest[o] \in Digest, PeerSetOK(o), HasNextPeer(ps[o]),
         digest'[o] = digest[o], NEW failed,
         ps'[o] = IF failed THEN MarkPeerAsFailed(Advance(ps[o]), NextPeer(ps[o]))
                            ELSE Advance(ps[o])
  PROVE  /\ PeerSetOK(o)' /\ ps'[o].i = ps[o].i + 1
         /\ failed /\ ps[o].i < ReplicationFactor =>
              Len(ps'[o].failed) = Len(ps[o].failed) + 1
         /\ ~(failed /\ ps[o].i < ReplicationFactor) => ps'[o].failed = ps[o].failed
<1> DEFINE p == NextPeer(ps[o])
           s == Advance(ps[o])
<1>1. /\ ps[o].i \in Nat /\ Len(GetAllReplicas[digest[o]]) \in Nat
      /\ ReplicationFactor \in Nat /\ ps[o].failed \in Seq(Node)
      /\ ps[o] \in AnyPeerSet
  BY RingOrder DEF PeerSetOK, AnyPeerSet
<1>2. /\ ps[o].i < Len(GetAllReplicas[digest[o]]) /\ p \in Node
      /\ p \in ToSet(ps[o].preferred) <=> ps[o].i < ReplicationFactor
  BY <1>1, NextInRing
<1> HIDE DEF p
<1>3. /\ s \in AnyPeerSet /\ s.i = ps[o].i + 1 /\ s.failed = ps[o].failed
      /\ s.preferred = ps[o].preferred /\ s.fallback = ps[o].fallback
  BY <1>1, Advanced
<1>4. ps[o].i + 1 <= Len(GetAllReplicas[digest[o]])
  BY <1>1, <1>2
<1> HIDE DEF s
<1>5. CASE failed /\ ps[o].i < ReplicationFactor
  <2>1. ps'[o] = [s EXCEPT !.failed = Append(s.failed, p)]
    BY <1>2, <1>3, <1>5 DEF MarkPeerAsFailed, p, s
  <2>2. Append(s.failed, p) \in Seq(Node) /\ Len(Append(s.failed, p)) = Len(s.failed) + 1
    BY <1>1, <1>2, <1>3, AppendProperties
  <2>3. /\ ps'[o] \in AnyPeerSet /\ ps'[o].i = s.i
        /\ ps'[o].failed = Append(s.failed, p)
        /\ ps'[o].preferred = s.preferred /\ ps'[o].fallback = s.fallback
    BY <1>3, <2>1, <2>2 DEF AnyPeerSet
  <2>4. PeerSetOK(o)'
    BY <1>3, <1>4, <2>3 DEF PeerSetOK
  <2> QED
    BY <1>3, <1>5, <2>2, <2>3, <2>4
<1>6. CASE ~(failed /\ ps[o].i < ReplicationFactor)
  <2>1. ps'[o] = s
    BY <1>2, <1>3, <1>6 DEF MarkPeerAsFailed, p, s
  <2>2. PeerSetOK(o)'
    BY <1>3, <1>4, <2>1 DEF PeerSetOK
  <2> QED
    BY <1>3, <1>6, <2>1, <2>2
<1> QED
  BY <1>5, <1>6

(* The node that was tried is new to the write. *)
LEMMA NewPeer ==
  ASSUME NEW o \in WriteOp, digest[o] \in Digest, PeerSetOK(o), HasNextPeer(ps[o]),
         OpeningOK(o), digest'[o] = digest[o], ps'[o].i = ps[o].i + 1
  PROVE  /\ NextPeer(ps[o]) \notin Peers(o)
         /\ NextPeer(ps[o]) \in Tried(o)' /\ Tried(o) \subseteq Tried(o)'
<1> DEFINE R == GetAllReplicas[digest[o]]
           i == ps[o].i
<1>1. /\ i \in Nat /\ i < Len(R) /\ Len(R) \in Nat /\ NextPeer(ps[o]) = R[i + 1]
      /\ \A j, k \in 1..Len(R) : R[j] = R[k] => j = k
  BY RingOrder, NextInRing DEF PeerSetOK, AnyPeerSet
<1>2. Tried(o) = {R[k] : k \in 1..i}
  BY DEF Tried
<1>3. Tried(o)' = {R[k] : k \in 1..(i + 1)}
  BY DEF Tried
<1>4. Peers(o) \subseteq Tried(o)
  BY DEF OpeningOK
<1> HIDE DEF R, i
<1>5. i + 1 \in 1..Len(R) /\ i + 1 \in 1..(i + 1) /\ i + 1 \notin 1..i
      /\ 1..i \subseteq 1..(i + 1) /\ 1..i \subseteq 1..Len(R)
  BY <1>1
<1>6. R[i + 1] \notin {R[k] : k \in 1..i}
  BY <1>1, <1>5
<1> QED
  BY <1>1, <1>2, <1>3, <1>4, <1>5, <1>6

(* Counting when a peer has failed. *)
LEMMA FailedPeerInv ==
  ASSUME CacheTypes, NEW o \in WriteOp, WriteInv(o), OpenWriter(o),
         writers' = writers,
         ps'[o] = MarkPeerAsFailed(Advance(ps[o]), NextPeer(ps[o]))
  PROVE  PeerSetOK(o)' /\ OpeningOK(o)'
<1> DEFINE c == Cardinality(writers[o])
           i == ps[o].i
           f == Len(ps[o].failed)
           rf == ReplicationFactor
<1>1. /\ digest[o] \in Digest /\ PeerSetOK(o) /\ HasNextPeer(ps[o]) /\ OpeningOK(o)
      /\ digest' = digest
  BY DEF OpenWriter, WriteInv, CacheTypes, OpTypes, Op, opVars
<1>2. /\ PeerSetOK(o)' /\ ps'[o].i = i + 1
      /\ i < rf => Len(ps'[o].failed) = f + 1
      /\ ~(i < rf) => ps'[o].failed = ps[o].failed
  BY <1>1, Tries
<1>3. Peers(o)' = Peers(o) /\ Tried(o) \subseteq Tried(o)'
  BY <1>1, <1>2, NewPeer DEF Peers
<1>4. /\ i \in Nat /\ f \in Nat /\ c \in Nat /\ rf \in Nat
      /\ i <= rf + f /\ c + f <= i
      /\ ~(i < rf) => i - rf + 1 <= f
  <2>1. i \in Nat /\ ps[o].failed \in Seq(Node) /\ rf \in Nat
    BY <1>1, CacheConstantsOK DEF PeerSetOK, AnyPeerSet
  <2>2. f \in Nat /\ c \in Nat
    BY <1>1, <2>1, LenProperties, FS_CardinalityType DEF OpeningOK
  <2>3. ~(i < rf) => i - rf + 1 \in 1..f
    BY <1>1, <2>1, NextInRing
  <2> QED
    BY <1>1, <2>1, <2>2, <2>3 DEF OpeningOK
<1> HIDE DEF c, i, f, rf
<1>5. IsFiniteSet(writers'[o]) /\ Cardinality(writers'[o]) = c
      /\ c <= Cardinality(Peers(o)')
  BY <1>1, <1>3 DEF OpeningOK, c
<1>6. CASE i < rf
  <2>1. Len(ps'[o].failed) = f + 1
    BY <1>2, <1>6
  <2>2. i + 1 <= rf + (f + 1) /\ c + (f + 1) <= i + 1 /\ 1..(i + 1 - rf) = {}
    BY <1>4, <1>6
  <2>3. \A j \in 1..(ps'[o].i - rf) : FALSE
    <3>1. ps'[o].i - rf = i + 1 - rf
      BY <1>2, <1>4
    <3> QED
      BY <2>2, <3>1
  <2> QED
    BY <1>1, <1>2, <1>3, <1>5, <2>1, <2>2, <2>3 DEF OpeningOK, rf, c
<1>7. CASE ~(i < rf)
  <2>1. Len(ps'[o].failed) = f
    BY <1>2, <1>7 DEF f
  <2>2. i + 1 <= rf + f /\ c + f <= i + 1 /\ c + f < i + 1
    BY <1>4, <1>7
  <2> QED
    BY <1>1, <1>2, <1>3, <1>5, <2>1, <2>2 DEF OpeningOK, rf, c
<1> QED
  BY <1>6, <1>7

(* Counting when a writer was opened. *)
LEMMA OpenedWriterInv ==
  ASSUME CacheTypes, NEW o \in WriteOp, WriteInv(o), OpenWriter(o),
         NEW w, w.peer = NextPeer(ps[o]), w.handoff = HintedHandoff(ps[o]),
         writers'[o] = writers[o] \union {w}, ps'[o] = Advance(ps[o])
  PROVE  PeerSetOK(o)' /\ OpeningOK(o)'
<1> DEFINE c == Cardinality(writers[o])
           i == ps[o].i
           f == Len(ps[o].failed)
           rf == ReplicationFactor
<1>1. /\ digest[o] \in Digest /\ PeerSetOK(o) /\ HasNextPeer(ps[o]) /\ OpeningOK(o)
      /\ digest' = digest
  BY DEF OpenWriter, WriteInv, CacheTypes, OpTypes, Op, opVars
<1>2. PeerSetOK(o)' /\ ps'[o].i = i + 1 /\ ps'[o].failed = ps[o].failed
  <2>1. ps'[o] = IF FALSE THEN MarkPeerAsFailed(Advance(ps[o]), NextPeer(ps[o]))
                          ELSE Advance(ps[o])
    OBVIOUS
  <2> QED
    BY <1>1, <2>1, Tries
<1>3. /\ w.peer \notin Peers(o) /\ Tried(o) \subseteq Tried(o)' /\ w.peer \in Tried(o)'
      /\ Peers(o)' = Peers(o) \union {w.peer}
  <2>1. Peers(o)' = {v.peer : v \in writers[o] \union {w}}
    BY DEF Peers
  <2>2. {v.peer : v \in writers[o] \union {w}} = {v.peer : v \in writers[o]} \union {w.peer}
    OBVIOUS
  <2> QED
    BY <1>1, <1>2, <2>1, <2>2, NewPeer DEF Peers
<1>4. /\ i \in Nat /\ f \in Nat /\ c \in Nat /\ rf \in Nat
      /\ i <= rf + f /\ c + f <= i
      /\ ~(i < rf) => i - rf + 1 <= f /\ w.handoff = ps[o].failed[i + 1 - rf]
  <2>1. i \in Nat /\ ps[o].failed \in Seq(Node) /\ rf \in Nat
    BY <1>1, CacheConstantsOK DEF PeerSetOK, AnyPeerSet
  <2>2. f \in Nat /\ c \in Nat
    BY <1>1, <2>1, LenProperties, FS_CardinalityType DEF OpeningOK
  <2>3. ~(i < rf) => i - rf + 1 \in 1..f /\ w.handoff = ps[o].failed[i - rf + 1]
    BY <1>1, <2>1, NextInRing
  <2>4. i - rf + 1 = i + 1 - rf
    BY <2>1
  <2> QED
    BY <1>1, <2>1, <2>2, <2>3, <2>4 DEF OpeningOK
<1>5. /\ IsFiniteSet(writers'[o]) /\ Cardinality(writers'[o]) \in Nat
      /\ Cardinality(writers'[o]) <= c + 1
  <2>1. IsFiniteSet(writers[o])
    BY <1>1 DEF OpeningOK
  <2>2. /\ IsFiniteSet(writers[o] \union {w})
        /\ Cardinality(writers[o] \union {w}) = IF w \in writers[o] THEN c ELSE c + 1
    BY <2>1, FS_AddElement
  <2> HIDE DEF c
  <2> QED
    BY <1>4, <2>2
<1>6. Cardinality(writers'[o]) <= Cardinality(Peers(o)')
  <2>1. IsFiniteSet(Peers(o))
    <3>1. Peers(o) \subseteq Node
      BY DEF Peers, CacheTypes, WriterTypes, Writer
    <3> QED
      BY <1>1, <3>1, NodesFinite, FS_Subset
  <2>2. Cardinality(Peers(o)) \in Nat /\ Cardinality(Peers(o)') = Cardinality(Peers(o)) + 1
    BY <1>3, <2>1, FS_AddElement, FS_CardinalityType
  <2>3. c <= Cardinality(Peers(o))
    BY <1>1 DEF OpeningOK
  <2> HIDE DEF c
  <2> QED
    BY <1>4, <1>5, <2>2, <2>3
<1>7. ASSUME NEW j \in 1..(i + 1 - rf), NoStandIn(o, j)'
      PROVE  Cardinality(writers'[o]) + f < i + 1
  <2>1. /\ \A v \in writers[o] : v.handoff # ps[o].failed[j]
        /\ w.handoff # ps[o].failed[j]
    BY <1>2, <1>7 DEF NoStandIn
  <2>2. NoStandIn(o, j)
    BY <2>1 DEF NoStandIn
  <2>3. j \in 1..(i - rf)
    <3>1. i >= rf => j # i + 1 - rf
      BY <1>4, <2>1
    <3> HIDE DEF c, i, f, rf
    <3> QED
      BY <1>4, <1>7, <3>1
  <2>4. c + f < i
    BY <1>1, <2>2, <2>3 DEF OpeningOK
  <2> HIDE DEF c, i, f, rf
  <2> QED
    BY <1>4, <1>5, <2>4
<1>8. Len(ps'[o].failed) = f /\ ps'[o].i = i + 1
  BY <1>2
<1> HIDE DEF c, i, f, rf
<1>9. i + 1 <= rf + f /\ Cardinality(writers'[o]) + f <= i + 1
  BY <1>4, <1>5
<1>10. (\E j \in 1..(ps'[o].i - rf) : NoStandIn(o, j)')
         => Cardinality(writers'[o]) + f < i + 1
  <2>1. ps'[o].i - rf = i + 1 - rf
    BY <1>4, <1>8
  <2> QED
    BY <1>7, <2>1
<1>11. Peers(o)' \subseteq Tried(o)'
  <2>1. Peers(o) \subseteq Tried(o)
    BY <1>1 DEF OpeningOK
  <2> QED
    BY <1>3, <2>1
<1> QED
  BY <1>2, <1>5, <1>6, <1>8, <1>9, <1>10, <1>11 DEF OpeningOK, rf

LEMMA OpenInv ==
  ASSUME CacheInv, NEW o \in WriteOp, OpenWriter(o)
  PROVE  WriteInv(o)'
<1> DEFINE p == NextPeer(ps[o])
<1>1. /\ WriteInv(o) /\ CacheTypes /\ pc[o] = "opening" /\ unclosed[o] = writers[o]
      /\ \A w \in writers[o] : w.via = "devnull" => digest[o] \in local[w.peer]
  BY DEF OpenWriter, CacheInv, WriteInv
<1>2. UNCHANGED <<pc, digest, local, closeFailed>>
  BY DEF OpenWriter, opVars
<1>3. PICK via \in RemoteWriter(o, p) :
        IF via = "error"
        THEN /\ ps' = [ps EXCEPT ![o] = MarkPeerAsFailed(Advance(ps[o]), NextPeer(ps[o]))]
             /\ UNCHANGED <<writers, unclosed>>
        ELSE LET w == [peer |-> p, via |-> via, handoff |-> HintedHandoff(ps[o])]
             IN /\ ps' = [ps EXCEPT ![o] = Advance(ps[o])]
                /\ writers' = [writers EXCEPT ![o] = writers[o] \union {w}]
                /\ unclosed' = [unclosed EXCEPT ![o] = unclosed[o] \union {w}]
  BY DEF OpenWriter
<1>4. via = "devnull" => digest[o] \in local[p]
  BY DEF RemoteWriter
<1>5. /\ PeerSetOK(o)' /\ OpeningOK(o)' /\ unclosed'[o] = writers'[o]
      /\ \A w \in writers'[o] : w.via = "devnull" => digest[o] \in local[w.peer]
  <2>1. CASE via = "error"
    <3>1. ps'[o] = MarkPeerAsFailed(Advance(ps[o]), NextPeer(ps[o]))
          /\ UNCHANGED <<writers, unclosed>>
      BY <1>3, <2>1 DEF CacheInv, CacheTypes, OpTypes, Op
    <3>2. PeerSetOK(o)' /\ OpeningOK(o)'
      BY <1>1, <3>1, FailedPeerInv
    <3> QED
      BY <1>1, <3>1, <3>2
  <2>2. CASE via # "error"
    <3> DEFINE w == [peer |-> p, via |-> via, handoff |-> HintedHandoff(ps[o])]
    <3>1. /\ ps'[o] = Advance(ps[o]) /\ writers'[o] = writers[o] \union {w}
          /\ unclosed'[o] = unclosed[o] \union {w}
      BY <1>3, <2>2 DEF CacheInv, CacheTypes, OpTypes, WriterTypes, Op
    <3>2. w.peer = NextPeer(ps[o]) /\ w.handoff = HintedHandoff(ps[o])
          /\ (w.via = "devnull" => digest[o] \in local[w.peer])
      BY <1>4
    <3> HIDE DEF w
    <3>3. PeerSetOK(o)' /\ OpeningOK(o)'
      BY <1>1, <3>1, <3>2, OpenedWriterInv
    <3> QED
      BY <1>1, <3>1, <3>2, <3>3
  <2> QED
    BY <2>1, <2>2
<1> QED
  BY <1>1, <1>2, <1>5 DEF WriteInv, Grown

LEMMA PeersFinite ==
  ASSUME WriterTypes, NEW o \in WriteOp, digest[o] \in Digest
  PROVE  IsFiniteSet(Peers(o)) /\ Cardinality(Peers(o)) \in Nat
<1>1. Peers(o) \subseteq Node
  BY DEF Peers, WriterTypes, Writer
<1> QED
  BY <1>1, NodesFinite, FS_Subset, FS_CardinalityType

(* With as many writers as replicas, no failed peer lacks its stand-in. *)
LEMMA EnoughWriters ==
  ASSUME WriterTypes, NEW o \in WriteOp, digest[o] \in Digest,
         PeerSetOK(o), OpeningOK(o), ~(Cardinality(writers[o]) < ReplicationFactor)
  PROVE  GrownOK(o)
<1> DEFINE c == Cardinality(writers[o])
           i == ps[o].i
           F == ps[o].failed
           rf == ReplicationFactor
<1>1. /\ i \in Nat /\ F \in Seq(Node) /\ rf \in Nat
      /\ IsFiniteSet(writers[o]) /\ ~(c < rf) /\ c <= Cardinality(Peers(o))
      /\ i <= rf + Len(F) /\ c + Len(F) <= i
      /\ (\E j \in 1..(i - rf) : NoStandIn(o, j)) => c + Len(F) < i
  BY CacheConstantsOK DEF PeerSetOK, AnyPeerSet, OpeningOK
<1>2. Len(F) \in Nat /\ \A x \in ToSet(F) : \E j \in 1..Len(F) : F[j] = x
  BY <1>1, Listed
<1>3. c \in Nat
  BY <1>1, FS_CardinalityType
<1>4. Cardinality(Peers(o)) \in Nat
  BY PeersFinite
<1> HIDE DEF c, i, F, rf
<1>5. i - rf = Len(F) /\ ~(c + Len(F) < i)
  BY <1>1, <1>2, <1>3
<1>6. \A j \in 1..Len(F) : ~NoStandIn(o, j)
  BY <1>1, <1>5
<1>7. \A p \in ToSet(F) : \E w \in writers[o] : w.handoff = p
  BY <1>2, <1>6 DEF NoStandIn, F
<1>8. rf <= Cardinality(Peers(o))
  BY <1>1, <1>3, <1>4
<1> QED
  BY <1>7, <1>8 DEF GrownOK, F, rf

LEMMA AnswerInv ==
  ASSUME CacheInv, Grows, NEW o \in WriteOp, NEW a \in {"ok", "error"},
         AnswerWrite(o, a), a = "ok" => pc[o] = "closing" /\ Closed(o)
  PROVE  WriteInv(o)'
<1>1. WriteInv(o) /\ CacheTypes
  BY DEF CacheInv
<1>2. /\ pc'[o] = a /\ digest' = digest
      /\ a = "ok" => ps'[o] = ps[o] /\ writers'[o] = writers[o]
      /\ a = "error" => writers'[o] = {}
      /\ unclosed'[o] = {} /\ closeFailed' = closeFailed \ {o}
      /\ local' = local /\ handoffs' = handoffs /\ dropped' = dropped
  BY DEF AnswerWrite, Answer, CacheInv, CacheTypes, OpTypes, WriterTypes, Op, handoffVars
<1>3. CASE a = "error"
  BY <1>2, <1>3 DEF WriteInv, Grown
<1>4. CASE a = "ok"
  <2>1. /\ PeerSetOK(o) /\ GrownOK(o) /\ unclosed[o] = {} /\ o \notin closeFailed
        /\ \A w \in writers[o] : ClosedOK(o, w)
    BY <1>1, <1>4 DEF WriteInv, Grown, Closed
  <2>2. PeerSetOK(o)' /\ GrownOK(o)'
    BY <1>2, <1>4, <2>1 DEF PeerSetOK, GrownOK, Peers
  <2>3. \A w \in writers'[o] : ClosedOK(o, w)'
    BY <1>2, <1>4, <2>1 DEF ClosedOK, Keeps
  <2>4. \A w \in writers'[o] : w.via = "devnull" => digest'[o] \in local'[w.peer]
    BY <1>1, <1>2, <1>4 DEF WriteInv
  <2> QED
    BY <1>2, <1>4, <2>2, <2>3, <2>4 DEF WriteInv, Grown
<1> QED
  BY <1>3, <1>4

LEMMA GoesOnInv ==
  ASSUME CacheInv, Grows, NEW o \in WriteOp, AllOpened(o) \/ WriteData(o) \/ EndWrite(o)
  PROVE  WriteInv(o)'
<1>1. WriteInv(o) /\ CacheTypes
  BY DEF CacheInv
<1>2. CASE AnswerWrite(o, "error")
  BY <1>2, AnswerInv
<1>3. CASE EndWrite(o) /\ AnswerWrite(o, "ok")
  <2>1. (pc[o] = "closing" /\ Closed(o)) \/ AnswerWrite(o, "error")
    BY <1>3 DEF EndWrite
  <2> QED
    BY <1>2, <1>3, <2>1, AnswerInv
<1>4. ASSUME NEW s \in {"writing", "closing"}, Go(o, s),
             UNCHANGED <<local, handoffs, dropped, ps, writeVars>>,
             GrownOK(o), pc[o] \in {"opening", "writing"}
      PROVE  WriteInv(o)'
  <2>1. pc'[o] = s /\ digest' = digest
    BY <1>4 DEF Go, opVars, CacheInv, CacheTypes, OpTypes, Op
  <2>2. PeerSetOK(o)' /\ GrownOK(o)'
    BY <1>1, <1>4, <2>1 DEF WriteInv, PeerSetOK, GrownOK, Peers, writeVars
  <2>3. unclosed[o] = writers[o] /\ UNCHANGED <<unclosed, writers, closeFailed>>
    BY <1>1, <1>4 DEF WriteInv, writeVars
  <2> QED
    BY <1>1, <1>4, <2>1, <2>2, <2>3 DEF WriteInv, Grown
<1>5. CASE AllOpened(o)
  <2>1. /\ pc[o] = "opening" /\ PeerSetOK(o) /\ OpeningOK(o) /\ digest[o] \in Digest
    BY <1>1, <1>5 DEF AllOpened, WriteInv, CacheTypes, OpTypes, Op
  <2>2. CASE Cardinality(writers[o]) < ReplicationFactor
    BY <1>2, <1>5, <2>2 DEF AllOpened
  <2>3. CASE ~(Cardinality(writers[o]) < ReplicationFactor)
    <3>1. GrownOK(o)
      BY <1>1, <2>1, <2>3, EnoughWriters DEF CacheTypes
    <3>2. Go(o, "writing") /\ UNCHANGED <<local, handoffs, dropped, ps, writeVars>>
      BY <1>5, <2>3 DEF AllOpened, handoffVars
    <3> QED
      BY <1>4, <2>1, <3>1, <3>2
  <2> QED
    BY <2>2, <2>3
<1>6. CASE WriteData(o)
  <2>1. pc[o] = "writing" /\ GrownOK(o)
    BY <1>1, <1>6 DEF WriteData, WriteInv, Grown
  <2>2. \/ Go(o, "closing") /\ UNCHANGED <<local, handoffs, dropped, ps, writeVars>>
        \/ AnswerWrite(o, "error")
    BY <1>6 DEF WriteData, handoffVars
  <2> QED
    BY <1>2, <1>4, <2>1, <2>2
<1>7. CASE EndWrite(o)
  <2>1. AnswerWrite(o, "ok") \/ AnswerWrite(o, "error")
    BY <1>7 DEF EndWrite
  <2> QED
    BY <1>2, <1>3, <1>7, <2>1
<1> QED
  BY <1>5, <1>6, <1>7

(* What a writer that is closed without an error leaves behind. *)
LEMMA CloseEffect ==
  ASSUME CacheInv, NEW o \in WriteOp, NEW w \in unclosed[o], CloseWriter(o, w),
         o \notin closeFailed'
  PROVE  ClosedOK(o, w)' /\ o \notin closeFailed
<1>1. /\ digest[o] \in Digest /\ digest' = digest /\ w \in Writer /\ w \in writers[o]
      /\ w.peer \in Node /\ w.handoff \in Node \union {NoNode}
      /\ w.via \in {"local", "stream", "devnull", "broken"}
      /\ StoreTypes /\ WriteInv(o)
  BY DEF CloseWriter, CacheInv, CacheTypes, OpTypes, WriterTypes, Writer, Op, opVars
<1>2. w.via # "broken" /\ o \notin closeFailed
  BY <1>1 DEF CloseWriter
<1>3. CASE w.via = "stream"
  <2>1. Store(w.peer, digest[o]) /\ RecvHintedHandoff(w.peer, w.handoff, digest[o])
    BY <1>3 DEF CloseWriter
  <2>2. digest[o] \in local'[w.peer]
    BY <1>1, <2>1, StoreEffect
  <2>3. w.handoff # NoNode => Keeps(w.handoff, digest[o])'
    BY <1>1, <2>1, RecvEffect DEF Keeps
  <2> QED
    BY <1>1, <1>2, <2>2, <2>3 DEF ClosedOK
<1>4. CASE w.via = "local"
  <2>1. Store(w.peer, digest[o])
    BY <1>4 DEF CloseWriter
  <2>2. digest[o] \in local'[w.peer]
    BY <1>1, <2>1, StoreEffect
  <2> QED
    BY <1>1, <1>2, <1>4, <2>2 DEF ClosedOK
<1>5. CASE w.via = "devnull"
  <2>1. digest[o] \in local[w.peer] /\ local' = local
    BY <1>1, <1>5 DEF CloseWriter, WriteInv
  <2> QED
    BY <1>1, <1>2, <1>5, <2>1 DEF ClosedOK
<1> QED
  BY <1>1, <1>2, <1>3, <1>4, <1>5

LEMMA CloseInv ==
  ASSUME CacheInv, Grows, NEW o \in WriteOp, NEW w \in unclosed[o], CloseWriter(o, w)
  PROVE  WriteInv(o)'
<1>1. WriteInv(o) /\ CacheTypes /\ pc[o] = "closing" /\ digest[o] \in Digest
  BY DEF CacheInv, CacheTypes, OpTypes, Op, CloseWriter
<1>2. /\ pc'[o] = "closing" /\ UNCHANGED <<digest, ps, writers>>
      /\ unclosed'[o] = unclosed[o] \ {w}
  BY <1>1 DEF CloseWriter, opVars, CacheTypes, WriterTypes
<1>3. PeerSetOK(o)' /\ GrownOK(o)'
  BY <1>1, <1>2 DEF WriteInv, Grown, PeerSetOK, GrownOK, Peers
<1>4. \A v \in writers[o] : v.peer \in Node /\ v.handoff \in Node \union {NoNode}
  BY <1>1 DEF CacheTypes, WriterTypes, Writer
<1>5. \A v \in writers[o] : v.via = "devnull" => digest[o] \in local'[v.peer]
  BY <1>1, <1>4 DEF WriteInv, Grows
<1>6. o \notin closeFailed' => \A v \in writers[o] \ unclosed'[o] : ClosedOK(o, v)'
  <2> SUFFICES ASSUME o \notin closeFailed', NEW v \in writers[o] \ unclosed'[o]
               PROVE  ClosedOK(o, v)'
    OBVIOUS
  <2>1. CASE v = w
    BY <2>1, CloseEffect
  <2>2. CASE v # w
    <3>1. ClosedOK(o, v)
      BY <1>1, <1>2, <2>2, CloseEffect DEF WriteInv
    <3> QED
      BY <1>1, <1>2, <1>4, <3>1 DEF ClosedOK, Grows
  <2> QED
    BY <2>1, <2>2
<1> QED
  BY <1>2, <1>3, <1>5, <1>6 DEF WriteInv, Grown

LEMMA FailInv ==
  ASSUME CacheInv, Grows, NEW o \in WriteOp, NEW n, NEW s, NEW ended,
         Fail(n, s, ended), local' = local
  PROVE  WriteInv(o)'
<1>1. WriteInv(o) /\ CacheTypes /\ o \in Op
  BY DEF CacheInv, Op
<1>2. /\ pc' = [q \in Op |-> IF q \in ended THEN "error" ELSE pc[q]]
      /\ ps' = [q \in Op |-> IF q \in ended THEN NoPeers ELSE ps[q]]
      /\ digest' = digest /\ closeFailed' = closeFailed \ ended
  BY DEF Fail
<1>3. /\ o \in ended => writers'[o] = {} /\ unclosed'[o] = {}
      /\ o \notin ended =>
           /\ unclosed'[o] = {Breaks(n, w) : w \in unclosed[o]}
           /\ writers'[o] = (writers[o] \ unclosed[o]) \union unclosed'[o]
  BY <1>1, FailWriters DEF CacheTypes
<1>4. CASE o \in ended
  <2>1. pc'[o] = "error" /\ writers'[o] = {}
    BY <1>1, <1>2, <1>3, <1>4
  <2> QED
    BY <2>1 DEF WriteInv, Grown
<1>5. CASE o \notin ended
  <2>1. /\ pc'[o] = pc[o] /\ ps'[o] = ps[o] /\ digest'[o] = digest[o]
        /\ o \in closeFailed' <=> o \in closeFailed
    BY <1>1, <1>2, <1>5
  <2>2. /\ unclosed[o] \subseteq writers[o] /\ writers[o] \subseteq Writer
        /\ \A w \in writers[o] : w.peer \in Node /\ w.handoff \in Node \union {NoNode}
    BY <1>1 DEF CacheTypes, WriterTypes, Writer
  <2> DEFINE f == [w \in writers[o] |-> IF w \in unclosed[o] THEN Breaks(n, w) ELSE w]
             S == writers'[o]
  <2>3. \A w \in writers[o] : f[w].peer = w.peer /\ f[w].handoff = w.handoff
          /\ (f[w] = w \/ f[w].via = "broken")
    BY <2>2, BreaksKeeps
  <2>4. /\ \A w \in writers[o] : f[w] \in S
        /\ \A v \in S : \E w \in writers[o] : f[w] = v
    BY <1>3, <1>5, <2>2
  <2>5. f \in Surjection(writers[o], S)
    BY <2>4 DEF Surjection
  <2> HIDE DEF f, S
  <2>6. Peers(o)' = Peers(o)
    <3>1. Peers(o)' = {v.peer : v \in S}
      BY DEF Peers, S
    <3> QED
      BY <2>3, <2>4, <3>1 DEF Peers
  <2>7. \A p : (\E v \in S : v.handoff = p) <=> (\E w \in writers[o] : w.handoff = p)
    BY <2>3, <2>4
  <2>8. PeerSetOK(o) => PeerSetOK(o)'
    BY <2>1 DEF PeerSetOK
  <2>9. GrownOK(o) => GrownOK(o)'
    BY <2>1, <2>6, <2>7 DEF GrownOK, S
  <2>10. ASSUME OpeningOK(o), PeerSetOK(o), digest[o] \in Digest PROVE OpeningOK(o)'
    <3> DEFINE c == Cardinality(writers[o])
               i == ps[o].i
               F == ps[o].failed
               rf == ReplicationFactor
               np == Cardinality(Peers(o))
    <3>1. /\ IsFiniteSet(writers[o]) /\ c <= np
          /\ i <= rf + Len(F) /\ c + Len(F) <= i
          /\ (\E j \in 1..(i - rf) : NoStandIn(o, j)) => c + Len(F) < i
          /\ i \in Nat /\ F \in Seq(Node) /\ rf \in Nat
      BY <2>10, CacheConstantsOK DEF OpeningOK, PeerSetOK, AnyPeerSet
    <3>2. Len(F) \in Nat /\ c \in Nat /\ np \in Nat
      BY <1>1, <2>10, <3>1, LenProperties, FS_CardinalityType, PeersFinite DEF CacheTypes
    <3>3. IsFiniteSet(S) /\ Cardinality(S) <= c
      BY <2>5, <3>1, FS_Surjection
    <3>4. Cardinality(S) \in Nat
      BY <3>3, FS_CardinalityType
    <3>5. \A j : NoStandIn(o, j)' <=> NoStandIn(o, j)
      BY <2>1, <2>7 DEF NoStandIn, S
    <3>6. Tried(o)' = Tried(o)
      BY <2>1 DEF Tried
    <3> HIDE DEF c, i, F, rf, np
    <3>7. /\ Cardinality(S) <= np /\ Cardinality(S) + Len(F) <= i
          /\ c + Len(F) < i => Cardinality(S) + Len(F) < i
      BY <3>1, <3>2, <3>3, <3>4
    <3>8. Cardinality(S) <= Cardinality(Peers(o)') /\ Peers(o)' \subseteq Tried(o)'
      BY <2>6, <2>10, <3>6, <3>7 DEF np, OpeningOK
    <3> QED
      BY <2>1, <3>1, <3>3, <3>5, <3>7, <3>8 DEF OpeningOK, S, c, i, F, rf
  <2>11. /\ pc[o] \in {"idle", "error"} => writers'[o] = {}
         /\ pc[o] \in {"opening", "writing"} => unclosed'[o] = writers'[o]
         /\ pc[o] = "ok" => unclosed'[o] = {}
    BY <1>1, <1>3, <1>5, <2>2 DEF WriteInv
  <2>12. \A v \in S : v.via = "devnull" => digest[o] \in local[v.peer]
    BY <1>1, <2>3, <2>4 DEF WriteInv
  <2>13. o \notin closeFailed => \A v \in S \ unclosed'[o] : ClosedOK(o, v)'
    <3>1. S \ unclosed'[o] \subseteq writers[o] \ unclosed[o]
      BY <1>3, <1>5 DEF S
    <3>2. digest[o] \in Digest \/ writers[o] = {}
      BY <1>1 DEF CacheTypes, OpTypes, WriteInv
    <3>3. \A v \in writers[o] : ClosedOK(o, v) => ClosedOK(o, v)'
      BY <2>1, <2>2, <3>2 DEF ClosedOK, Grows
    <3> QED
      BY <1>1, <3>1, <3>3 DEF WriteInv
  <2>14. pc[o] = "opening" => digest[o] \in Digest
    BY <1>1 DEF CacheTypes, OpTypes
  <2> QED
    BY <1>1, <2>1, <2>8, <2>9, <2>10, <2>11, <2>12, <2>13, <2>14 DEF WriteInv, S
<1> QED
  BY <1>4, <1>5

(* A step of another request, or none: the write is where it was. *)
LEMMA AnswerElsewhere ==
  ASSUME CacheInv, Grows, NEW o \in WriteOp, NEW q \in Op, q # o, NEW a,
         AnswerWrite(q, a) \/ AnswerRead(q, a)
  PROVE  WriteInv(o)'
<1>1. /\ pc'[o] = pc[o] /\ digest' = digest /\ ps'[o] = ps[o]
      /\ writers'[o] = writers[o] /\ unclosed'[o] = unclosed[o]
      /\ o \in closeFailed' <=> o \in closeFailed
  BY DEF AnswerWrite, AnswerRead, Answer, writeVars, CacheInv, CacheTypes, OpTypes,
         WriterTypes, Op
<1> QED
  BY <1>1, WriteElsewhere

LEMMA WritesElsewhere ==
  ASSUME CacheInv, Grows, NEW o \in WriteOp, NEW q \in WriteOp, q # o,
         \/ \E n \in Node, d \in Digest : StartWrite(q, n, d)
         \/ OpenWriter(q) \/ AllOpened(q) \/ WriteData(q) \/ EndWrite(q)
         \/ \E w \in unclosed[q] : CloseWriter(q, w)
  PROVE  WriteInv(o)'
<1> USE DEF Op
<1>1. /\ DOMAIN pc = Op /\ DOMAIN digest = Op /\ DOMAIN ps = Op
      /\ DOMAIN writers = WriteOp /\ DOMAIN unclosed = WriteOp
  BY DEF CacheInv, CacheTypes, OpTypes, WriterTypes
<1>2. CASE \E n \in Node, d \in Digest : StartWrite(q, n, d)
  <2>1. /\ pc'[o] = pc[o] /\ digest'[o] = digest[o] /\ ps'[o] = ps[o]
        /\ UNCHANGED <<writers, unclosed, closeFailed>>
    BY <1>1, <1>2 DEF StartWrite, Begin, writeVars
  <2> QED
    BY <2>1, WriteElsewhere
<1>3. CASE OpenWriter(q)
  <2>1. /\ UNCHANGED <<pc, digest, closeFailed>>
        /\ ps'[o] = ps[o] /\ writers'[o] = writers[o] /\ unclosed'[o] = unclosed[o]
    BY <1>1, <1>3 DEF OpenWriter, opVars
  <2> QED
    BY <2>1, WriteElsewhere
<1>4. CASE AllOpened(q) \/ WriteData(q) \/ EndWrite(q)
  <2>1. \/ \E a : AnswerWrite(q, a)
        \/ (\E s : Go(q, s)) /\ UNCHANGED <<ps, writeVars>>
    BY <1>4 DEF AllOpened, WriteData, EndWrite
  <2>2. CASE \E a : AnswerWrite(q, a)
    BY <2>2, AnswerElsewhere
  <2>3. CASE (\E s : Go(q, s)) /\ UNCHANGED <<ps, writeVars>>
    <3>1. pc'[o] = pc[o] /\ digest' = digest
          /\ UNCHANGED <<ps, writers, unclosed, closeFailed>>
      BY <1>1, <2>3 DEF Go, opVars, writeVars
    <3> QED
      BY <3>1, WriteElsewhere
  <2> QED
    BY <2>1, <2>2, <2>3
<1>5. CASE \E w \in unclosed[q] : CloseWriter(q, w)
  <2>1. PICK w \in unclosed[q] : CloseWriter(q, w)
    BY <1>5
  <2>2. UNCHANGED <<pc, digest, ps, writers>> /\ unclosed'[o] = unclosed[o]
    BY <1>1, <2>1 DEF CloseWriter, opVars
  <2>3. w.via \in {"local", "stream", "devnull", "broken"}
    BY DEF CacheInv, CacheTypes, WriterTypes, Writer
  <2>4. closeFailed' = closeFailed \/ closeFailed' = closeFailed \union {q}
    BY <2>1, <2>3 DEF CloseWriter
  <2> QED
    BY <2>2, <2>4, WriteElsewhere
<1> QED
  BY <1>2, <1>3, <1>4, <1>5

LEMMA ReadsElsewhere ==
  ASSUME CacheInv, Grows, NEW o \in WriteOp, NEW r \in ReadOp,
         \/ \E n \in Node, d \in Digest : StartRead(r, n, d)
         \/ AskPeer(r) \/ AllAsked(r) \/ BackfillPeers(r)
  PROVE  WriteInv(o)'
<1>1. r # o /\ r \in Op
  BY ReadsAreNotWrites DEF Op
<1>2. DOMAIN pc = Op /\ DOMAIN digest = Op /\ DOMAIN ps = Op
  BY DEF CacheInv, CacheTypes, OpTypes
<1>3. CASE \E n \in Node, d \in Digest : StartRead(r, n, d)
  <2>1. /\ pc'[o] = pc[o] /\ digest'[o] = digest[o] /\ ps'[o] = ps[o]
        /\ UNCHANGED <<writers, unclosed, closeFailed>>
    BY <1>1, <1>2, <1>3 DEF StartRead, Begin, writeVars, Op
  <2> QED
    BY <2>1, WriteElsewhere
<1>4. CASE AskPeer(r)
  <2>1. /\ ps'[o] = ps[o] /\ pc'[o] = pc[o] /\ digest' = digest
        /\ UNCHANGED <<writers, unclosed, closeFailed>>
    BY <1>1, <1>2, <1>4 DEF AskPeer, Go, opVars, writeVars, Op
  <2> QED
    BY <2>1, WriteElsewhere
<1>5. CASE AllAsked(r) \/ BackfillPeers(r)
  <2>1. \E a : AnswerRead(r, a)
    BY <1>5 DEF AllAsked, BackfillPeers
  <2> QED
    BY <1>1, <2>1, AnswerElsewhere
<1> QED
  BY <1>3, <1>4, <1>5

LEMMA CacheInvStep == CacheInv /\ [Next]_vars => CacheInv'
<1> SUFFICES ASSUME CacheInv, [Next]_vars PROVE CacheInv'
  OBVIOUS
<1>1. CacheTypes' /\ Grows
  BY TypesStep
<1>2. ASSUME NEW o \in WriteOp PROVE WriteInv(o)'
  <2>1. ASSUME NEW q \in WriteOp,
               \/ \E n \in Node, d \in Digest : StartWrite(q, n, d)
               \/ OpenWriter(q) \/ AllOpened(q) \/ WriteData(q) \/ EndWrite(q)
               \/ \E w \in unclosed[q] : CloseWriter(q, w)
        PROVE  WriteInv(o)'
    <3>1. CASE q # o
      BY <1>1, <2>1, <3>1, WritesElsewhere
    <3>2. CASE q = o
      BY <1>1, <2>1, <3>2, StartInv, OpenInv, GoesOnInv, CloseInv
    <3> QED
      BY <3>1, <3>2
  <2>2. ASSUME NEW r \in ReadOp,
               \/ \E n \in Node, d \in Digest : StartRead(r, n, d)
               \/ AskPeer(r) \/ AllAsked(r) \/ BackfillPeers(r)
        PROVE  WriteInv(o)'
    BY <1>1, <2>2, ReadsElsewhere
  <2>3. ASSUME UNCHANGED <<pc, digest, ps, writers, unclosed, closeFailed>>
        PROVE  WriteInv(o)'
    BY <1>1, <2>3, WriteElsewhere
  <2>4. ASSUME NEW n \in Node, NEW p \in Node,
               SendHeartbeat(n, p) \/ SendFile(n, p) \/ HandedOff(n, p)
        PROVE  WriteInv(o)'
    BY <2>3, <2>4 DEF SendHeartbeat, SendFile, HandedOff, opVars, writeVars
  <2>5. ASSUME NEW n \in Node, Shutdown(n) PROVE WriteInv(o)'
    <3>1. Fail(n, "stopped", {}) /\ local' = local
      BY <2>5 DEF Shutdown
    <3> QED
      BY <1>1, <3>1, FailInv
  <2>6. ASSUME NEW n \in Node, Crash(n) PROVE WriteInv(o)'
    <3> DEFINE ended == {q \in Op : at[q] = n /\ InFlight(q)}
    <3>1. Fail(n, "crashed", ended) /\ local' = local
      BY <2>6 DEF Crash
    <3>2. ASSUME NEW S, S = ended PROVE WriteInv(o)'
      BY <1>1, <3>1, <3>2, FailInv
    <3> QED
      BY <3>2
  <2>7. ASSUME NEW n \in Node, StartListening(n) PROVE WriteInv(o)'
    BY <2>3, <2>7 DEF StartListening, opVars, writeVars
  <2>8. ASSUME UNCHANGED vars PROVE WriteInv(o)'
    BY <2>3, <2>8 DEF vars, opVars, writeVars
  <2> QED
    BY <2>1, <2>2, <2>4, <2>5, <2>6, <2>7, <2>8 DEF Next
<1> QED
  BY <1>1, <1>2 DEF CacheInv

LEMMA CacheInvInit == Init => CacheInv
<1> SUFFICES ASSUME Init PROVE CacheInv
  OBVIOUS
<1>1. StoreTypes
  BY EmptySeq DEF Init, StoreTypes
<1>2. OpTypes /\ \A o \in WriteOp : pc[o] = "idle" /\ writers[o] = {} /\ unclosed[o] = {}
  BY DEF Init, OpTypes, Op, WriteState
<1>3. WriterTypes
  BY DEF Init, WriterTypes
<1>4. \A o \in WriteOp : WriteInv(o)
  BY <1>2 DEF WriteInv, Grown
<1> QED
  BY <1>1, <1>2, <1>3, <1>4 DEF CacheInv, CacheTypes

LEMMA CacheInvAlways == Spec => []CacheInv
BY CacheInvInit, CacheInvStep, PTL DEF Spec

(* Every acknowledged write has, and keeps, as many copies as the          *)
(* replication factor says (multiWriter, multiWriteCloser.Close): for any  *)
(* number of nodes, writes and failures.                                   *)
THEOREM WritesAreReplicated == Spec => []Replicated
<1>1. CacheInv => Replicated
  <2> SUFFICES ASSUME CacheInv, NEW o \in WriteOp, Acked(o)
               PROVE  Cardinality({n \in Node : digest[o] \in local[n]})
                        >= ReplicationFactor
    BY DEF Replicated
  <2> DEFINE S == {n \in Node : digest[o] \in local[n]}
  <2>1. pc[o] = "ok" /\ WriteInv(o) /\ CacheTypes /\ digest[o] \in Digest
    BY DEF Acked, Done, CacheInv, CacheTypes, OpTypes, Op
  <2>2. ReplicationFactor <= Cardinality(Peers(o))
        /\ \A w \in writers[o] : digest[o] \in local[w.peer]
    BY <2>1 DEF WriteInv, Grown, GrownOK, ClosedOK
  <2>3. Peers(o) \subseteq S
    BY <2>1, <2>2 DEF Peers, CacheTypes, WriterTypes, Writer
  <2>4. IsFiniteSet(S)
    BY <2>1, NodesFinite, FS_Subset
  <2> HIDE DEF S
  <2>5. Cardinality(Peers(o)) <= Cardinality(S)
    BY <2>3, <2>4, FS_Subset
  <2>6. Cardinality(S) \in Nat /\ Cardinality(Peers(o)) \in Nat
        /\ ReplicationFactor \in Nat
    BY <2>1, <2>4, FS_CardinalityType, PeersFinite, CacheConstantsOK DEF CacheTypes
  <2>7. Cardinality(S) >= ReplicationFactor
    BY <2>2, <2>5, <2>6
  <2> QED
    BY <2>7 DEF S
<1> QED
  BY <1>1, CacheInvAlways, PTL

(* A preferred node that missed an acknowledged write has the digest by    *)
(* now, or an order for it is kept, or was noted as dropped, unless its    *)
(* stand-in was a kind of writer that takes no orders (remoteWriter,       *)
(* RemoteWriter, handleHintedHandoffs).                                    *)
THEOREM OrdersAreKept == Spec => []HandoffKept
<1>1. CacheInv => HandoffKept
  <2> SUFFICES ASSUME CacheInv, NEW o \in WriteOp, Acked(o), NEW p \in FailedPeers(o)
               PROVE  \/ Keeps(p, digest[o])
                      \/ \E w \in writers[o] : w.handoff = p
                                               /\ w.via \in {"local", "devnull"}
    BY DEF HandoffKept, Keeps
  <2>1. pc[o] = "ok" /\ WriteInv(o) /\ CacheTypes /\ digest[o] \in Digest
    BY DEF Acked, Done, CacheInv, CacheTypes, OpTypes, Op
  <2>2. PeerSetOK(o) /\ GrownOK(o) /\ \A w \in writers[o] : ClosedOK(o, w)
    BY <2>1 DEF WriteInv, Grown
  <2>3. PICK w \in writers[o] : w.handoff = p
    BY <2>2 DEF GrownOK, FailedPeers
  <2>4. p \in Node
    <3>1. ps[o].failed \in Seq(Node)
      BY <2>2 DEF PeerSetOK, AnyPeerSet
    <3> QED
      BY <3>1, Listed DEF FailedPeers
  <2>5. w.via \in {"local", "stream", "devnull", "broken"} /\ p # NoNode
    BY <2>1, <2>3, <2>4, NoNodeIsNone DEF CacheTypes, WriterTypes, Writer
  <2> QED
    BY <2>2, <2>3, <2>5 DEF ClosedOK
<1> QED
  BY <1>1, CacheInvAlways, PTL
-----------------------------------------------------------------------------
(* The loop that leaves the failed peers out of the targets.               *)

LEMMA LeastNumber ==
  ASSUME NEW T, T \subseteq Nat, T # {}
  PROVE  \E n \in T : \A m \in T : n <= m
<1>1. PICK n \in T : \A m \in T : ~ (<<m, n>> \in OpToRel(<, Nat))
  BY NatLessThanWellFounded, WFMin
<1>2. \A m \in T : ~ (m < n)
  BY <1>1 DEF OpToRel
<1> QED
  BY <1>2

(* f[k] is what the loop has kept of the first k peers. *)
Filters(f, peers, failed, n) ==
  f = [k \in 0..n |->
        IF k = 0 THEN <<>>
        ELSE IF peers[k] \in failed THEN f[k - 1]
             ELSE Append(f[k - 1], peers[k])]

LEMMA UnfailedFilters ==
  ASSUME NEW P, NEW F
  PROVE  Unfailed(P, F) = (CHOOSE f : Filters(f, P, F, Len(P)))[Len(P)]
BY DEF Unfailed, Filters

LEMMA FilterExists ==
  ASSUME NEW P, NEW F, NEW n \in Nat
  PROVE  \E f : Filters(f, P, F, n)
<1> DEFINE T == {k \in Nat : ~ \E f : Filters(f, P, F, k)}
<1> SUFFICES ASSUME T # {} PROVE FALSE
  OBVIOUS
<1>1. PICK k \in T : \A m \in T : k <= m
  BY LeastNumber
<1>2. k \in Nat /\ ~ \E f : Filters(f, P, F, k)
  OBVIOUS
<1>3. k # 0
  <2> DEFINE f == [j \in 0..0 |-> <<>>]
  <2>1. Filters(f, P, F, 0)
    BY DEF Filters
  <2> QED
    BY <1>2, <2>1
<1>4. k - 1 \in Nat /\ k - 1 \notin T
  BY <1>1, <1>2, <1>3
<1>5. PICK g : Filters(g, P, F, k - 1)
  BY <1>4
<1>6. DOMAIN g = 0..(k - 1)
      /\ \A j \in 0..(k - 1) :
           g[j] = IF j = 0 THEN <<>>
                  ELSE IF P[j] \in F THEN g[j - 1] ELSE Append(g[j - 1], P[j])
  BY <1>5 DEF Filters
<1> DEFINE h == [j \in 0..k |->
                   IF j = k THEN IF P[k] \in F THEN g[k - 1] ELSE Append(g[k - 1], P[k])
                   ELSE g[j]]
<1>7. \A j \in 0..k : h[j] = IF j = 0 THEN <<>>
                  ELSE IF P[j] \in F THEN h[j - 1] ELSE Append(h[j - 1], P[j])
  <2> TAKE j \in 0..k
  <2>1. CASE j = k
    BY <1>2, <1>3, <1>4, <2>1
  <2>2. CASE j # k
    <3>1. /\ j \in 0..(k - 1)
          /\ j # 0 => j - 1 \in 0..k /\ j - 1 # k
      BY <1>2, <2>2
    <3>2. h[j] = g[j] /\ (j # 0 => h[j - 1] = g[j - 1])
      BY <2>2, <3>1
    <3> HIDE DEF h
    <3>3. CASE j = 0
      BY <1>6, <3>1, <3>2, <3>3
    <3>4. CASE j # 0
      <4>1. g[j] = IF P[j] \in F THEN g[j - 1] ELSE Append(g[j - 1], P[j])
        BY <1>6, <3>1, <3>4
      <4> QED
        BY <3>2, <3>4, <4>1
    <3> QED
      BY <3>3, <3>4
  <2> QED
    BY <2>1, <2>2
<1>8. Filters(h, P, F, k)
  <2>1. DOMAIN h = 0..k /\ h = [j \in 0..k |-> h[j]]
    OBVIOUS
  <2> HIDE DEF h
  <2> QED
    BY <1>7, <2>1 DEF Filters
<1> QED
  BY <1>2, <1>8

(* What the loop has appended after n peers: those that are not in F. *)
Filtered(l, S, P, F, n) ==
  /\ l \in Seq(S)
  /\ \A x : x \in ToSet(l) <=> x \notin F /\ \E i \in 1..n : P[i] = x

LEMMA FiltersStep ==
  ASSUME NEW S, NEW P \in Seq(S), NEW F, NEW f, NEW n \in Nat, n <= Len(P),
         Filters(f, P, F, n), NEW k \in 0..n,
         k # 0 => Filtered(f[k - 1], S, P, F, k - 1)
  PROVE  Filtered(f[k], S, P, F, k)
<1>1. f[k] = IF k = 0 THEN <<>>
             ELSE IF P[k] \in F THEN f[k - 1] ELSE Append(f[k - 1], P[k])
  BY DEF Filters
<1>2. CASE k = 0
  <2>1. f[k] = <<>> /\ <<>> \in Seq(S) /\ 1..k = {} /\ ToSet(<<>>) = {}
    BY <1>1, <1>2 DEF ToSet
  <2> QED
    BY <2>1 DEF Filtered
<1>3. CASE k # 0
  <2>1. k \in 1..Len(P) /\ k - 1 \in Nat /\ P[k] \in S
    BY <1>3, Listed
  <2>2. /\ f[k - 1] \in Seq(S)
        /\ \A x : x \in ToSet(f[k - 1])
                    <=> x \notin F /\ \E i \in 1..(k - 1) : P[i] = x
    BY <1>3 DEF Filtered
  <2>3. \A x : (\E i \in 1..k : P[i] = x) <=> (\E i \in 1..(k - 1) : P[i] = x) \/ P[k] = x
    <3>1. 1..k = (1..(k - 1)) \union {k}
      BY <2>1
    <3> QED
      BY <3>1
  <2>4. CASE P[k] \in F
    <3>1. f[k] = f[k - 1]
      BY <1>1, <1>3, <2>4
    <3> QED
      BY <2>2, <2>3, <2>4, <3>1 DEF Filtered
  <2>5. CASE P[k] \notin F
    <3>1. f[k] = Append(f[k - 1], P[k])
      BY <1>1, <1>3, <2>5
    <3>2. \A x : x \in ToSet(f[k]) <=> x \in ToSet(f[k - 1]) \/ x = P[k]
      BY <2>1, <2>2, <3>1, Appended
    <3>3. f[k] \in Seq(S)
      BY <2>1, <2>2, <3>1, AppendProperties
    <3> QED
      BY <2>2, <2>3, <2>5, <3>2, <3>3 DEF Filtered
  <2> QED
    BY <2>4, <2>5
<1> QED
  BY <1>2, <1>3

(* The loop returns the peers that are not in F. *)
LEMMA UnfailedIs ==
  ASSUME NEW S, NEW P \in Seq(S), NEW F
  PROVE  /\ Unfailed(P, F) \in Seq(S)
         /\ ToSet(Unfailed(P, F)) = ToSet(P) \ F
<1>1. Len(P) \in Nat /\ \A x : x \in ToSet(P) <=> \E i \in 1..Len(P) : P[i] = x
  BY Listed
<1> DEFINE n == Len(P)
           f == CHOOSE f : Filters(f, P, F, n)
           T == {k \in 0..n : ~ Filtered(f[k], S, P, F, k)}
<1>2. n \in Nat
  BY <1>1
<1>3. Filters(f, P, F, n) /\ Unfailed(P, F) = f[n]
  BY <1>2, FilterExists, UnfailedFilters
<1> HIDE DEF f
<1>4. T = {}
  <2> SUFFICES ASSUME T # {} PROVE FALSE
    OBVIOUS
  <2>1. PICK k \in T : \A m \in T : k <= m
    <3>1. T \subseteq Nat
      BY <1>2
    <3> HIDE DEF T
    <3> QED
      BY <3>1, LeastNumber
  <2>2. k \in 0..n /\ ~ Filtered(f[k], S, P, F, k)
    OBVIOUS
  <2>3. k # 0 => Filtered(f[k - 1], S, P, F, k - 1)
    <3> SUFFICES ASSUME k # 0 PROVE k - 1 \in 0..n /\ k - 1 \notin T
      OBVIOUS
    <3>1. k - 1 \in 0..n /\ ~ (k <= k - 1)
      BY <1>2, <2>2
    <3> HIDE DEF T
    <3> QED
      BY <2>1, <3>1
  <2> QED
    BY <1>2, <1>3, <2>2, <2>3, FiltersStep
<1>5. Filtered(f[n], S, P, F, n)
  BY <1>2, <1>4
<1> QED
  BY <1>1, <1>3, <1>5 DEF Filtered
-----------------------------------------------------------------------------
(* The stand-ins of a write, and what a read has heard.                    *)

Begun == {"opening"} \union Grown

(* Each preferred peer that was tried has failed or has a writer, and the  *)
(* stand-in of the j-th that failed is the j-th node after them.           *)
StandIns(o) ==
  LET R == GetAllReplicas[digest[o]]
      F == ps[o].failed
  IN /\ \A j \in 1..Len(F) :
          \E k \in 1..ReplicationFactor : k <= ps[o].i /\ F[j] = R[k]
     /\ \A j, k \in 1..Len(F) : F[j] = F[k] => j = k
     /\ \A k \in 1..ReplicationFactor :
          k <= ps[o].i => R[k] \in ToSet(F) \union Peers(o)
     /\ \A w \in writers[o] : w.handoff # NoNode =>
          \E j \in 1..Len(F) :
            /\ w.handoff = F[j] /\ w.peer = R[ReplicationFactor + j]
            /\ ReplicationFactor + j <= ps[o].i

WriteOrder(o) ==
  /\ pc[o] \in Begun => StandIns(o)
  /\ pc[o] \in Grown => ReplicationFactor <= ps[o].i
  /\ pc[o] \notin Begun => ps[o] = NoPeers

(* The order in which read r asks the nodes. *)
Order(r) == ps[r].preferred \o ps[r].fallback

ReadPeersOK(r) ==
  /\ ps[r] \in AnyPeerSet
  /\ Len(ps[r].preferred) = ReplicationFactor
  /\ IsInjective(ps[r].preferred)
  /\ ToSet(ps[r].preferred) = ToSet(Preferred(digest[r]))
  /\ ps[r].fallback = Fallback(digest[r])
  /\ ps[r].i <= Len(GetAllReplicas[digest[r]])
  /\ ToSet(ps[r].failed) = erred[r] \intersect ToSet(ps[r].preferred)

(* The first n nodes in the order have been asked without success. *)
Heard(r, n) ==
  /\ erred[r] \union lacking[r] = {Order(r)[k] : k \in 1..n}
  /\ erred[r] \intersect lacking[r] = {}

(* No node that a known write went to has said that it lacks the digest. *)
KnownOK(r) ==
  \A w \in known[r] : /\ Done(w) /\ digest[w] = digest[r]
                      /\ Peers(w) \intersect lacking[r] = {}

(* What ReadSurvivesOne says of read r. *)
Survives(r) ==
  (\E w \in known[r] : FailedPeers(w) # ToSet(Preferred(digest[w])))
    => Cardinality(erred[r]) >= Min({2, ReplicationFactor})

Returning(r) ==
  /\ ps[r].i >= 1 /\ Heard(r, ps[r].i - 1)
  /\ Order(r)[ps[r].i] \notin erred[r] \union lacking[r]
  /\ digest[r] \in local[Order(r)[ps[r].i]]

ReadInv(r) ==
  /\ pc[r] \notin {"asking", "backfilling"} => ps[r] = NoPeers /\ lacking[r] = {}
  /\ pc[r] = "idle" => erred[r] = {}
  /\ pc[r] \in {"asking", "backfilling"} => ReadPeersOK(r)
  /\ pc[r] \in {"asking", "missing"} => KnownOK(r)
  /\ pc[r] = "asking" => Heard(r, ps[r].i)
  /\ pc[r] = "backfilling" => Returning(r)
  /\ pc[r] = "missing" => Survives(r)

NodeTypes ==
  /\ status \in [Node -> {"serving", "stopped", "crashed"}]
  /\ failures \in 0..MaxFailures
  /\ isolation \in {"cas", "ac"}

OrderTypes ==
  /\ \A n, p \in Node : Len(handoffs[n][p]) <= maxHintedHandoffsPerPeer
  /\ draining \subseteq Node \X Node
  /\ dropped \subseteq Node \X Digest

RequestTypes ==
  /\ pc \in [Op -> {"idle", "opening", "writing", "closing", "asking",
                    "backfilling", "ok", "missing", "error"}]
  /\ at \in [Op -> Node]
  /\ digest \in [Op -> Digest]
  /\ closeFailed \subseteq WriteOp

ReadTypes ==
  /\ erred \in [ReadOp -> SUBSET Node]
  /\ lacking \in [ReadOp -> SUBSET Node]
  /\ known \in [ReadOp -> SUBSET WriteOp]

AllTypes == NodeTypes /\ OrderTypes /\ RequestTypes /\ ReadTypes

ReadsInv ==
  /\ CacheInv /\ AllTypes
  /\ \A o \in WriteOp : WriteOrder(o)
  /\ \A r \in ReadOp : ReadInv(r)
-----------------------------------------------------------------------------
(* What a step does to one request.                                        *)

(* The write goes on with the same peers. *)
Carries(o) ==
  /\ digest'[o] = digest[o] /\ ps'[o] = ps[o] /\ Peers(o)' = Peers(o)
  /\ \A v \in writers'[o] :
       \E w \in writers[o] : v.peer = w.peer /\ v.handoff = w.handoff

WriteMoves(o) ==
  \/ Carries(o) /\ pc'[o] = pc[o]
  \/ /\ Carries(o) /\ pc'[o] \in Grown /\ pc[o] # "ok"
     /\ pc[o] \in Grown \/ (pc[o] = "opening" /\ ~HasNextPeer(ps[o]))
  \/ pc'[o] = "error" /\ pc[o] # "ok" /\ ps'[o] = NoPeers
  \/ \E n \in Node, d \in Digest : StartWrite(o, n, d)
  \/ OpenWriter(o)

ReadStays(r) ==
  /\ pc'[r] = pc[r] /\ digest'[r] = digest[r] /\ ps'[r] = ps[r]
  /\ erred'[r] = erred[r] /\ lacking'[r] = lacking[r] /\ known'[r] = known[r]

ReadEnds(r) ==
  /\ pc'[r] = "error" /\ ps'[r] = NoPeers
  /\ erred'[r] = {} /\ lacking'[r] = {} /\ known'[r] = {}

ReadMoves(r) ==
  \/ ReadStays(r)
  \/ ReadEnds(r)
  \/ \E n \in Node, d \in Digest : StartRead(r, n, d)
  \/ AskPeer(r) \/ AllAsked(r) \/ BackfillPeers(r)

LEMMA SameCarries ==
  ASSUME NEW o, digest'[o] = digest[o], ps'[o] = ps[o], writers'[o] = writers[o]
  PROVE  Carries(o)
BY DEF Carries, Peers

LEMMA FailMoves ==
  ASSUME CacheInv, ReadTypes, NEW n, NEW s, NEW ended, Fail(n, s, ended),
         \A q \in Op : q \in ended => InFlight(q)
  PROVE  /\ \A o \in WriteOp : WriteMoves(o)
         /\ \A r \in ReadOp : ReadMoves(r)
<1>1. /\ pc' = [q \in Op |-> IF q \in ended THEN "error" ELSE pc[q]]
      /\ ps' = [q \in Op |-> IF q \in ended THEN NoPeers ELSE ps[q]]
      /\ digest' = digest
      /\ erred' = [r \in ReadOp |-> IF r \in ended THEN {} ELSE erred[r]]
      /\ lacking' = [r \in ReadOp |-> IF r \in ended THEN {} ELSE lacking[r]]
      /\ known' = [r \in ReadOp |-> IF r \in ended THEN {} ELSE known[r]]
  BY DEF Fail
<1>2. ASSUME NEW o \in WriteOp PROVE WriteMoves(o)
  <2>1. o \in Op
    BY DEF Op
  <2>2. CASE o \in ended
    <3>1. pc'[o] = "error" /\ ps'[o] = NoPeers /\ pc[o] # "ok"
      BY <1>1, <2>1, <2>2 DEF InFlight, Returned
    <3> QED
      BY <3>1 DEF WriteMoves
  <2>3. CASE o \notin ended
    <3>1. pc'[o] = pc[o] /\ ps'[o] = ps[o] /\ digest'[o] = digest[o]
      BY <1>1, <2>1, <2>3
    <3>2. /\ unclosed'[o] = {Breaks(n, w) : w \in unclosed[o]}
          /\ writers'[o] = (writers[o] \ unclosed[o]) \union unclosed'[o]
      BY <2>3, FailWriters DEF CacheInv, CacheTypes
    <3>3. unclosed[o] \subseteq writers[o] /\ writers[o] \subseteq Writer
      BY DEF CacheInv, CacheTypes, WriterTypes
    <3>4. \A w \in unclosed[o] : Breaks(n, w).peer = w.peer
                                 /\ Breaks(n, w).handoff = w.handoff
      BY <3>3, BreaksKeeps
    <3>5. \A v \in writers'[o] :
            \E w \in writers[o] : v.peer = w.peer /\ v.handoff = w.handoff
      BY <3>2, <3>3, <3>4
    <3>6. \A w \in writers[o] : \E v \in writers'[o] : v.peer = w.peer
      BY <3>2, <3>4
    <3>7. Peers(o)' = Peers(o)
      BY <3>5, <3>6 DEF Peers
    <3> QED
      BY <3>1, <3>5, <3>7 DEF WriteMoves, Carries
  <2> QED
    BY <2>2, <2>3
<1>3. ASSUME NEW r \in ReadOp PROVE ReadMoves(r)
  <2>1. r \in Op
    BY DEF Op
  <2>2. CASE r \in ended
    BY <1>1, <2>1, <2>2 DEF ReadMoves, ReadEnds
  <2>3. CASE r \notin ended
    BY <1>1, <2>1, <2>3 DEF ReadMoves, ReadStays
  <2> QED
    BY <2>2, <2>3
<1> QED
  BY <1>2, <1>3

LEMMA AnswerWriteMoves ==
  ASSUME CacheInv, ReadTypes, NEW o \in WriteOp, pc[o] # "ok",
         AnswerWrite(o, "error") \/ (AnswerWrite(o, "ok") /\ pc[o] \in Grown)
  PROVE  WriteMoves(o)
<1>1. o \in Op /\ DOMAIN pc = Op /\ DOMAIN ps = Op /\ DOMAIN writers = WriteOp
  BY DEF Op, CacheInv, CacheTypes, OpTypes, WriterTypes
<1>2. CASE AnswerWrite(o, "error")
  BY <1>1, <1>2 DEF AnswerWrite, Answer, WriteMoves
<1>3. CASE AnswerWrite(o, "ok") /\ pc[o] \in Grown
  <2>1. pc'[o] = "ok" /\ digest' = digest /\ ps'[o] = ps[o] /\ writers'[o] = writers[o]
    BY <1>1, <1>3 DEF AnswerWrite, Answer
  <2> QED
    BY <1>3, <2>1, SameCarries DEF WriteMoves, Grown
<1> QED
  BY <1>2, <1>3

LEMMA WritesMove ==
  ASSUME CacheInv, ReadTypes, NEW q \in WriteOp,
         \/ \E n \in Node, d \in Digest : StartWrite(q, n, d)
         \/ OpenWriter(q) \/ AllOpened(q) \/ WriteData(q) \/ EndWrite(q)
         \/ \E w \in unclosed[q] : CloseWriter(q, w)
  PROVE  /\ \A o \in WriteOp : WriteMoves(o)
         /\ \A r \in ReadOp : ReadMoves(r)
<1> USE DEF Op
<1>1. /\ DOMAIN pc = Op /\ DOMAIN digest = Op /\ DOMAIN ps = Op
      /\ DOMAIN writers = WriteOp /\ q \in Op
  BY DEF CacheInv, CacheTypes, OpTypes, WriterTypes
<1>2. /\ UNCHANGED readVars
      /\ \A o \in Op : o # q =>
           pc'[o] = pc[o] /\ digest'[o] = digest[o] /\ ps'[o] = ps[o]
      /\ \A o \in WriteOp : o # q => writers'[o] = writers[o]
  <2>1. CASE \E n \in Node, d \in Digest : StartWrite(q, n, d)
    BY <1>1, <2>1 DEF StartWrite, Begin, writeVars, readVars
  <2>2. CASE OpenWriter(q)
    BY <1>1, <2>2 DEF OpenWriter, opVars, readVars
  <2>3. CASE \E a : AnswerWrite(q, a)
    BY <1>1, <2>3 DEF AnswerWrite, Answer, readVars
  <2>4. CASE AllOpened(q) \/ WriteData(q)
    BY <1>1, <2>3, <2>4 DEF AllOpened, WriteData, Go, opVars, writeVars, readVars
  <2>5. CASE EndWrite(q)
    BY <2>3, <2>5 DEF EndWrite
  <2>6. CASE \E w \in unclosed[q] : CloseWriter(q, w)
    BY <1>1, <2>6 DEF CloseWriter, opVars, readVars
  <2> QED
    BY <2>1, <2>2, <2>4, <2>5, <2>6
<1>3. ASSUME NEW o \in WriteOp, o # q PROVE WriteMoves(o)
  BY <1>2, <1>3, SameCarries DEF WriteMoves
<1>4. WriteMoves(q)
  <2>1. CASE (\E n \in Node, d \in Digest : StartWrite(q, n, d)) \/ OpenWriter(q)
    BY <2>1 DEF WriteMoves
  <2>2. CASE AllOpened(q) \/ WriteData(q)
    <3>1. (pc[q] = "opening" /\ ~HasNextPeer(ps[q])) \/ pc[q] = "writing"
      BY <2>2 DEF AllOpened, WriteData
    <3>2. \/ AnswerWrite(q, "error")
          \/ \E s \in Grown \ {"ok"} : Go(q, s) /\ UNCHANGED <<ps, writers>>
      BY <2>2 DEF AllOpened, WriteData, writeVars, Grown
    <3>3. CASE AnswerWrite(q, "error")
      BY <3>1, <3>3, AnswerWriteMoves
    <3>4. ASSUME NEW s \in Grown, Go(q, s), UNCHANGED <<ps, writers>>
          PROVE  WriteMoves(q)
      <4>1. pc'[q] \in Grown /\ digest' = digest
        BY <1>1, <3>4 DEF Go, opVars
      <4> QED
        BY <3>1, <3>4, <4>1, SameCarries DEF WriteMoves, Grown
    <3> QED
      BY <3>2, <3>3, <3>4
  <2>3. CASE EndWrite(q)
    BY <2>3, AnswerWriteMoves DEF EndWrite, Grown
  <2>4. CASE \E w \in unclosed[q] : CloseWriter(q, w)
    <3>1. UNCHANGED <<pc, digest, ps, writers>>
      BY <2>4 DEF CloseWriter, opVars
    <3> QED
      BY <3>1, SameCarries DEF WriteMoves
  <2> QED
    BY <2>1, <2>2, <2>3, <2>4
<1>5. ASSUME NEW r \in ReadOp PROVE ReadMoves(r)
  BY <1>2, <1>5, ReadsAreNotWrites DEF ReadMoves, ReadStays, readVars
<1> QED
  BY <1>3, <1>4, <1>5

LEMMA ReadsMove ==
  ASSUME CacheInv, ReadTypes, NEW q \in ReadOp,
         \/ \E n \in Node, d \in Digest : StartRead(q, n, d)
         \/ AskPeer(q) \/ AllAsked(q) \/ BackfillPeers(q)
  PROVE  /\ \A o \in WriteOp : WriteMoves(o)
         /\ \A r \in ReadOp : ReadMoves(r)
<1> USE DEF Op
<1>1. /\ DOMAIN pc = Op /\ DOMAIN digest = Op /\ DOMAIN ps = Op /\ q \in Op
      /\ DOMAIN erred = ReadOp /\ DOMAIN lacking = ReadOp /\ DOMAIN known = ReadOp
  BY DEF CacheInv, CacheTypes, OpTypes, ReadTypes
<1>2. /\ writers' = writers
      /\ \A o \in Op : o # q =>
           pc'[o] = pc[o] /\ digest'[o] = digest[o] /\ ps'[o] = ps[o]
      /\ \A r \in ReadOp : r # q =>
           erred'[r] = erred[r] /\ lacking'[r] = lacking[r] /\ known'[r] = known[r]
  <2>1. CASE \E n \in Node, d \in Digest : StartRead(q, n, d)
    BY <1>1, <2>1 DEF StartRead, Begin, writeVars
  <2>2. CASE AskPeer(q)
    BY <1>1, <2>2 DEF AskPeer, Go, opVars, writeVars
  <2>3. CASE \E a : AnswerRead(q, a)
    BY <1>1, <2>3 DEF AnswerRead, Answer, writeVars
  <2>4. CASE AllAsked(q) \/ BackfillPeers(q)
    BY <2>3, <2>4 DEF AllAsked, BackfillPeers
  <2> QED
    BY <2>1, <2>2, <2>4
<1>3. ASSUME NEW o \in WriteOp PROVE WriteMoves(o)
  BY <1>2, ReadsAreNotWrites, SameCarries DEF WriteMoves
<1>4. ASSUME NEW r \in ReadOp PROVE ReadMoves(r)
  BY <1>2 DEF ReadMoves, ReadStays
<1> QED
  BY <1>3, <1>4

LEMMA Moves ==
  ASSUME CacheInv, ReadTypes, [Next]_vars
  PROVE  /\ \A o \in WriteOp : WriteMoves(o)
         /\ \A r \in ReadOp : ReadMoves(r)
<1>1. ASSUME UNCHANGED <<pc, digest, ps, writers, readVars>>
      PROVE  /\ \A o \in WriteOp : WriteMoves(o)
             /\ \A r \in ReadOp : ReadMoves(r)
  BY <1>1, SameCarries DEF WriteMoves, ReadMoves, ReadStays, readVars
<1>2. ASSUME NEW n \in Node, NEW p \in Node,
             SendHeartbeat(n, p) \/ SendFile(n, p) \/ HandedOff(n, p)
      PROVE  UNCHANGED <<pc, digest, ps, writers, readVars>>
  BY <1>2 DEF SendHeartbeat, SendFile, HandedOff, opVars, writeVars
<1>3. ASSUME NEW n \in Node, StartListening(n)
      PROVE  UNCHANGED <<pc, digest, ps, writers, readVars>>
  BY <1>3 DEF StartListening, opVars, writeVars
<1>4. ASSUME NEW n \in Node, Shutdown(n) \/ Crash(n)
      PROVE  /\ \A o \in WriteOp : WriteMoves(o)
             /\ \A r \in ReadOp : ReadMoves(r)
  <2>1. \/ Fail(n, "stopped", {})
        \/ Fail(n, "crashed", {q \in Op : at[q] = n /\ InFlight(q)})
    BY <1>4 DEF Shutdown, Crash
  <2>2. PICK s, ended : Fail(n, s, ended) /\ \A q \in Op : q \in ended => InFlight(q)
    BY <2>1
  <2> QED
    BY <2>2, FailMoves
<1>5. ASSUME UNCHANGED vars
      PROVE  UNCHANGED <<pc, digest, ps, writers, readVars>>
  BY <1>5 DEF vars, opVars, writeVars
<1> QED
  BY <1>1, <1>2, <1>3, <1>4, <1>5, WritesMove, ReadsMove DEF Next
-----------------------------------------------------------------------------
(* The invariant of a write's stand-ins, step by step.                     *)

LEMMA AnyNodeIsNode == AnyNode \in Node /\ AnyDigest \in Digest
<1>1. AnyDigest \in Digest
  BY CacheConstantsOK DEF AnyDigest
<1>2. PICK d \in Digest : TRUE
  BY <1>1
<1>3. 1 \in 1..Len(GetAllReplicas[d]) /\ GetAllReplicas[d][1] \in Node
  <2>1. /\ ReplicationFactor \in Nat \ {0} /\ Len(GetAllReplicas[d]) \in Nat
        /\ ReplicationFactor <= Len(GetAllReplicas[d])
        /\ \A k \in 1..Len(GetAllReplicas[d]) : GetAllReplicas[d][k] \in Node
    BY RingOrder
  <2>2. 1 \in 1..Len(GetAllReplicas[d])
    BY <2>1
  <2> QED
    BY <2>1, <2>2
<1> QED
  BY <1>1, <1>3 DEF AnyNode

LEMMA CarriesOrder ==
  ASSUME NEW o \in WriteOp, StandIns(o), Carries(o)
  PROVE  StandIns(o)'
BY DEF StandIns, Carries

(* One more node has been tried, and it has failed or has a writer now. *)
LEMMA TriedOrder ==
  ASSUME CacheInv, NEW o \in WriteOp, StandIns(o), OpenWriter(o)
  PROVE  StandIns(o)'
<1> DEFINE R == GetAllReplicas[digest[o]]
           F == ps[o].failed
           G == ps'[o].failed
           i == ps[o].i
           rf == ReplicationFactor
           p == NextPeer(ps[o])
           h == HintedHandoff(ps[o])
<1>1. /\ digest[o] \in Digest /\ digest'[o] = digest[o] /\ PeerSetOK(o)
      /\ HasNextPeer(ps[o])
  BY DEF OpenWriter, CacheInv, WriteInv, CacheTypes, OpTypes, Op, opVars
<1>2. /\ i \in Nat /\ rf \in Nat /\ Len(R) \in Nat /\ rf <= Len(R)
      /\ \A j, k \in 1..Len(R) : R[j] = R[k] => j = k
      /\ F \in Seq(Node) /\ Len(F) \in Nat /\ ps[o] \in AnyPeerSet
  BY <1>1, RingOrder, LenProperties DEF PeerSetOK, AnyPeerSet
<1>3. /\ i < Len(R) /\ p = R[i + 1] /\ p \in Node
      /\ i < rf => p \in ToSet(ps[o].preferred) /\ h = NoNode
      /\ i >= rf => /\ p \notin ToSet(ps[o].preferred)
                    /\ i - rf + 1 \in 1..Len(F) /\ h = F[i - rf + 1]
  BY <1>1, NextInRing
<1>4. /\ \A j \in 1..Len(F) : \E k \in 1..rf : k <= i /\ F[j] = R[k]
      /\ \A j, k \in 1..Len(F) : F[j] = F[k] => j = k
      /\ \A k \in 1..rf : k <= i => R[k] \in ToSet(F) \union Peers(o)
      /\ \A w \in writers[o] : w.handoff # NoNode =>
           \E j \in 1..Len(F) : /\ w.handoff = F[j] /\ w.peer = R[rf + j]
                                /\ rf + j <= i
  BY DEF StandIns
<1>5. DOMAIN ps = Op /\ o \in Op /\ DOMAIN writers = WriteOp
  BY DEF CacheInv, CacheTypes, OpTypes, WriterTypes, Op
<1>6. \/ /\ ps'[o] = MarkPeerAsFailed(Advance(ps[o]), p) /\ writers'[o] = writers[o]
      \/ /\ ps'[o] = Advance(ps[o])
         /\ \E via : writers'[o] = writers[o]
                       \union {[peer |-> p, via |-> via, handoff |-> h]}
  BY <1>5 DEF OpenWriter
<1>7. /\ Advance(ps[o]).i = i + 1 /\ Advance(ps[o]).failed = F
      /\ Advance(ps[o]).preferred = ps[o].preferred /\ Advance(ps[o]) \in AnyPeerSet
  BY <1>2, Advanced
<1>8. \A k \in 1..rf : k <= i + 1 => k <= i \/ (i < rf /\ k = i + 1)
  BY <1>2
<1>9. SUFFICES /\ ps'[o].i = i + 1
               /\ \A j \in 1..Len(G) : \E k \in 1..rf : k <= i + 1 /\ G[j] = R[k]
               /\ \A j, k \in 1..Len(G) : G[j] = G[k] => j = k
               /\ \A k \in 1..rf : k <= i + 1 => R[k] \in ToSet(G) \union Peers(o)'
               /\ \A w \in writers'[o] : w.handoff # NoNode =>
                    \E j \in 1..Len(G) : /\ w.handoff = G[j] /\ w.peer = R[rf + j]
                                         /\ rf + j <= i + 1
  <2> HIDE DEF i
  <2> QED
    BY <1>1 DEF StandIns
<1>10. \A k : k <= i /\ k \in 1..rf => k <= i + 1
  BY <1>2
<1>11. \A w \in writers[o] : w.handoff # NoNode =>
         \E j \in 1..Len(F) : /\ w.handoff = F[j] /\ w.peer = R[rf + j]
                              /\ rf + j <= i + 1
  <2> SUFFICES ASSUME NEW w \in writers[o], w.handoff # NoNode
               PROVE  \E j \in 1..Len(F) : /\ w.handoff = F[j] /\ w.peer = R[rf + j]
                                           /\ rf + j <= i + 1
    OBVIOUS
  <2>1. PICK j \in 1..Len(F) : /\ w.handoff = F[j] /\ w.peer = R[rf + j]
                               /\ rf + j <= i
    BY <1>4
  <2>2. rf + j <= i + 1
    BY <1>2, <2>1
  <2> QED
    BY <2>1, <2>2
<1>12. CASE ps'[o] = MarkPeerAsFailed(Advance(ps[o]), p) /\ writers'[o] = writers[o]
            /\ i < rf
  <2>1. p \in ToSet(Advance(ps[o]).preferred)
    BY <1>3, <1>7, <1>12
  <2>2. ps'[o] = [Advance(ps[o]) EXCEPT !.failed = Append(F, p)]
    BY <1>7, <1>12, <2>1 DEF MarkPeerAsFailed
  <2>3. ps'[o].i = i + 1 /\ G = Append(F, p)
    BY <1>7, <2>2 DEF AnyPeerSet
  <2>4. /\ Len(G) = Len(F) + 1 /\ \A j \in 1..Len(F) : G[j] = F[j]
        /\ G[Len(F) + 1] = p
    BY <1>2, <1>3, <2>3, AppendProperties
  <2>5. \A x : x \in ToSet(G) <=> x \in ToSet(F) \/ x = p
    BY <1>2, <1>3, <2>3, Appended
  <2>6. Peers(o)' = Peers(o)
    BY <1>12 DEF Peers
  <2> DEFINE n == Len(F)
             m == Len(G)
  <2>7. m = n + 1 /\ n \in Nat /\ i + 1 \in 1..rf /\ i + 1 \in 1..Len(R)
        /\ \A j \in 1..m : j \in 1..n \/ j = n + 1
    BY <1>2, <1>12, <2>4
  <2> HIDE DEF R, F, G, i, rf, p, h, n, m
  <2>8. \A j \in 1..n : F[j] # p
    <3> SUFFICES ASSUME NEW j \in 1..n, F[j] = p PROVE FALSE
      OBVIOUS
    <3>1. PICK k \in 1..rf : k <= i /\ F[j] = R[k]
      BY <1>4 DEF n
    <3>2. k \in 1..Len(R) /\ k # i + 1
      BY <1>2, <3>1
    <3> QED
      BY <1>2, <1>3, <2>7, <3>1, <3>2
  <2>9. \A j \in 1..m : \E k \in 1..rf : k <= i + 1 /\ G[j] = R[k]
    <3> TAKE j \in 1..m
    <3>1. CASE j \in 1..n
      BY <1>4, <1>10, <2>4, <3>1 DEF n
    <3>2. CASE j = n + 1
      <4>1. i + 1 <= i + 1
        BY <1>2
      <4> QED
        BY <1>3, <2>4, <2>7, <3>2, <4>1 DEF n
    <3> QED
      BY <2>7, <3>1, <3>2
  <2>10. \A j, k \in 1..m : G[j] = G[k] => j = k
    BY <1>4, <2>4, <2>7, <2>8 DEF n
  <2>11. \A k \in 1..rf : k <= i + 1 => R[k] \in ToSet(G) \union Peers(o)
    BY <1>3, <1>4, <1>8, <2>5
  <2>12. \A w \in writers[o] : w.handoff # NoNode =>
           \E j \in 1..m : /\ w.handoff = G[j] /\ w.peer = R[rf + j]
                           /\ rf + j <= i + 1
    <3>1. 1..n \subseteq 1..m
      BY <2>7
    <3> QED
      BY <1>11, <2>4, <3>1 DEF n
  <2> QED
    BY <1>12, <2>3, <2>6, <2>9, <2>10, <2>11, <2>12 DEF m
<1>13. CASE ps'[o] = MarkPeerAsFailed(Advance(ps[o]), p) /\ writers'[o] = writers[o]
            /\ ~(i < rf)
  <2>1. p \notin ToSet(Advance(ps[o]).preferred)
    <3>1. i >= rf
      BY <1>2, <1>13
    <3> QED
      BY <1>3, <1>7, <3>1
  <2>2. ps'[o].i = i + 1 /\ G = F
    BY <1>7, <1>13, <2>1 DEF MarkPeerAsFailed
  <2>3. Peers(o)' = Peers(o)
    BY <1>13 DEF Peers
  <2> HIDE DEF R, F, G, i, rf, p, h
  <2> QED
    BY <1>4, <1>8, <1>10, <1>11, <1>13, <2>2, <2>3
<1>14. CASE /\ ps'[o] = Advance(ps[o])
            /\ \E via : writers'[o] = writers[o]
                          \union {[peer |-> p, via |-> via, handoff |-> h]}
  <2>1. PICK via : writers'[o] = writers[o]
                          \union {[peer |-> p, via |-> via, handoff |-> h]}
    BY <1>14
  <2> DEFINE w == [peer |-> p, via |-> via, handoff |-> h]
  <2>2. writers'[o] = writers[o] \union {w} /\ w.peer = p /\ w.handoff = h
    BY <2>1
  <2>3. ps'[o].i = i + 1 /\ G = F
    BY <1>7, <1>14
  <2> HIDE DEF w, R, F, G, i, rf, p, h
  <2>4. Peers(o)' = Peers(o) \union {p}
    <3>1. Peers(o)' = {v.peer : v \in writers[o] \union {w}}
      BY <2>2 DEF Peers
    <3> QED
      BY <2>2, <3>1 DEF Peers
  <2>5. \A k \in 1..rf : k <= i + 1 => R[k] \in ToSet(G) \union Peers(o)'
    BY <1>3, <1>4, <1>8, <2>3, <2>4
  <2>6. h # NoNode => \E j \in 1..Len(F) : h = F[j] /\ p = R[rf + j] /\ rf + j <= i + 1
    <3> SUFFICES ASSUME h # NoNode PROVE i - rf + 1 \in 1..Len(F)
                   /\ h = F[i - rf + 1] /\ p = R[rf + (i - rf + 1)]
                   /\ rf + (i - rf + 1) <= i + 1
      OBVIOUS
    <3>1. i >= rf /\ rf + (i - rf + 1) = i + 1 /\ i + 1 <= i + 1
      BY <1>2, <1>3
    <3> QED
      BY <1>3, <3>1
  <2>7. \A v \in writers'[o] : v.handoff # NoNode =>
          \E j \in 1..Len(G) : /\ v.handoff = G[j] /\ v.peer = R[rf + j]
                               /\ rf + j <= i + 1
    BY <1>11, <2>2, <2>3, <2>6
  <2> QED
    BY <1>4, <1>10, <2>3, <2>5, <2>7
<1>15. i < rf \/ ~(i < rf)
  OBVIOUS
<1> QED
  BY <1>6, <1>12, <1>13, <1>14, <1>15

LEMMA WriteOrderStep ==
  ASSUME CacheInv, ReadTypes, [Next]_vars, NEW o \in WriteOp, WriteOrder(o)
  PROVE  WriteOrder(o)'
<1>1. WriteMoves(o) /\ o \in Op /\ pc[o] \in WriteState /\ WriteInv(o)
  BY Moves DEF Op, CacheInv, CacheTypes, OpTypes
<1>2. CASE Carries(o) /\ pc'[o] = pc[o]
  BY <1>2, CarriesOrder DEF WriteOrder, Carries
<1>3. CASE /\ Carries(o) /\ pc'[o] \in Grown /\ pc[o] # "ok"
           /\ pc[o] \in Grown \/ (pc[o] = "opening" /\ ~HasNextPeer(ps[o]))
  <2>1. StandIns(o)'
    BY <1>3, CarriesOrder DEF WriteOrder, Begun
  <2>2. ps'[o] = ps[o] /\ ReplicationFactor <= ps[o].i
    <3>1. CASE pc[o] \in Grown
      BY <1>3, <3>1 DEF WriteOrder, Carries
    <3>2. CASE pc[o] = "opening" /\ ~HasNextPeer(ps[o])
      <4>1. digest[o] \in Digest /\ PeerSetOK(o)
        BY <1>1, <3>2 DEF WriteInv, CacheInv, CacheTypes, OpTypes
      <4>2. Len(ps[o].preferred) = ReplicationFactor /\ ReplicationFactor \in Nat
            /\ ps[o].i \in Nat
        BY <4>1, RingOrder DEF PeerSetOK, AnyPeerSet
      <4>3. ~(ps[o].i < Len(ps[o].preferred))
        BY <3>2 DEF HasNextPeer
      <4> QED
        BY <1>3, <4>2, <4>3 DEF Carries
    <3> QED
      BY <1>3, <3>1, <3>2
  <2> QED
    BY <1>3, <2>1, <2>2 DEF WriteOrder, Begun
<1>4. CASE pc'[o] = "error" /\ ps'[o] = NoPeers
  BY <1>4 DEF WriteOrder, Begun, Grown
<1>5. ASSUME NEW n \in Node, NEW d \in Digest, StartWrite(o, n, d)
      PROVE  WriteOrder(o)'
  <2>1. /\ pc'[o] = "opening" /\ ps'[o] = NewPeerSet(Preferred(d), Fallback(d))
        /\ writers'[o] = writers[o] /\ writers[o] = {}
    BY <1>1, <1>5 DEF StartWrite, Begin, writeVars, WriteInv, CacheInv, CacheTypes,
       OpTypes
  <2>2. ps'[o].failed = <<>> /\ ps'[o].i = 0 /\ Len(<<>>) = 0
    BY <2>1, EmptySeq DEF NewPeerSet
  <2>3. ReplicationFactor \in Nat /\ \A k \in 1..ReplicationFactor : ~(k <= 0)
    BY CacheConstantsOK
  <2>4. StandIns(o)'
    BY <2>1, <2>2, <2>3 DEF StandIns
  <2> QED
    BY <2>1, <2>4 DEF WriteOrder, Begun, Grown
<1>6. CASE OpenWriter(o)
  <2>1. pc'[o] = "opening" /\ StandIns(o)
    BY <1>6 DEF OpenWriter, WriteOrder, Begun
  <2>2. StandIns(o)'
    BY <1>6, <2>1, TriedOrder
  <2> QED
    BY <2>1, <2>2 DEF WriteOrder, Begun, Grown
<1> QED
  BY <1>1, <1>2, <1>3, <1>4, <1>5, <1>6 DEF WriteMoves
-----------------------------------------------------------------------------
(* The order in which a read asks.                                         *)

LEMMA ReadOrder ==
  ASSUME NEW r \in ReadOp, digest[r] \in Digest, ReadPeersOK(r)
  PROVE  LET O  == Order(r)
             R  == GetAllReplicas[digest[r]]
             rf == ReplicationFactor
         IN /\ \A k \in 1..Len(R) : O[k] \in Node
            /\ \A k \in 1..rf : O[k] = ps[r].preferred[k]
                                /\ O[k] \in ToSet(ps[r].preferred)
            /\ \A x \in ToSet(ps[r].preferred) : \E k \in 1..rf : O[k] = x
            /\ \A k \in 1..Len(R) : k > rf => /\ O[k] = ps[r].fallback[k - rf]
                                              /\ O[k] = R[k]
                                              /\ O[k] \notin ToSet(ps[r].preferred)
            /\ \A j, k \in 1..Len(R) : O[j] = O[k] => j = k
<1> DEFINE O  == Order(r)
           R  == GetAllReplicas[digest[r]]
           rf == ReplicationFactor
           P  == ps[r].preferred
           B  == ps[r].fallback
           L  == Len(R)
<1>1. /\ rf \in Nat /\ L \in Nat /\ rf <= L
      /\ \A k \in 1..L : R[k] \in Node
      /\ \A j, k \in 1..L : R[j] = R[k] => j = k
      /\ Preferred(digest[r]) \in Seq(Node) /\ Len(Preferred(digest[r])) = rf
      /\ \A k \in 1..rf : Preferred(digest[r])[k] = R[k]
      /\ Fallback(digest[r]) \in Seq(Node) /\ Len(Fallback(digest[r])) = L - rf
      /\ \A k \in 1..(L - rf) : Fallback(digest[r])[k] = R[rf + k]
  BY RingOrder
<1>2. /\ P \in Seq(Node) /\ Len(P) = rf /\ IsInjective(P)
      /\ ToSet(P) = ToSet(Preferred(digest[r])) /\ B = Fallback(digest[r])
  BY DEF ReadPeersOK, AnyPeerSet
<1>3. /\ DOMAIN P = 1..rf /\ \A j, k \in 1..rf : P[j] = P[k] => j = k
      /\ \A k \in 1..rf : P[k] \in Node /\ P[k] \in ToSet(P)
      /\ \A x : x \in ToSet(P) <=> \E k \in 1..rf : P[k] = x
  <2>1. DOMAIN P = 1..rf
    BY <1>2, LenProperties
  <2>2. \A j, k \in 1..rf : P[j] = P[k] => j = k
    BY <1>2, <2>1 DEF IsInjective
  <2> QED
    BY <1>2, <2>1, <2>2, Listed
<1>4. \A x : x \in ToSet(P) <=> \E k \in 1..rf : R[k] = x
  <2> DEFINE Q == Preferred(digest[r])
  <2>1. \A x : x \in ToSet(Q) <=> \E k \in 1..Len(Q) : Q[k] = x
    BY <1>1, Listed
  <2> HIDE DEF R, rf, P
  <2>2. \A x : x \in ToSet(Q) <=> \E k \in 1..rf : R[k] = x
    BY <1>1, <2>1
  <2> QED
    BY <1>2, <2>2
<1>5. /\ Len(P \o B) = rf + (L - rf)
      /\ \A k \in 1..rf : (P \o B)[k] = P[k]
      /\ \A k \in 1..(rf + (L - rf)) : k > rf => (P \o B)[k] = B[k - rf]
  <2>1. B \in Seq(Node) /\ Len(B) = L - rf
    BY <1>1, <1>2
  <2> HIDE DEF P, B, L, rf
  <2>2. /\ Len(P \o B) = Len(P) + Len(B)
        /\ \A k \in 1..(Len(P) + Len(B)) :
             (P \o B)[k] = IF k <= Len(P) THEN P[k] ELSE B[k - Len(P)]
    BY <1>2, <2>1, ConcatProperties
  <2>3. /\ \A k \in 1..rf : k \in 1..(rf + (L - rf)) /\ k <= rf
        /\ \A k \in 1..(rf + (L - rf)) : k > rf => ~(k <= rf)
    BY <1>1
  <2> QED
    BY <1>2, <2>1, <2>2, <2>3
<1>6. O = P \o B
  BY DEF Order
<1> HIDE DEF O, R, rf, P, B, L
<1>7. \A k \in 1..L : k > rf =>
        /\ k - rf \in 1..(L - rf) /\ rf + (k - rf) = k /\ k \in 1..(rf + (L - rf))
  BY <1>1
<1>8. \A k \in 1..L : k > rf => O[k] = B[k - rf] /\ O[k] = R[k]
  BY <1>1, <1>2, <1>5, <1>6, <1>7
<1>9. \A k \in 1..L : k > rf => O[k] \notin ToSet(P)
  <2> SUFFICES ASSUME NEW k \in 1..L, k > rf, O[k] \in ToSet(P) PROVE FALSE
    OBVIOUS
  <2>1. PICK j \in 1..rf : R[j] = R[k]
    BY <1>4, <1>8
  <2>2. j \in 1..L /\ j # k
    BY <1>1
  <2> QED
    BY <1>1, <2>1, <2>2
<1>10. \A k \in 1..rf : O[k] = P[k] /\ O[k] \in ToSet(P)
  BY <1>3, <1>5, <1>6
<1>11. \A k \in 1..L : k \in 1..rf \/ k > rf
  BY <1>1
<1>12. \A k \in 1..L : O[k] \in Node
  BY <1>1, <1>3, <1>8, <1>10, <1>11
<1>13. \A j, k \in 1..L : O[j] = O[k] => j = k
  <2> SUFFICES ASSUME NEW j \in 1..L, NEW k \in 1..L, O[j] = O[k] PROVE j = k
    OBVIOUS
  <2>1. CASE j \in 1..rf /\ k \in 1..rf
    BY <1>3, <1>10, <2>1
  <2>2. CASE j > rf /\ k > rf
    BY <1>1, <1>8, <2>2
  <2>3. ~(j \in 1..rf /\ k > rf) /\ ~(j > rf /\ k \in 1..rf)
    BY <1>9, <1>10
  <2> QED
    BY <1>11, <2>1, <2>2, <2>3
<1>14. \A x \in ToSet(P) : \E k \in 1..rf : O[k] = x
  BY <1>3, <1>10
<1> QED
  BY <1>8, <1>9, <1>10, <1>12, <1>13, <1>14 DEF O, R, rf, P, B, L

LEMMA ReadNext ==
  ASSUME NEW r \in ReadOp, digest[r] \in Digest, ReadPeersOK(r), HasNextPeer(ps[r])
  PROVE  LET i == ps[r].i
         IN /\ i \in Nat /\ i + 1 \in 1..Len(GetAllReplicas[digest[r]])
            /\ NextPeer(ps[r]) = Order(r)[i + 1] /\ NextPeer(ps[r]) \in Node
<1> DEFINE R == GetAllReplicas[digest[r]]
           rf == ReplicationFactor
           i == ps[r].i
           L == Len(R)
           P == ps[r].preferred
           B == ps[r].fallback
<1>1. /\ rf \in Nat /\ L \in Nat /\ rf <= L /\ Len(Fallback(digest[r])) = L - rf
  BY RingOrder
<1>2. i \in Nat /\ i <= L /\ Len(P) = rf /\ Len(B) = L - rf
  BY <1>1 DEF ReadPeersOK, AnyPeerSet
<1>3. /\ \A k \in 1..L : Order(r)[k] \in Node
      /\ \A k \in 1..rf : Order(r)[k] = P[k]
      /\ \A k \in 1..L : k > rf => Order(r)[k] = B[k - rf]
  BY ReadOrder
<1>4. i < rf \/ i - rf + 1 <= L - rf
  BY <1>2 DEF HasNextPeer, FallbackIndex
<1>5. NextPeer(ps[r]) = IF i < rf THEN P[i + 1] ELSE B[i - rf + 1]
  BY <1>2 DEF NextPeer, FallbackIndex
<1> HIDE DEF R, rf, i, L, P, B
<1>6. /\ i + 1 \in 1..L
      /\ i < rf => i + 1 \in 1..rf
      /\ ~(i < rf) => i + 1 > rf /\ (i + 1) - rf = i - rf + 1
  BY <1>1, <1>2, <1>4
<1>7. NextPeer(ps[r]) = Order(r)[i + 1]
  BY <1>3, <1>5, <1>6
<1> QED
  BY <1>2, <1>3, <1>6, <1>7 DEF i, L, R

(* One more node has been heard. *)
LEMMA HeardMore ==
  ASSUME NEW r \in ReadOp, digest[r] \in Digest, ReadPeersOK(r), HasNextPeer(ps[r]),
         Heard(r, ps[r].i)
  PROVE  LET p == NextPeer(ps[r])
         IN /\ p \notin erred[r] \union lacking[r]
            /\ (erred[r] \union lacking[r]) \union {p}
                 = {Order(r)[k] : k \in 1..(ps[r].i + 1)}
<1> DEFINE L == Len(GetAllReplicas[digest[r]])
           i == ps[r].i
           O == Order(r)
<1>1. i \in Nat /\ i + 1 \in 1..L /\ NextPeer(ps[r]) = O[i + 1] /\ L \in Nat
  BY ReadNext, RingOrder
<1>2. \A j, k \in 1..L : O[j] = O[k] => j = k
  BY ReadOrder
<1>3. erred[r] \union lacking[r] = {O[k] : k \in 1..i}
  BY DEF Heard
<1> HIDE DEF L, i, O
<1>4. 1..(i + 1) = (1..i) \union {i + 1} /\ \A k \in 1..i : k \in 1..L /\ k # i + 1
  BY <1>1
<1>5. O[i + 1] \notin {O[k] : k \in 1..i}
  BY <1>1, <1>2, <1>4
<1>6. {O[k] : k \in 1..(i + 1)} = {O[k] : k \in 1..i} \union {O[i + 1]}
  BY <1>4
<1> QED
  BY <1>1, <1>3, <1>5, <1>6 DEF i, O
-----------------------------------------------------------------------------
(* A read that misses has asked enough nodes that failed.                  *)

LEMMA SmallerOf ==
  ASSUME NEW a \in Nat, NEW b \in Nat
  PROVE  Min({a, b}) = IF a <= b THEN a ELSE b
<1> DEFINE m == IF a <= b THEN a ELSE b
<1>1. m \in {a, b} /\ \A y \in {a, b} : m <= y
  OBVIOUS
<1>2. \A x \in {a, b} : (\A y \in {a, b} : x <= y) => x = m
  OBVIOUS
<1> HIDE DEF m
<1>3. Min({a, b}) = m
  BY <1>1, <1>2 DEF Min
<1> QED
  BY <1>3 DEF m

LEMMA AtLeast ==
  ASSUME NEW S, IsFiniteSet(S), NEW p \in S
  PROVE  /\ Cardinality(S) \in Nat /\ Cardinality(S) >= 1
         /\ \A q \in S : q # p => Cardinality(S) >= 2
<1>1. /\ IsFiniteSet({p}) /\ Cardinality({p}) = 1 /\ Cardinality(S) \in Nat
  BY FS_Singleton, FS_CardinalityType
<1>2. Cardinality({p}) <= Cardinality(S)
  BY FS_Subset
<1>3. ASSUME NEW q \in S, q # p PROVE Cardinality(S) >= 2
  <2>1. Cardinality({p} \union {q}) = 2
    <3>1. q \notin {p} /\ 1 + 1 = 2
      BY <1>3
    <3>2. Cardinality({p} \union {q})
            = IF q \in {p} THEN Cardinality({p}) ELSE Cardinality({p}) + 1
      BY <1>1, FS_AddElement
    <3> QED
      BY <1>1, <3>1, <3>2
  <2>2. Cardinality({p} \union {q}) <= Cardinality(S)
    BY <1>3, FS_Subset
  <2> QED
    BY <1>1, <2>1, <2>2
<1> QED
  BY <1>1, <1>2, <1>3

(* An acknowledged write has a copy on each preferred peer that did not    *)
(* fail, and on the first fallback peer if one did.                        *)
LEMMA AckedCopies ==
  ASSUME CacheInv, NEW w \in WriteOp, WriteOrder(w), Done(w)
  PROVE  LET R  == GetAllReplicas[digest[w]]
             rf == ReplicationFactor
         IN /\ digest[w] \in Digest
            /\ FailedPeers(w) \subseteq ToSet(Preferred(digest[w]))
            /\ \A k \in 1..rf : R[k] \in FailedPeers(w) \/ R[k] \in Peers(w)
            /\ FailedPeers(w) # {} => rf + 1 \in 1..Len(R) /\ R[rf + 1] \in Peers(w)
<1> DEFINE R  == GetAllReplicas[digest[w]]
           rf == ReplicationFactor
           F  == ps[w].failed
           L  == Len(R)
<1>1. pc[w] = "ok" /\ digest[w] \in Digest /\ PeerSetOK(w) /\ GrownOK(w) /\ StandIns(w)
      /\ rf <= ps[w].i
  BY DEF Done, CacheInv, CacheTypes, OpTypes, WriteInv, WriteOrder, Begun, Grown, Op
<1>2. /\ rf \in Nat \ {0} /\ L \in Nat /\ rf <= L
      /\ Preferred(digest[w]) \in Seq(Node) /\ Len(Preferred(digest[w])) = rf
      /\ \A k \in 1..rf : Preferred(digest[w])[k] = R[k]
  BY <1>1, RingOrder
<1>3. \A x : x \in ToSet(Preferred(digest[w])) <=> \E k \in 1..rf : R[k] = x
  <2> DEFINE Q == Preferred(digest[w])
  <2>1. \A x : x \in ToSet(Q) <=> \E k \in 1..Len(Q) : Q[k] = x
    BY <1>2, Listed
  <2> HIDE DEF R, rf
  <2> QED
    BY <1>2, <2>1
<1>4. F \in Seq(Node) /\ Len(F) \in Nat /\ ps[w].i \in Nat /\ ps[w].i <= L
      /\ \A x : x \in FailedPeers(w) <=> \E j \in 1..Len(F) : F[j] = x
      /\ FailedPeers(w) \subseteq Node
  <2>1. F \in Seq(Node) /\ ps[w].i \in Nat /\ ps[w].i <= L
    BY <1>1 DEF PeerSetOK, AnyPeerSet
  <2>2. FailedPeers(w) = ToSet(F)
    BY DEF FailedPeers
  <2> HIDE DEF F
  <2> QED
    BY <2>1, <2>2, Listed
<1>5. /\ \A j \in 1..Len(F) : \E k \in 1..rf : k <= ps[w].i /\ F[j] = R[k]
      /\ \A j, k \in 1..Len(F) : F[j] = F[k] => j = k
      /\ \A k \in 1..rf : k <= ps[w].i => R[k] \in ToSet(F) \union Peers(w)
      /\ \A v \in writers[w] : v.handoff # NoNode =>
           \E j \in 1..Len(F) : /\ v.handoff = F[j] /\ v.peer = R[rf + j]
                                /\ rf + j <= ps[w].i
  BY <1>1 DEF StandIns
<1>6. FailedPeers(w) = ToSet(F)
  BY DEF FailedPeers
<1> HIDE DEF R, rf, F, L
<1>7. FailedPeers(w) \subseteq ToSet(Preferred(digest[w]))
  BY <1>3, <1>4, <1>5
<1>8. \A k \in 1..rf : R[k] \in FailedPeers(w) \/ R[k] \in Peers(w)
  <2>1. \A k \in 1..rf : k <= ps[w].i
    BY <1>1, <1>2, <1>4
  <2> QED
    BY <1>5, <1>6, <2>1
<1>9. ASSUME FailedPeers(w) # {} PROVE rf + 1 \in 1..L /\ R[rf + 1] \in Peers(w)
  <2>1. 1 \in 1..Len(F)
    <3>1. PICK j \in 1..Len(F) : TRUE
      BY <1>4, <1>9
    <3> QED
      BY <1>4, <3>1
  <2>2. F[1] \in FailedPeers(w) /\ F[1] \in Node
    BY <1>4, <2>1
  <2>3. PICK v \in writers[w] : v.handoff = F[1]
    BY <1>1, <1>6, <2>2 DEF GrownOK, F
  <2>4. v.handoff # NoNode
    BY <2>2, <2>3, NoNodeIsNone
  <2>5. PICK j \in 1..Len(F) : /\ v.handoff = F[j] /\ v.peer = R[rf + j]
                               /\ rf + j <= ps[w].i
    <3>1. v \in writers[w]
      BY <2>3
    <3> QED
      BY <1>5, <2>4, <3>1
  <2>6. j = 1
    BY <1>5, <2>1, <2>3, <2>5
  <2>7. v.peer = R[rf + 1] /\ v.peer \in Peers(w)
    BY <2>5, <2>6 DEF Peers
  <2>8. rf + 1 <= L
    BY <1>2, <1>4, <2>5, <2>6
  <2> QED
    BY <1>2, <2>7, <2>8
<1> QED
  BY <1>1, <1>7, <1>8, <1>9 DEF R, rf, L

LEMMA Misses ==
  ASSUME CacheInv, ReadTypes, NEW r \in ReadOp, digest[r] \in Digest,
         ReadPeersOK(r), ~HasNextPeer(ps[r]), Heard(r, ps[r].i), KnownOK(r),
         \A o \in WriteOp : WriteOrder(o)
  PROVE  Survives(r)
<1> SUFFICES ASSUME NEW w \in known[r],
                    FailedPeers(w) # ToSet(Preferred(digest[w]))
             PROVE  Cardinality(erred[r]) >= Min({2, ReplicationFactor})
  BY DEF Survives
<1> DEFINE d  == digest[r]
           R  == GetAllReplicas[d]
           rf == ReplicationFactor
           P  == ps[r].preferred
           O  == Order(r)
           i  == ps[r].i
           F  == ps[r].failed
           L  == Len(R)
<1>1. w \in WriteOp /\ Done(w) /\ digest[w] = d /\ Peers(w) \intersect lacking[r] = {}
  BY DEF KnownOK, ReadTypes
<1>2. /\ FailedPeers(w) \subseteq ToSet(Preferred(d))
      /\ \A k \in 1..rf : R[k] \in FailedPeers(w) \/ R[k] \in Peers(w)
      /\ FailedPeers(w) # {} => rf + 1 \in 1..L /\ R[rf + 1] \in Peers(w)
  BY <1>1, AckedCopies
<1>3. /\ rf \in Nat \ {0} /\ L \in Nat /\ rf <= L
      /\ Preferred(d) \in Seq(Node) /\ Len(Preferred(d)) = rf
      /\ \A k \in 1..rf : Preferred(d)[k] = R[k]
      /\ Len(Fallback(d)) = L - rf
      /\ \A j, k \in 1..L : R[j] = R[k] => j = k
  BY RingOrder
<1>4. /\ i \in Nat /\ i <= L /\ F \in Seq(Node) /\ Len(P) = rf
      /\ ToSet(P) = ToSet(Preferred(d)) /\ ToSet(F) = erred[r] \intersect ToSet(P)
      /\ Len(ps[r].fallback) = L - rf
  BY <1>3 DEF ReadPeersOK, AnyPeerSet
<1>5. rf <= i /\ (i - rf + 1 <= L - rf => ~(i - rf + 1 <= Len(F)))
  BY <1>3, <1>4 DEF HasNextPeer, FallbackIndex
<1>6. /\ \A x \in ToSet(P) : \E k \in 1..rf : O[k] = x
      /\ \A k \in 1..L : k > rf => O[k] = R[k] /\ O[k] \notin ToSet(P)
  BY ReadOrder
<1>7. erred[r] \union lacking[r] = {O[k] : k \in 1..i}
  BY DEF Heard
<1>8. \A x : x \in ToSet(P) <=> \E k \in 1..rf : R[k] = x
  <2> DEFINE Q == Preferred(d)
  <2>1. \A x : x \in ToSet(Q) <=> \E k \in 1..Len(Q) : Q[k] = x
    BY <1>3, Listed
  <2> HIDE DEF R, rf, P
  <2>2. \A x : x \in ToSet(Q) <=> \E k \in 1..rf : R[k] = x
    BY <1>3, <2>1
  <2> QED
    BY <1>4, <2>2
<1>9. IsFiniteSet(erred[r])
  BY NodesFinite, FS_Subset DEF ReadTypes
<1>10. Min({2, rf}) = IF 2 <= rf THEN 2 ELSE rf
  BY <1>3, SmallerOf
<1>11. FailedPeers(w) \subseteq ToSet(P) /\ FailedPeers(w) # ToSet(P)
  BY <1>1, <1>2, <1>4
<1>12. Len(F) \in Nat /\ \A x : x \in ToSet(F) <=> \E k \in 1..Len(F) : F[k] = x
  <2> HIDE DEF F
  <2> QED
    BY <1>4, Listed
<1> HIDE DEF d, R, rf, P, O, i, F, L
<1>13. \A x \in ToSet(P) : x \notin FailedPeers(w) => x \in erred[r]
  <2> SUFFICES ASSUME NEW x \in ToSet(P), x \notin FailedPeers(w) PROVE x \in erred[r]
    OBVIOUS
  <2>1. x \in Peers(w)
    BY <1>2, <1>8
  <2>2. x \in erred[r] \union lacking[r]
    <3>1. \A k \in 1..rf : k \in 1..i
      BY <1>3, <1>4, <1>5
    <3> QED
      BY <1>6, <1>7, <3>1
  <2> QED
    BY <1>1, <2>1, <2>2
<1>14. PICK p \in ToSet(P) : p \notin FailedPeers(w)
  BY <1>11
<1>15. p \in erred[r]
  BY <1>13, <1>14
<1>16. CASE ~(2 <= rf)
  <2>1. rf = 1 /\ Min({2, rf}) = 1
    BY <1>3, <1>10, <1>16
  <2> QED
    BY <1>9, <1>15, <2>1, AtLeast DEF rf
<1>17. CASE 2 <= rf /\ FailedPeers(w) = {}
  <2>1. 1 \in 1..rf /\ 2 \in 1..rf /\ 1 \in 1..L /\ 2 \in 1..L
    BY <1>3, <1>17
  <2>2. R[1] # R[2] /\ R[1] \in erred[r] /\ R[2] \in erred[r]
    BY <1>3, <1>8, <1>13, <1>17, <2>1
  <2> QED
    BY <1>9, <1>10, <1>17, <2>2, AtLeast DEF rf
<1>18. CASE 2 <= rf /\ FailedPeers(w) # {}
  <2>1. rf + 1 \in 1..L /\ R[rf + 1] \in Peers(w) /\ rf + 1 > rf
    BY <1>2, <1>3, <1>18
  <2>2. 1 <= Len(F)
    <3>1. PICK k \in 1..Len(F) : F[k] = p
      BY <1>4, <1>12, <1>15
    <3> QED
      BY <1>12, <3>1
  <2>3. rf + 1 \in 1..i
    BY <1>3, <1>4, <1>5, <1>12, <2>1, <2>2
  <2>4. O[rf + 1] \in erred[r] /\ O[rf + 1] # p
    <3>1. O[rf + 1] = R[rf + 1] /\ O[rf + 1] \notin ToSet(P)
      BY <1>6, <2>1
    <3>2. O[rf + 1] \in erred[r] \union lacking[r]
      BY <1>7, <2>3
    <3> QED
      BY <1>1, <1>14, <2>1, <3>1, <3>2
  <2> QED
    BY <1>9, <1>10, <1>15, <1>18, <2>4, AtLeast DEF rf
<1> QED
  BY <1>16, <1>17, <1>18
-----------------------------------------------------------------------------
(* The invariant of a read, step by step.                                  *)

LEMMA DoneStays ==
  ASSUME CacheInv, ReadTypes, [Next]_vars, NEW w \in WriteOp, Done(w)
  PROVE  /\ Done(w)' /\ digest'[w] = digest[w] /\ Peers(w)' = Peers(w)
         /\ FailedPeers(w)' = FailedPeers(w)
<1>1. WriteMoves(w) /\ pc[w] = "ok"
  BY Moves DEF Done
<1>2. Carries(w) /\ pc'[w] = "ok"
  BY <1>1 DEF WriteMoves, StartWrite, Begin, OpenWriter, Grown
<1> QED
  BY <1>2 DEF Carries, Done, FailedPeers

LEMMA KnownStays ==
  ASSUME CacheInv, ReadTypes, [Next]_vars, NEW r \in ReadOp, KnownOK(r),
         known'[r] = known[r], digest'[r] = digest[r], lacking'[r] \subseteq lacking[r]
  PROVE  KnownOK(r)'
<1>1. known[r] \subseteq WriteOp
  BY DEF ReadTypes
<1> QED
  BY <1>1, DoneStays DEF KnownOK

LEMMA SurvivesStays ==
  ASSUME CacheInv, ReadTypes, [Next]_vars, NEW r \in ReadOp, KnownOK(r), Survives(r),
         known'[r] = known[r], erred'[r] = erred[r]
  PROVE  Survives(r)'
<1>1. \A w \in known[r] : /\ digest'[w] = digest[w]
                          /\ FailedPeers(w)' = FailedPeers(w)
  BY DoneStays DEF KnownOK, ReadTypes
<1> QED
  BY <1>1 DEF Survives

LEMMA StaysInv ==
  ASSUME CacheInv, ReadTypes, [Next]_vars, NEW r \in ReadOp, ReadInv(r), ReadStays(r)
  PROVE  ReadInv(r)'
<1>1. Grows
  BY TypesStep
<1>2. KnownOK(r) => KnownOK(r)'
  BY KnownStays DEF ReadStays
<1>3. KnownOK(r) /\ Survives(r) => Survives(r)'
  BY SurvivesStays DEF ReadStays
<1>4. ReadPeersOK(r) => ReadPeersOK(r)'
  BY DEF ReadPeersOK, ReadStays
<1>5. \A n : Heard(r, n) => Heard(r, n)'
  BY DEF Heard, Order, ReadStays
<1>6. ASSUME pc[r] = "backfilling" PROVE Returning(r)'
  <2>1. digest[r] \in Digest /\ ReadPeersOK(r) /\ Returning(r)
    BY <1>6 DEF ReadInv, CacheInv, CacheTypes, OpTypes, Op
  <2>2. ps[r].i \in 1..Len(GetAllReplicas[digest[r]])
    <3>1. ps[r].i \in Nat /\ ps[r].i <= Len(GetAllReplicas[digest[r]])
          /\ Len(GetAllReplicas[digest[r]]) \in Nat
      BY <2>1, RingOrder DEF ReadPeersOK, AnyPeerSet
    <3> QED
      BY <2>1, <3>1 DEF Returning
  <2>3. Order(r)[ps[r].i] \in Node
    BY <2>1, <2>2, ReadOrder
  <2>4. digest[r] \in local'[Order(r)[ps[r].i]]
    BY <1>1, <2>1, <2>3 DEF Returning, Grows
  <2>5. Order(r)' = Order(r)
    BY DEF Order, ReadStays
  <2>6. Heard(r, ps[r].i - 1)'
    BY <1>5, <2>1 DEF Returning, ReadStays, Heard
  <2> QED
    BY <2>1, <2>4, <2>5, <2>6 DEF Returning, ReadStays
<1>7. pc[r] = "asking" => Heard(r, ps[r].i)'
  BY <1>5 DEF ReadInv, ReadStays, Heard
<1> QED
  BY <1>2, <1>3, <1>4, <1>6, <1>7 DEF ReadInv, ReadStays

LEMMA IsList ==
  ASSUME NEW S, NEW n \in Nat, NEW f \in [1..n -> S]
  PROVE  f \in Seq(S) /\ Len(f) = n
OBVIOUS

(* The shuffled peers are the preferred peers. *)
LEMMA Shuffled ==
  ASSUME NEW d \in Digest, NEW s \in SetToSeqs(ToSet(Preferred(d)))
  PROVE  /\ s \in Seq(Node) /\ Len(s) = ReplicationFactor /\ IsInjective(s)
         /\ ToSet(s) = ToSet(Preferred(d))
<1> DEFINE Q  == Preferred(d)
           rf == ReplicationFactor
           S  == ToSet(Q)
           R  == GetAllReplicas[d]
<1>1. /\ Q \in Seq(Node) /\ Len(Q) = rf /\ rf \in Nat /\ rf <= Len(R) /\ Len(R) \in Nat
      /\ \A k \in 1..rf : Q[k] = R[k]
      /\ \A j, k \in 1..Len(R) : R[j] = R[k] => j = k
  BY RingOrder
<1>2. Q \in [1..rf -> Node] /\ \A x : x \in S <=> \E k \in 1..rf : Q[k] = x
  <2> HIDE DEF Q
  <2> QED
    BY <1>1, Listed, LenProperties
<1> HIDE DEF Q, rf, S, R
<1>3. \A j, k \in 1..rf : Q[j] = Q[k] => j = k
  BY <1>1
<1>4. S \subseteq Node /\ Q \in Bijection(1..rf, S)
  BY <1>2, <1>3 DEF Bijection, Injection, Surjection, IsInjective
<1>5. IsFiniteSet(1..rf) /\ Cardinality(1..rf) = rf
  BY <1>1, FS_Interval
<1>6. IsFiniteSet(S) /\ Cardinality(S) = rf
  BY <1>4, <1>5, FS_Bijection DEF ExistsBijection
<1>7. s \in [1..rf -> S] /\ \A j, k \in 1..rf : j # k => s[j] # s[k]
  BY <1>6 DEF SetToSeqs, S, Q
<1>8. s \in Injection(1..rf, S)
  BY <1>7 DEF Injection, IsInjective
<1>9. s \in Surjection(1..rf, S)
  BY <1>5, <1>6, <1>8, FS_Injection
<1>10. s \in Seq(Node) /\ Len(s) = rf
  BY <1>1, <1>4, <1>7, IsList
<1>11. \A x : x \in ToSet(s) <=> \E k \in 1..rf : s[k] = x
  BY <1>10, Listed
<1>12. ToSet(s) = S
  <2>1. \A y \in S : \E k \in 1..rf : s[k] = y
    BY <1>9 DEF Surjection
  <2>2. \A k \in 1..rf : s[k] \in S
    BY <1>7
  <2> DEFINE T == ToSet(s)
  <2>3. \A x : x \in T <=> \E k \in 1..rf : s[k] = x
    BY <1>11
  <2> HIDE DEF T
  <2>4. T = S
    BY <2>1, <2>2, <2>3
  <2> QED
    BY <2>4 DEF T
<1> QED
  BY <1>7, <1>10, <1>12 DEF IsInjective, S, Q, rf

LEMMA StartReadInv ==
  ASSUME CacheInv, ReadTypes, NEW r \in ReadOp, ReadInv(r), NEW n \in Node,
         NEW d \in Digest, StartRead(r, n, d)
  PROVE  ReadInv(r)'
<1>1. PICK peers \in ReadPeerSets(n, Preferred(d), Fallback(d)) :
        Begin(r, n, d, peers, "asking")
  BY DEF StartRead
<1>2. /\ pc[r] = "idle" /\ pc'[r] = "asking" /\ digest'[r] = d /\ ps'[r] = peers
      /\ r \in Op
  BY <1>1 DEF Begin, CacheInv, CacheTypes, OpTypes, Op
<1>3. PICK s \in SetToSeqs(ToSet(Preferred(d))) : peers = NewPeerSet(s, Fallback(d))
  BY DEF ReadPeerSets
<1>4. /\ s \in Seq(Node) /\ Len(s) = ReplicationFactor /\ IsInjective(s)
      /\ ToSet(s) = ToSet(Preferred(d))
  BY Shuffled
<1>5. /\ erred'[r] = {} /\ lacking'[r] = {}
      /\ known'[r] = {w \in WriteOp : Done(w) /\ digest[w] = d}
  BY <1>2 DEF StartRead, ReadInv, ReadTypes
<1>6. /\ ps'[r] \in AnyPeerSet /\ ps'[r].preferred = s /\ ps'[r].fallback = Fallback(d)
      /\ ps'[r].failed = <<>> /\ ps'[r].i = 0
  <2>1. Fallback(d) \in Seq(Node) /\ <<>> \in Seq(Node)
    BY RingOrder, EmptySeq
  <2> QED
    BY <1>2, <1>3, <1>4, <2>1 DEF NewPeerSet, AnyPeerSet
<1>7. ReadPeersOK(r)'
  <2>1. 0 <= Len(GetAllReplicas[d])
    BY RingOrder
  <2>2. ToSet(<<>>) = {}
    BY DEF ToSet
  <2> QED
    BY <1>2, <1>4, <1>5, <1>6, <2>1, <2>2 DEF ReadPeersOK
<1>8. Heard(r, ps[r].i)'
  <2>1. 1..0 = {}
    OBVIOUS
  <2> QED
    BY <1>5, <1>6, <2>1 DEF Heard
<1>9. KnownOK(r)'
  <2>1. \A w \in WriteOp : Done(w) => Done(w)' /\ digest'[w] = digest[w]
    <3>1. \A w \in WriteOp : w \in Op /\ w # r
      BY ReadsAreNotWrites DEF Op
    <3> QED
      BY <1>1, <1>2, <3>1 DEF Begin, Done, CacheInv, CacheTypes, OpTypes
  <2> QED
    BY <1>2, <1>5, <2>1 DEF KnownOK
<1> QED
  BY <1>2, <1>7, <1>8, <1>9 DEF ReadInv

LEMMA AskInv ==
  ASSUME CacheInv, ReadTypes, [Next]_vars, NEW r \in ReadOp, ReadInv(r), AskPeer(r)
  PROVE  /\ ReadInv(r)' /\ erred'[r] \subseteq Node /\ lacking'[r] \subseteq Node
         /\ known' = known
<1> DEFINE p == NextPeer(ps[r])
           s == Advance(ps[r])
           i == ps[r].i
           d == digest[r]
<1>1. /\ pc[r] = "asking" /\ HasNextPeer(ps[r]) /\ d \in Digest /\ r \in Op
      /\ DOMAIN pc = Op /\ DOMAIN ps = Op /\ DOMAIN digest = Op
      /\ known' = known /\ digest' = digest /\ local' = local
      /\ ReadPeersOK(r) /\ KnownOK(r) /\ Heard(r, i)
  BY DEF AskPeer, Go, opVars, CacheInv, CacheTypes, OpTypes, Op, ReadInv
<1>2. /\ i \in Nat /\ i + 1 \in 1..Len(GetAllReplicas[d]) /\ p = Order(r)[i + 1]
      /\ p \in Node /\ Len(GetAllReplicas[d]) \in Nat
  BY <1>1, ReadNext, RingOrder
<1>3. /\ p \notin erred[r] \union lacking[r]
      /\ (erred[r] \union lacking[r]) \union {p} = {Order(r)[k] : k \in 1..(i + 1)}
  BY <1>1, HeardMore
<1>4. /\ s \in AnyPeerSet /\ s.i = i + 1 /\ s.failed = ps[r].failed
      /\ s.preferred = ps[r].preferred /\ s.fallback = ps[r].fallback
  BY <1>1, Advanced DEF ReadPeersOK
<1>5. /\ Len(ps[r].preferred) = ReplicationFactor /\ IsInjective(ps[r].preferred)
      /\ ToSet(ps[r].preferred) = ToSet(Preferred(d))
      /\ ps[r].fallback = Fallback(d) /\ ps[r].failed \in Seq(Node)
      /\ ToSet(ps[r].failed) = erred[r] \intersect ToSet(ps[r].preferred)
  BY <1>1 DEF ReadPeersOK, AnyPeerSet
<1>6. erred[r] \subseteq Node /\ lacking[r] \subseteq Node
      /\ erred[r] \intersect lacking[r] = {}
  BY <1>1 DEF ReadTypes, Heard
<1>7. i + 1 <= Len(GetAllReplicas[d]) /\ i + 1 >= 1 /\ (i + 1) - 1 = i
  BY <1>2
<1>8. CASE (Answers(p) \/ IsLocal(r, p)) /\ d \in local[p]
  <2>1. /\ ps'[r] = s /\ pc'[r] = "backfilling" /\ erred' = erred /\ lacking' = lacking
    BY <1>1, <1>8 DEF AskPeer, Go
  <2> HIDE DEF p, s, i, d
  <2>2. ReadPeersOK(r)'
    BY <1>1, <1>4, <1>5, <1>7, <2>1 DEF ReadPeersOK, d
  <2>3. Order(r)' = Order(r)
    BY <1>4, <2>1 DEF Order
  <2>4. ps'[r].i = i + 1 /\ ps'[r].i - 1 = i
    BY <1>4, <1>7, <2>1
  <2>5. Returning(r)'
    <3>1. Heard(r, ps[r].i - 1)'
      BY <1>1, <2>1, <2>3, <2>4 DEF Heard
    <3>2. Order(r)'[ps'[r].i] = p
      BY <1>2, <2>3, <2>4
    <3> QED
      BY <1>1, <1>3, <1>7, <1>8, <2>1, <2>4, <3>1, <3>2 DEF Returning, d
  <2> QED
    BY <1>1, <1>6, <2>1, <2>2, <2>5 DEF ReadInv
<1>9. CASE (Answers(p) \/ IsLocal(r, p)) /\ d \notin local[p]
  <2>1. /\ ps'[r] = s /\ pc'[r] = "asking" /\ erred' = erred
        /\ lacking'[r] = lacking[r] \union {p}
    BY <1>1, <1>9 DEF AskPeer, opVars, ReadTypes
  <2> HIDE DEF p, s, i, d
  <2>2. ReadPeersOK(r)'
    BY <1>1, <1>4, <1>5, <1>7, <2>1 DEF ReadPeersOK, d
  <2>3. Order(r)' = Order(r) /\ ps'[r].i = i + 1
    BY <1>4, <2>1 DEF Order
  <2>4. Heard(r, ps[r].i)'
    BY <1>3, <1>6, <2>1, <2>3 DEF Heard
  <2>5. \A w \in known[r] : p \notin Peers(w)
    <3> SUFFICES ASSUME NEW w \in known[r], p \in Peers(w) PROVE FALSE
      OBVIOUS
    <3>1. w \in WriteOp /\ pc[w] = "ok" /\ digest[w] = d /\ WriteInv(w)
      BY <1>1 DEF KnownOK, Done, ReadTypes, CacheInv, d
    <3>2. PICK v \in writers[w] : v.peer = p
      BY DEF Peers
    <3>3. digest[w] \in local[v.peer]
      BY <3>1, <3>2 DEF WriteInv, ClosedOK, Grown
    <3> QED
      BY <1>9, <3>1, <3>2, <3>3
  <2>6. KnownOK(r)'
    <3>1. \A w \in known[r] : /\ Done(w)' /\ digest'[w] = digest'[r]
                              /\ Peers(w)' \intersect lacking[r] = {}
                              /\ p \notin Peers(w)'
      BY <1>1, <2>5, DoneStays DEF KnownOK, ReadTypes
    <3> QED
      BY <1>1, <2>1, <3>1 DEF KnownOK
  <2> QED
    BY <1>1, <1>2, <1>6, <2>1, <2>2, <2>4, <2>6 DEF ReadInv
<1>10. CASE ~(Answers(p) \/ IsLocal(r, p))
  <2>1. /\ ps'[r] = MarkPeerAsFailed(s, p) /\ pc'[r] = "asking"
        /\ lacking' = lacking /\ erred'[r] = erred[r] \union {p}
    BY <1>1, <1>10 DEF AskPeer, opVars, ReadTypes
  <2>2. /\ ps'[r] \in AnyPeerSet /\ ps'[r].i = i + 1
        /\ ps'[r].preferred = ps[r].preferred /\ ps'[r].fallback = ps[r].fallback
        /\ ToSet(ps'[r].failed) = erred'[r] \intersect ToSet(ps[r].preferred)
    <3> DEFINE F == ps[r].failed
    <3>1. CASE p \in ToSet(s.preferred)
      <4>1. ps'[r] = [s EXCEPT !.failed = Append(F, p)]
        BY <1>4, <2>1, <3>1 DEF MarkPeerAsFailed
      <4>2. Append(F, p) \in Seq(Node)
        BY <1>2, <1>5, AppendProperties
      <4>3. \A x : x \in ToSet(Append(F, p)) <=> x \in ToSet(F) \/ x = p
        BY <1>2, <1>5, Appended
      <4>4. ToSet(Append(F, p)) = erred'[r] \intersect ToSet(ps[r].preferred)
        BY <1>4, <1>5, <2>1, <3>1, <4>3
      <4>5. /\ ps'[r] \in AnyPeerSet /\ ps'[r].failed = Append(F, p) /\ ps'[r].i = s.i
            /\ ps'[r].preferred = s.preferred /\ ps'[r].fallback = s.fallback
        BY <1>4, <4>1, <4>2 DEF AnyPeerSet
      <4> QED
        BY <1>4, <4>4, <4>5
    <3>2. CASE p \notin ToSet(s.preferred)
      <4>1. ps'[r] = s
        BY <2>1, <3>2 DEF MarkPeerAsFailed
      <4> QED
        BY <1>4, <1>5, <2>1, <3>2, <4>1
    <3> QED
      BY <3>1, <3>2
  <2> HIDE DEF p, s, i, d
  <2>3. ReadPeersOK(r)'
    BY <1>1, <1>5, <1>7, <2>2 DEF ReadPeersOK, d
  <2>4. Order(r)' = Order(r)
    BY <2>2 DEF Order
  <2>5. Heard(r, ps[r].i)'
    BY <1>3, <1>6, <2>1, <2>2, <2>4 DEF Heard
  <2>6. KnownOK(r)'
    BY <1>1, <2>1, KnownStays
  <2> QED
    BY <1>1, <1>2, <1>6, <2>1, <2>3, <2>5, <2>6 DEF ReadInv
<1> QED
  BY <1>8, <1>9, <1>10

LEMMA ReadInvStep ==
  ASSUME CacheInv, ReadTypes, [Next]_vars, NEW r \in ReadOp, ReadInv(r),
         \A o \in WriteOp : WriteOrder(o)
  PROVE  ReadInv(r)'
<1>1. ReadMoves(r) /\ r \in Op
  BY Moves DEF Op
<1>2. CASE ReadStays(r)
  BY <1>2, StaysInv
<1>3. CASE ReadEnds(r)
  BY <1>3 DEF ReadEnds, ReadInv
<1>4. CASE \E n \in Node, d \in Digest : StartRead(r, n, d)
  BY <1>4, StartReadInv
<1>5. CASE AskPeer(r)
  BY <1>5, AskInv
<1>6. CASE AllAsked(r)
  <2>1. /\ pc[r] = "asking" /\ pc'[r] = "missing" /\ ps'[r] = NoPeers /\ digest' = digest
        /\ lacking'[r] = {} /\ erred'[r] = erred[r] /\ known'[r] = known[r]
    BY <1>1, <1>6 DEF AllAsked, AnswerRead, Answer, ReadTypes, CacheInv, CacheTypes,
       OpTypes
  <2>2. Survives(r) /\ KnownOK(r)
    BY <1>1, <1>6, <2>1, Misses DEF AllAsked, ReadInv, CacheInv, CacheTypes, OpTypes
  <2>3. Survives(r)' /\ KnownOK(r)'
    BY <2>1, <2>2, SurvivesStays, KnownStays
  <2> QED
    BY <2>1, <2>3 DEF ReadInv
<1>7. CASE BackfillPeers(r)
  <2>1. pc'[r] = "ok" /\ ps'[r] = NoPeers /\ lacking'[r] = {}
    BY <1>1, <1>7 DEF BackfillPeers, AnswerRead, Answer, ReadTypes, CacheInv, CacheTypes,
       OpTypes
  <2> QED
    BY <2>1 DEF ReadInv
<1> QED
  BY <1>1, <1>2, <1>3, <1>4, <1>5, <1>6, <1>7 DEF ReadMoves
-----------------------------------------------------------------------------
(* The types, group by group.                                              *)

LEMMA NodeTypesStep ==
  ASSUME CacheTypes, NodeTypes, [Next]_vars
  PROVE  NodeTypes'
<1>1. ASSUME UNCHANGED nodeVars PROVE NodeTypes'
  BY <1>1 DEF nodeVars, NodeTypes
<1>2. ASSUME NEW n \in Node, NEW s \in {"serving", "stopped", "crashed"},
             NEW ended, Fail(n, s, ended)
      PROVE  NodeTypes'
  <2>1. /\ failures < MaxFailures /\ failures' = failures + 1
        /\ status' = [status EXCEPT ![n] = s] /\ isolation' = isolation
    BY <1>2 DEF Fail
  <2> QED
    BY <2>1, CacheConstantsOK DEF NodeTypes
<1>3. ASSUME NEW o \in WriteOp,
             \/ \E n \in Node, d \in Digest : StartWrite(o, n, d)
             \/ OpenWriter(o) \/ AllOpened(o) \/ WriteData(o) \/ EndWrite(o)
      PROVE  NodeTypes'
  <2>1. UNCHANGED nodeVars
    BY <1>3 DEF StartWrite, OpenWriter, AllOpened, WriteData, EndWrite, AnswerWrite
  <2> QED
    BY <1>1, <2>1
<1>4. ASSUME NEW o \in WriteOp, NEW w \in unclosed[o], CloseWriter(o, w)
      PROVE  NodeTypes'
  <2>1. w.via \in {"local", "stream", "devnull", "broken"}
    BY DEF CacheTypes, WriterTypes, Writer
  <2>2. /\ status' = status /\ isolation' = isolation
        /\ failures' = failures \/ (failures < MaxFailures /\ failures' = failures + 1)
    BY <1>4, <2>1 DEF CloseWriter
  <2> QED
    BY <2>2, CacheConstantsOK DEF NodeTypes
<1>5. ASSUME NEW r \in ReadOp,
             \/ \E n \in Node, d \in Digest : StartRead(r, n, d)
             \/ AskPeer(r) \/ AllAsked(r) \/ BackfillPeers(r)
      PROVE  NodeTypes'
  <2>1. UNCHANGED nodeVars
    BY <1>5 DEF StartRead, AskPeer, AllAsked, BackfillPeers, AnswerRead
  <2> QED
    BY <1>1, <2>1
<1>6. ASSUME NEW n \in Node, NEW p \in Node,
             SendHeartbeat(n, p) \/ SendFile(n, p) \/ HandedOff(n, p)
      PROVE  NodeTypes'
  BY <1>1, <1>6 DEF SendHeartbeat, SendFile, HandedOff
<1>7. ASSUME NEW n \in Node, Shutdown(n) \/ Crash(n) PROVE NodeTypes'
  <2>1. \/ Fail(n, "stopped", {})
        \/ Fail(n, "crashed", {q \in Op : at[q] = n /\ InFlight(q)})
    BY <1>7 DEF Shutdown, Crash
  <2>2. PICK s \in {"serving", "stopped", "crashed"} : \E ended : Fail(n, s, ended)
    BY <2>1
  <2> QED
    BY <1>2, <2>2
<1>8. ASSUME NEW n \in Node, StartListening(n) PROVE NodeTypes'
  BY <1>8 DEF StartListening, NodeTypes
<1>9. ASSUME UNCHANGED vars PROVE NodeTypes'
  BY <1>1, <1>9 DEF vars
<1> QED
  BY <1>3, <1>4, <1>5, <1>6, <1>7, <1>8, <1>9 DEF Next

LEMMA OrderTypesStep ==
  ASSUME CacheTypes, OrderTypes, [Next]_vars
  PROVE  OrderTypes'
<1>1. handoffs \in [Node -> [Node -> Seq(Digest)]] /\ maxHintedHandoffsPerPeer \in Nat
  BY CacheConstantsOK DEF CacheTypes, StoreTypes
<1>2. ASSUME UNCHANGED handoffVars PROVE OrderTypes'
  BY <1>2 DEF handoffVars, OrderTypes
<1>3. ASSUME NEW o \in WriteOp,
             \/ \E n \in Node, d \in Digest : StartWrite(o, n, d)
             \/ OpenWriter(o) \/ AllOpened(o) \/ WriteData(o) \/ EndWrite(o)
      PROVE  OrderTypes'
  <2>1. UNCHANGED handoffVars
    BY <1>3 DEF StartWrite, OpenWriter, AllOpened, WriteData, EndWrite, AnswerWrite
  <2> QED
    BY <1>2, <2>1
<1>4. ASSUME NEW o \in WriteOp, NEW w \in unclosed[o], CloseWriter(o, w)
      PROVE  OrderTypes'
  <2>1. /\ w.via \in {"local", "stream", "devnull", "broken"} /\ w.peer \in Node
        /\ w.handoff \in Node \union {NoNode} /\ digest[o] \in Digest
    BY <1>4 DEF CacheTypes, OpTypes, WriterTypes, Writer, CloseWriter, Op
  <2> DEFINE n == w.peer
             p == w.handoff
             d == digest[o]
  <2>2. /\ draining' = draining
        /\ \/ UNCHANGED <<handoffs, dropped>>
           \/ RecvHintedHandoff(n, p, d)
    BY <1>4, <2>1 DEF CloseWriter
  <2> HIDE DEF n, p, d
  <2>3. CASE UNCHANGED <<handoffs, dropped>>
    BY <1>2, <2>2, <2>3 DEF handoffVars
  <2>4. CASE p # NoNode /\ Len(handoffs[n][p]) < maxHintedHandoffsPerPeer
             /\ RecvHintedHandoff(n, p, d)
    <3>1. n \in Node /\ p \in Node /\ d \in Digest
      BY <2>1, <2>4 DEF n, p, d
    <3>2. handoffs' = [handoffs EXCEPT ![n][p] = Append(handoffs[n][p], d)]
          /\ dropped' = dropped
      BY <2>4 DEF RecvHintedHandoff
    <3>3. handoffs[n][p] \in Seq(Digest) /\ Len(handoffs[n][p]) \in Nat
      BY <1>1, <3>1, LenProperties
    <3>4. Len(Append(handoffs[n][p], d)) = Len(handoffs[n][p]) + 1
      BY <3>1, <3>3, AppendProperties
    <3>5. /\ handoffs'[n][p] = Append(handoffs[n][p], d)
          /\ \A m, q \in Node : <<m, q>> # <<n, p>> => handoffs'[m][q] = handoffs[m][q]
      BY <1>1, <3>1, <3>2
    <3>6. Len(handoffs'[n][p]) <= maxHintedHandoffsPerPeer
      BY <1>1, <2>4, <3>3, <3>4, <3>5
    <3> QED
      BY <2>2, <3>2, <3>5, <3>6 DEF OrderTypes
  <2>5. CASE p # NoNode /\ ~(Len(handoffs[n][p]) < maxHintedHandoffsPerPeer)
             /\ RecvHintedHandoff(n, p, d)
    <3>1. p \in Node /\ d \in Digest
      BY <2>1, <2>5 DEF p, d
    <3>2. dropped' = dropped \union {<<p, d>>} /\ handoffs' = handoffs
      BY <2>5 DEF RecvHintedHandoff
    <3> QED
      BY <2>2, <3>1, <3>2 DEF OrderTypes
  <2>6. p = NoNode /\ RecvHintedHandoff(n, p, d) => UNCHANGED <<handoffs, dropped>>
    BY DEF RecvHintedHandoff
  <2> QED
    BY <2>2, <2>3, <2>4, <2>5, <2>6
<1>5. ASSUME NEW r \in ReadOp,
             \/ \E n \in Node, d \in Digest : StartRead(r, n, d)
             \/ AskPeer(r) \/ AllAsked(r) \/ BackfillPeers(r)
      PROVE  OrderTypes'
  <2>1. UNCHANGED handoffVars
    BY <1>5 DEF StartRead, AskPeer, AllAsked, BackfillPeers, AnswerRead
  <2> QED
    BY <1>2, <2>1
<1>6. ASSUME NEW n \in Node, NEW p \in Node, SendHeartbeat(n, p) \/ HandedOff(n, p)
      PROVE  OrderTypes'
  BY <1>6 DEF SendHeartbeat, HandedOff, OrderTypes
<1>7. ASSUME NEW n \in Node, NEW p \in Node, SendFile(n, p) PROVE OrderTypes'
  <2> DEFINE l == handoffs[n][p]
  <2>1. l \in Seq(Digest) /\ l # <<>>
    BY <1>1, <1>7 DEF SendFile
  <2>2. Head(l) \in Digest /\ Tail(l) \in Seq(Digest) /\ Len(Tail(l)) = Len(l) - 1
        /\ Len(l) \in Nat
    BY <2>1, HeadTailProperties, LenProperties
  <2>3. handoffs' = [handoffs EXCEPT ![n][p] = Tail(l)]
    BY <1>7 DEF SendFile
  <2>4. /\ handoffs'[n][p] = Tail(l)
        /\ \A m, q \in Node : <<m, q>> # <<n, p>> => handoffs'[m][q] = handoffs[m][q]
    BY <1>1, <2>3
  <2>5. Len(l) <= maxHintedHandoffsPerPeer
    BY DEF OrderTypes
  <2>6. /\ draining' \subseteq draining
        /\ dropped' = dropped \/ dropped' = dropped \union {<<p, Head(l)>>}
    BY <1>7 DEF SendFile
  <2> HIDE DEF l
  <2>7. Len(handoffs'[n][p]) <= maxHintedHandoffsPerPeer
    BY <1>1, <2>2, <2>4, <2>5
  <2>8. \A m, q \in Node : Len(handoffs'[m][q]) <= maxHintedHandoffsPerPeer
    <3> TAKE m, q \in Node
    <3>1. CASE <<m, q>> = <<n, p>>
      BY <2>7, <3>1
    <3>2. CASE <<m, q>> # <<n, p>>
      BY <2>4, <3>2 DEF OrderTypes
    <3> QED
      BY <3>1, <3>2
  <2>9. dropped' \subseteq Node \X Digest
    BY <2>2, <2>6 DEF OrderTypes
  <2> QED
    BY <2>6, <2>8, <2>9 DEF OrderTypes
<1>8. ASSUME NEW n \in Node, Shutdown(n) \/ StartListening(n) PROVE OrderTypes'
  BY <1>2, <1>8 DEF Shutdown, StartListening
<1>9. ASSUME NEW n \in Node, Crash(n) PROVE OrderTypes'
  <2>1. /\ handoffs' = [handoffs EXCEPT ![n] = [p \in Node |-> <<>>]]
        /\ draining' \subseteq draining
        /\ dropped' = dropped \union UNION {{p} \X ToSet(handoffs[n][p]) : p \in Node}
    BY <1>9 DEF Crash
  <2>2. \A m, q \in Node : handoffs'[m][q] = IF m = n THEN <<>> ELSE handoffs[m][q]
    BY <1>1, <2>1
  <2>3. Len(<<>>) = 0 /\ 0 <= maxHintedHandoffsPerPeer
    BY <1>1, EmptySeq
  <2>4. ASSUME NEW p \in Node PROVE ToSet(handoffs[n][p]) \subseteq Digest
    <3>1. handoffs[n][p] \in Seq(Digest)
      BY <1>1
    <3> QED
      BY <3>1, Listed
  <2>5. UNION {{p} \X ToSet(handoffs[n][p]) : p \in Node} \subseteq Node \X Digest
    BY <2>4
  <2> QED
    BY <2>1, <2>2, <2>3, <2>5 DEF OrderTypes
<1>10. ASSUME UNCHANGED vars PROVE OrderTypes'
  BY <1>2, <1>10 DEF vars
<1> QED
  BY <1>3, <1>4, <1>5, <1>6, <1>7, <1>8, <1>9, <1>10 DEF Next

LEMMA RequestTypesStep ==
  ASSUME CacheTypes, RequestTypes, [Next]_vars
  PROVE  RequestTypes'
<1> DEFINE State == {"idle", "opening", "writing", "closing", "asking",
                     "backfilling", "ok", "missing", "error"}
<1>1. pc \in [Op -> State] /\ at \in [Op -> Node] /\ digest \in [Op -> Digest]
      /\ closeFailed \subseteq WriteOp
  BY DEF RequestTypes
<1>2. ASSUME UNCHANGED <<pc, opVars, closeFailed>> PROVE RequestTypes'
  BY <1>2 DEF opVars, RequestTypes
<1>3. ASSUME NEW o \in Op, NEW n \in Node, NEW d \in Digest, NEW peers, NEW s \in State,
             Begin(o, n, d, peers, s), closeFailed' = closeFailed
      PROVE  RequestTypes'
  BY <1>1, <1>3 DEF Begin, RequestTypes
<1>4. ASSUME NEW o \in Op, NEW s \in State, Go(o, s), closeFailed' = closeFailed
      PROVE  RequestTypes'
  BY <1>1, <1>4 DEF Go, opVars, RequestTypes
<1>5. ASSUME NEW o \in Op, NEW s \in State, Answer(o, s), closeFailed' \subseteq closeFailed
      PROVE  RequestTypes'
  BY <1>1, <1>5, AnyNodeIsNode DEF Answer, RequestTypes
<1>6. ASSUME NEW n, NEW s, NEW ended, Fail(n, s, ended) PROVE RequestTypes'
  <2>1. /\ closeFailed' = closeFailed \ ended /\ digest' = digest
        /\ pc' = [o \in Op |-> IF o \in ended THEN "error" ELSE pc[o]]
        /\ at' = [o \in Op |-> IF o \in ended THEN AnyNode ELSE at[o]]
    BY <1>6 DEF Fail
  <2> QED
    BY <1>1, <2>1, AnyNodeIsNode DEF RequestTypes
<1>7. WriteOp \subseteq Op /\ ReadOp \subseteq Op
  BY DEF Op
<1> HIDE DEF State
<1>8. {"opening", "writing", "closing", "asking", "backfilling", "ok", "missing",
       "error"} \subseteq State
  BY DEF State
<1>9. ASSUME NEW o \in WriteOp,
             \/ \E n \in Node, d \in Digest : StartWrite(o, n, d)
             \/ OpenWriter(o) \/ AllOpened(o) \/ WriteData(o) \/ EndWrite(o)
      PROVE  RequestTypes'
  <2>1. CASE \E n \in Node, d \in Digest : StartWrite(o, n, d)
    BY <1>3, <1>7, <1>8, <2>1 DEF StartWrite, writeVars
  <2>2. CASE OpenWriter(o)
    BY <1>2, <2>2 DEF OpenWriter
  <2>3. CASE AllOpened(o) \/ WriteData(o) \/ EndWrite(o)
    <3>1. \/ AnswerWrite(o, "error") \/ AnswerWrite(o, "ok")
          \/ /\ Go(o, "writing") \/ Go(o, "closing")
             /\ UNCHANGED writeVars
      BY <2>3 DEF AllOpened, WriteData, EndWrite
    <3>2. ASSUME NEW s \in {"ok", "error"}, AnswerWrite(o, s) PROVE RequestTypes'
      <4>1. Answer(o, s) /\ closeFailed' = closeFailed \ {o}
        BY <3>2 DEF AnswerWrite
      <4> QED
        BY <1>5, <1>7, <1>8, <4>1
    <3>3. ASSUME NEW s \in {"writing", "closing"}, Go(o, s), UNCHANGED writeVars
          PROVE  RequestTypes'
      BY <1>4, <1>7, <1>8, <3>3 DEF writeVars
    <3> QED
      BY <3>1, <3>2, <3>3
  <2> QED
    BY <1>9, <2>1, <2>2, <2>3
<1>10. ASSUME NEW o \in WriteOp, NEW w \in unclosed[o], CloseWriter(o, w)
       PROVE  RequestTypes'
  <2>1. w.via \in {"local", "stream", "devnull", "broken"}
    BY DEF CacheTypes, WriterTypes, Writer
  <2>2. /\ UNCHANGED <<pc, opVars>>
        /\ closeFailed' = closeFailed \/ closeFailed' = closeFailed \union {o}
    BY <1>10, <2>1 DEF CloseWriter
  <2> QED
    BY <1>1, <2>2 DEF opVars, RequestTypes
<1>11. ASSUME NEW r \in ReadOp,
              \/ \E n \in Node, d \in Digest : StartRead(r, n, d)
              \/ AskPeer(r) \/ AllAsked(r) \/ BackfillPeers(r)
       PROVE  RequestTypes'
  <2>1. CASE \E n \in Node, d \in Digest : StartRead(r, n, d)
    BY <1>3, <1>7, <1>8, <2>1 DEF StartRead, writeVars
  <2>2. CASE AskPeer(r)
    <3>1. /\ closeFailed' = closeFailed
          /\ Go(r, "backfilling") \/ UNCHANGED <<pc, opVars>>
      BY <2>2 DEF AskPeer, writeVars
    <3> QED
      BY <1>2, <1>4, <1>7, <1>8, <3>1
  <2>3. CASE AllAsked(r) \/ BackfillPeers(r)
    <3>1. /\ closeFailed' = closeFailed
          /\ Answer(r, "missing") \/ Answer(r, "ok")
      BY <2>3 DEF AllAsked, BackfillPeers, AnswerRead, writeVars
    <3> QED
      BY <1>5, <1>7, <1>8, <3>1
  <2> QED
    BY <1>11, <2>1, <2>2, <2>3
<1>12. ASSUME NEW n \in Node, NEW p \in Node,
              SendHeartbeat(n, p) \/ SendFile(n, p) \/ HandedOff(n, p)
       PROVE  RequestTypes'
  BY <1>2, <1>12 DEF SendHeartbeat, SendFile, HandedOff, writeVars
<1>13. ASSUME NEW n \in Node, Shutdown(n) \/ Crash(n) PROVE RequestTypes'
  <2>1. \/ Fail(n, "stopped", {})
        \/ Fail(n, "crashed", {q \in Op : at[q] = n /\ InFlight(q)})
    BY <1>13 DEF Shutdown, Crash
  <2> QED
    BY <1>6, <2>1
<1>14. ASSUME NEW n \in Node, StartListening(n) PROVE RequestTypes'
  BY <1>2, <1>14 DEF StartListening, writeVars
<1>15. ASSUME UNCHANGED vars PROVE RequestTypes'
  BY <1>2, <1>15 DEF vars, writeVars
<1> QED
  BY <1>9, <1>10, <1>11, <1>12, <1>13, <1>14, <1>15 DEF Next

LEMMA ReadTypesStep ==
  ASSUME CacheInv, ReadTypes, [Next]_vars, \A r \in ReadOp : ReadInv(r)
  PROVE  ReadTypes'
<1>1. /\ erred' = [r \in ReadOp |-> erred'[r]]
      /\ lacking' = [r \in ReadOp |-> lacking'[r]]
      /\ known' = [r \in ReadOp |-> known'[r]]
  <2> DEFINE Functions == /\ erred' = [r \in ReadOp |-> erred'[r]]
                          /\ lacking' = [r \in ReadOp |-> lacking'[r]]
                          /\ known' = [r \in ReadOp |-> known'[r]]
  <2>1. ASSUME UNCHANGED readVars PROVE Functions
    BY <2>1 DEF readVars, ReadTypes
  <2>2. ASSUME NEW o \in WriteOp,
               \/ \E n \in Node, d \in Digest : StartWrite(o, n, d)
               \/ OpenWriter(o) \/ AllOpened(o) \/ WriteData(o) \/ EndWrite(o)
               \/ \E w \in unclosed[o] : CloseWriter(o, w)
        PROVE  UNCHANGED readVars
    BY <2>2 DEF StartWrite, OpenWriter, AllOpened, WriteData, EndWrite, AnswerWrite,
       CloseWriter
  <2>3. ASSUME NEW r \in ReadOp,
               \/ \E n \in Node, d \in Digest : StartRead(r, n, d)
               \/ AskPeer(r) \/ AllAsked(r) \/ BackfillPeers(r)
        PROVE  Functions
    <3>1. /\ \/ erred' = erred \/ \E x : erred' = [erred EXCEPT ![r] = x]
          /\ \/ lacking' = lacking \/ \E x : lacking' = [lacking EXCEPT ![r] = x]
          /\ \/ known' = known \/ \E x : known' = [known EXCEPT ![r] = x]
      BY <2>3 DEF StartRead, AskPeer, AllAsked, BackfillPeers, AnswerRead
    <3>2. /\ erred = [q \in ReadOp |-> erred[q]] /\ lacking = [q \in ReadOp |-> lacking[q]]
          /\ known = [q \in ReadOp |-> known[q]]
      BY DEF ReadTypes
    <3>3. erred' = [q \in ReadOp |-> erred'[q]]
      BY <3>1, <3>2
    <3>4. lacking' = [q \in ReadOp |-> lacking'[q]]
      BY <3>1, <3>2
    <3>5. known' = [q \in ReadOp |-> known'[q]]
      BY <3>1, <3>2
    <3> QED
      BY <3>3, <3>4, <3>5
  <2>4. ASSUME NEW n, NEW s, NEW ended, Fail(n, s, ended) PROVE Functions
    <3>1. /\ erred' = [r \in ReadOp |-> IF r \in ended THEN {} ELSE erred[r]]
          /\ lacking' = [r \in ReadOp |-> IF r \in ended THEN {} ELSE lacking[r]]
          /\ known' = [r \in ReadOp |-> IF r \in ended THEN {} ELSE known[r]]
      BY <2>4 DEF Fail
    <3> QED
      BY <3>1
  <2>5. ASSUME NEW n \in Node, Shutdown(n) \/ Crash(n) PROVE Functions
    <3>1. \/ Fail(n, "stopped", {})
          \/ Fail(n, "crashed", {q \in Op : at[q] = n /\ InFlight(q)})
      BY <2>5 DEF Shutdown, Crash
    <3> QED
      BY <2>4, <3>1
  <2>6. ASSUME NEW n \in Node, NEW p \in Node,
               SendHeartbeat(n, p) \/ SendFile(n, p) \/ HandedOff(n, p)
        PROVE  UNCHANGED readVars
    BY <2>6 DEF SendHeartbeat, SendFile, HandedOff
  <2>7. ASSUME NEW n \in Node, StartListening(n) PROVE UNCHANGED readVars
    BY <2>7 DEF StartListening
  <2>8. UNCHANGED vars => UNCHANGED readVars
    BY DEF vars
  <2> HIDE DEF Functions
  <2>9. Functions
    BY <2>1, <2>2, <2>3, <2>5, <2>6, <2>7, <2>8 DEF Next
  <2> QED
    BY <2>9 DEF Functions
<1>2. ASSUME NEW r \in ReadOp
      PROVE  erred'[r] \subseteq Node /\ lacking'[r] \subseteq Node
             /\ known'[r] \subseteq WriteOp
  <2>1. ReadMoves(r) /\ erred[r] \subseteq Node /\ lacking[r] \subseteq Node
        /\ known[r] \subseteq WriteOp
    BY Moves DEF ReadTypes
  <2>2. CASE AskPeer(r)
    BY <2>1, <2>2, AskInv
  <2>3. CASE \E n \in Node, d \in Digest : StartRead(r, n, d)
    BY <2>1, <2>3 DEF StartRead, ReadTypes
  <2>4. CASE AllAsked(r) \/ BackfillPeers(r)
    BY <2>1, <2>4 DEF AllAsked, BackfillPeers, AnswerRead, ReadTypes
  <2>5. CASE ReadStays(r) \/ ReadEnds(r)
    BY <2>1, <2>5 DEF ReadStays, ReadEnds
  <2> QED
    BY <2>1, <2>2, <2>3, <2>4, <2>5 DEF ReadMoves
<1> QED
  BY <1>1, <1>2 DEF ReadTypes
-----------------------------------------------------------------------------
(* The theorems about reads, and about the types.                          *)

LEMMA ReadsInvStep == ReadsInv /\ [Next]_vars => ReadsInv'
<1> SUFFICES ASSUME ReadsInv, [Next]_vars PROVE ReadsInv'
  OBVIOUS
<1>1. /\ CacheInv /\ CacheTypes /\ AllTypes
      /\ \A o \in WriteOp : WriteOrder(o)
      /\ \A r \in ReadOp : ReadInv(r)
  BY DEF ReadsInv, CacheInv
<1>2. NodeTypes /\ OrderTypes /\ RequestTypes /\ ReadTypes
  BY <1>1 DEF AllTypes
<1>3. CacheInv'
  BY <1>1, CacheInvStep
<1>4. NodeTypes' /\ OrderTypes' /\ RequestTypes' /\ ReadTypes'
  BY <1>1, <1>2, NodeTypesStep, OrderTypesStep, RequestTypesStep, ReadTypesStep
<1>5. \A o \in WriteOp : WriteOrder(o)'
  BY <1>1, <1>2, WriteOrderStep
<1>6. \A r \in ReadOp : ReadInv(r)'
  BY <1>1, <1>2, ReadInvStep
<1> QED
  BY <1>3, <1>4, <1>5, <1>6 DEF ReadsInv, AllTypes

LEMMA ReadsInvInit == Init => ReadsInv
<1> SUFFICES ASSUME Init PROVE ReadsInv
  OBVIOUS
<1>1. CacheInv
  BY CacheInvInit
<1>2. NodeTypes
  BY CacheConstantsOK DEF Init, NodeTypes
<1>3. OrderTypes
  <2>1. Len(<<>>) = 0 /\ 0 <= maxHintedHandoffsPerPeer
    BY EmptySeq, CacheConstantsOK
  <2> QED
    BY <2>1 DEF Init, OrderTypes
<1>4. RequestTypes
  BY AnyNodeIsNode DEF Init, RequestTypes
<1>5. ReadTypes
  BY DEF Init, ReadTypes
<1>6. \A o \in WriteOp : pc[o] = "idle" /\ ps[o] = NoPeers
  BY DEF Init, Op
<1>7. \A r \in ReadOp : /\ pc[r] = "idle" /\ ps[r] = NoPeers
                        /\ lacking[r] = {} /\ erred[r] = {}
  BY DEF Init, Op
<1>8. \A o \in WriteOp : WriteOrder(o)
  BY <1>6 DEF WriteOrder, Begun, Grown
<1>9. \A r \in ReadOp : ReadInv(r)
  BY <1>7 DEF ReadInv
<1> QED
  BY <1>1, <1>2, <1>3, <1>4, <1>5, <1>8, <1>9 DEF ReadsInv, AllTypes

LEMMA ReadsInvAlways == Spec => []ReadsInv
BY ReadsInvInit, ReadsInvStep, PTL DEF Spec

(* A read that began after an acknowledged write, one that reached at      *)
(* least one preferred node, says "missing" only if two of the nodes it    *)
(* asked failed, or all if there is one copy (NewRead, GetNextPeer): in    *)
(* whatever order it asks, for any number of nodes, writes and failures.   *)
THEOREM ReadsSurvive == Spec => []ReadSurvivesOne
<1>1. ReadsInv => ReadSurvivesOne
  BY DEF ReadsInv, ReadInv, Survives, ReadSurvivesOne
<1> QED
  BY <1>1, ReadsInvAlways, PTL

(* The copy of a backfill: if there is one, it is from a node that has the *)
(* digest, and to one of the preferred nodes that said they lack it.       *)
CopyIsMissing ==
  \A r \in ReadOp, n \in Node :
    BackfillPeers(r) /\ local'[n] # local[n] =>
      /\ digest[r] \in local[LastPeer(ps[r])]
      /\ n \in lacking[r] \intersect ToSet(Preferred(digest[r]))
      /\ local'[n] = local[n] \union {digest[r]}

(* When a peer has returned the digest, that peer has it, and              *)
(* GetBackfillTargets lists exactly those preferred nodes that said they   *)
(* lack it, and no node that failed; what is copied is to the first of     *)
(* the list (dedupeBackfills), hence to a node that lacks it.              *)
THEOREM BackfillsAreExact == Spec => []BackfillExact /\ [][CopyIsMissing]_vars
<1>1. ReadsInv => BackfillExact
  <2> SUFFICES ASSUME ReadsInv, NEW r \in ReadOp, pc[r] = "backfilling"
               PROVE  /\ digest[r] \in local[LastPeer(ps[r])]
                      /\ ToSet(BackfillTargets(ps[r])) =
                           lacking[r] \intersect ToSet(Preferred(digest[r]))
    BY DEF BackfillExact
  <2> DEFINE O  == Order(r)
             R  == GetAllReplicas[digest[r]]
             rf == ReplicationFactor
             i  == ps[r].i
             P  == ps[r].preferred
             F  == ToSet(ps[r].failed)
             m  == Min({i - 1, Len(P)})
  <2>1. /\ digest[r] \in Digest /\ ReadPeersOK(r) /\ Returning(r)
        /\ LastPeer(ps[r]) = O[i]
    <3>1. ReadInv(r) /\ RequestTypes
      BY DEF ReadsInv, AllTypes
    <3>2. r \in Op
      BY DEF Op
    <3> QED
      BY <3>1, <3>2 DEF ReadInv, RequestTypes, LastPeer, Order
  <2>2. /\ P \in Seq(Node) /\ Len(P) = rf /\ rf \in Nat
        /\ ToSet(P) = ToSet(Preferred(digest[r]))
        /\ F = erred[r] \intersect ToSet(P)
        /\ i \in Nat /\ i >= 1 /\ i <= Len(R) /\ Len(R) \in Nat /\ rf <= Len(R)
    BY <2>1, RingOrder DEF ReadPeersOK, AnyPeerSet, Returning
  <2>3. /\ \A k \in 1..rf : O[k] = P[k] /\ O[k] \in ToSet(P)
        /\ \A k \in 1..Len(R) : k > rf => O[k] \notin ToSet(P)
    BY <2>1, ReadOrder
  <2>4. /\ erred[r] \union lacking[r] = {O[k] : k \in 1..(i - 1)}
        /\ erred[r] \intersect lacking[r] = {}
        /\ O[i] \notin erred[r] \union lacking[r]
        /\ digest[r] \in local[O[i]]
    BY <2>1 DEF Returning, Heard
  <2>5. O[i] \notin F
    BY <2>2, <2>4
  <2>6. BackfillTargets(ps[r]) = Unfailed(SubSeq(P, 1, m), F)
    BY <2>1, <2>5 DEF BackfillTargets
  <2>7. m = (IF i - 1 <= rf THEN i - 1 ELSE rf)
    <3>1. i - 1 \in Nat /\ Len(P) \in Nat /\ Len(P) = rf
      BY <2>2
    <3> HIDE DEF i, P, rf
    <3>2. Min({i - 1, Len(P)}) = (IF i - 1 <= Len(P) THEN i - 1 ELSE Len(P))
      BY <3>1, SmallerOf
    <3> QED
      BY <3>1, <3>2
  <2> HIDE DEF O, R, rf, i, P, F, m
  <2>8. m \in Nat /\ m <= rf /\ m <= i - 1 /\ \A k \in 1..m : P[k] \in Node
    <3>1. m \in Nat /\ m <= rf /\ m <= i - 1
      BY <2>2, <2>7
    <3>2. \A k \in 1..rf : P[k] \in Node
      BY <2>2, Listed
    <3> QED
      BY <2>2, <3>1, <3>2
  <2> DEFINE Q == SubSeq(P, 1, m)
  <2>9. Q \in Seq(Node) /\ Len(Q) = m /\ \A k \in 1..m : Q[k] = P[k]
    BY <2>8, SubSeqProperties
  <2>10. \A x : x \in ToSet(Q) <=> \E k \in 1..m : P[k] = x
    <3>1. \A x : x \in ToSet(Q) <=> \E k \in 1..Len(Q) : Q[k] = x
      BY <2>9, Listed
    <3> HIDE DEF Q
    <3> QED
      BY <2>9, <3>1
  <2>11. ToSet(Unfailed(Q, F)) = ToSet(Q) \ F
    <3> HIDE DEF Q
    <3> QED
      BY <2>9, UnfailedIs
  <2>12. ASSUME NEW x PROVE x \in ToSet(Q) \ F <=> x \in lacking[r] \intersect ToSet(P)
    <3>1. ASSUME x \in ToSet(Q), x \notin F PROVE x \in lacking[r] /\ x \in ToSet(P)
      <4>1. PICK k \in 1..m : P[k] = x
        BY <2>10, <3>1
      <4>2. k \in 1..rf /\ k \in 1..(i - 1)
        BY <2>2, <2>8
      <4>3. O[k] = x /\ x \in ToSet(P)
        BY <2>3, <4>1, <4>2
      <4>4. x \in erred[r] \union lacking[r]
        BY <2>4, <4>2, <4>3
      <4> QED
        BY <2>2, <3>1, <4>3, <4>4
    <3>2. ASSUME x \in lacking[r], x \in ToSet(P) PROVE x \in ToSet(Q) /\ x \notin F
      <4>1. PICK k \in 1..(i - 1) : O[k] = x
        BY <2>4, <3>2
      <4>2. k \in 1..Len(R) /\ k \in Nat
        BY <2>2
      <4>3. ~ (k > rf)
        BY <2>3, <3>2, <4>1, <4>2
      <4>4. k \in 1..rf /\ k \in 1..m
        BY <2>2, <2>7, <4>2, <4>3
      <4>5. P[k] = x
        BY <2>3, <4>1, <4>4
      <4> QED
        BY <2>2, <2>4, <2>10, <3>2, <4>4, <4>5
    <3> QED
      BY <3>1, <3>2
  <2>13. ToSet(BackfillTargets(ps[r])) = lacking[r] \intersect ToSet(P)
    BY <2>6, <2>11, <2>12
  <2> QED
    BY <2>1, <2>2, <2>4, <2>13
<1>2. ReadsInv /\ [Next]_vars => [CopyIsMissing]_vars
  <2> SUFFICES ASSUME ReadsInv, NEW r \in ReadOp, NEW n \in Node, BackfillPeers(r),
                      local'[n] # local[n]
               PROVE  /\ digest[r] \in local[LastPeer(ps[r])]
                      /\ n \in lacking[r] \intersect ToSet(Preferred(digest[r]))
                      /\ local'[n] = local[n] \union {digest[r]}
    BY DEF CopyIsMissing
  <2> DEFINE T == BackfillTargets(ps[r])
  <2>1. local \in [Node -> SUBSET Digest]
    BY DEF ReadsInv, CacheInv, CacheTypes, StoreTypes
  <2>2. /\ digest[r] \in local[LastPeer(ps[r])]
        /\ ToSet(T) = lacking[r] \intersect ToSet(Preferred(digest[r]))
    BY <1>1 DEF BackfillPeers, BackfillExact
  <2>3. T # <<>> /\ local' = [local EXCEPT ![T[1]] = @ \union {digest[r]}]
    <3> HIDE DEF T
    <3> QED
      BY DEF BackfillPeers, Store, T
  <2>4. n = T[1] /\ local'[n] = local[n] \union {digest[r]}
    <3> HIDE DEF T
    <3> QED
      BY <2>1, <2>3
  <2>5. T \in Seq(Node)
    <3>1. /\ ps[r].preferred \in Seq(Node) /\ Len(ps[r].preferred) \in Nat
          /\ ps[r].i \in Nat /\ ps[r].i >= 1
      <4>1. ReadInv(r) /\ r \in Op
        BY DEF ReadsInv, Op
      <4>2. ReadPeersOK(r) /\ Returning(r)
        BY <4>1 DEF ReadInv, BackfillPeers
      <4> QED
        BY <4>2, LenProperties DEF ReadPeersOK, AnyPeerSet, Returning
    <3> DEFINE P == ps[r].preferred
               m == Min({ps[r].i - 1, Len(P)})
    <3>2. m = (IF ps[r].i - 1 <= Len(P) THEN ps[r].i - 1 ELSE Len(P))
      BY <3>1, SmallerOf
    <3>3. m \in Nat /\ m <= Len(P)
      <4> HIDE DEF m, P
      <4> QED
        BY <3>1, <3>2 DEF P
    <3>4. SubSeq(P, 1, m) \in Seq(Node)
      <4> HIDE DEF m
      <4> QED
        BY <3>1, <3>3, SubSeqProperties
    <3>5. Unfailed(SubSeq(P, 1, m), ToSet(ps[r].failed)) \in Seq(Node)
      <4> HIDE DEF m, P
      <4> QED
        BY <3>4, UnfailedIs
    <3> QED
      BY <3>5 DEF BackfillTargets
  <2>6. T[1] \in ToSet(T)
    <3> HIDE DEF T
    <3> QED
      BY <2>3, <2>5, Listed
  <2> QED
    BY <2>2, <2>4, <2>6
<1> QED
  BY <1>1, <1>2, ReadsInvAlways, PTL DEF Spec

LEMMA NodesCounted ==
  ASSUME NEW d \in Digest
  PROVE  Cardinality(Node) = Len(GetAllReplicas[d])
<1> DEFINE R == GetAllReplicas[d]
<1>1. /\ Len(R) \in Nat /\ R \in [1..Len(R) -> Node]
      /\ \A n \in Node : \E k \in 1..Len(R) : R[k] = n
      /\ \A j, k \in 1..Len(R) : R[j] = R[k] => j = k
  BY RingOrder, LenProperties
<1> HIDE DEF R
<1>2. R \in Surjection(1..Len(R), Node) /\ R \in Injection(1..Len(R), Node)
  BY <1>1 DEF Surjection, Injection, IsInjective
<1>3. IsFiniteSet(1..Len(R)) /\ Cardinality(1..Len(R)) = Len(R)
  BY <1>1, FS_Interval
<1>4. Cardinality(Node) = Cardinality(1..Len(R))
  BY <1>2, <1>3, FS_Surjection
<1> QED
  BY <1>3, <1>4 DEF R

(* A request asks nodes in an order it knows, notes no node as failed but  *)
(* a preferred one, and never goes past the last node.                     *)
LEMMA PeerSetTypes ==
  ASSUME ReadsInv, NEW o \in Op
  PROVE  /\ ToSet(ps[o].failed) \subseteq ToSet(ps[o].preferred)
         /\ ps[o].i \in 0..Cardinality(Node)
<1>1. /\ digest[o] \in Digest
      /\ Cardinality(Node) = Len(GetAllReplicas[digest[o]])
      /\ Cardinality(Node) \in Nat
  <2>1. digest[o] \in Digest
    BY DEF ReadsInv, AllTypes, RequestTypes
  <2> QED
    BY <2>1, NodesCounted, RingOrder
<1>2. CASE ps[o] = NoPeers
  <2>1. ps[o].failed = <<>> /\ ps[o].i = 0
    BY <1>2 DEF NoPeers, NewPeerSet
  <2>2. ToSet(<<>>) = {}
    BY DEF ToSet
  <2> QED
    BY <1>1, <2>1, <2>2
<1>3. CASE o \in WriteOp /\ pc[o] \in Begun
  <2> DEFINE R == GetAllReplicas[digest[o]]
             Q == Preferred(digest[o])
             F == ps[o].failed
             rf == ReplicationFactor
  <2>1. PeerSetOK(o) /\ StandIns(o)
    BY <1>3 DEF ReadsInv, CacheInv, WriteInv, WriteOrder, Begun, Grown
  <2>2. /\ F \in Seq(Node) /\ ps[o].preferred = Q
        /\ ps[o].i \in Nat /\ ps[o].i <= Len(R)
        /\ \A j \in 1..Len(F) : \E k \in 1..rf : F[j] = R[k]
    BY <2>1 DEF PeerSetOK, AnyPeerSet, StandIns
  <2>3. Q \in Seq(Node) /\ Len(Q) = rf /\ \A k \in 1..rf : Q[k] = R[k]
    BY <1>1, RingOrder
  <2> HIDE DEF R, Q, F, rf
  <2>4. \A x : x \in ToSet(F) <=> \E j \in 1..Len(F) : F[j] = x
    BY <2>2, Listed
  <2>5. \A x : x \in ToSet(Q) <=> \E k \in 1..Len(Q) : Q[k] = x
    BY <2>3, Listed
  <2>6. ToSet(F) \subseteq ToSet(Q)
    BY <2>2, <2>3, <2>4, <2>5
  <2> QED
    BY <1>1, <2>2, <2>6 DEF F, R
<1>4. CASE o \in ReadOp /\ ReadPeersOK(o)
  BY <1>1, <1>4 DEF ReadPeersOK, AnyPeerSet
<1>5. ps[o] = NoPeers \/ (o \in WriteOp /\ pc[o] \in Begun)
      \/ (o \in ReadOp /\ ReadPeersOK(o))
  BY DEF Op, ReadsInv, WriteOrder, ReadInv
<1> QED
  BY <1>2, <1>3, <1>4, <1>5

(* Every variable keeps its type; in particular no channel of hinted       *)
(* handoffs grows past its capacity, and no request goes past the last     *)
(* node or notes one as failed that was not preferred                      *)
(* (recvHintedHandoffCallback, GetNextPeer, MarkPeerAsFailed).             *)
THEOREM CacheTypesHold == Spec => []TypeOK
<1>1. ReadsInv => TypeOK
  <2> SUFFICES ASSUME ReadsInv PROVE TypeOK
    OBVIOUS
  <2>1. NodeTypes /\ OrderTypes /\ RequestTypes /\ ReadTypes /\ StoreTypes /\ WriterTypes
    BY DEF ReadsInv, AllTypes, CacheInv, CacheTypes
  <2>2. \A o \in Op : /\ ToSet(ps[o].failed) \subseteq ToSet(ps[o].preferred)
                      /\ ps[o].i \in 0..Cardinality(Node)
    BY PeerSetTypes
  <2> QED
    BY <2>1, <2>2 DEF TypeOK, NodeTypes, OrderTypes, RequestTypes, ReadTypes,
       StoreTypes, WriterTypes
<1> QED
  BY <1>1, ReadsInvAlways, PTL
===============================================================================
