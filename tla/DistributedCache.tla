--------------------------- MODULE DistributedCache ---------------------------
(***************************************************************************)
(* The distributed cache: every node is a coordinator for its own clients  *)
(* and a store for the others.  A write goes to ReplicationFactor nodes or *)
(* fails; a read asks one node after another; a fallback node that took a  *)
(* write for a failed one keeps a hinted handoff order for it; a read that *)
(* met nodes without the digest copies it to one of them.                  *)
(***************************************************************************)
EXTENDS PeerSet

CONSTANTS
  Digest,
  ReplicationFactor,
  GetAllReplicas,       \* GetAllReplicas[d]: all nodes, in ring order
  DisableLocalLookup,
  maxHintedHandoffsPerPeer,
  MaxWrites,            \* bound: how often a client tries to write
  ReadOp,               \* the reads of clients
  MaxFailures           \* bound: how often nodes fail

ASSUME CacheConstantsOK ==
  /\ Digest # {}
  /\ ReplicationFactor \in Nat \ {0}
  /\ \A d \in Digest :
       /\ GetAllReplicas[d] \in Seq(Node)
       /\ ToSet(GetAllReplicas[d]) = Node
       /\ IsInjective(GetAllReplicas[d])
       /\ ReplicationFactor <= Len(GetAllReplicas[d])
  /\ DisableLocalLookup \in BOOLEAN
  /\ maxHintedHandoffsPerPeer \in Nat
  /\ MaxWrites \in Nat /\ ReadOp \intersect (1..MaxWrites) = {}
  /\ MaxFailures \in Nat

WriteOp == 1..MaxWrites

Op == WriteOp \union ReadOp

VARIABLES
  status,       \* status[n]: "serving", "stopped" or "crashed"
  failures,     \* how many times a node failed (bounded)
  isolation,    \* the cache the digests belong to: "cas" or "ac"
  local,        \* local[n]: the digests in the node's own cache, on disk
  handoffs,     \* handoffs[n][p]: hintedHandoffsByPeer, a channel per peer
  draining,     \* the pairs <<n, p>> with a handleHintedHandoffs running
  pc,           \* pc[o]: where the coordinator is with request o
  at,           \* at[o]: the coordinator of o
  digest,       \* digest[o]
  ps,           \* ps[o]: its peer set
  writers,      \* writers[o]: the writers it opened
  unclosed,     \* unclosed[o]: those it has not closed yet
  closeFailed,  \* the writes one of whose writers failed to close
  (* history, not in the code *)
  erred,        \* erred[o]: the peers whose answer to read o was an error
  lacking,      \* lacking[o]: the peers that answered that they lack it
  known,        \* known[o]: the writes that had succeeded when read o began
  dropped       \* <<p, d>>: an order for p that was given up or died with
                \* its node

nodeVars    == <<status, failures, isolation>>
handoffVars == <<handoffs, draining, dropped>>
opVars      == <<at, digest>>
writeVars   == <<writers, unclosed, closeFailed>>
readVars    == <<erred, lacking, known>>
vars == <<nodeVars, local, handoffVars, pc, opVars, ps, writeVars, readVars>>

Writer == [peer    : Node,
           via     : {"local", "stream", "devnull", "broken"},
           handoff : Node \union {NoNode}]

TypeOK ==
  /\ status \in [Node -> {"serving", "stopped", "crashed"}]
  /\ failures \in 0..MaxFailures
  /\ isolation \in {"cas", "ac"}
  /\ local \in [Node -> SUBSET Digest]
  /\ \A n, p \in Node : /\ handoffs[n][p] \in Seq(Digest)
                        /\ Len(handoffs[n][p]) <= maxHintedHandoffsPerPeer
  /\ draining \subseteq Node \X Node
  /\ pc \in [Op -> {"idle", "opening", "writing", "closing", "asking",
                    "backfilling", "ok", "missing", "error"}]
  /\ at \in [Op -> Node]
  /\ digest \in [Op -> Digest]
  /\ \A o \in Op : /\ ToSet(ps[o].failed) \subseteq ToSet(ps[o].preferred)
                   /\ ps[o].i \in 0..Cardinality(Node)
  /\ writers \in [WriteOp -> SUBSET Writer]
  /\ \A o \in WriteOp : unclosed[o] \subseteq writers[o]
  /\ closeFailed \subseteq WriteOp
  /\ erred \in [ReadOp -> SUBSET Node]
  /\ lacking \in [ReadOp -> SUBSET Node]
  /\ known \in [ReadOp -> SUBSET WriteOp]
  /\ dropped \subseteq Node \X Digest

AnyNode == CHOOSE n \in Node : TRUE

NoPeers == NewPeerSet(<<>>, <<>>)

AnyDigest == CHOOSE d \in Digest : TRUE

Init ==
  /\ status = [n \in Node |-> "serving"]
  /\ failures = 0
  /\ isolation \in {"cas", "ac"}
  /\ local = [n \in Node |-> {}]
  /\ handoffs = [n \in Node |-> [p \in Node |-> <<>>]]
  /\ draining = {}
  /\ pc = [o \in Op |-> "idle"]
  /\ at = [o \in Op |-> AnyNode]
  /\ digest = [o \in Op |-> AnyDigest]
  /\ ps = [o \in Op |-> NoPeers]
  /\ writers = [o \in WriteOp |-> {}]
  /\ unclosed = [o \in WriteOp |-> {}]
  /\ closeFailed = {}
  /\ erred = [o \in ReadOp |-> {}]
  /\ lacking = [o \in ReadOp |-> {}]
  /\ known = [o \in ReadOp |-> {}]
  /\ dropped = {}

Preferred(d) == SubSeq(GetAllReplicas[d], 1, ReplicationFactor)

Fallback(d) ==
  SubSeq(GetAllReplicas[d], ReplicationFactor + 1, Len(GetAllReplicas[d]))

Alive(n) == status[n] # "crashed"

Answers(p) == status[p] = "serving"

(* A coordinator goes to its own cache directly, unless told otherwise. *)
IsLocal(o, p) == ~DisableLocalLookup /\ p = at[o]

Begin(o, n, d, peers, state) ==
  /\ pc[o] = "idle" /\ Alive(n)
  /\ at' = [at EXCEPT ![o] = n]
  /\ digest' = [digest EXCEPT ![o] = d]
  /\ ps' = [ps EXCEPT ![o] = peers]
  /\ pc' = [pc EXCEPT ![o] = state]

Go(o, state) ==
  /\ pc' = [pc EXCEPT ![o] = state]
  /\ UNCHANGED opVars

(* The answer to a client.  What the request kept goes with it, but for    *)
(* what the properties say of it.                                          *)
Answer(o, answer) ==
  /\ pc' = [pc EXCEPT ![o] = answer]
  /\ at' = [at EXCEPT ![o] = AnyNode]
  /\ UNCHANGED digest

AnswerWrite(o, answer) ==
  /\ Answer(o, answer)
  /\ ps' = [ps EXCEPT ![o] = IF answer = "ok" THEN @ ELSE NoPeers]
  /\ writers' = [writers EXCEPT ![o] = IF answer = "ok" THEN @ ELSE {}]
  /\ unclosed' = [unclosed EXCEPT ![o] = {}]
  /\ closeFailed' = closeFailed \ {o}
  /\ UNCHANGED <<nodeVars, local, handoffVars, readVars>>

AnswerRead(o, answer) ==
  /\ Answer(o, answer)
  /\ ps' = [ps EXCEPT ![o] = NoPeers]
  /\ lacking' = [lacking EXCEPT ![o] = {}]
  /\ erred' = [erred EXCEPT ![o] = IF answer = "missing" THEN @ ELSE {}]
  /\ known' = [known EXCEPT ![o] = IF answer = "missing" THEN @ ELSE {}]
  /\ UNCHANGED <<nodeVars, handoffVars, writeVars>>
-----------------------------------------------------------------------------
(* Writing: multiWriter, and the writer it returns.                        *)

Returned(o) == pc[o] \in {"ok", "missing", "error"}

InFlight(o) == pc[o] # "idle" /\ ~Returned(o)

(* The writes are one client's: it tries again after an error. *)
StartWrite(o, n, d) ==
  /\ \A w \in WriteOp : IF w < o THEN pc[w] = "error" ELSE pc[w] = "idle"
  /\ Begin(o, n, d, NewPeerSet(Preferred(d), Fallback(d)), "opening")
  /\ UNCHANGED <<nodeVars, local, handoffVars, writeVars, readVars>>

(* How remoteWriter ends for peer p: with a writer of some kind, or none.  *)
(* A stream to a node that does not answer may still seem to open.         *)
RemoteWriter(o, p) ==
  CASE IsLocal(o, p) -> {"local"}
    [] ~IsLocal(o, p) /\ ~Answers(p) -> {"broken", "error"}
    [] OTHER -> IF isolation = "cas" /\ digest[o] \in local[p]
                THEN {"devnull"} ELSE {"stream"}

OpenWriter(o) ==
  /\ pc[o] = "opening" /\ HasNextPeer(ps[o])
  /\ \E via \in RemoteWriter(o, NextPeer(ps[o])) :
       IF via = "error"
       THEN /\ ps' = [ps EXCEPT ![o] =
                        MarkPeerAsFailed(Advance(@), NextPeer(@))]
            /\ UNCHANGED <<writers, unclosed>>
       ELSE LET w == [peer |-> NextPeer(ps[o]), via |-> via,
                      handoff |-> HintedHandoff(ps[o])]
            IN /\ ps' = [ps EXCEPT ![o] = Advance(@)]
               /\ writers' = [writers EXCEPT ![o] = @ \union {w}]
               /\ unclosed' = [unclosed EXCEPT ![o] = @ \union {w}]
  /\ UNCHANGED <<nodeVars, local, handoffVars, pc, opVars, closeFailed, readVars>>

AllOpened(o) ==
  /\ pc[o] = "opening" /\ ~HasNextPeer(ps[o])
  /\ IF Cardinality(writers[o]) < ReplicationFactor
     THEN AnswerWrite(o, "error")
     ELSE /\ Go(o, "writing")
          /\ UNCHANGED <<nodeVars, local, handoffVars, ps, writeVars, readVars>>

(* The data goes to all writers; a stream that has failed may show it now  *)
(* or when it is closed.                                                   *)
WriteData(o) ==
  /\ pc[o] = "writing"
  /\ \/ /\ Go(o, "closing")
        /\ UNCHANGED <<nodeVars, local, handoffVars, ps, writeVars, readVars>>
     \/ /\ \E w \in writers[o] : w.via = "broken"
        /\ AnswerWrite(o, "error")

Store(p, d) == local' = [local EXCEPT ![p] = @ \union {d}]

(* Mutants of RecvHintedHandoff: the order is never kept; it is kept even  *)
(* when the channel is full.                                               *)
RecvNothing(n, p, d) == UNCHANGED <<handoffs, dropped>>

RecvUnbounded(n, p, d) ==
  /\ handoffs' = IF p = NoNode THEN handoffs
                 ELSE [handoffs EXCEPT ![n][p] = Append(@, d)]
  /\ UNCHANGED dropped

(* recvHintedHandoffCallback, at the end of a write for another node. *)
RecvHintedHandoff(n, p, d) ==
  IF p = NoNode
  THEN UNCHANGED <<handoffs, dropped>>
  ELSE IF Len(handoffs[n][p]) < maxHintedHandoffsPerPeer
       THEN /\ handoffs' = [handoffs EXCEPT ![n][p] = Append(@, d)]
            /\ UNCHANGED dropped
       ELSE /\ dropped' = dropped \union {<<p, d>>}
            /\ UNCHANGED handoffs

(* One writer is closed.  The answer of a node that did store the digest   *)
(* may be lost, which is one more failure.                                 *)
CloseWriter(o, w) ==
  /\ pc[o] = "closing" /\ w \in unclosed[o]
  /\ unclosed' = [unclosed EXCEPT ![o] = @ \ {w}]
  /\ CASE w.via = "stream" ->
            /\ Store(w.peer, digest[o])
            /\ RecvHintedHandoff(w.peer, w.handoff, digest[o])
            /\ \/ UNCHANGED <<closeFailed, failures>>
               \/ /\ failures < MaxFailures /\ failures' = failures + 1
                  /\ closeFailed' = closeFailed \union {o}
       [] w.via = "local" ->
            /\ Store(w.peer, digest[o])
            /\ UNCHANGED <<handoffs, dropped, closeFailed, failures>>
       [] w.via = "devnull" ->
            UNCHANGED <<local, handoffs, dropped, closeFailed, failures>>
       [] w.via = "broken" ->
            /\ closeFailed' = closeFailed \union {o}
            /\ UNCHANGED <<local, handoffs, dropped, failures>>
  /\ UNCHANGED <<status, isolation, draining, pc, opVars, ps, writers, readVars>>

(* Mutant of Closed: the error of a writer is dropped. *)
ClosedAnyway(o) == unclosed[o] = {}

(* Close succeeds when every writer has been closed without an error. *)
Closed(o) == unclosed[o] = {} /\ o \notin closeFailed

EndWrite(o) ==
  /\ pc[o] = "closing" /\ unclosed[o] = {}
  /\ AnswerWrite(o, IF Closed(o) THEN "ok" ELSE "error")
-----------------------------------------------------------------------------
(* Reading: Contains, Reader and Get, and one digest of a FindMissing or   *)
(* GetMulti.                                                               *)

Done(o) == pc[o] = "ok"

StartRead(o, n, d) ==
  /\ \E peers \in ReadPeerSets(n, Preferred(d), Fallback(d)) :
       Begin(o, n, d, peers, "asking")
  /\ known' = [known EXCEPT ![o] = {w \in WriteOp : Done(w) /\ digest[w] = d}]
  /\ UNCHANGED <<nodeVars, local, handoffVars, writeVars, erred, lacking>>

(* Mutant of AskPeer: a node that fails is not marked as failed. *)
AskUnmarked(o) ==
  /\ pc[o] = "asking" /\ HasNextPeer(ps[o])
  /\ LET p == NextPeer(ps[o])
     IN /\ ps' = [ps EXCEPT ![o] = Advance(@)]
        /\ IF Answers(p) \/ IsLocal(o, p)
           THEN IF digest[o] \in local[p]
                THEN Go(o, "backfilling") /\ UNCHANGED <<erred, lacking>>
                ELSE /\ lacking' = [lacking EXCEPT ![o] = @ \union {p}]
                     /\ UNCHANGED <<pc, opVars, erred>>
           ELSE /\ erred' = [erred EXCEPT ![o] = @ \union {p}]
                /\ UNCHANGED <<pc, opVars, lacking>>
  /\ UNCHANGED <<nodeVars, local, handoffVars, writeVars, known>>

AskPeer(o) ==
  /\ pc[o] = "asking" /\ HasNextPeer(ps[o])
  /\ LET p == NextPeer(ps[o])
     IN IF Answers(p) \/ IsLocal(o, p)
        THEN /\ ps' = [ps EXCEPT ![o] = Advance(@)]
             /\ IF digest[o] \in local[p]
                THEN Go(o, "backfilling") /\ UNCHANGED lacking
                ELSE /\ lacking' = [lacking EXCEPT ![o] = @ \union {p}]
                     /\ UNCHANGED <<pc, opVars>>
             /\ UNCHANGED erred
        ELSE /\ ps' = [ps EXCEPT ![o] = MarkPeerAsFailed(Advance(@), p)]
             /\ erred' = [erred EXCEPT ![o] = @ \union {p}]
             /\ UNCHANGED <<pc, opVars, lacking>>
  /\ UNCHANGED <<nodeVars, local, handoffVars, writeVars, known>>

(* Errors or not, what no peer returned is missing. *)
AllAsked(o) ==
  /\ pc[o] = "asking" /\ ~HasNextPeer(ps[o])
  /\ AnswerRead(o, "missing")
  /\ UNCHANGED local

(* dedupeBackfills keeps one order for a digest: the first peer that lacks *)
(* it.  An error is only logged.                                           *)
BackfillPeers(o) ==
  /\ pc[o] = "backfilling"
  /\ LET source  == LastPeer(ps[o])
         targets == BackfillTargets(ps[o])
         Can(p)  == Answers(p) \/ IsLocal(o, p)
     IN IF targets # <<>> /\ Can(source) /\ Can(targets[1])
        THEN Store(targets[1], digest[o])
        ELSE UNCHANGED local
  /\ AnswerRead(o, "ok")
-----------------------------------------------------------------------------
(* Hinted handoffs, heartbeats and failures.                               *)

(* heartbeatPeers: whoever answers is sent what is kept for it. *)
SendHeartbeat(n, p) ==
  /\ Alive(n) /\ Answers(p) /\ n # p
  /\ handoffs[n][p] # <<>> /\ <<n, p>> \notin draining
  /\ draining' = draining \union {<<n, p>>}
  /\ UNCHANGED <<nodeVars, local, handoffs, dropped, pc, opVars, ps, writeVars,
                 readVars>>

(* Mutant of SendFile: an order is taken off and forgotten. *)
SendNothing(n, p) ==
  /\ <<n, p>> \in draining /\ handoffs[n][p] # <<>>
  /\ handoffs' = [handoffs EXCEPT ![n][p] = Tail(@)]
  /\ UNCHANGED <<nodeVars, local, draining, dropped, pc, opVars, ps, writeVars,
                 readVars>>

(* handleHintedHandoffs, one order: it has left the channel before the     *)
(* file is sent, and an error ends the loop, but not another one that an   *)
(* earlier heartbeat started for the same channel.                         *)
SendFile(n, p) ==
  /\ <<n, p>> \in draining /\ handoffs[n][p] # <<>>
  /\ handoffs' = [handoffs EXCEPT ![n][p] = Tail(@)]
  /\ IF Answers(p)
     THEN Store(p, Head(handoffs[n][p])) /\ UNCHANGED <<draining, dropped>>
     ELSE /\ dropped' = dropped \union {<<p, Head(handoffs[n][p])>>}
          /\ UNCHANGED draining \/ draining' = draining \ {<<n, p>>}
          /\ UNCHANGED local
  /\ UNCHANGED <<nodeVars, pc, opVars, ps, writeVars, readVars>>

HandedOff(n, p) ==
  /\ <<n, p>> \in draining /\ handoffs[n][p] = <<>>
  /\ draining' = draining \ {<<n, p>>}
  /\ UNCHANGED <<nodeVars, local, handoffs, dropped, pc, opVars, ps, writeVars,
                 readVars>>

(* Node n fails: the streams to it that are not closed yet break, and the  *)
(* requests in ended, those that died with it, leave nothing behind.       *)
Fail(n, s, ended) ==
  LET Broken(S) == {IF w.peer = n /\ w.via = "stream"
                    THEN [w EXCEPT !.via = "broken"] ELSE w : w \in S}
  IN /\ failures < MaxFailures
     /\ failures' = failures + 1
     /\ status' = [status EXCEPT ![n] = s]
     /\ unclosed' = [o \in WriteOp |->
                       IF o \in ended THEN {} ELSE Broken(unclosed[o])]
     /\ writers' = [o \in WriteOp |->
                      IF o \in ended THEN {}
                      ELSE (writers[o] \ unclosed[o]) \union Broken(unclosed[o])]
     /\ closeFailed' = closeFailed \ ended
     /\ pc' = [o \in Op |-> IF o \in ended THEN "error" ELSE pc[o]]
     /\ ps' = [o \in Op |-> IF o \in ended THEN NoPeers ELSE ps[o]]
     /\ at' = [o \in Op |-> IF o \in ended THEN AnyNode ELSE at[o]]
     /\ erred' = [o \in ReadOp |-> IF o \in ended THEN {} ELSE erred[o]]
     /\ lacking' = [o \in ReadOp |-> IF o \in ended THEN {} ELSE lacking[o]]
     /\ known' = [o \in ReadOp |-> IF o \in ended THEN {} ELSE known[o]]
     /\ UNCHANGED <<digest, isolation>>

(* Shutdown: the server stops; the node goes on for its own clients, and   *)
(* so do its heartbeats: the break in heartbeatPeers only leaves a select. *)
Shutdown(n) ==
  /\ status[n] = "serving"
  /\ Fail(n, "stopped", {})
  /\ UNCHANGED <<local, handoffVars>>

(* The orders and the requests of a node live in its memory. *)
Crash(n) ==
  /\ Alive(n)
  /\ Fail(n, "crashed",
          {o \in Op : at[o] = n /\ InFlight(o)})
  /\ handoffs' = [handoffs EXCEPT ![n] = [p \in Node |-> <<>>]]
  /\ draining' = {x \in draining : x[1] # n}
  /\ dropped' = dropped \union
       UNION {{p} \X ToSet(handoffs[n][p]) : p \in Node}
  /\ UNCHANGED local

StartListening(n) ==
  /\ status[n] # "serving"
  /\ status' = [status EXCEPT ![n] = "serving"]
  /\ UNCHANGED <<failures, isolation, local, handoffVars, pc, opVars, ps,
                 writeVars, readVars>>

Next ==
  \/ \E o \in WriteOp :
       \/ \E n \in Node, d \in Digest : StartWrite(o, n, d)
       \/ OpenWriter(o) \/ AllOpened(o) \/ WriteData(o) \/ EndWrite(o)
       \/ \E w \in unclosed[o] : CloseWriter(o, w)
  \/ \E o \in ReadOp :
       \/ \E n \in Node, d \in Digest : StartRead(o, n, d)
       \/ AskPeer(o) \/ AllAsked(o) \/ BackfillPeers(o)
  \/ \E n, p \in Node : SendHeartbeat(n, p) \/ SendFile(n, p) \/ HandedOff(n, p)
  \/ \E n \in Node : Shutdown(n) \/ Crash(n) \/ StartListening(n)

Spec == Init /\ [][Next]_vars

(* heartbeatPeers ticks for as long as the process lives. *)
FairSpec ==
  /\ Spec
  /\ \A n, p \in Node : /\ WF_vars(SendHeartbeat(n, p))
                        /\ WF_vars(SendFile(n, p))
                        /\ WF_vars(HandedOff(n, p))
-----------------------------------------------------------------------------
(* Properties.                                                             *)

Acked(o) == o \in WriteOp /\ Done(o)

FailedPeers(o) == ToSet(ps[o].failed)

(* A write that was acknowledged has as many copies as the replication     *)
(* factor says, whatever failed between opening the writers and closing    *)
(* them, and keeps them (multiWriter, multiWriteCloser.Close).             *)
Replicated ==
  \A o \in WriteOp : Acked(o) =>
    Cardinality({n \in Node : digest[o] \in local[n]}) >= ReplicationFactor

(* A preferred node that missed an acknowledged write has the digest by    *)
(* now, or some node keeps an order for it, or an order was lost in a way  *)
(* the code logs or in a crash - unless its stand-in was the coordinator's *)
(* own cache or had the digest already: then no order was ever written     *)
(* (remoteWriter, RemoteWriter, handleHintedHandoffs).                     *)
HandoffKept ==
  \A o \in WriteOp : Acked(o) =>
    \A p \in FailedPeers(o) :
      \/ digest[o] \in local[p]
      \/ \E n \in Node : digest[o] \in ToSet(handoffs[n][p])
      \/ <<p, digest[o]>> \in dropped
      \/ \E w \in writers[o] : w.handoff = p /\ w.via \in {"local", "devnull"}

(* A read that began after an acknowledged write, one that reached at      *)
(* least one preferred node, says "missing" only if two of the nodes it    *)
(* asked failed (all of them, if the replication factor is less): the      *)
(* fallback nodes are asked in the order the write used them.              *)
ReadSurvivesOne ==
  \A r \in ReadOp :
    (/\ pc[r] = "missing"
     /\ \E w \in known[r] : FailedPeers(w) # ToSet(Preferred(digest[w])))
      => Cardinality(erred[r]) >= Min({2, ReplicationFactor})

(* When a peer has returned the digest, that node has it, and the list of  *)
(* targets is of the preferred nodes that said they lack it, and of no     *)
(* node that failed (GetBackfillTargets).  A copy is made to the first of  *)
(* them only (dedupeBackfills).                                            *)
BackfillExact ==
  \A r \in ReadOp : pc[r] = "backfilling" =>
    /\ digest[r] \in local[LastPeer(ps[r])]
    /\ ToSet(BackfillTargets(ps[r])) =
         lacking[r] \intersect ToSet(Preferred(digest[r]))

(* Once a node serves for good, every order kept for it is carried out or  *)
(* lost in one of the ways above: heartbeats find the node sooner or later *)
(* (heartbeatPeers, handleHintedHandoffs).                                 *)
Delivered ==
  \A p \in Node, d \in Digest :
    <>[]Answers(p) =>
      ((\E n \in Node : d \in ToSet(handoffs[n][p]))
         ~> (d \in local[p] \/ <<p, d>> \in dropped))
=============================================================================
