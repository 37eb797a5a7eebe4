------------------------------- MODULE PeerSet -------------------------------
(***************************************************************************)
(* The order in which the distributed cache tries the nodes for a digest:  *)
(* its preferred peers first, then one fallback peer for each preferred    *)
(* peer that has failed.                                                   *)
(***************************************************************************)
EXTENDS Naturals, Sequences, SequencesExt

CONSTANTS
  Node,         \* the addresses of the nodes
  NoNode        \* the empty string of the code

ASSUME NoNodeIsNone == NoNode \notin Node

NewPeerSet(preferred, fallback) ==
  [preferred |-> preferred, fallback |-> fallback, failed |-> <<>>, i |-> 0]

(* NewRead: this node first if it is preferred, the others shuffled. *)
ReadPeerSets(localhost, preferred, fallback) ==
  {NewPeerSet(order, fallback) :
     order \in {s \in SetToSeqs(ToSet(preferred)) :
                  localhost \in ToSet(preferred) => s[1] = localhost}}

(* Only the failure of a preferred peer is noted. *)
MarkPeerAsFailed(ps, peer) ==
  IF peer \in ToSet(ps.preferred)
  THEN [ps EXCEPT !.failed = Append(@, peer)]
  ELSE ps

FallbackIndex(ps) == ps.i - Len(ps.preferred) + 1

HasNextPeer(ps) ==
  \/ ps.i < Len(ps.preferred)
  \/ FallbackIndex(ps) <= Len(ps.fallback) /\ FallbackIndex(ps) <= Len(ps.failed)

NextPeer(ps) ==
  IF ps.i < Len(ps.preferred) THEN ps.preferred[ps.i + 1]
                              ELSE ps.fallback[FallbackIndex(ps)]

(* The i-th fallback peer stands in for the i-th peer that failed. *)
HintedHandoff(ps) ==
  IF ps.i < Len(ps.preferred) THEN NoNode ELSE ps.failed[FallbackIndex(ps)]

Advance(ps) == [ps EXCEPT !.i = @ + 1]

(* GetBackfillTargets takes the last peer returned for the one that has    *)
(* the digest.                                                             *)
LastPeer(ps) == (ps.preferred \o ps.fallback)[ps.i]

(* The loop that leaves the failed peers out. *)
Unfailed(peers, failed) ==
  LET filtered[k \in 0..Len(peers)] ==
        IF k = 0 THEN <<>>
        ELSE IF peers[k] \in failed THEN filtered[k - 1]
             ELSE Append(filtered[k - 1], peers[k])
  IN filtered[Len(peers)]

(* Mutant of BackfillTargets: the failed peers are backfilled, too. *)
BackfillTargetsAll(ps) ==
  IF LastPeer(ps) \in ToSet(ps.failed) THEN <<>>
  ELSE SubSeq(ps.preferred, 1, Min({ps.i - 1, Len(ps.preferred)}))

BackfillTargets(ps) ==
  IF LastPeer(ps) \in ToSet(ps.failed) THEN <<>>
  ELSE Unfailed(SubSeq(ps.preferred, 1, Min({ps.i - 1, Len(ps.preferred)})),
                ToSet(ps.failed))
=============================================================================
