---------------------------- MODULE MCRangeLease ----------------------------
(* An instance of RangeLease for TLC.                                      *)
EXTENDS RangeLease, TLC

CONSTANTS n1, n2

(* One node meets with more trouble than the one it competes with. *)
Events == n1 :> 2 @@ n2 :> 1

(* The lease of the metarange has an expiration, hence more values: one    *)
(* event is enough there.                                                  *)
FewerForMeta == meta => events[n1] + events[n2] <= 1
=============================================================================
