--------------------------- MODULE MCUsageTracker ---------------------------
(* Instances of UsageTracker for TLC. *)
EXTENDS UsageTracker, TLC

CONSTANTS s1, s2, g1, i1, i2

MCGroupOf == (i1 :> g1) @@ (i2 :> g1)

MCHomeOf == (i1 :> s1) @@ (i2 :> s2)

(* The servers can be swapped together with their increments. *)
Swap ==
  {p \in Permutations({s1, s2, i1, i2}) :
     \A i \in {i1, i2} : p[i] \in {i1, i2} /\ p[MCHomeOf[i]] = MCHomeOf[p[i]]}
=============================================================================
