------------------------- MODULE MCDistributedCache -------------------------
(* An instance of DistributedCache for TLC: three nodes, two replicas.     *)
EXTENDS DistributedCache

CONSTANTS n1, n2, n3, d1, r1

MCReplicas == d1 :> <<n1, n2, n3>>
=============================================================================
