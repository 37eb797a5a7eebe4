--------------------------- MODULE MCExecutorQueue ---------------------------
(* Instances of ExecutorQueue for TLC: three groups, tasks that fit alone  *)
(* and some of them together.                                              *)
EXTENDS ExecutorQueue

CONSTANTS g1, g2, g3, a1, a2, b1, b2, c1

MCGroupOf ==
  (a1 :> g1) @@ (a2 :> g1) @@ (b1 :> g2) @@ (b2 :> g2) @@ (c1 :> g3)

MCCapacity == [ram |-> 3, cpu |-> 2]

MCSize ==
  (a1 :> [ram |-> 1, cpu |-> 1]) @@ (a2 :> [ram |-> 3, cpu |-> 1]) @@
  (b1 :> [ram |-> 1, cpu |-> 2]) @@ (b2 :> [ram |-> 2, cpu |-> 1]) @@
  (c1 :> [ram |-> 1, cpu |-> 1])
=============================================================================
