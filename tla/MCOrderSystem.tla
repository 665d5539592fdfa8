--------------------------- MODULE MCOrderSystem ---------------------------
(* Values of the constants for TLC's runs of OrderSystem. *)
EXTENDS OrderSystem, TLC

SameProduct == [o \in Orders |-> CHOOSE p \in Products : TRUE]
OneEach == [o \in Orders |-> 1]
OneUnit == [p \in Products |-> 1]
NoUnit == [p \in Products |-> 0]

\* The workers of a pool are interchangeable, and so are the replicas (used by
\* safety runs only).
WorkerSymmetry ==
    Permutations(InvWorkers) \cup Permutations(PayWorkers) \cup Permutations(EventWorkers)
      \cup Permutations(Replicas)
=============================================================================
