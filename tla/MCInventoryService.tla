------------------------ MODULE MCInventoryService ------------------------
(* Values of the constants for TLC's runs of InventoryService. *)
EXTENDS InventoryService, TLC

CONSTANTS o1    \* the small order

SameProduct == [o \in Orders |-> CHOOSE p \in Products : TRUE]
OneAndTwo == [o \in Orders |-> IF o = o1 THEN 1 ELSE 2]
ThreeUnits == [p \in Products |-> 3]

\* The workers of the pool are interchangeable.
WorkerSymmetry == Permutations(InvWorkers)
=============================================================================
