----------------------------- MODULE MCConsumer -----------------------------
(* Values of the constants for TLC's runs of Consumer. *)
EXTENDS Consumer, TLC

\* Faults of each kind, and of all kinds together.
CONSTANTS MaxDrop, MaxDial, MaxConfirm, MaxConsume, MaxError, MaxCrash, MaxStop, MaxAny

Faults ==
    "drop" :> MaxDrop @@ "dial" :> MaxDial @@ "confirm" :> MaxConfirm
      @@ "consume" :> MaxConsume @@ "error" :> MaxError
      @@ "crash" :> MaxCrash @@ "stop" :> MaxStop @@ "any" :> MaxAny

\* The workers are interchangeable.
Symmetry == Permutations(Workers)
=============================================================================
