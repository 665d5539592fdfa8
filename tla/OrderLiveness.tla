--------------------------- MODULE OrderLiveness ---------------------------
(***************************************************************************)
(* SagaHistory under the fairness its goroutines have: every pool of       *)
(* workers and every recovery loop keeps taking steps, and every service   *)
(* is started some day.  Clients, operators and faults owe nothing.        *)
(*                                                                         *)
(* Recovery runs when order-service starts and whenever its ticker fires,  *)
(* and looks at nothing else: a run that starts while messages are being   *)
(* handled may re-publish what is on its way.  A request may be served     *)
(* before the services that its commands are for have ever been started.   *)
(* MaxDisturbed bounds these two and the faults together, so that finitely *)
(* many re-published commands suffice.                                     *)
(***************************************************************************)
EXTENDS SagaHistory

CONSTANT MaxDisturbed   \* bound: faults, hasty recovery runs and hasty requests

ASSUME LivenessAssumption == MaxDisturbed \in Nat

VARIABLE hasty      \* such runs and requests so far

liveVars == <<histVars, hasty>>

Quiet ==
    /\ queue = {}
    /\ \A w \in InvWorkers : iw[w].pc = "idle"
    /\ \A w \in PayWorkers : pw[w].pc = "idle"
    /\ \A w \in EventWorkers : ow[w].pc = "idle"

Ticks(r) == rec[r].phase = "wait" /\ rec'[r].phase # "wait"
Arrives(o) == http[o] = "none" /\ http'[o] # "none"

Hasty ==
    \/ ~Quiet /\ \E r \in Replicas : Ticks(r)
    \/ declared # Queues /\ \E o \in Orders : Arrives(o)

Paced ==
    /\ hasty' = IF Hasty THEN hasty + 1 ELSE hasty
    /\ faults' + hasty' <= MaxDisturbed

LiveNext == HistNext /\ Paced

\* A goroutine of a worker pool or of a recovery loop takes a step.
Progress ==
    /\ \/ \E w \in InvWorkers : InvStep(w) /\ UNCHANGED <<declared, payVars, orchVars>>
       \/ \E w \in PayWorkers : PayStep(w) /\ UNCHANGED <<declared, invVars, orchVars>>
       \/ \E w \in EventWorkers : EventStep(w) /\ UNCHANGED <<declared, invVars, payVars>>
       \/ \E r \in Replicas : RecoveryStep(r) /\ UNCHANGED <<declared, invVars, payVars>>
    /\ Remember /\ Paced

Starts == (\E q \in Queues : FirstStart(q)) /\ Remember /\ Paced

\* Some goroutine that can take a step takes one; which, is not assumed: none
\* can go on for ever by itself but an idle recovery loop in a quiet system.
Fairness == WF_liveVars(Progress) /\ WF_liveVars(Starts)

LiveInit == HistInit /\ hasty = 0

FairSpec == LiveInit /\ [][LiveNext]_liveVars /\ Fairness

\* README: recovery "re-publishes the step-appropriate command for any saga in
\* IN_PROGRESS or COMPENSATING", so that every saga that was started ends.
EverySagaEnds == \A o \in Orders : step[o] # "NONE" ~> step[o] = "DONE"

\* A saga that keeps to its diagram ends (for good: no edge leaves DONE), whichever
\* message, publication or process a fault took away on the way, and whatever
\* recovery re-publishes amid messages.
SagaEnds ==
    \A o \in Orders : step[o] # "NONE" ~> (step[o] = "DONE" \/ o \in strayed)

\* A decided payment (it stays decided) is followed up unless the saga strays:
\* after a charge the order gets CONFIRMED, after a refusal the stock goes back
\* or the saga asks for manual intervention by ending FAILED.
DecidedIsSettled ==
    \A o \in Orders :
        pay[o] \in {"SUCCESS", "FAILED"} ~>
            \/ pay[o] = "SUCCESS" /\ order[o] = "CONFIRMED"
            \/ pay[o] = "FAILED" /\ (Released(o) \/ status[o] = "FAILED")
            \/ o \in strayed
=============================================================================
