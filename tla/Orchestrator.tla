---------------------------- MODULE Orchestrator ----------------------------
(***************************************************************************)
(* order-service: the orders and saga_states tables, POST /orders, the     *)
(* event workers that run SagaOrchestrator.HandleEvent and the recovery    *)
(* loop of each replica.                                                   *)
(*                                                                         *)
(* A Commit* transaction of SagaRepository is two steps.  Its plain SELECTs *)
(* read a snapshot (InnoDB, REPEATABLE READ: neither the services nor the  *)
(* deployment changes the default), and its UPDATEs name the row by primary *)
(* key and act on whatever is committed when they run.  TakeEvent reads    *)
(* the snapshot and evaluates the guards; the Commit actions write.        *)
(***************************************************************************)
EXTENDS Messages

CONSTANTS
    EventWorkers,
    Replicas,       \* order-service processes, each with a recovery loop
    MaxRepublish    \* bound: commands the recovery loops may re-publish

ASSUME OrchestratorAssumption == MaxRepublish \in Nat

VARIABLES
    http,           \* progress of each order's POST /orders
    order,          \* orders.status, "NONE" before the row exists
    step, status,   \* saga_states.current_step and status of the order's saga
    processed,      \* processed_events of this service
    ow,             \* the event workers
    rec,            \* the recovery loops
    republished     \* commands they have put on a queue so far

orchVars == <<http, order, step, status, processed, ow, rec, republished>>

OrderStatus == {"NONE", "PENDING", "INVENTORY_RESERVED", "CONFIRMED",
                "FAILED", "COMPENSATED"}
Steps == {"RESERVING_INVENTORY", "PROCESSING_PAYMENT", "RELEASING_INVENTORY", "DONE"}
Statuses == {"IN_PROGRESS", "COMPLETED", "FAILED", "COMPENSATING", "COMPENSATED"}

EventWorker == [pc : {"idle", "commit", "publish"}, msg : Message \cup {NoMessage}]
IdleEvent == [pc |-> "idle", msg |-> NoMessage]

\* list is what ListByStatus returned and is not yet handled.
RecoveryLoop == [phase : {"wait", "inProgress", "compensating"},
                 list : SUBSET (Orders \X Steps)]
Waiting == [phase |-> "wait", list |-> {}]

OrchInit ==
    /\ http = [o \in Orders |-> "none"]
    /\ order = [o \in Orders |-> "NONE"]
    /\ step = [o \in Orders |-> "NONE"]
    /\ status = [o \in Orders |-> "NONE"]
    /\ processed = {}
    /\ ow = [w \in EventWorkers |-> IdleEvent]
    /\ rec = [r \in Replicas |-> Waiting]
    /\ republished = 0

-----------------------------------------------------------------------------
(* POST /orders: OrderHandler.Create, in its three separate commits.       *)

CreateOrder(o) ==
    /\ http[o] = "none"
    /\ order' = [order EXCEPT ![o] = "PENDING"]
    /\ http' = [http EXCEPT ![o] = "order"]
    /\ UNCHANGED <<msgVars, step, status, processed, ow, rec, republished>>

\* StartSaga writes saga_states ...
StartSaga(o) ==
    /\ http[o] = "order"
    /\ step' = [step EXCEPT ![o] = "RESERVING_INVENTORY"]
    /\ status' = [status EXCEPT ![o] = "IN_PROGRESS"]
    /\ http' = [http EXCEPT ![o] = "saga"]
    /\ UNCHANGED <<msgVars, order, processed, ow, rec, republished>>

\* ... then publishes ReserveInventoryCmd.
StartSagaPublish(o) ==
    /\ http[o] = "saga"
    /\ Publish("inventory.reserve", o, TRUE)
    /\ http' = [http EXCEPT ![o] = "done"]
    /\ UNCHANGED <<order, step, status, processed, ow, rec, republished>>

\* The request dies after either commit: a crash, or an error it answers with.
RequestFails(o) ==
    /\ http[o] \in {"order", "saga"}
    /\ Fault
    /\ http' = [http EXCEPT ![o] = "done"]
    /\ UNCHANGED <<queue, dlq, sent, order, step, status, processed, ow, rec, republished>>

-----------------------------------------------------------------------------
(* order.events: HandleEvent.                                              *)

\* Mutant: CommitInventoryReserved without its current_step guard.
ExpectsAnyReserved(m) ==
    \/ m.key = "inventory.reserved"
    \/ m.key = "payment.processed" /\ step[m.order] = "PROCESSING_PAYMENT"
    \/ m.key = "inventory.released" /\ step[m.order] = "RELEASING_INVENTORY"

\* The state guards of the three Commit* functions; other keys are skipped.
Expects(m) ==
    \/ m.key = "inventory.reserved" /\ step[m.order] = "RESERVING_INVENTORY"
    \/ m.key = "payment.processed" /\ step[m.order] = "PROCESSING_PAYMENT"
    \/ /\ m.key = "inventory.released"
       /\ status[m.order] = "COMPENSATING"
       /\ step[m.order] = "RELEASING_INVENTORY"

\* An event is received and the transaction's snapshot is read.  A processed
\* or unexpected event is skipped and acknowledged.
TakeEvent(w, m) ==
    /\ ow[w].pc = "idle"
    /\ m.key \in Events \cup {DeadEvent}
    /\ Take(m)
    /\ ow' = IF Expects(m) /\ Id(m) \notin processed
             THEN [ow EXCEPT ![w] = [pc |-> "commit", msg |-> m]]
             ELSE ow
    /\ UNCHANGED <<http, order, step, status, processed, rec, republished>>

\* Every Commit* ends by inserting the event id, its primary key.
MarkProcessed(m) ==
    /\ Id(m) \notin processed
    /\ processed' = processed \cup {Id(m)}

CommitInventoryReserved(w) ==
    LET m == ow[w].msg  o == m.order IN
    /\ ow[w].pc = "commit"
    /\ m.key = "inventory.reserved"
    /\ MarkProcessed(m)
    /\ IF m.ok
       THEN /\ order' = [order EXCEPT ![o] = "INVENTORY_RESERVED"]
            /\ step' = [step EXCEPT ![o] = "PROCESSING_PAYMENT"]
            /\ status' = status
            /\ ow' = [ow EXCEPT ![w].pc = "publish"]
       ELSE /\ order' = [order EXCEPT ![o] = "FAILED"]
            /\ step' = [step EXCEPT ![o] = "DONE"]
            /\ status' = [status EXCEPT ![o] = "FAILED"]
            /\ ow' = [ow EXCEPT ![w] = IdleEvent]
    /\ UNCHANGED <<msgVars, http, rec, republished>>

CommitPaymentProcessed(w) ==
    LET m == ow[w].msg  o == m.order IN
    /\ ow[w].pc = "commit"
    /\ m.key = "payment.processed"
    /\ MarkProcessed(m)
    /\ IF m.ok
       THEN /\ order' = [order EXCEPT ![o] = "CONFIRMED"]
            /\ step' = [step EXCEPT ![o] = "DONE"]
            /\ status' = [status EXCEPT ![o] = "COMPLETED"]
            /\ ow' = [ow EXCEPT ![w] = IdleEvent]
       ELSE /\ order' = [order EXCEPT ![o] = "FAILED"]
            /\ step' = [step EXCEPT ![o] = "RELEASING_INVENTORY"]
            /\ status' = [status EXCEPT ![o] = "COMPENSATING"]
            /\ ow' = [ow EXCEPT ![w].pc = "publish"]
    /\ UNCHANGED <<msgVars, http, rec, republished>>

\* Mutant: the order becomes COMPENSATED whatever the event says.
CommitReleasedBlindly(w) ==
    LET m == ow[w].msg  o == m.order IN
    /\ ow[w].pc = "commit"
    /\ m.key = "inventory.released"
    /\ MarkProcessed(m)
    /\ order' = [order EXCEPT ![o] = "COMPENSATED"]
    /\ step' = [step EXCEPT ![o] = "DONE"]
    /\ status' = [status EXCEPT ![o] = IF m.ok THEN "COMPENSATED" ELSE "FAILED"]
    /\ ow' = [ow EXCEPT ![w] = IdleEvent]
    /\ UNCHANGED <<msgVars, http, rec, republished>>

CommitInventoryReleased(w) ==
    LET m == ow[w].msg  o == m.order IN
    /\ ow[w].pc = "commit"
    /\ m.key = "inventory.released"
    /\ MarkProcessed(m)
    /\ order' = IF m.ok THEN [order EXCEPT ![o] = "COMPENSATED"] ELSE order
    /\ step' = [step EXCEPT ![o] = "DONE"]
    /\ status' = [status EXCEPT ![o] = IF m.ok THEN "COMPENSATED" ELSE "FAILED"]
    /\ ow' = [ow EXCEPT ![w] = IdleEvent]
    /\ UNCHANGED <<msgVars, http, rec, republished>>

\* Another worker committed the same event since the snapshot: the insert of
\* its id fails, the transaction rolls back and the handler errs.
CommitDuplicate(w) ==
    /\ ow[w].pc = "commit"
    /\ Id(ow[w].msg) \in processed
    /\ HandlerError(ow[w].msg)
    /\ ow' = [ow EXCEPT ![w] = IdleEvent]
    /\ UNCHANGED <<faults, http, order, step, status, processed, rec, republished>>

\* The command that follows a commit, and the acknowledgement of the event.
NextCommand(m) ==
    IF m.key = "inventory.reserved" THEN "payment.process" ELSE "inventory.release"

PublishNext(w) ==
    /\ ow[w].pc = "publish"
    /\ Publish(NextCommand(ow[w].msg), ow[w].msg.order, TRUE)
    /\ ow' = [ow EXCEPT ![w] = IdleEvent]
    /\ UNCHANGED <<http, order, step, status, processed, rec, republished>>

EventAbort(w) ==
    /\ ow[w].pc # "idle"
    /\ Abort(ow[w].msg)
    /\ ow' = [ow EXCEPT ![w] = IdleEvent]
    /\ UNCHANGED <<http, order, step, status, processed, rec, republished>>

EventDuplicate(w) ==
    /\ ow[w].pc # "idle"
    /\ Duplicate(ow[w].msg)
    /\ UNCHANGED orchVars

-----------------------------------------------------------------------------
(* The recovery loop: runRecovery of replica r.                            *)

\* ListByStatus.
Listed(s) == {<<o, step[o]>> : o \in {x \in Orders : status[x] = s}}

\* A tick, or the start of the process.
ListInProgress(r) ==
    /\ rec[r].phase = "wait"
    /\ rec' = [rec EXCEPT ![r] = [phase |-> "inProgress", list |-> Listed("IN_PROGRESS")]]
    /\ UNCHANGED <<msgVars, http, order, step, status, processed, ow, republished>>

ListCompensating(r) ==
    /\ rec[r].phase = "inProgress"
    /\ rec[r].list = {}
    /\ rec' = [rec EXCEPT ![r] = [phase |-> "compensating", list |-> Listed("COMPENSATING")]]
    /\ UNCHANGED <<msgVars, http, order, step, status, processed, ow, republished>>

RecoveryDone(r) ==
    /\ rec[r].phase = "compensating"
    /\ rec[r].list = {}
    /\ rec' = [rec EXCEPT ![r] = Waiting]
    /\ UNCHANGED <<msgVars, http, order, step, status, processed, ow, republished>>

\* Mutant: the recovery loop does not look at COMPENSATING sagas.
RecoverableInProgress(phase, s) ==
    phase = "inProgress" /\ s \in {"RESERVING_INVENTORY", "PROCESSING_PAYMENT"}

\* Mutant: PROCESSING_PAYMENT falls into the default branch.
RecoverableNoPayment(phase, s) ==
    \/ phase = "inProgress" /\ s = "RESERVING_INVENTORY"
    \/ phase = "compensating" /\ s = "RELEASING_INVENTORY"

\* The steps recoverInProgress and recoverCompensating know a command for.
Recoverable(phase, s) ==
    \/ phase = "inProgress" /\ s \in {"RESERVING_INVENTORY", "PROCESSING_PAYMENT"}
    \/ phase = "compensating" /\ s = "RELEASING_INVENTORY"

\* Mutant: recovery releases the stock of a saga that waits for its payment.
StepCommandReleases(s) ==
    IF s = "RESERVING_INVENTORY" THEN "inventory.reserve" ELSE "inventory.release"

\* Mutant: recovery goes straight to the payment.
StepCommandCharges(s) ==
    IF s = "RELEASING_INVENTORY" THEN "inventory.release" ELSE "payment.process"

StepCommand(s) ==
    CASE s = "RESERVING_INVENTORY" -> "inventory.reserve"
      [] s = "PROCESSING_PAYMENT" -> "payment.process"
      [] s = "RELEASING_INVENTORY" -> "inventory.release"

\* The command of the step as it was listed is published under a new id.
Republish(r, x) ==
    /\ x \in rec[r].list
    /\ Recoverable(rec[r].phase, x[2])
    /\ republished < MaxRepublish
    /\ Publish(StepCommand(x[2]), x[1], TRUE)
    /\ republished' = IF Routed(StepCommand(x[2])) THEN republished + 1 ELSE republished
    /\ rec' = [rec EXCEPT ![r].list = @ \ {x}]
    /\ UNCHANGED <<http, order, step, status, processed, ow>>

\* An unexpected step is logged and passed over (and, past the bound, any).
PassOver(r, x) ==
    /\ x \in rec[r].list
    /\ Recoverable(rec[r].phase, x[2]) => republished = MaxRepublish
    /\ rec' = [rec EXCEPT ![r].list = @ \ {x}]
    /\ UNCHANGED <<msgVars, http, order, step, status, processed, ow, republished>>

\* The process dies, a query fails (that of the IN_PROGRESS sagas does not
\* keep the loop from the COMPENSATING ones), or a publication does and is
\* logged: what is dropped from the list is left to the next tick.
RecoveryFails(r) ==
    /\ rec[r].phase # "wait"
    /\ Fault
    /\ \/ rec' = [rec EXCEPT ![r] = Waiting]
       \/ rec' = [rec EXCEPT ![r].list = {}]
       \/ \E x \in rec[r].list : rec' = [rec EXCEPT ![r].list = @ \ {x}]
    /\ UNCHANGED <<queue, dlq, sent, http, order, step, status, processed, ow, republished>>

RecoveryStep(r) ==
    \/ ListInProgress(r) \/ ListCompensating(r) \/ RecoveryDone(r)
    \/ \E x \in rec[r].list : Republish(r, x) \/ PassOver(r, x)

EventStep(w) ==
    \/ \E m \in queue : TakeEvent(w, m)
    \/ CommitInventoryReserved(w) \/ CommitPaymentProcessed(w)
    \/ CommitInventoryReleased(w) \/ CommitDuplicate(w)
    \/ PublishNext(w)

Request(o) == CreateOrder(o) \/ StartSaga(o) \/ StartSagaPublish(o)

OrchNext ==
    \/ \E o \in Orders : Request(o) \/ RequestFails(o)
    \/ \E w \in EventWorkers : EventStep(w) \/ EventAbort(w) \/ EventDuplicate(w)
    \/ \E r \in Replicas : RecoveryStep(r) \/ RecoveryFails(r)

OrchTypeOK ==
    /\ http \in [Orders -> {"none", "order", "saga", "done"}]
    /\ order \in [Orders -> OrderStatus]
    /\ step \in [Orders -> Steps \cup {"NONE"}]
    /\ status \in [Orders -> Statuses \cup {"NONE"}]
    /\ \A o \in Orders : status[o] # "NONE" => step[o] # "NONE"
    /\ processed \subseteq Ids
    /\ ow \in [EventWorkers -> EventWorker]
    /\ rec \in [Replicas -> RecoveryLoop]
    /\ republished \in 0..MaxRepublish
=============================================================================
