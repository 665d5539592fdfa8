---------------------------- MODULE OrderSystem ----------------------------
(***************************************************************************)
(* The three services around the broker: every step is a step of one of    *)
(* them, or an operator's redrive of a dead letter.                        *)
(***************************************************************************)
EXTENDS Inventory, Payment, Orchestrator

vars == <<declared, msgVars, invVars, payVars, orchVars>>

Init == MsgInit /\ InvInit /\ PayInit /\ OrchInit

InventoryService ==
    /\ "inventory.commands" \in declared
    /\ InvNext
    /\ UNCHANGED <<declared, payVars, orchVars>>

PaymentService ==
    /\ "payment.commands" \in declared
    /\ PayNext
    /\ UNCHANGED <<declared, invVars, orchVars>>

OrderService == OrchNext /\ UNCHANGED <<declared, invVars, payVars>>

\* A service starts for the first time: Setup comes before its consumer and its
\* HTTP server, and nothing makes order-service wait for the others.
FirstStart(q) == Setup(q) /\ UNCHANGED <<msgVars, invVars, payVars, orchVars>>

RedriveDlq ==
    /\ \E m \in dlq : Redrive(m) \/ RedriveDies(m)
    /\ UNCHANGED <<declared, invVars, payVars, orchVars>>

Next ==
    \/ InventoryService \/ PaymentService \/ OrderService \/ RedriveDlq
    \/ \E q \in Queues : FirstStart(q)

Spec == Init /\ [][Next]_vars

TypeOK == declared \subseteq Queues /\ MsgTypeOK /\ InvTypeOK /\ PayTypeOK /\ OrchTypeOK

-----------------------------------------------------------------------------
(* Safety.                                                                 *)

\* An order that is charged keeps its goods: no later release, however late
\* or duplicated its command, gives back stock that was paid for.
ChargedKeepsStock == \A o \in Orders : pay[o] = "SUCCESS" => Held(o)

\* Stock goes back only after a reservation and only when the payment can no
\* longer succeed (handleRelease itself checks neither).
ReleasedOnlyUnpaid ==
    \A o \in Orders : Released(o) => Reserved(o) /\ pay[o] \in {"PENDING", "FAILED"}

\* What the client reads off an order is true of the other services' tables:
\* CONFIRMED orders are charged, COMPENSATED ones have their stock back.
StatusIsTrue ==
    \A o \in Orders :
        /\ order[o] = "CONFIRMED" => pay[o] = "SUCCESS"
        /\ order[o] = "COMPENSATED" => Released(o)

\* Every PaymentProcessedEvent on its way, duplicates and answers to
\* re-published commands included, tells the one outcome in the table.
PaymentAnswersAgree ==
    \A m \in queue \cup dlq :
        m.key = "payment.processed" =>
            /\ pay[m.order] # "NONE"
            /\ m.ok <=> pay[m.order] = "SUCCESS"

ChargedOf(p) == {o \in Orders : pay[o] = "SUCCESS" /\ ProductOf[o] = p}

\* Goods are not sold twice: the charged orders of a product never ask for
\* more than the stock it started with (no PUT has changed it).
NoOversell == puts = 0 => \A p \in Products : Qty(ChargedOf(p)) <= SeedStock[p]

Known(o) == ProductOf[o] \in skus

\* An order for a product without a row waits: it is neither rejected nor its
\* charge decided, whatever dead letters and re-published commands it leaves.
UnknownProductWaits ==
    \A o \in Orders : ~Known(o) =>
        step[o] \in {"NONE", "RESERVING_INVENTORY"} /\ pay[o] \in {"NONE", "PENDING"}

-----------------------------------------------------------------------------
(* The saga as README draws it, status and current_step together.          *)

SagaState(o) == <<step[o], status[o]>>

Edges == {
    <<<<"NONE", "NONE">>, <<"RESERVING_INVENTORY", "IN_PROGRESS">>>>,
    <<<<"RESERVING_INVENTORY", "IN_PROGRESS">>, <<"PROCESSING_PAYMENT", "IN_PROGRESS">>>>,
    <<<<"RESERVING_INVENTORY", "IN_PROGRESS">>, <<"DONE", "FAILED">>>>,
    <<<<"PROCESSING_PAYMENT", "IN_PROGRESS">>, <<"DONE", "COMPLETED">>>>,
    <<<<"PROCESSING_PAYMENT", "IN_PROGRESS">>, <<"RELEASING_INVENTORY", "COMPENSATING">>>>,
    <<<<"RELEASING_INVENTORY", "COMPENSATING">>, <<"DONE", "COMPENSATED">>>>,
    <<<<"RELEASING_INVENTORY", "COMPENSATING">>, <<"DONE", "FAILED">>>>}

\* The saga of an order only ever moves along an arrow of the diagram: late,
\* duplicated and re-published events never move it back or out of DONE.
SagaLifecycle ==
    [][\A o \in Orders :
          SagaState(o)' # SagaState(o) => <<SagaState(o), SagaState(o)'>> \in Edges]_vars

\* orders.status and saga_states of one order tell the same story.
OrderMatches(o) ==
    SagaState(o) \in
        CASE order[o] = "NONE" -> {<<"NONE", "NONE">>}
          [] order[o] = "PENDING" -> {<<"NONE", "NONE">>, <<"RESERVING_INVENTORY", "IN_PROGRESS">>}
          [] order[o] = "INVENTORY_RESERVED" -> {<<"PROCESSING_PAYMENT", "IN_PROGRESS">>}
          [] order[o] = "CONFIRMED" -> {<<"DONE", "COMPLETED">>}
          [] order[o] = "FAILED" -> {<<"DONE", "FAILED">>, <<"RELEASING_INVENTORY", "COMPENSATING">>}
          [] order[o] = "COMPENSATED" -> {<<"DONE", "COMPENSATED">>}

\* They do so in every state.
OrderMatchesSaga == \A o \in Orders : OrderMatches(o)

-----------------------------------------------------------------------------
(* What the documentation says and the runs refute.                        *)

\* An order whose saga ended FAILED leaves no stock behind (with no fault, so
\* no compensation that errs).
FailedHoldsNoStock == \A o \in Orders : status[o] = "FAILED" => ~Held(o)

\* An order that FAILED was not charged.
FailedNotCharged == \A o \in Orders : status[o] = "FAILED" => pay[o] # "SUCCESS"

\* Releasing twice is harmless: a saga does not fail over a compensation that
\* was in fact carried out.
ReleaseIsIdempotent == \A o \in Orders : status[o] = "FAILED" => ~Released(o)

\* A request that is over leaves no order without a saga.
NoLostOrder == \A o \in Orders : http[o] = "done" => step[o] # "NONE"

-----------------------------------------------------------------------------
\* The implementation relation to OrderContract: the two databases' rows.
stockOf == [o \in Orders |->
    IF ~Reserved(o) THEN "free" ELSE IF Released(o) THEN "returned" ELSE "held"]
Money(row) ==
    CASE row = "NONE" -> "none"
      [] row = "SUCCESS" -> "charged"
      [] row = "FAILED" -> "declined"
      [] row = "PENDING" -> "blocked"
moneyOf == [o \in Orders |-> Money(pay[o])]

Contract == INSTANCE OrderContract WITH stock <- stockOf, money <- moneyOf

\* Every step of the services is a step of the contract, or none.
ImplementsContract == Contract!Spec

-----------------------------------------------------------------------------
(* Why: every message, wherever it waits, and every worker, whatever it     *)
(* remembers, speaks of a fact that is in the tables for good.  Facts of     *)
(* this kind are never undone (a log row stays, a payment row is decided     *)
(* once), so stale, duplicated and reordered messages stay truthful.         *)

Unpaid(o) == pay[o] \in {"PENDING", "FAILED"}

Truthful(m) ==
    /\ m.key = "inventory.reserved" /\ m.ok => Reserved(m.order)
    /\ m.key = "payment.process" => Reserved(m.order)
    /\ m.key = "payment.processed" =>
           /\ Reserved(m.order)
           /\ pay[m.order] # "NONE"
           /\ m.ok <=> pay[m.order] = "SUCCESS"
    /\ m.key = "inventory.release" => Reserved(m.order) /\ Unpaid(m.order)
    /\ m.key = "inventory.released" /\ m.ok => Released(m.order)

MessagesTruthful == \A m \in queue \cup dlq : Truthful(m)

InvWorkerTruthful(w) ==
    iw[w].pc # "idle" =>
        /\ iw[w].msg \in Message
        /\ iw[w].msg.key \in {"inventory.reserve", "inventory.release"}
        /\ Truthful(iw[w].msg)
        /\ iw[w].pc \in {"read", "cas"} => iw[w].msg.key = "inventory.reserve"
        /\ iw[w].pc = "release" => iw[w].msg.key = "inventory.release"
        /\ iw[w].pc = "yes" =>
               IF iw[w].msg.key = "inventory.reserve"
               THEN Reserved(iw[w].msg.order) ELSE Released(iw[w].msg.order)

PayWorkerTruthful(w) ==
    pw[w].pc # "idle" =>
        /\ pw[w].msg \in Message
        /\ pw[w].msg.key = "payment.process"
        /\ Truthful(pw[w].msg)
        /\ pw[w].pc = "reply" =>
               /\ pay[pw[w].msg.order] # "NONE"
               /\ pw[w].ok <=> pay[pw[w].msg.order] = "SUCCESS"

EventWorkerTruthful(w) ==
    ow[w].pc # "idle" =>
        /\ ow[w].msg \in Message
        /\ ow[w].msg.key \in Events
        /\ Truthful(ow[w].msg)
        /\ ow[w].pc = "publish" =>
               \/ ow[w].msg.key = "inventory.reserved" /\ ow[w].msg.ok
               \/ ow[w].msg.key = "payment.processed" /\ ~ow[w].msg.ok

\* What a step of the saga, as stored or as listed by a recovery loop, implies.
StepTruthful(o, s) ==
    /\ s = "PROCESSING_PAYMENT" => Reserved(o)
    /\ s = "RELEASING_INVENTORY" => Reserved(o) /\ Unpaid(o)

RecoveryTruthful(r) == \A x \in rec[r].list : StepTruthful(x[1], x[2])

SagaTruthful(o) ==
    /\ StepTruthful(o, step[o])
    /\ order[o] = "CONFIRMED" => pay[o] = "SUCCESS"
    /\ order[o] = "COMPENSATED" => Released(o)

\* The rows of the inventory and the payment databases, against each other.
TablesTruthful(o) ==
    /\ pay[o] \in {"SUCCESS", "FAILED"} => Reserved(o)
    /\ Released(o) => Reserved(o) /\ Unpaid(o)

\* The inductive invariant: no message, worker or recovery list is ahead of
\* the tables it was derived from.
Causality ==
    /\ MessagesTruthful
    /\ \A w \in InvWorkers : InvWorkerTruthful(w)
    /\ \A w \in PayWorkers : PayWorkerTruthful(w)
    /\ \A w \in EventWorkers : EventWorkerTruthful(w)
    /\ \A r \in Replicas : RecoveryTruthful(r)
    /\ \A o \in Orders : SagaTruthful(o)
    /\ \A o \in Orders : TablesTruthful(o)
=============================================================================
