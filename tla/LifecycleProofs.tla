--------------------------- MODULE LifecycleProofs ---------------------------
(***************************************************************************)
(* How a saga can leave its diagram, and that orders.status agrees with    *)
(* the sagas that have not, for any number of event workers, orders,       *)
(* recovery loops, faults, retries and re-published commands.              *)
(***************************************************************************)
EXTENDS OrderSystemProofs, SagaHistory

\* A request has a saga only after it has committed one.
RequestMatchesSaga(o) ==
    /\ http[o] = "none" => order[o] = "NONE" /\ SagaState(o) = <<"NONE", "NONE">>
    /\ http[o] = "order" => order[o] = "PENDING" /\ SagaState(o) = <<"NONE", "NONE">>

\* The part of a worker's snapshot that no other worker can outdate: a saga, once
\* started, stays started, and does not go back to reserving.
SeenPast(w) ==
    ow[w].pc = "commit" =>
        /\ step[ow[w].msg.order] # "NONE"
        /\ ow[w].msg.key # "inventory.reserved" =>
               step[ow[w].msg.order] # "RESERVING_INVENTORY"

\* With IInv, inductive.
InStep ==
    /\ DisagreesOnlyAstray
    /\ \A w \in EventWorkers : SeenPast(w)
    /\ \A o \in Orders : RequestMatchesSaga(o)

\* What a step may do: only a commit on an outdated snapshot strays.
StraysOnStale ==
    \A o \in strayed' \ strayed : \E w \in EventWorkers : Outdated(w, o)

-----------------------------------------------------------------------------
\* A step that touches neither orders nor sagas.
LEMMA NoRowTouched ==
    ASSUME InStep, Remember \/ UNCHANGED strayed, UNCHANGED <<order, step, status>>
    PROVE  DisagreesOnlyAstray' /\ StraysOnStale
<1>1. \A o \in Orders : SagaState(o)' = SagaState(o)
  BY DEF SagaState
<1>2. strayed' = strayed
  BY <1>1 DEF Remember, Leaves
<1>3. \A o \in Orders : OrderMatches(o)' <=> OrderMatches(o)
  BY <1>1 DEF OrderMatches
<1>4. QED
  BY <1>2, <1>3 DEF InStep, DisagreesOnlyAstray, StraysOnStale

\* A step that touches neither orders, sagas, requests nor event workers.
LEMMA Untouched ==
    ASSUME InStep, Remember \/ UNCHANGED strayed, UNCHANGED <<http, order, step, status, ow>>
    PROVE  InStep' /\ StraysOnStale
<1>1. \A o \in Orders : RequestMatchesSaga(o)'
  BY DEF InStep, RequestMatchesSaga, SagaState
<1>2. \A w \in EventWorkers : SeenPast(w)'
  BY DEF InStep, SeenPast
<1>3. QED
  BY <1>1, <1>2, NoRowTouched DEF InStep

\* A request creates the order, then the saga.
LEMMA RequestInStep ==
    ASSUME IInv, InStep, Remember, NEW o \in Orders, Request(o) \/ RequestFails(o)
    PROVE  InStep' /\ StraysOnStale
<1>0. /\ http \in [Orders -> {"none", "order", "saga", "done"}]
      /\ order \in [Orders -> OrderStatus]
      /\ step \in [Orders -> Steps \cup {"NONE"}]
      /\ status \in [Orders -> Statuses \cup {"NONE"}]
      /\ RequestMatchesSaga(o)
      /\ \A w \in EventWorkers : EventWorkerTruthful(w) /\ SeenPast(w)
  BY DEF IInv, TypeOK, OrchTypeOK, InStep, Causality
<1>1. ASSUME UNCHANGED <<order, step, status, ow>>, http' = [http EXCEPT ![o] = "done"]
      PROVE  InStep' /\ StraysOnStale
  <2>1. \A x \in Orders : RequestMatchesSaga(x)'
    BY <1>0, <1>1 DEF InStep, RequestMatchesSaga, SagaState
  <2>2. \A w \in EventWorkers : SeenPast(w)'
    BY <1>1 DEF InStep, SeenPast
  <2>3. QED
    BY <1>1, <2>1, <2>2, NoRowTouched DEF InStep
<1>2. CASE CreateOrder(o)
  <2>1. order[o] = "NONE" /\ SagaState(o) = <<"NONE", "NONE">>
    BY <1>0, <1>2 DEF CreateOrder, RequestMatchesSaga
  <2>2. \A x \in Orders : SagaState(x)' = SagaState(x)
    BY <1>2 DEF CreateOrder, SagaState
  <2>3. \A x \in Orders : RequestMatchesSaga(x)'
    BY <1>0, <1>2, <2>1, <2>2 DEF CreateOrder, InStep, RequestMatchesSaga
  <2>4. \A w \in EventWorkers : SeenPast(w)'
    BY <1>2 DEF CreateOrder, InStep, SeenPast
  <2>5. strayed' = strayed
    BY <2>2 DEF Remember, Leaves
  <2>6. \A x \in Orders : order'[x] = IF x = o THEN "PENDING" ELSE order[x]
    BY <1>0, <1>2 DEF CreateOrder
  <2>7. \A x \in Orders : OrderMatches(x) => OrderMatches(x)'
    BY <2>1, <2>2, <2>6 DEF OrderMatches
  <2>8. QED
    BY <2>3, <2>4, <2>5, <2>7 DEF InStep, DisagreesOnlyAstray, StraysOnStale
<1>3. CASE StartSaga(o)
  <2>1. order[o] = "PENDING" /\ SagaState(o) = <<"NONE", "NONE">> /\ step[o] = "NONE"
    BY <1>0, <1>3 DEF StartSaga, RequestMatchesSaga, SagaState
  <2>2. \A x \in Orders : SagaState(x)' = IF x = o THEN <<"RESERVING_INVENTORY", "IN_PROGRESS">>
                                                   ELSE SagaState(x)
    BY <1>0, <1>3 DEF StartSaga, SagaState
  <2>3. \A x \in Orders : RequestMatchesSaga(x)'
    BY <1>0, <1>3, <2>2 DEF StartSaga, InStep, RequestMatchesSaga
  <2>4. \A w \in EventWorkers : SeenPast(w)'
    <3> SUFFICES ASSUME NEW w \in EventWorkers, NEW x, x = ow[w].msg.order, ow[w].pc = "commit"
                 PROVE  x \in Orders /\ step'[x] = step[x]
      BY <1>0, <1>3 DEF StartSaga, SeenPast
    <3>1. x \in Orders /\ step[x] # "NONE"
      BY <1>0 DEF SeenPast, EventWorkerTruthful, Message
    <3>2. QED
      BY <1>0, <1>3, <2>1, <3>1 DEF StartSaga
  <2>5. <<<<"NONE", "NONE">>, <<"RESERVING_INVENTORY", "IN_PROGRESS">>>> \in Edges
    BY DEF Edges
  <2>6. strayed' = strayed
    BY <2>1, <2>2, <2>5 DEF Remember, Leaves
  <2>7. \A x \in Orders : OrderMatches(x) => OrderMatches(x)'
    BY <1>3, <2>1, <2>2 DEF StartSaga, OrderMatches
  <2>8. QED
    BY <2>3, <2>4, <2>6, <2>7 DEF InStep, DisagreesOnlyAstray, StraysOnStale
<1>4. CASE StartSagaPublish(o)
  BY <1>1, <1>4 DEF StartSagaPublish
<1>5. CASE RequestFails(o)
  BY <1>1, <1>5 DEF RequestFails
<1>6. QED
  BY <1>2, <1>3, <1>4, <1>5 DEF Request

-----------------------------------------------------------------------------
\* A commit writes one order and its saga.  What it writes agrees if the move is
\* an edge (or none), and the move is an edge if the guard still holds.
LEMMA CommitInStep ==
    ASSUME IInv, InStep, Remember, NEW w \in EventWorkers, ow[w].pc = "commit",
           NEW o, o = ow[w].msg.order,
           NEW n, order' = [order EXCEPT ![o] = n],
           NEW s \in {"PROCESSING_PAYMENT", "RELEASING_INVENTORY", "DONE"},
           step' = [step EXCEPT ![o] = s],
           NEW u, status' = [status EXCEPT ![o] = u],
           UNCHANGED http,
           ow' = [ow EXCEPT ![w] = IdleEvent] \/ ow' = [ow EXCEPT ![w].pc = "publish"],
           OrderMatches(o) /\ (SagaState(o) = <<s, u>> \/ <<SagaState(o), <<s, u>>>> \in Edges)
             => \/ n = "INVENTORY_RESERVED" /\ s = "PROCESSING_PAYMENT" /\ u = "IN_PROGRESS"
                \/ n = "CONFIRMED" /\ s = "DONE" /\ u = "COMPLETED"
                \/ n = "FAILED" /\ s = "DONE" /\ u = "FAILED"
                \/ n = "FAILED" /\ s = "RELEASING_INVENTORY" /\ u = "COMPENSATING"
                \/ n = "COMPENSATED" /\ s = "DONE" /\ u = "COMPENSATED",
           OrderMatches(o) /\ Expects(ow[w].msg) => <<SagaState(o), <<s, u>>>> \in Edges
    PROVE  InStep' /\ StraysOnStale
<1>0. /\ ow \in [EventWorkers -> EventWorker]
      /\ order \in [Orders -> OrderStatus]
      /\ step \in [Orders -> Steps \cup {"NONE"}]
      /\ status \in [Orders -> Statuses \cup {"NONE"}]
      /\ o \in Orders
      /\ step[o] # "NONE"
      /\ o \in strayed \/ OrderMatches(o)
  BY DEF IInv, TypeOK, OrchTypeOK, InStep, Causality, EventWorkerTruthful, Message, SeenPast,
     DisagreesOnlyAstray
<1>1. \A x \in Orders : SagaState(x)' = IF x = o THEN <<s, u>> ELSE SagaState(x)
  BY <1>0 DEF SagaState
<1>2. \A x \in Orders : order'[x] = IF x = o THEN n ELSE order[x]
  BY <1>0
<1>3. strayed' = strayed \cup
          (IF SagaState(o) # <<s, u>> /\ <<SagaState(o), <<s, u>>>> \notin Edges THEN {o} ELSE {})
  BY <1>0, <1>1 DEF Remember, Leaves
<1>4. DisagreesOnlyAstray'
  <2> SUFFICES ASSUME NEW x \in Orders, x \notin strayed'
               PROVE  OrderMatches(x)'
    BY DEF DisagreesOnlyAstray
  <2>1. OrderMatches(x)
    BY <1>3 DEF InStep, DisagreesOnlyAstray
  <2>2. CASE x # o
    BY <1>1, <1>2, <2>1, <2>2 DEF OrderMatches
  <2>3. CASE x = o
    <3>1. SagaState(o) = <<s, u>> \/ <<SagaState(o), <<s, u>>>> \in Edges
      BY <1>3, <2>3
    <3>2. SagaState(o)' = <<s, u>> /\ order'[o] = n
      BY <1>0, <1>1, <1>2
    <3>3. QED
      BY <2>1, <2>3, <3>1, <3>2 DEF OrderMatches
  <2>4. QED
    BY <2>2, <2>3
<1>5. StraysOnStale
  <2>1. o \in strayed' /\ o \notin strayed => Outdated(w, o)
    BY <1>0, <1>3 DEF Outdated
  <2>2. QED
    BY <1>3, <2>1 DEF StraysOnStale
<1>6. \A v \in EventWorkers : SeenPast(v)'
  <2> SUFFICES ASSUME NEW v \in EventWorkers, NEW x, x = ow[v].msg.order,
                      ow[v].pc = "commit", v # w
               PROVE  /\ step'[x] # "NONE"
                      /\ ow[v].msg.key # "inventory.reserved" => step'[x] # "RESERVING_INVENTORY"
    BY <1>0 DEF SeenPast, IdleEvent, EventWorker
  <2>1. /\ x \in Orders /\ step[x] # "NONE"
        /\ ow[v].msg.key # "inventory.reserved" => step[x] # "RESERVING_INVENTORY"
    BY DEF IInv, Causality, EventWorkerTruthful, Message, InStep, SeenPast
  <2>2. step'[x] = IF x = o THEN s ELSE step[x]
    BY <1>0, <2>1
  <2>3. QED
    BY <2>1, <2>2
<1>7. \A x \in Orders : RequestMatchesSaga(x)'
  <2>1. http[o] # "none" /\ http[o] # "order"
    BY <1>0 DEF InStep, RequestMatchesSaga, SagaState
  <2>2. QED
    BY <1>1, <1>2, <2>1 DEF InStep, RequestMatchesSaga
<1>8. QED
  BY <1>4, <1>5, <1>6, <1>7 DEF InStep

\* An answer about the stock: the payment is next, or the saga is over.
LEMMA ReservedInStep ==
    ASSUME IInv, InStep, Remember, NEW w \in EventWorkers, CommitInventoryReserved(w)
    PROVE  InStep' /\ StraysOnStale
<1> PICK m, o : m = ow[w].msg /\ o = m.order
  OBVIOUS
<1>1. /\ status \in [Orders -> Statuses \cup {"NONE"}]
      /\ o \in Orders
      /\ order[o] \in OrderStatus
  BY DEF CommitInventoryReserved, IInv, TypeOK, OrchTypeOK, Causality, EventWorkerTruthful, Message
<1>2. OrderMatches(o) /\ Expects(m) => SagaState(o) = <<"RESERVING_INVENTORY", "IN_PROGRESS">>
  BY <1>1 DEF CommitInventoryReserved, OrderMatches, OrderStatus, Expects, SagaState
<1>3. CASE m.ok
  <2>1. /\ order' = [order EXCEPT ![o] = "INVENTORY_RESERVED"]
        /\ step' = [step EXCEPT ![o] = "PROCESSING_PAYMENT"]
        /\ status' = [status EXCEPT ![o] = status[o]]
        /\ ow' = [ow EXCEPT ![w].pc = "publish"]
        /\ ow[w].pc = "commit"
        /\ UNCHANGED http
    BY <1>1, <1>3 DEF CommitInventoryReserved
  <2>2. OrderMatches(o) /\ SagaState(o) = <<"PROCESSING_PAYMENT", status[o]>> => status[o] = "IN_PROGRESS"
    BY <1>1 DEF OrderMatches, OrderStatus
  <2>3. <<SagaState(o), <<"PROCESSING_PAYMENT", status[o]>>>> \in Edges => status[o] = "IN_PROGRESS"
    BY DEF Edges
  <2>4. OrderMatches(o) /\ Expects(m) => <<SagaState(o), <<"PROCESSING_PAYMENT", status[o]>>>> \in Edges
    BY <1>2 DEF SagaState, Edges
  <2>5. QED
    BY <2>1, <2>2, <2>3, <2>4, CommitInStep
<1>4. CASE ~m.ok
  <2>1. /\ order' = [order EXCEPT ![o] = "FAILED"]
        /\ step' = [step EXCEPT ![o] = "DONE"]
        /\ status' = [status EXCEPT ![o] = "FAILED"]
        /\ ow' = [ow EXCEPT ![w] = IdleEvent]
        /\ ow[w].pc = "commit"
        /\ UNCHANGED http
    BY <1>4 DEF CommitInventoryReserved
  <2>2. OrderMatches(o) /\ Expects(m) => <<SagaState(o), <<"DONE", "FAILED">>>> \in Edges
    BY <1>2 DEF Edges
  <2>3. QED
    BY <2>1, <2>2, CommitInStep
<1>5. QED
  BY <1>3, <1>4

\* The outcome of the payment: the saga completes or compensates.
LEMMA ProcessedInStep ==
    ASSUME IInv, InStep, Remember, NEW w \in EventWorkers, CommitPaymentProcessed(w)
    PROVE  InStep' /\ StraysOnStale
<1> PICK m, o : m = ow[w].msg /\ o = m.order
  OBVIOUS
<1>0. order[o] \in OrderStatus
  BY DEF CommitPaymentProcessed, IInv, TypeOK, OrchTypeOK, Causality, EventWorkerTruthful, Message
<1>1. OrderMatches(o) /\ Expects(m) => SagaState(o) = <<"PROCESSING_PAYMENT", "IN_PROGRESS">>
  BY <1>0 DEF CommitPaymentProcessed, OrderMatches, OrderStatus, Expects, SagaState
<1>2. CASE m.ok
  <2>1. /\ order' = [order EXCEPT ![o] = "CONFIRMED"]
        /\ step' = [step EXCEPT ![o] = "DONE"]
        /\ status' = [status EXCEPT ![o] = "COMPLETED"]
        /\ ow' = [ow EXCEPT ![w] = IdleEvent]
        /\ ow[w].pc = "commit"
        /\ UNCHANGED http
    BY <1>2 DEF CommitPaymentProcessed
  <2>2. OrderMatches(o) /\ Expects(m) => <<SagaState(o), <<"DONE", "COMPLETED">>>> \in Edges
    BY <1>1 DEF Edges
  <2>3. QED
    BY <2>1, <2>2, CommitInStep
<1>3. CASE ~m.ok
  <2>1. /\ order' = [order EXCEPT ![o] = "FAILED"]
        /\ step' = [step EXCEPT ![o] = "RELEASING_INVENTORY"]
        /\ status' = [status EXCEPT ![o] = "COMPENSATING"]
        /\ ow' = [ow EXCEPT ![w].pc = "publish"]
        /\ ow[w].pc = "commit"
        /\ UNCHANGED http
    BY <1>3 DEF CommitPaymentProcessed
  <2>2. OrderMatches(o) /\ Expects(m) =>
            <<SagaState(o), <<"RELEASING_INVENTORY", "COMPENSATING">>>> \in Edges
    BY <1>1 DEF Edges
  <2>3. QED
    BY <2>1, <2>2, CommitInStep
<1>4. QED
  BY <1>2, <1>3

\* The compensation's answer.  A failed one leaves orders.status as it is, which
\* agrees because a saga that was seen releasing never goes back to reserving.
LEMMA ReleasedInStep ==
    ASSUME IInv, InStep, Remember, NEW w \in EventWorkers, CommitInventoryReleased(w)
    PROVE  InStep' /\ StraysOnStale
<1> PICK m, o : m = ow[w].msg /\ o = m.order
  OBVIOUS
<1>1. /\ order \in [Orders -> OrderStatus]
      /\ o \in Orders
      /\ step[o] # "RESERVING_INVENTORY"
  BY DEF CommitInventoryReleased, IInv, TypeOK, OrchTypeOK, Causality, EventWorkerTruthful,
     Message, InStep, SeenPast
<1>2. Expects(m) => SagaState(o) = <<"RELEASING_INVENTORY", "COMPENSATING">>
  BY DEF CommitInventoryReleased, Expects, SagaState
<1>3. CASE m.ok
  <2>1. /\ order' = [order EXCEPT ![o] = "COMPENSATED"]
        /\ step' = [step EXCEPT ![o] = "DONE"]
        /\ status' = [status EXCEPT ![o] = "COMPENSATED"]
        /\ ow' = [ow EXCEPT ![w] = IdleEvent]
        /\ ow[w].pc = "commit"
        /\ UNCHANGED http
    BY <1>3 DEF CommitInventoryReleased
  <2>2. Expects(m) => <<SagaState(o), <<"DONE", "COMPENSATED">>>> \in Edges
    BY <1>2 DEF Edges
  <2>3. QED
    BY <2>1, <2>2, CommitInStep
<1>4. CASE ~m.ok
  <2>1. /\ order' = [order EXCEPT ![o] = order[o]]
        /\ step' = [step EXCEPT ![o] = "DONE"]
        /\ status' = [status EXCEPT ![o] = "FAILED"]
        /\ ow' = [ow EXCEPT ![w] = IdleEvent]
        /\ ow[w].pc = "commit"
        /\ UNCHANGED http
    BY <1>1, <1>4 DEF CommitInventoryReleased
  <2>2. <<SagaState(o), <<"DONE", "FAILED">>>> \in Edges =>
            SagaState(o) = <<"RELEASING_INVENTORY", "COMPENSATING">>
    BY <1>1 DEF Edges, SagaState
  <2>3. OrderMatches(o) /\ SagaState(o) = <<"RELEASING_INVENTORY", "COMPENSATING">> => order[o] = "FAILED"
    BY <1>1 DEF OrderMatches, OrderStatus
  <2>4. OrderMatches(o) /\ SagaState(o) = <<"DONE", "FAILED">> => order[o] = "FAILED"
    BY <1>1 DEF OrderMatches, OrderStatus
  <2>5. Expects(m) => <<SagaState(o), <<"DONE", "FAILED">>>> \in Edges
    BY <1>2 DEF Edges
  <2>6. QED
    BY <2>1, <2>2, <2>3, <2>4, <2>5, CommitInStep
<1>5. QED
  BY <1>3, <1>4

\* The other steps of an event worker touch no row.
LEMMA EventInStep ==
    ASSUME IInv, InStep, Remember, NEW w \in EventWorkers,
           EventStep(w) \/ EventAbort(w) \/ EventDuplicate(w)
    PROVE  InStep' /\ StraysOnStale
<1>0. ow \in [EventWorkers -> EventWorker]
  BY DEF IInv, TypeOK, OrchTypeOK
<1>1. ASSUME UNCHANGED <<http, order, step, status>>, \A v \in EventWorkers : SeenPast(v)'
      PROVE  InStep' /\ StraysOnStale
  <2>1. \A o \in Orders : RequestMatchesSaga(o)'
    BY <1>1 DEF InStep, RequestMatchesSaga, SagaState
  <2>2. QED
    BY <1>1, <2>1, NoRowTouched DEF InStep
<1>2. ASSUME NEW m \in queue, TakeEvent(w, m)
      PROVE  InStep' /\ StraysOnStale
  <2>1. \A v \in EventWorkers : SeenPast(v)'
    <3>1. CASE Expects(m) /\ Id(m) \notin processed
      <4>1. ow' = [ow EXCEPT ![w] = [pc |-> "commit", msg |-> m]] /\ UNCHANGED step
        BY <1>2, <3>1 DEF TakeEvent
      <4>2. step[m.order] # "NONE" /\ (m.key # "inventory.reserved" => step[m.order] # "RESERVING_INVENTORY")
        BY <3>1 DEF Expects
      <4>3. QED
        BY <1>0, <4>1, <4>2 DEF InStep, SeenPast
    <3>2. CASE ~(Expects(m) /\ Id(m) \notin processed)
      <4>1. UNCHANGED <<ow, step>>
        BY <1>2, <3>2 DEF TakeEvent
      <4>2. QED
        BY <4>1 DEF InStep, SeenPast
    <3>3. QED
      BY <3>1, <3>2
  <2>2. QED
    BY <1>1, <1>2, <2>1 DEF TakeEvent
<1>3. CASE CommitDuplicate(w) \/ PublishNext(w) \/ EventAbort(w)
  <2>1. ow' = [ow EXCEPT ![w] = IdleEvent] /\ UNCHANGED step
    BY <1>3 DEF CommitDuplicate, PublishNext, EventAbort
  <2>2. \A v \in EventWorkers : SeenPast(v)'
    BY <1>0, <2>1 DEF InStep, SeenPast, IdleEvent
  <2>3. QED
    BY <1>1, <1>3, <2>2 DEF CommitDuplicate, PublishNext, EventAbort
<1>4. CASE EventDuplicate(w)
  BY <1>4, Untouched DEF EventDuplicate, orchVars
<1>5. QED
  BY <1>2, <1>3, <1>4, ReservedInStep, ProcessedInStep, ReleasedInStep DEF EventStep

-----------------------------------------------------------------------------
\* No order, no saga, no event handled.
LEMMA InStepInit == HistInit => InStep
  BY DEF HistInit, Init, OrchInit, InStep, DisagreesOnlyAstray, OrderMatches, SagaState, SeenPast,
     IdleEvent, RequestMatchesSaga

\* Service by service: only requests and event workers touch a saga.
LEMMA InStepNext == IInv /\ InStep /\ [HistNext]_histVars => InStep' /\ StraysOnStale
<1> SUFFICES ASSUME IInv, InStep, [HistNext]_histVars
             PROVE  InStep' /\ StraysOnStale
  OBVIOUS
<1>1. CASE UNCHANGED histVars
  BY <1>1, Untouched DEF histVars, vars, orchVars
<1>2. CASE HistNext /\ UNCHANGED orchVars
  BY <1>2, Untouched DEF HistNext, orchVars
<1>3. CASE OrderService /\ Remember
  <2>1. ASSUME NEW r \in Replicas, RecoveryStep(r) \/ RecoveryFails(r)
        PROVE  UNCHANGED <<http, order, step, status, ow>>
    BY <2>1 DEF RecoveryStep, RecoveryFails, ListInProgress, ListCompensating, RecoveryDone,
         Republish, PassOver
  <2>2. QED
    BY <1>3, <2>1, Untouched, RequestInStep, EventInStep DEF OrderService, OrchNext
<1>4. QED
  BY <1>1, <1>2, <1>3 DEF HistNext, Next, InventoryService, PaymentService, RedriveDlq, FirstStart

\* The history variable restricts nothing.
LEMMA HistoryIsSpec == HistSpec => Spec
<1>1. HistInit => Init
  BY DEF HistInit
<1>2. [HistNext]_histVars => [Next]_vars
  BY DEF HistNext, histVars
<1>3. QED
  BY <1>1, <1>2, PTL DEF HistSpec, Spec

\* orders.status and saga_states agree about every saga that has not left its
\* diagram, however many late, repeated and re-published events are handled at once.
THEOREM OrderStaysWithSaga == HistSpec => []DisagreesOnlyAstray
<1>1. InStep => DisagreesOnlyAstray
  BY DEF InStep
<1>2. IInv /\ InStep /\ [HistNext]_histVars => InStep'
  BY InStepNext
<1>3. QED
  BY <1>1, <1>2, InStepInit, HistoryIsSpec, Invariant, PTL DEF HistSpec

\* A saga leaves its diagram only when a worker commits on a snapshot that another
\* worker has outdated: lateness, repetition and recovery alone never move it back.
THEOREM SagaStraysOnlyOnStaleSnapshot == HistSpec => StraysOnlyOnStaleSnapshot
<1>1. IInv /\ InStep /\ [HistNext]_histVars => InStep'
  BY InStepNext
<1>2. IInv /\ InStep /\ [HistNext]_histVars =>
          [\A o \in strayed' \ strayed : \E w \in EventWorkers : Outdated(w, o)]_histVars
  BY InStepNext DEF StraysOnStale
<1>3. QED
  BY <1>1, <1>2, InStepInit, HistoryIsSpec, Invariant, PTL DEF HistSpec, StraysOnlyOnStaleSnapshot
=============================================================================
