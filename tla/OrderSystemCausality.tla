------------------------ MODULE OrderSystemCausality ------------------------
(***************************************************************************)
(* The inductive invariant of OrderSystem is preserved by every step: the  *)
(* types, and Causality.  Whatever is in flight or remembered stays true,  *)
(* because no step undoes a log entry or changes a payment that was        *)
(* decided.                                                                *)
(***************************************************************************)
EXTENDS OrderSystem, InventoryLemmas

USE DEF Keys, Commands, Events, DeadEvent

-----------------------------------------------------------------------------
\* The inductive invariant.  Types alone are not inductive: what a worker at
\* work holds is a message only by Causality.
IInv == TypeOK /\ Causality

\* The states in which workers and recovery loops start are of their types.
LEMMA IdleTypes ==
    /\ IdleInv \in InvWorker
    /\ IdlePay \in PayWorker
    /\ IdleEvent \in EventWorker
    /\ Waiting \in RecoveryLoop
  BY DEF IdleInv, InvWorker, IdlePay, PayWorker, IdleEvent, EventWorker, Waiting, RecoveryLoop

\* Steps of inventory-service keep the types.
LEMMA InventoryTypes ==
    ASSUME IInv, InventoryService
    PROVE  TypeOK'
<1>0. MsgTypeOK /\ InvTypeOK /\ \A w \in InvWorkers : InvWorkerHolds(w)
  BY DEF IInv, TypeOK, Causality, InvWorkerTruthful, InvWorkerHolds
<1>1. MsgTypeOK' /\ InvTypeOK'
  BY <1>0, InvWorkerTypes, OperatorTypes DEF InventoryService, InvNext
<1>2. PayTypeOK' /\ OrchTypeOK' /\ declared' \subseteq Queues
  BY DEF IInv, TypeOK, InventoryService, PayTypeOK, OrchTypeOK, payVars, orchVars
<1>3. QED
  BY <1>1, <1>2 DEF TypeOK

\* Steps of payment-service keep the types.
LEMMA PaymentTypes ==
    ASSUME IInv, PaymentService
    PROVE  TypeOK'
<1> USE DEF IInv, TypeOK
<1>0. InvTypeOK' /\ OrchTypeOK' /\ declared' \subseteq Queues
  BY DEF PaymentService, InvTypeOK, OrchTypeOK, invVars, orchVars
<1>1. ASSUME NEW w \in PayWorkers, PayStep(w) \/ PayFault(w)
      PROVE  MsgTypeOK' /\ PayTypeOK'
  <2>0. PayTypeOK /\ MsgTypeOK /\ PayWorkerTruthful(w) /\ pw[w] \in PayWorker
    BY DEF Causality, PayTypeOK
  <2>1. ASSUME NEW m \in queue, TakeProcess(w, m)
        PROVE  MsgTypeOK' /\ PayTypeOK'
    <3>1. MsgTypeOK' /\ m \in Message
      BY <2>0, <2>1, TakeType DEF TakeProcess
    <3>2. pw' \in [PayWorkers -> PayWorker]
      BY <2>0, <2>1, <3>1 DEF TakeProcess, PayTypeOK, PayWorker
    <3>3. QED
      BY <2>0, <2>1, <3>1, <3>2 DEF TakeProcess, PayTypeOK
  <2>2. CASE LookupPayment(w)
    <3>1. pw' \in [PayWorkers -> PayWorker]
      BY <2>0, <2>2 DEF LookupPayment, PayTypeOK, PayWorker
    <3>2. QED
      BY <2>0, <2>2, <3>1 DEF LookupPayment, PayTypeOK, MsgTypeOK, msgVars
  <2>3. ASSUME NEW outcome \in Outcomes, CreatePaymentWithEvent(w, outcome)
        PROVE  MsgTypeOK' /\ PayTypeOK'
    <3>1. Id(pw[w].msg) \in Ids
      BY <2>0, <2>3 DEF CreatePaymentWithEvent, PayWorkerTruthful, Message, Id, Ids
    <3>2. pw' \in [PayWorkers -> PayWorker]
      BY <2>0, <2>3 DEF CreatePaymentWithEvent, PayTypeOK, PayWorker
    <3>3. pay' \in [Orders -> PayStatus]
      BY <2>0, <2>3, PaymentAssumption DEF CreatePaymentWithEvent, PayTypeOK, PayStatus
    <3>4. QED
      BY <2>0, <2>3, <3>1, <3>2, <3>3
      DEF CreatePaymentWithEvent, PayTypeOK, MsgTypeOK, msgVars
  <2>4. CASE CreateDuplicate(w)
    <3>1. MsgTypeOK'
      BY <2>0, <2>4, HandlerErrorType DEF CreateDuplicate, PayWorkerTruthful, MsgTypeOK
    <3>2. QED
      BY <2>0, <2>4, <3>1, IdleTypes DEF CreateDuplicate, PayTypeOK
  <2>5. CASE PayReply(w)
    <3>1. pw[w].msg.order \in Orders /\ pw[w].ok \in BOOLEAN
      BY <2>0, <2>5 DEF PayReply, PayWorkerTruthful, Message, PayWorker
    <3>2. MsgTypeOK'
      BY <2>0, <2>5, <3>1, PublishType DEF PayReply
    <3>3. QED
      BY <2>0, <2>5, <3>2, IdleTypes DEF PayReply, PayTypeOK
  <2>6. CASE PayAbort(w)
    <3>1. MsgTypeOK'
      BY <2>0, <2>6, AbortType DEF PayAbort, PayWorkerTruthful
    <3>2. QED
      BY <2>0, <2>6, <3>1, IdleTypes DEF PayAbort, PayTypeOK
  <2>7. CASE PayDuplicate(w)
    <3>1. MsgTypeOK'
      BY <2>0, <2>7, AbortType DEF PayDuplicate, PayWorkerTruthful
    <3>2. QED
      BY <2>0, <2>7, <3>1 DEF PayDuplicate, PayTypeOK, payVars
  <2>8. QED
    BY <1>1, <2>1, <2>2, <2>3, <2>4, <2>5, <2>6, <2>7 DEF PayStep, PayFault
<1>2. ASSUME NEW o \in Orders, CreatePayment(o)
      PROVE  MsgTypeOK' /\ PayTypeOK'
  BY <1>2 DEF CreatePayment, PayTypeOK, PayStatus, MsgTypeOK, msgVars
<1>3. QED
  BY <1>0, <1>1, <1>2 DEF PaymentService, PayNext

\* A POST /orders keeps the types.
LEMMA RequestTypes ==
    ASSUME IInv, NEW o \in Orders, Request(o) \/ RequestFails(o)
    PROVE  MsgTypeOK' /\ OrchTypeOK'
<1> USE DEF IInv, TypeOK
<1>1. CASE CreateOrder(o)
  BY <1>1 DEF CreateOrder, OrchTypeOK, OrderStatus, MsgTypeOK, msgVars
<1>2. CASE StartSaga(o)
  BY <1>2 DEF StartSaga, OrchTypeOK, Steps, Statuses, MsgTypeOK, msgVars
<1>3. CASE StartSagaPublish(o)
  <2>1. MsgTypeOK'
    BY <1>3, PublishType DEF StartSagaPublish
  <2>2. QED
    BY <1>3, <2>1 DEF StartSagaPublish, OrchTypeOK
<1>4. CASE RequestFails(o)
  <2>1. faults' \in 0..MaxFaults
    BY <1>4, FaultType DEF RequestFails
  <2>2. QED
    BY <1>4, <2>1 DEF RequestFails, OrchTypeOK, MsgTypeOK
<1>5. QED
  BY <1>1, <1>2, <1>3, <1>4 DEF Request

\* Steps of an event worker keep the types.
LEMMA EventWorkerTypes ==
    ASSUME IInv, NEW w \in EventWorkers,
           EventStep(w) \/ EventAbort(w) \/ EventDuplicate(w)
    PROVE  MsgTypeOK' /\ OrchTypeOK'
<1> USE DEF IInv, TypeOK
<1>0. OrchTypeOK /\ MsgTypeOK /\ EventWorkerTruthful(w) /\ ow[w] \in EventWorker
  BY DEF Causality, OrchTypeOK
<1>1. ASSUME NEW m \in queue, TakeEvent(w, m)
      PROVE  MsgTypeOK' /\ OrchTypeOK'
  <2>1. MsgTypeOK' /\ m \in Message
    BY <1>0, <1>1, TakeType DEF TakeEvent
  <2>2. ow' \in [EventWorkers -> EventWorker]
    BY <1>0, <1>1, <2>1 DEF TakeEvent, OrchTypeOK, EventWorker
  <2>3. QED
    BY <1>0, <1>1, <2>1, <2>2 DEF TakeEvent, OrchTypeOK
<1>2. ASSUME ow[w].pc # "idle"
      PROVE  Id(ow[w].msg) \in Ids /\ ow[w].msg \in Message /\ ow[w].msg.order \in Orders
  BY <1>0, <1>2 DEF EventWorkerTruthful, Message, Id, Ids
<1>3. [ow EXCEPT ![w] = IdleEvent] \in [EventWorkers -> EventWorker]
  BY <1>0, IdleTypes DEF OrchTypeOK
<1>4. [ow EXCEPT ![w].pc = "publish"] \in [EventWorkers -> EventWorker]
  BY <1>0 DEF OrchTypeOK, EventWorker
<1>5. CASE CommitInventoryReserved(w)
  BY <1>0, <1>2, <1>3, <1>4, <1>5
  DEF CommitInventoryReserved, MarkProcessed, OrchTypeOK, OrderStatus, Steps, Statuses,
      MsgTypeOK, msgVars
<1>6. CASE CommitPaymentProcessed(w)
  BY <1>0, <1>2, <1>3, <1>4, <1>6
  DEF CommitPaymentProcessed, MarkProcessed, OrchTypeOK, OrderStatus, Steps, Statuses,
      MsgTypeOK, msgVars
<1>7. CASE CommitInventoryReleased(w)
  BY <1>0, <1>2, <1>3, <1>7
  DEF CommitInventoryReleased, MarkProcessed, OrchTypeOK, OrderStatus, Steps, Statuses,
      MsgTypeOK, msgVars
<1>8. CASE CommitDuplicate(w)
  <2>1. MsgTypeOK'
    BY <1>0, <1>2, <1>8, HandlerErrorType DEF CommitDuplicate, MsgTypeOK
  <2>2. QED
    BY <1>0, <1>3, <1>8, <2>1 DEF CommitDuplicate, OrchTypeOK
<1>9. CASE PublishNext(w)
  <2>1. NextCommand(ow[w].msg) \in Keys
    BY DEF NextCommand
  <2>2. MsgTypeOK'
    BY <1>0, <1>2, <1>9, <2>1, PublishType DEF PublishNext
  <2>3. QED
    BY <1>0, <1>3, <1>9, <2>2 DEF PublishNext, OrchTypeOK
<1>10. CASE EventAbort(w)
  <2>1. MsgTypeOK'
    BY <1>0, <1>2, <1>10, AbortType DEF EventAbort
  <2>2. QED
    BY <1>0, <1>3, <1>10, <2>1 DEF EventAbort, OrchTypeOK
<1>11. CASE EventDuplicate(w)
  <2>1. MsgTypeOK'
    BY <1>0, <1>2, <1>11, AbortType DEF EventDuplicate
  <2>2. QED
    BY <1>0, <1>11, <2>1 DEF EventDuplicate, OrchTypeOK, orchVars
<1>12. QED
  BY <1>1, <1>5, <1>6, <1>7, <1>8, <1>9, <1>10, <1>11 DEF EventStep

\* The command of a listed step is one the code knows.
LEMMA StepCommandKey ==
    ASSUME NEW phase, NEW s, Recoverable(phase, s)
    PROVE  /\ StepCommand(s) \in Keys
           /\ StepCommand(s) \in Commands
           /\ s = "RESERVING_INVENTORY" <=> StepCommand(s) = "inventory.reserve"
           /\ s = "PROCESSING_PAYMENT" <=> StepCommand(s) = "payment.process"
           /\ s = "RELEASING_INVENTORY" <=> StepCommand(s) = "inventory.release"
  BY DEF Recoverable, StepCommand

\* A recovery loop keeps the types; a saga that is IN_PROGRESS or COMPENSATING
\* has a step.
LEMMA RecoveryTypes ==
    ASSUME IInv, NEW r \in Replicas, RecoveryStep(r) \/ RecoveryFails(r)
    PROVE  MsgTypeOK' /\ OrchTypeOK'
<1> USE DEF IInv, TypeOK
<1>0. OrchTypeOK /\ MsgTypeOK /\ rec[r] \in RecoveryLoop
  BY DEF OrchTypeOK
<1>1. ASSUME NEW s \in {"IN_PROGRESS", "COMPENSATING"}
      PROVE  Listed(s) \in SUBSET (Orders \X Steps)
  BY <1>0 DEF Listed, OrchTypeOK
<1>2. ASSUME NEW x \in rec[r].list
      PROVE  /\ x[1] \in Orders
             /\ [rec EXCEPT ![r].list = @ \ {x}] \in [Replicas -> RecoveryLoop]
  BY <1>0, <1>2 DEF OrchTypeOK, RecoveryLoop
<1>3. /\ [rec EXCEPT ![r] = Waiting] \in [Replicas -> RecoveryLoop]
      /\ [rec EXCEPT ![r].list = {}] \in [Replicas -> RecoveryLoop]
  BY <1>0, IdleTypes DEF OrchTypeOK, RecoveryLoop
<1>4. CASE ListInProgress(r)
  BY <1>0, <1>1, <1>4 DEF ListInProgress, OrchTypeOK, RecoveryLoop, MsgTypeOK, msgVars
<1>5. CASE ListCompensating(r)
  BY <1>0, <1>1, <1>5 DEF ListCompensating, OrchTypeOK, RecoveryLoop, MsgTypeOK, msgVars
<1>6. CASE RecoveryDone(r)
  BY <1>0, <1>3, <1>6 DEF RecoveryDone, OrchTypeOK, MsgTypeOK, msgVars
<1>7. ASSUME NEW x \in rec[r].list, Republish(r, x)
      PROVE  MsgTypeOK' /\ OrchTypeOK'
  <2>1. StepCommand(x[2]) \in Keys
    BY <1>7, StepCommandKey DEF Republish
  <2>2. MsgTypeOK'
    BY <1>0, <1>2, <1>7, <2>1, PublishType DEF Republish
  <2>3. republished' \in 0..MaxRepublish
    BY <1>0, <1>7, OrchestratorAssumption DEF Republish, OrchTypeOK
  <2>4. QED
    BY <1>0, <1>2, <1>7, <2>2, <2>3 DEF Republish, OrchTypeOK
<1>8. ASSUME NEW x \in rec[r].list, PassOver(r, x)
      PROVE  MsgTypeOK' /\ OrchTypeOK'
  BY <1>0, <1>2, <1>8 DEF PassOver, OrchTypeOK, MsgTypeOK, msgVars
<1>9. CASE RecoveryFails(r)
  <2>1. faults' \in 0..MaxFaults
    BY <1>0, <1>9, FaultType DEF RecoveryFails
  <2>2. rec' \in [Replicas -> RecoveryLoop]
    BY <1>2, <1>3, <1>9 DEF RecoveryFails
  <2>3. QED
    BY <1>0, <1>9, <2>1, <2>2 DEF RecoveryFails, OrchTypeOK, MsgTypeOK
<1>10. QED
  BY <1>4, <1>5, <1>6, <1>7, <1>8, <1>9 DEF RecoveryStep

\* Steps of order-service keep the types.
LEMMA OrderTypes ==
    ASSUME IInv, OrderService
    PROVE  TypeOK'
<1>1. MsgTypeOK' /\ OrchTypeOK'
  BY RequestTypes, EventWorkerTypes, RecoveryTypes DEF OrderService, OrchNext
<1>2. InvTypeOK' /\ PayTypeOK' /\ declared' \subseteq Queues
  BY DEF IInv, TypeOK, OrderService, InvTypeOK, PayTypeOK, invVars, payVars
<1>3. QED
  BY <1>1, <1>2 DEF TypeOK

\* A redrive keeps the types.
LEMMA RedriveTypes ==
    ASSUME IInv, RedriveDlq
    PROVE  TypeOK'
<1>1. PICK m \in dlq : Redrive(m) \/ RedriveDies(m)
  BY DEF RedriveDlq
<1>2. m \in Message /\ MsgTypeOK
  BY DEF IInv, TypeOK, MsgTypeOK
<1>3. Rerouted(m) \subseteq Message
  BY <1>2, RetriedType DEF Rerouted
<1>4. MsgTypeOK'
  <2>1. CASE Redrive(m)
    BY <1>2, <1>3, <2>1 DEF MsgTypeOK, Redrive
  <2>2. CASE RedriveDies(m)
    BY <1>2, <2>2, FaultType DEF MsgTypeOK, RedriveDies
  <2>3. QED
    BY <1>1, <2>1, <2>2
<1>5. QED
  BY <1>4 DEF IInv, TypeOK, RedriveDlq, InvTypeOK, PayTypeOK, OrchTypeOK,
              invVars, payVars, orchVars

\* So does a service that starts for the first time.
LEMMA FirstStartTypes ==
    ASSUME IInv, NEW q \in Queues, FirstStart(q)
    PROVE  TypeOK'
  BY DEF IInv, TypeOK, FirstStart, Setup, MsgTypeOK, InvTypeOK, PayTypeOK, OrchTypeOK,
         msgVars, invVars, payVars, orchVars

-----------------------------------------------------------------------------
(* Causality: facts in the tables are for good.                            *)

\* A step that undoes no log entry and changes no payment row.
Monotone ==
    /\ log \subseteq log'
    /\ \A o \in Orders : pay[o] # "NONE" => pay'[o] = pay[o]

\* Under such a step whatever is said truthfully stays true.
LEMMA TruthfulStable ==
    ASSUME Monotone, NEW m \in Message, Truthful(m)
    PROVE  Truthful(m)'
<1>1. m.order \in Orders
  BY DEF Message
<1>2. /\ Reserved(m.order) => Reserved(m.order)'
      /\ Released(m.order) => Released(m.order)'
      /\ Unpaid(m.order) => Unpaid(m.order)'
      /\ pay[m.order] # "NONE" => pay'[m.order] = pay[m.order]
  BY <1>1 DEF Monotone, Reserved, Released, Unpaid
<1>3. QED
  BY <1>2 DEF Truthful

\* What a message says depends neither on its retries nor, once it is dead, on
\* its key.
LEMMA TruthfulCopies ==
    ASSUME NEW m \in Message, Truthful(m)
    PROVE  /\ \A t : Truthful([m EXCEPT !.tries = t])
           /\ \A t : Truthful([m EXCEPT !.key = DeadEvent, !.tries = t])
  BY DEF Truthful, Message

\* A step keeps the messages on their way truthful if those it adds are copies
\* of truthful ones or themselves truthful after it.
LEMMA MessagesStable ==
    ASSUME MsgTypeOK, MessagesTruthful, Monotone,
           \A m \in queue' \cup dlq' : m \in queue \cup dlq \/ Truthful(m)'
    PROVE  MessagesTruthful'
<1>1. \A m \in queue \cup dlq : Truthful(m)'
  BY TruthfulStable DEF MessagesTruthful, MsgTypeOK
<1>2. QED
  BY <1>1 DEF MessagesTruthful

\* Retried, dead-lettered and requeued copies of a truthful message are truthful.
LEMMA SettlementTruthful ==
    ASSUME MsgTypeOK, MessagesTruthful, Monotone, NEW m \in Message, Truthful(m),
           HandlerError(m) \/ Requeue(m)
    PROVE  MessagesTruthful'
<1>1. Truthful(m)'
  BY TruthfulStable
<1>2. ASSUME Retries(m)
      PROVE  Truthful([m EXCEPT !.tries = @ + 1])'
  <2>1. [m EXCEPT !.tries = @ + 1] \in Message
    BY <1>2, RetriedType
  <2>2. Truthful([m EXCEPT !.tries = m.tries + 1])
    BY TruthfulCopies
  <2>3. [m EXCEPT !.tries = @ + 1] = [m EXCEPT !.tries = m.tries + 1]
    OBVIOUS
  <2>4. QED
    BY <2>1, <2>2, <2>3, TruthfulStable
<1>3. \A x \in queue' \cup dlq' : x \in queue \cup dlq \/ Truthful(x)'
  BY <1>1, <1>2 DEF HandlerError, Requeue
<1>4. QED
  BY <1>3, MessagesStable

\* So are the copies that a fault leaves.
LEMMA AbortTruthful ==
    ASSUME MsgTypeOK, MessagesTruthful, Monotone, NEW m \in Message, Truthful(m),
           Abort(m) \/ Duplicate(m)
    PROVE  MessagesTruthful'
  BY SettlementTruthful DEF Abort, Duplicate

\* A message received is truthful, and those left behind stay so.
LEMMA TakeTruthful ==
    ASSUME MsgTypeOK, MessagesTruthful, Monotone, NEW m, Take(m)
    PROVE  /\ MessagesTruthful'
           /\ m \in Message
           /\ Truthful(m)'
<1>1. m \in Message /\ Truthful(m)
  BY DEF Take, MsgTypeOK, MessagesTruthful
<1>2. Truthful(m)'
  BY <1>1, TruthfulStable
<1>3. MessagesTruthful'
  BY MessagesStable DEF Take
<1>4. QED
  BY <1>1, <1>2, <1>3

\* A publication keeps the messages truthful if what it says is true after the step.
LEMMA PublishTruthful ==
    ASSUME MsgTypeOK, MessagesTruthful, Monotone,
           NEW key \in Keys, NEW o \in Orders, NEW ok \in BOOLEAN,
           Publish(key, o, ok),
           \A m \in Message : m.key = key /\ m.order = o /\ m.ok = ok => Truthful(m)'
    PROVE  MessagesTruthful'
<1>1. Fresh(key, o, ok) \in Message
  BY FreshType
<1>2. \A m \in queue' \cup dlq' : m \in queue \cup dlq \/ m = Fresh(key, o, ok)
  BY DEF Publish, msgVars
<1>3. /\ Fresh(key, o, ok).key = key
      /\ Fresh(key, o, ok).order = o
      /\ Fresh(key, o, ok).ok = ok
  BY DEF Fresh
<1>4. \A m \in queue' \cup dlq' : m \in queue \cup dlq \/ Truthful(m)'
  BY <1>1, <1>2, <1>3
<1>5. QED
  BY <1>4, MessagesStable

\* An inventory worker that a monotone step leaves alone stays truthful.
LEMMA InvWorkersStable ==
    ASSUME IInv, Monotone, NEW w \in InvWorkers, iw'[w] = iw[w]
    PROVE  InvWorkerTruthful(w)'
<1>1. CASE iw[w].pc = "idle"
  BY <1>1 DEF InvWorkerTruthful
<1>2. CASE iw[w].pc # "idle"
  <2>1. iw[w].msg \in Message /\ Truthful(iw[w].msg) /\ InvWorkerTruthful(w)
    BY <1>2 DEF IInv, Causality, InvWorkerTruthful
  <2>2. Truthful(iw[w].msg)'
    BY <2>1, TruthfulStable
  <2>3. QED
    BY <2>1, <2>2 DEF InvWorkerTruthful, Monotone, Reserved, Released
<1>3. QED
  BY <1>1, <1>2

\* A payment worker that a monotone step leaves alone stays truthful.
LEMMA PayWorkersStable ==
    ASSUME IInv, Monotone, NEW w \in PayWorkers, pw'[w] = pw[w]
    PROVE  PayWorkerTruthful(w)'
<1>1. CASE pw[w].pc = "idle"
  BY <1>1 DEF PayWorkerTruthful
<1>2. CASE pw[w].pc # "idle"
  <2>1. pw[w].msg \in Message /\ Truthful(pw[w].msg) /\ PayWorkerTruthful(w)
    BY <1>2 DEF IInv, Causality, PayWorkerTruthful
  <2>2. Truthful(pw[w].msg)'
    BY <2>1, TruthfulStable
  <2>3. pw[w].msg.order \in Orders
    BY <2>1 DEF Message
  <2>4. QED
    BY <2>1, <2>2, <2>3 DEF PayWorkerTruthful, Monotone
<1>3. QED
  BY <1>1, <1>2

\* An event worker that a monotone step leaves alone stays truthful.
LEMMA EventWorkersStable ==
    ASSUME IInv, Monotone, NEW w \in EventWorkers, ow'[w] = ow[w]
    PROVE  EventWorkerTruthful(w)'
<1>1. CASE ow[w].pc = "idle"
  BY <1>1 DEF EventWorkerTruthful
<1>2. CASE ow[w].pc # "idle"
  <2>1. ow[w].msg \in Message /\ Truthful(ow[w].msg) /\ EventWorkerTruthful(w)
    BY <1>2 DEF IInv, Causality, EventWorkerTruthful
  <2>2. Truthful(ow[w].msg)'
    BY <2>1, TruthfulStable
  <2>3. QED
    BY <2>1, <2>2 DEF EventWorkerTruthful
<1>3. QED
  BY <1>1, <1>2

\* What a step of a saga implies stays true.
LEMMA StepStable ==
    ASSUME Monotone, NEW o \in Orders, NEW s, StepTruthful(o, s)
    PROVE  StepTruthful(o, s)'
  BY DEF Monotone, StepTruthful, Reserved, Unpaid

\* A list that a recovery loop only shortens stays truthful.
LEMMA RecoveryStable ==
    ASSUME IInv, Monotone, NEW r \in Replicas, rec'[r].list \subseteq rec[r].list
    PROVE  RecoveryTruthful(r)'
<1>1. \A x \in rec[r].list : x[1] \in Orders /\ StepTruthful(x[1], x[2])
  BY DEF IInv, TypeOK, OrchTypeOK, RecoveryLoop, Causality, RecoveryTruthful
<1>2. \A x \in rec[r].list : StepTruthful(x[1], x[2])'
  BY <1>1, StepStable
<1>3. QED
  BY <1>2 DEF RecoveryTruthful

\* A saga whose row and order are left alone stays truthful.
LEMMA SagaStable ==
    ASSUME IInv, Monotone, NEW o \in Orders, step'[o] = step[o], order'[o] = order[o]
    PROVE  SagaTruthful(o)'
<1>1. SagaTruthful(o)
  BY DEF IInv, Causality
<1>2. StepTruthful(o, step[o])'
  BY <1>1, StepStable DEF SagaTruthful
<1>3. /\ order[o] = "CONFIRMED" => pay'[o] = "SUCCESS"
      /\ order[o] = "COMPENSATED" => Released(o)'
  BY <1>1 DEF SagaTruthful, Monotone, Released
<1>4. QED
  BY <1>2, <1>3 DEF SagaTruthful, StepTruthful

\* A step that writes neither the log nor a payment is monotone.
LEMMA TablesStable ==
    ASSUME IInv, UNCHANGED <<log, pay>>
    PROVE  Monotone /\ \A o \in Orders : TablesTruthful(o)'
  BY DEF IInv, Causality, TablesTruthful, Monotone, Reserved, Released, Unpaid

-----------------------------------------------------------------------------
(* Causality is preserved: inventory-service.                              *)

\* A worker that settled its command holds nothing that could be untrue.
LEMMA InvWorkerIdles ==
    ASSUME NEW w \in InvWorkers, TypeOK, iw' = [iw EXCEPT ![w] = IdleInv]
    PROVE  InvWorkerTruthful(w)' /\ \A v \in InvWorkers \ {w} : iw'[v] = iw[v]
  BY DEF TypeOK, InvTypeOK, IdleInv, InvWorkerTruthful

\* What an inventory worker does leaves the messages and itself truthful, and
\* undoes nothing; a release is logged for reserved, unpaid orders only.
LEMMA InvWorkerCausality ==
    ASSUME IInv, NEW w \in InvWorkers, InvStep(w) \/ InvFault(w), UNCHANGED payVars
    PROVE  /\ Monotone
           /\ MessagesTruthful'
           /\ InvWorkerTruthful(w)'
           /\ \A v \in InvWorkers \ {w} : iw'[v] = iw[v]
           /\ \A o \in Orders : TablesTruthful(o)'
<1>0. /\ TypeOK /\ MsgTypeOK /\ MessagesTruthful /\ InvWorkerTruthful(w)
      /\ iw \in [InvWorkers -> InvWorker]
      /\ pay' = pay
  BY DEF IInv, TypeOK, Causality, InvTypeOK, payVars
<1>a. ASSUME UNCHANGED log
      PROVE  Monotone /\ \A o \in Orders : TablesTruthful(o)'
  BY <1>0, <1>a, TablesStable
<1>b. ASSUME UNCHANGED <<queue, dlq>>, Monotone
      PROVE  MessagesTruthful'
  BY <1>0, <1>b, MessagesStable
<1>c. ASSUME iw[w].pc # "idle"
      PROVE  /\ iw[w].msg \in Message
             /\ Truthful(iw[w].msg)
             /\ Monotone /\ iw'[w].msg = iw[w].msg => Truthful(iw[w].msg)'
             /\ iw[w].msg.order \in Orders
  <2>1. iw[w].msg \in Message /\ Truthful(iw[w].msg)
    BY <1>0, <1>c DEF InvWorkerTruthful
  <2>2. ASSUME Monotone, iw'[w].msg = iw[w].msg
        PROVE  Truthful(iw[w].msg)'
    BY <2>1, <2>2, TruthfulStable
  <2>3. QED
    BY <2>1, <2>2 DEF Message
<1>1. ASSUME NEW m \in queue, TakeReserve(w, m) \/ TakeRelease(w, m)
      PROVE  /\ Monotone /\ MessagesTruthful' /\ InvWorkerTruthful(w)'
             /\ \A v \in InvWorkers \ {w} : iw'[v] = iw[v]
             /\ \A o \in Orders : TablesTruthful(o)'
  <2>1. Monotone /\ \A o \in Orders : TablesTruthful(o)'
    BY <1>a, <1>1 DEF TakeReserve, TakeRelease
  <2>2. MessagesTruthful' /\ m \in Message /\ Truthful(m)'
    BY <1>0, <1>1, <2>1, TakeTruthful DEF TakeReserve, TakeRelease
  <2>3. InvWorkerTruthful(w)'
    BY <1>0, <1>1, <2>2 DEF TakeReserve, TakeRelease, InvWorkerTruthful, Reserved, Released
  <2>4. QED
    BY <1>0, <1>1, <2>1, <2>2, <2>3 DEF TakeReserve, TakeRelease
<1>2. CASE ReadInventory(w) \/ ReserveConflict(w) \/ ReleaseRefused(w)
  <2>1. Monotone /\ \A o \in Orders : TablesTruthful(o)'
    BY <1>a, <1>2 DEF ReadInventory, ReserveConflict, ReleaseRefused
  <2>2. MessagesTruthful'
    BY <1>b, <1>2, <2>1 DEF ReadInventory, ReserveConflict, ReleaseRefused, msgVars
  <2>3. iw'[w].msg = iw[w].msg /\ iw[w].pc # "idle"
    BY <1>0, <1>2 DEF ReadInventory, ReserveConflict, ReleaseRefused, InvWorker
  <2>4. Truthful(iw[w].msg)'
    BY <1>c, <2>1, <2>3
  <2>5. InvWorkerTruthful(w)'
    BY <1>0, <1>2, <2>3, <2>4
    DEF ReadInventory, ReserveConflict, ReleaseRefused, InvWorkerTruthful, InvWorker
  <2>6. QED
    BY <1>0, <1>2, <2>1, <2>2, <2>5 DEF ReadInventory, ReserveConflict, ReleaseRefused
<1>3. CASE ReadMissing(w) \/ ReserveDuplicate(w) \/ InvAbort(w)
  <2>1. Monotone /\ \A o \in Orders : TablesTruthful(o)'
    BY <1>a, <1>3 DEF ReadMissing, ReserveDuplicate, InvAbort
  <2>2. iw[w].msg \in Message /\ Truthful(iw[w].msg)
    BY <1>c, <1>3 DEF ReadMissing, ReserveDuplicate, InvAbort
  <2>3. MessagesTruthful'
    BY <1>0, <1>3, <2>1, <2>2, SettlementTruthful, AbortTruthful
    DEF ReadMissing, ReserveDuplicate, InvAbort
  <2>4. QED
    BY <1>0, <1>3, <2>1, <2>3, InvWorkerIdles DEF ReadMissing, ReserveDuplicate, InvAbort
<1>4. CASE ReserveAtomic(w)
  <2>1. iw'[w].msg = iw[w].msg /\ iw[w].pc = "cas" /\ iw'[w].pc = "yes"
    BY <1>0, <1>4 DEF ReserveAtomic, InvWorker
  <2>2. Monotone
    BY <1>0, <1>4 DEF ReserveAtomic, Monotone
  <2>3. MessagesTruthful'
    BY <1>b, <1>4, <2>2 DEF ReserveAtomic, msgVars
  <2>4. InvWorkerTruthful(w)'
    BY <1>0, <1>4, <1>c, <2>1, <2>2 DEF ReserveAtomic, InvWorkerTruthful, Reserved
  <2>5. \A o \in Orders : TablesTruthful(o)'
    BY <1>0, <1>4 DEF ReserveAtomic, IInv, Causality, TablesTruthful, Reserved, Released, Unpaid
  <2>6. QED
    BY <1>0, <1>4, <2>2, <2>3, <2>4, <2>5 DEF ReserveAtomic
<1>5. ASSUME iw[w].pc = "release", ReleaseCommit(iw[w].msg.order)
      PROVE  Monotone /\ \A o \in Orders : TablesTruthful(o)'
  <2>1. Reserved(iw[w].msg.order) /\ Unpaid(iw[w].msg.order)
    BY <1>0, <1>5 DEF InvWorkerTruthful, Truthful
  <2>2. Monotone
    BY <1>0, <1>5 DEF ReleaseCommit, Monotone
  <2>3. QED
    BY <1>0, <1>5, <2>1, <2>2
    DEF ReleaseCommit, IInv, Causality, TablesTruthful, Reserved, Released, Unpaid
<1>6. CASE ReleaseAtomic(w)
  <2>1. iw'[w].msg = iw[w].msg /\ iw[w].pc = "release" /\ iw'[w].pc = "yes"
    BY <1>0, <1>6 DEF ReleaseAtomic, InvWorker
  <2>2. Monotone /\ \A o \in Orders : TablesTruthful(o)'
    BY <1>5, <1>6 DEF ReleaseAtomic
  <2>3. MessagesTruthful'
    BY <1>b, <1>6, <2>2 DEF ReleaseAtomic, msgVars
  <2>4. InvWorkerTruthful(w)'
    BY <1>0, <1>6, <1>c, <2>1, <2>2
    DEF ReleaseAtomic, ReleaseCommit, InvWorkerTruthful, Reserved, Released
  <2>5. QED
    BY <1>0, <1>6, <2>2, <2>3, <2>4 DEF ReleaseAtomic
<1>7. CASE ReleaseFails(w)
  <2>1. iw'[w].msg = iw[w].msg /\ iw[w].pc = "release" /\ iw'[w].pc = "no"
    BY <1>0, <1>7 DEF ReleaseFails, InvWorker
  <2>2. Monotone /\ \A o \in Orders : TablesTruthful(o)'
    BY <1>5, <1>7, <1>a DEF ReleaseFails
  <2>3. MessagesTruthful'
    BY <1>b, <1>7, <2>2 DEF ReleaseFails
  <2>4. InvWorkerTruthful(w)'
    BY <1>0, <1>c, <2>1, <2>2 DEF InvWorkerTruthful
  <2>5. QED
    BY <1>0, <1>7, <2>2, <2>3, <2>4 DEF ReleaseFails
<1>8. CASE InvReply(w)
  <2>1. Monotone /\ \A x \in Orders : TablesTruthful(x)'
    BY <1>a, <1>8 DEF InvReply
  <2>2. PICK key \in Keys, o \in Orders, ok \in BOOLEAN :
            key = Answer(iw[w].msg.key) /\ o = iw[w].msg.order /\ ok = (iw[w].pc = "yes")
    BY <1>0, <1>8, <1>c, ReplyKey DEF InvReply, InvWorkerTruthful
  <2>3. key = "inventory.reserved" /\ ok => Reserved(o)'
    BY <1>0, <1>8, <2>2 DEF InvReply, InvWorkerTruthful, Answer, Reserved
  <2>4. key = "inventory.released" /\ ok => Released(o)'
    BY <1>0, <1>8, <2>2 DEF InvReply, InvWorkerTruthful, Answer, Released
  <2>5. key \in {"inventory.reserved", "inventory.released"}
    BY <2>2 DEF Answer
  <2>6. \A m \in Message : m.key = key /\ m.order = o /\ m.ok = ok => Truthful(m)'
    BY <2>3, <2>4, <2>5 DEF Truthful
  <2>7. Publish(key, o, ok)
    BY <1>8, <2>2 DEF InvReply
  <2>8. MessagesTruthful'
    BY <1>0, <2>1, <2>6, <2>7, PublishTruthful
  <2>9. QED
    BY <1>0, <1>8, <2>1, <2>8, InvWorkerIdles DEF InvReply
<1>9. CASE InvDuplicate(w)
  <2>1. Monotone /\ \A o \in Orders : TablesTruthful(o)'
    BY <1>a, <1>9 DEF InvDuplicate, invVars
  <2>2. MessagesTruthful'
    BY <1>0, <1>9, <1>c, <2>1, AbortTruthful DEF InvDuplicate
  <2>3. InvWorkerTruthful(w)'
    BY <1>9, <2>1, InvWorkersStable DEF InvDuplicate, invVars
  <2>4. QED
    BY <1>9, <2>1, <2>2, <2>3 DEF InvDuplicate, invVars
<1>10. QED
  BY <1>1, <1>2, <1>3, <1>4, <1>6, <1>7, <1>8, <1>9 DEF InvStep, InvFault

\* Steps of inventory-service preserve Causality.
LEMMA InventoryCausality ==
    ASSUME IInv, InventoryService
    PROVE  Causality'
<1>0. UNCHANGED <<pw, pay, ow, rec, order, step>> /\ UNCHANGED payVars
  BY DEF InventoryService, payVars, orchVars
<1>1. ASSUME NEW w \in InvWorkers, InvStep(w) \/ InvFault(w)
      PROVE  /\ Monotone /\ MessagesTruthful'
             /\ \A v \in InvWorkers : InvWorkerTruthful(v)'
             /\ \A o \in Orders : TablesTruthful(o)'
  BY <1>0, <1>1, InvWorkerCausality, InvWorkersStable
<1>2. ASSUME Operator
      PROVE  /\ Monotone /\ MessagesTruthful'
             /\ \A v \in InvWorkers : InvWorkerTruthful(v)'
             /\ \A o \in Orders : TablesTruthful(o)'
  <2>1. UNCHANGED <<queue, dlq, log, iw>>
    BY <1>2 DEF Operator, CreateSKU, UpdateAvailableQty, msgVars
  <2>2. Monotone /\ \A o \in Orders : TablesTruthful(o)'
    BY <1>0, <2>1, TablesStable
  <2>3. QED
    BY <2>1, <2>2, MessagesStable, InvWorkersStable DEF IInv, TypeOK, Causality
<1>3. /\ Monotone /\ MessagesTruthful'
      /\ \A v \in InvWorkers : InvWorkerTruthful(v)'
      /\ \A o \in Orders : TablesTruthful(o)'
  BY <1>1, <1>2 DEF InventoryService, InvNext
<1>4. /\ \A w \in PayWorkers : PayWorkerTruthful(w)'
      /\ \A w \in EventWorkers : EventWorkerTruthful(w)'
      /\ \A r \in Replicas : RecoveryTruthful(r)'
      /\ \A o \in Orders : SagaTruthful(o)'
  BY <1>0, <1>3, PayWorkersStable, EventWorkersStable, RecoveryStable, SagaStable
<1>5. QED
  BY <1>3, <1>4 DEF Causality

-----------------------------------------------------------------------------
(* Causality is preserved: payment-service.                                *)

\* A worker that settled its command holds nothing that could be untrue.
LEMMA PayWorkerIdles ==
    ASSUME NEW w \in PayWorkers, TypeOK, pw' = [pw EXCEPT ![w] = IdlePay]
    PROVE  PayWorkerTruthful(w)' /\ \A v \in PayWorkers \ {w} : pw'[v] = pw[v]
  BY DEF TypeOK, PayTypeOK, IdlePay, PayWorkerTruthful

\* What a payment worker does leaves the messages and itself truthful, and
\* decides the payment of an order at most once and after its reservation.
LEMMA PayWorkerCausality ==
    ASSUME IInv, NEW w \in PayWorkers, PayStep(w) \/ PayFault(w), UNCHANGED invVars
    PROVE  /\ Monotone
           /\ MessagesTruthful'
           /\ PayWorkerTruthful(w)'
           /\ \A v \in PayWorkers \ {w} : pw'[v] = pw[v]
           /\ \A o \in Orders : TablesTruthful(o)'
<1>0. /\ TypeOK /\ MsgTypeOK /\ MessagesTruthful /\ PayWorkerTruthful(w)
      /\ pw \in [PayWorkers -> PayWorker]
      /\ pay \in [Orders -> PayStatus]
      /\ log' = log
  BY DEF IInv, TypeOK, Causality, PayTypeOK, invVars
<1>a. ASSUME UNCHANGED pay
      PROVE  Monotone /\ \A o \in Orders : TablesTruthful(o)'
  BY <1>0, <1>a, TablesStable
<1>b. ASSUME UNCHANGED <<queue, dlq>>, Monotone
      PROVE  MessagesTruthful'
  BY <1>0, <1>b, MessagesStable
<1>c. ASSUME pw[w].pc # "idle"
      PROVE  /\ pw[w].msg \in Message
             /\ Truthful(pw[w].msg)
             /\ Monotone /\ pw'[w].msg = pw[w].msg => Truthful(pw[w].msg)'
             /\ pw[w].msg.order \in Orders
             /\ Reserved(pw[w].msg.order)
  <2>1. /\ pw[w].msg \in Message /\ Truthful(pw[w].msg)
        /\ pw[w].msg.key = "payment.process"
    BY <1>0, <1>c DEF PayWorkerTruthful
  <2>2. ASSUME Monotone, pw'[w].msg = pw[w].msg
        PROVE  Truthful(pw[w].msg)'
    BY <2>1, <2>2, TruthfulStable
  <2>3. QED
    BY <2>1, <2>2 DEF Message, Truthful
<1>1. ASSUME NEW m \in queue, TakeProcess(w, m)
      PROVE  /\ Monotone /\ MessagesTruthful' /\ PayWorkerTruthful(w)'
             /\ \A v \in PayWorkers \ {w} : pw'[v] = pw[v]
             /\ \A o \in Orders : TablesTruthful(o)'
  <2>1. Monotone /\ \A o \in Orders : TablesTruthful(o)'
    BY <1>a, <1>1 DEF TakeProcess
  <2>2. MessagesTruthful' /\ m \in Message /\ Truthful(m)'
    BY <1>0, <1>1, <2>1, TakeTruthful DEF TakeProcess
  <2>3. PayWorkerTruthful(w)'
    BY <1>0, <1>1, <2>2 DEF TakeProcess, PayWorkerTruthful
  <2>4. QED
    BY <1>0, <1>1, <2>1, <2>2, <2>3 DEF TakeProcess
<1>2. CASE LookupPayment(w)
  <2>1. Monotone /\ \A o \in Orders : TablesTruthful(o)'
    BY <1>a, <1>2 DEF LookupPayment
  <2>2. MessagesTruthful'
    BY <1>b, <1>2, <2>1 DEF LookupPayment, msgVars
  <2>3. pw'[w].msg = pw[w].msg /\ pw[w].pc # "idle"
    BY <1>0, <1>2 DEF LookupPayment, PayWorker
  <2>4. Truthful(pw[w].msg)'
    BY <1>c, <2>1, <2>3
  <2>5. PayWorkerTruthful(w)'
    BY <1>0, <1>2, <2>3, <2>4 DEF LookupPayment, PayWorkerTruthful, PayWorker
  <2>6. QED
    BY <1>0, <1>2, <2>1, <2>2, <2>5 DEF LookupPayment
<1>3. ASSUME NEW outcome \in Outcomes, CreatePaymentWithEvent(w, outcome)
      PROVE  /\ Monotone /\ MessagesTruthful' /\ PayWorkerTruthful(w)'
             /\ \A v \in PayWorkers \ {w} : pw'[v] = pw[v]
             /\ \A o \in Orders : TablesTruthful(o)'
  <2>1. /\ pw'[w].msg = pw[w].msg /\ pw[w].pc = "create" /\ pw'[w].pc = "reply"
        /\ pw'[w].ok = (outcome = "SUCCESS")
    BY <1>0, <1>3 DEF CreatePaymentWithEvent, PayWorker
  <2>2. /\ pay[pw[w].msg.order] = "NONE"
        /\ pay' = [pay EXCEPT ![pw[w].msg.order] = outcome]
        /\ outcome \in {"SUCCESS", "FAILED"}
    BY <1>3, PaymentAssumption DEF CreatePaymentWithEvent
  <2>3. Monotone
    BY <1>0, <2>2 DEF Monotone
  <2>4. MessagesTruthful'
    BY <1>b, <1>3, <2>3 DEF CreatePaymentWithEvent, msgVars
  <2>5. pay'[pw[w].msg.order] = outcome
    BY <1>0, <1>c, <2>1, <2>2
  <2>6. PayWorkerTruthful(w)'
    BY <1>0, <1>c, <2>1, <2>2, <2>3, <2>5 DEF PayWorkerTruthful
  <2>7. \A o \in Orders : TablesTruthful(o)'
    BY <1>0, <1>c, <2>1, <2>2
    DEF IInv, Causality, TablesTruthful, Reserved, Released, Unpaid
  <2>8. QED
    BY <1>0, <1>3, <2>3, <2>4, <2>6, <2>7 DEF CreatePaymentWithEvent
<1>4. CASE CreateDuplicate(w) \/ PayAbort(w)
  <2>1. Monotone /\ \A o \in Orders : TablesTruthful(o)'
    BY <1>a, <1>4 DEF CreateDuplicate, PayAbort
  <2>2. pw[w].msg \in Message /\ Truthful(pw[w].msg)
    BY <1>c, <1>4 DEF CreateDuplicate, PayAbort
  <2>3. MessagesTruthful'
    BY <1>0, <1>4, <2>1, <2>2, SettlementTruthful, AbortTruthful
    DEF CreateDuplicate, PayAbort
  <2>4. QED
    BY <1>0, <1>4, <2>1, <2>3, PayWorkerIdles DEF CreateDuplicate, PayAbort
<1>5. CASE PayReply(w)
  <2>1. Monotone /\ \A x \in Orders : TablesTruthful(x)'
    BY <1>a, <1>5 DEF PayReply
  <2>2. PICK o \in Orders, ok \in BOOLEAN : o = pw[w].msg.order /\ ok = pw[w].ok
    BY <1>0, <1>5, <1>c DEF PayReply, PayWorker
  <2>3. /\ Reserved(o)'
        /\ pay'[o] # "NONE"
        /\ ok <=> pay'[o] = "SUCCESS"
    BY <1>0, <1>5, <1>c, <2>2 DEF PayReply, PayWorkerTruthful, Reserved
  <2>4. \A m \in Message :
            m.key = "payment.processed" /\ m.order = o /\ m.ok = ok => Truthful(m)'
    BY <2>3 DEF Truthful
  <2>5. Publish("payment.processed", o, ok)
    BY <1>5, <2>2 DEF PayReply
  <2>6. MessagesTruthful'
    BY <1>0, <2>1, <2>4, <2>5, PublishTruthful
  <2>7. QED
    BY <1>0, <1>5, <2>1, <2>6, PayWorkerIdles DEF PayReply
<1>6. CASE PayDuplicate(w)
  <2>1. Monotone /\ \A o \in Orders : TablesTruthful(o)'
    BY <1>a, <1>6 DEF PayDuplicate, payVars
  <2>2. MessagesTruthful'
    BY <1>0, <1>6, <1>c, <2>1, AbortTruthful DEF PayDuplicate
  <2>3. PayWorkerTruthful(w)'
    BY <1>6, <2>1, PayWorkersStable DEF PayDuplicate, payVars
  <2>4. QED
    BY <1>6, <2>1, <2>2, <2>3 DEF PayDuplicate, payVars
<1>7. QED
  BY <1>1, <1>2, <1>3, <1>4, <1>5, <1>6 DEF PayStep, PayFault

\* A client's POST /payments blocks the payment of an order that has none.
LEMMA ClientPaymentCausality ==
    ASSUME IInv, NEW o \in Orders, CreatePayment(o), UNCHANGED invVars
    PROVE  /\ Monotone
           /\ MessagesTruthful'
           /\ \A x \in Orders : TablesTruthful(x)'
<1>1. pay \in [Orders -> PayStatus] /\ MsgTypeOK /\ MessagesTruthful /\ log' = log
  BY DEF IInv, TypeOK, PayTypeOK, Causality, invVars
<1>2. Monotone
  BY <1>1 DEF CreatePayment, Monotone
<1>3. MessagesTruthful'
  BY <1>1, <1>2, MessagesStable DEF CreatePayment, msgVars
<1>4. \A x \in Orders : TablesTruthful(x)'
  BY <1>1 DEF CreatePayment, IInv, Causality, TablesTruthful, Reserved, Released, Unpaid
<1>5. QED
  BY <1>2, <1>3, <1>4

\* Steps of payment-service preserve Causality.
LEMMA PaymentCausality ==
    ASSUME IInv, PaymentService
    PROVE  Causality'
<1>0. UNCHANGED <<iw, log, ow, rec, order, step>> /\ UNCHANGED invVars
  BY DEF PaymentService, invVars, orchVars
<1>1. ASSUME NEW w \in PayWorkers, PayStep(w) \/ PayFault(w)
      PROVE  /\ Monotone /\ MessagesTruthful'
             /\ \A v \in PayWorkers : PayWorkerTruthful(v)'
             /\ \A o \in Orders : TablesTruthful(o)'
  BY <1>0, <1>1, PayWorkerCausality, PayWorkersStable
<1>2. ASSUME NEW o \in Orders, CreatePayment(o)
      PROVE  /\ Monotone /\ MessagesTruthful'
             /\ \A v \in PayWorkers : PayWorkerTruthful(v)'
             /\ \A x \in Orders : TablesTruthful(x)'
  <2>1. UNCHANGED pw
    BY <1>2 DEF CreatePayment
  <2>2. QED
    BY <1>0, <1>2, <2>1, ClientPaymentCausality, PayWorkersStable
<1>3. /\ Monotone /\ MessagesTruthful'
      /\ \A v \in PayWorkers : PayWorkerTruthful(v)'
      /\ \A o \in Orders : TablesTruthful(o)'
  BY <1>1, <1>2 DEF PaymentService, PayNext
<1>4. /\ \A w \in InvWorkers : InvWorkerTruthful(w)'
      /\ \A w \in EventWorkers : EventWorkerTruthful(w)'
      /\ \A r \in Replicas : RecoveryTruthful(r)'
      /\ \A o \in Orders : SagaTruthful(o)'
  BY <1>0, <1>3, InvWorkersStable, EventWorkersStable, RecoveryStable, SagaStable
<1>5. QED
  BY <1>3, <1>4 DEF Causality

-----------------------------------------------------------------------------
(* Causality is preserved: order-service and the operator's redrive.  None  *)
(* of their steps touches the tables of the other two services.            *)

\* POST /orders creates an order and a saga that claim nothing yet.
LEMMA RequestCausality ==
    ASSUME IInv, Monotone, NEW o \in Orders, Request(o) \/ RequestFails(o)
    PROVE  /\ MessagesTruthful'
           /\ UNCHANGED <<ow, rec>>
           /\ \A x \in Orders : SagaTruthful(x)'
<1>0. /\ MsgTypeOK /\ MessagesTruthful
      /\ order \in [Orders -> OrderStatus] /\ step \in [Orders -> Steps \cup {"NONE"}]
  BY DEF IInv, TypeOK, OrchTypeOK, Causality
<1>1. UNCHANGED <<ow, rec>>
  BY DEF Request, CreateOrder, StartSaga, StartSagaPublish, RequestFails
<1>2. CASE CreateOrder(o) \/ StartSaga(o)
  <2>1. MessagesTruthful'
    BY <1>0, <1>2, MessagesStable DEF CreateOrder, StartSaga, msgVars
  <2>2. \A x \in Orders : x # o => SagaTruthful(x)'
    BY <1>0, <1>2, SagaStable DEF CreateOrder, StartSaga
  <2>3. SagaTruthful(o)'
    <3>1. CASE CreateOrder(o)
      <4>1. StepTruthful(o, step[o])'
        BY <3>1, StepStable DEF CreateOrder, IInv, Causality, SagaTruthful, StepTruthful
      <4>2. order'[o] = "PENDING"
        BY <1>0, <3>1 DEF CreateOrder
      <4>3. QED
        BY <4>1, <4>2 DEF SagaTruthful
    <3>2. CASE StartSaga(o)
      <4>1. step'[o] = "RESERVING_INVENTORY" /\ order'[o] = order[o]
        BY <1>0, <3>2 DEF StartSaga
      <4>2. /\ order[o] = "CONFIRMED" => pay'[o] = "SUCCESS"
            /\ order[o] = "COMPENSATED" => Released(o)'
        BY DEF IInv, Causality, SagaTruthful, Monotone, Released
      <4>3. QED
        BY <4>1, <4>2 DEF SagaTruthful, StepTruthful
    <3>3. QED
      BY <1>2, <3>1, <3>2
  <2>4. QED
    BY <1>1, <2>1, <2>2, <2>3
<1>3. CASE StartSagaPublish(o)
  <2>1. \A m \in Message : m.key = "inventory.reserve" => Truthful(m)'
    BY DEF Truthful
  <2>2. MessagesTruthful'
    BY <1>0, <1>3, <2>1, PublishTruthful DEF StartSagaPublish
  <2>3. QED
    BY <1>1, <1>3, <2>2, SagaStable DEF StartSagaPublish
<1>4. CASE RequestFails(o)
  <2>1. MessagesTruthful'
    BY <1>0, <1>4, MessagesStable DEF RequestFails
  <2>2. QED
    BY <1>1, <1>4, <2>1, SagaStable DEF RequestFails
<1>5. QED
  BY <1>2, <1>3, <1>4 DEF Request

\* A worker that settled its event holds nothing that could be untrue.
LEMMA EventWorkerIdles ==
    ASSUME NEW w \in EventWorkers, TypeOK, ow' = [ow EXCEPT ![w] = IdleEvent]
    PROVE  EventWorkerTruthful(w)' /\ \A v \in EventWorkers \ {w} : ow'[v] = ow[v]
  BY DEF TypeOK, OrchTypeOK, IdleEvent, EventWorkerTruthful

\* An event worker writes to the order and its saga what its event truthfully
\* says, and publishes the command that this allows.
LEMMA EventWorkerCausality ==
    ASSUME IInv, Monotone, NEW w \in EventWorkers,
           EventStep(w) \/ EventAbort(w) \/ EventDuplicate(w), UNCHANGED <<log, pay>>
    PROVE  /\ MessagesTruthful'
           /\ EventWorkerTruthful(w)'
           /\ \A v \in EventWorkers \ {w} : ow'[v] = ow[v]
           /\ UNCHANGED rec
           /\ \A o \in Orders : SagaTruthful(o)'
<1>0. /\ TypeOK /\ MsgTypeOK /\ MessagesTruthful /\ EventWorkerTruthful(w)
      /\ ow \in [EventWorkers -> EventWorker]
      /\ order \in [Orders -> OrderStatus] /\ step \in [Orders -> Steps \cup {"NONE"}]
      /\ pay \in [Orders -> PayStatus]
  BY DEF IInv, TypeOK, OrchTypeOK, PayTypeOK, Causality
<1>a. ASSUME UNCHANGED <<order, step>>
      PROVE  \A o \in Orders : SagaTruthful(o)'
  BY <1>a, SagaStable
<1>b. ASSUME ow[w].pc # "idle"
      PROVE  /\ ow[w].msg \in Message
             /\ Truthful(ow[w].msg)
             /\ ow[w].msg.key \in Events
             /\ ow'[w].msg = ow[w].msg => Truthful(ow[w].msg)'
             /\ ow[w].msg.order \in Orders /\ ow[w].msg.ok \in BOOLEAN
  <2>1. ow[w].msg \in Message /\ Truthful(ow[w].msg) /\ ow[w].msg.key \in Events
    BY <1>0, <1>b DEF EventWorkerTruthful
  <2>2. ASSUME ow'[w].msg = ow[w].msg
        PROVE  Truthful(ow[w].msg)'
    BY <2>1, <2>2, TruthfulStable
  <2>3. QED
    BY <2>1, <2>2 DEF Message
<1>c. ASSUME ow' = [ow EXCEPT ![w].pc = "publish"], ow[w].pc # "idle",
             \/ ow[w].msg.key = "inventory.reserved" /\ ow[w].msg.ok
             \/ ow[w].msg.key = "payment.processed" /\ ~ow[w].msg.ok
      PROVE  EventWorkerTruthful(w)' /\ \A v \in EventWorkers \ {w} : ow'[v] = ow[v]
  <2>1. ow'[w].msg = ow[w].msg
    BY <1>0, <1>c DEF EventWorker
  <2>2. QED
    BY <1>0, <1>b, <1>c, <2>1 DEF EventWorkerTruthful
<1>1. ASSUME NEW m \in queue, TakeEvent(w, m)
      PROVE  /\ MessagesTruthful' /\ EventWorkerTruthful(w)'
             /\ \A v \in EventWorkers \ {w} : ow'[v] = ow[v]
  <2>1. MessagesTruthful' /\ m \in Message /\ Truthful(m)'
    BY <1>0, <1>1, TakeTruthful DEF TakeEvent
  <2>2. EventWorkerTruthful(w)'
    BY <1>0, <1>1, <2>1 DEF TakeEvent, EventWorkerTruthful, Expects
  <2>3. QED
    BY <1>0, <1>1, <2>1, <2>2 DEF TakeEvent
<1>2. ASSUME ow[w].pc = "commit", UNCHANGED msgVars
      PROVE  MessagesTruthful'
  BY <1>0, <1>2, MessagesStable DEF msgVars
<1>3. ASSUME ow[w].pc # "idle", NEW s \in Steps, NEW t \in OrderStatus,
             step' = [step EXCEPT ![ow[w].msg.order] = s],
             order' = [order EXCEPT ![ow[w].msg.order] = t],
             StepTruthful(ow[w].msg.order, s),
             t = "CONFIRMED" => pay[ow[w].msg.order] = "SUCCESS",
             t = "COMPENSATED" => Released(ow[w].msg.order)
      PROVE  \A o \in Orders : SagaTruthful(o)'
  <2>1. PICK x \in Orders : x = ow[w].msg.order
    BY <1>3, <1>b
  <2>2. \A o \in Orders : o # x => SagaTruthful(o)'
    BY <1>0, <1>3, <2>1, SagaStable
  <2>3. step'[x] = s /\ order'[x] = t
    BY <1>0, <1>3, <2>1
  <2>4. StepTruthful(x, s)'
    BY <1>3, <2>1, StepStable
  <2>5. SagaTruthful(x)'
    BY <1>3, <2>1, <2>3, <2>4 DEF SagaTruthful, StepTruthful, Released
  <2>6. QED
    BY <2>2, <2>5
<1>4. CASE CommitInventoryReserved(w)
  <2>1. /\ ow[w].pc = "commit" /\ ow[w].msg.key = "inventory.reserved"
        /\ ow[w].msg.ok => Reserved(ow[w].msg.order)
    BY <1>b, <1>4 DEF CommitInventoryReserved, Truthful
  <2>2. MessagesTruthful' /\ UNCHANGED rec
    BY <1>2, <1>4, <2>1 DEF CommitInventoryReserved
  <2>3. CASE ow[w].msg.ok
    <3>1. EventWorkerTruthful(w)' /\ \A v \in EventWorkers \ {w} : ow'[v] = ow[v]
      BY <1>4, <1>c, <2>1, <2>3 DEF CommitInventoryReserved
    <3>2. StepTruthful(ow[w].msg.order, "PROCESSING_PAYMENT")
      BY <2>1, <2>3 DEF StepTruthful
    <3>3. \A o \in Orders : SagaTruthful(o)'
      BY <1>3, <1>4, <2>1, <2>3, <3>2 DEF CommitInventoryReserved, Steps, OrderStatus
    <3>4. QED
      BY <2>2, <3>1, <3>3
  <2>4. CASE ~ow[w].msg.ok
    <3>1. EventWorkerTruthful(w)' /\ \A v \in EventWorkers \ {w} : ow'[v] = ow[v]
      BY <1>0, <1>4, <2>4, EventWorkerIdles DEF CommitInventoryReserved
    <3>2. StepTruthful(ow[w].msg.order, "DONE")
      BY DEF StepTruthful
    <3>3. \A o \in Orders : SagaTruthful(o)'
      BY <1>3, <1>4, <2>1, <2>4, <3>2 DEF CommitInventoryReserved, Steps, OrderStatus
    <3>4. QED
      BY <2>2, <3>1, <3>3
  <2>5. QED
    BY <2>3, <2>4
<1>5. CASE CommitPaymentProcessed(w)
  <2>1. /\ ow[w].pc = "commit" /\ ow[w].msg.key = "payment.processed"
        /\ Reserved(ow[w].msg.order)
        /\ ow[w].msg.ok => pay[ow[w].msg.order] = "SUCCESS"
        /\ ~ow[w].msg.ok => Unpaid(ow[w].msg.order)
    BY <1>0, <1>b, <1>5 DEF CommitPaymentProcessed, Truthful, Unpaid, PayStatus
  <2>2. MessagesTruthful' /\ UNCHANGED rec
    BY <1>2, <1>5, <2>1 DEF CommitPaymentProcessed
  <2>3. CASE ow[w].msg.ok
    <3>1. EventWorkerTruthful(w)' /\ \A v \in EventWorkers \ {w} : ow'[v] = ow[v]
      BY <1>0, <1>5, <2>3, EventWorkerIdles DEF CommitPaymentProcessed
    <3>2. StepTruthful(ow[w].msg.order, "DONE")
      BY DEF StepTruthful
    <3>3. \A o \in Orders : SagaTruthful(o)'
      BY <1>3, <1>5, <2>1, <2>3, <3>2 DEF CommitPaymentProcessed, Steps, OrderStatus
    <3>4. QED
      BY <2>2, <3>1, <3>3
  <2>4. CASE ~ow[w].msg.ok
    <3>1. EventWorkerTruthful(w)' /\ \A v \in EventWorkers \ {w} : ow'[v] = ow[v]
      BY <1>5, <1>c, <2>1, <2>4 DEF CommitPaymentProcessed
    <3>2. StepTruthful(ow[w].msg.order, "RELEASING_INVENTORY")
      BY <2>1, <2>4 DEF StepTruthful
    <3>3. \A o \in Orders : SagaTruthful(o)'
      BY <1>3, <1>5, <2>1, <2>4, <3>2 DEF CommitPaymentProcessed, Steps, OrderStatus
    <3>4. QED
      BY <2>2, <3>1, <3>3
  <2>5. QED
    BY <2>3, <2>4
<1>6. CASE CommitInventoryReleased(w)
  <2>1. /\ ow[w].pc = "commit" /\ ow[w].msg.key = "inventory.released"
        /\ ow[w].msg.ok => Released(ow[w].msg.order)
    BY <1>b, <1>6 DEF CommitInventoryReleased, Truthful
  <2>2. MessagesTruthful' /\ UNCHANGED rec
    BY <1>2, <1>6, <2>1 DEF CommitInventoryReleased
  <2>3. EventWorkerTruthful(w)' /\ \A v \in EventWorkers \ {w} : ow'[v] = ow[v]
    BY <1>0, <1>6, EventWorkerIdles DEF CommitInventoryReleased
  <2>4. StepTruthful(ow[w].msg.order, "DONE")
    BY DEF StepTruthful
  <2>5. CASE ow[w].msg.ok
    BY <1>3, <1>6, <2>1, <2>2, <2>3, <2>4, <2>5
    DEF CommitInventoryReleased, Steps, OrderStatus
  <2>6. CASE ~ow[w].msg.ok
    <3>1. PICK t \in OrderStatus : t = order[ow[w].msg.order]
      BY <1>0, <1>b, <2>1
    <3>2. order' = [order EXCEPT ![ow[w].msg.order] = t]
      BY <1>0, <1>6, <2>6, <3>1 DEF CommitInventoryReleased
    <3>3. /\ t = "CONFIRMED" => pay[ow[w].msg.order] = "SUCCESS"
          /\ t = "COMPENSATED" => Released(ow[w].msg.order)
      BY <1>b, <2>1, <3>1 DEF IInv, Causality, SagaTruthful
    <3>4. \A o \in Orders : SagaTruthful(o)'
      BY <1>3, <1>6, <2>1, <2>4, <3>2, <3>3 DEF CommitInventoryReleased, Steps
    <3>5. QED
      BY <2>2, <2>3, <3>4
  <2>7. QED
    BY <2>5, <2>6
<1>7. CASE CommitDuplicate(w) \/ EventAbort(w)
  <2>1. MessagesTruthful'
    BY <1>0, <1>b, <1>7, SettlementTruthful, AbortTruthful DEF CommitDuplicate, EventAbort
  <2>2. QED
    BY <1>0, <1>7, <1>a, <2>1, EventWorkerIdles DEF CommitDuplicate, EventAbort
<1>8. CASE PublishNext(w)
  <2>1. PICK key \in Keys, o \in Orders :
            key = NextCommand(ow[w].msg) /\ o = ow[w].msg.order
    BY <1>b, <1>8 DEF PublishNext, NextCommand
  <2>2. /\ Reserved(o)'
        /\ key = "inventory.release" => Unpaid(o)'
        /\ key \in {"payment.process", "inventory.release"}
    BY <1>0, <1>b, <1>8, <2>1
    DEF PublishNext, NextCommand, EventWorkerTruthful, Truthful, Unpaid, PayStatus, Reserved
  <2>3. \A m \in Message : m.key = key /\ m.order = o /\ m.ok = TRUE => Truthful(m)'
    BY <2>2 DEF Truthful
  <2>4. Publish(key, o, TRUE)
    BY <1>8, <2>1 DEF PublishNext
  <2>5. MessagesTruthful'
    BY <1>0, <2>3, <2>4, PublishTruthful
  <2>6. QED
    BY <1>0, <1>8, <1>a, <2>5, EventWorkerIdles DEF PublishNext
<1>9. CASE EventDuplicate(w)
  <2>1. MessagesTruthful'
    BY <1>0, <1>b, <1>9, AbortTruthful DEF EventDuplicate
  <2>2. EventWorkerTruthful(w)'
    BY <1>9, EventWorkersStable DEF EventDuplicate, orchVars
  <2>3. QED
    BY <1>9, <1>a, <2>1, <2>2 DEF EventDuplicate, orchVars
<1>10. QED
  BY <1>1, <1>4, <1>5, <1>6, <1>7, <1>8, <1>9, <1>a DEF EventStep, TakeEvent

\* A recovery loop re-publishes, from a list however old, only commands whose
\* ground is still in the tables.
LEMMA RecoveryCausality ==
    ASSUME IInv, Monotone, NEW r \in Replicas, RecoveryStep(r) \/ RecoveryFails(r),
           UNCHANGED <<log, pay>>
    PROVE  /\ MessagesTruthful'
           /\ \A q \in Replicas : RecoveryTruthful(q)'
           /\ UNCHANGED <<ow, order, step>>
<1>0. /\ MsgTypeOK /\ MessagesTruthful
      /\ rec \in [Replicas -> RecoveryLoop]
      /\ \A q \in Replicas : RecoveryTruthful(q)
  BY DEF IInv, TypeOK, OrchTypeOK, Causality
<1>1. UNCHANGED <<ow, order, step>>
  BY DEF RecoveryStep, ListInProgress, ListCompensating, RecoveryDone, Republish,
         PassOver, RecoveryFails
<1>2. ASSUME UNCHANGED <<queue, dlq>>
      PROVE  MessagesTruthful'
  BY <1>0, <1>2, MessagesStable
<1>3. ASSUME \A q \in Replicas : rec'[q].list \subseteq rec[q].list
      PROVE  \A q \in Replicas : RecoveryTruthful(q)'
  BY <1>3, RecoveryStable
<1>4. CASE ListInProgress(r) \/ ListCompensating(r)
  <2>1. MessagesTruthful'
    BY <1>2, <1>4 DEF ListInProgress, ListCompensating, msgVars
  <2>2. PICK s : rec'[r].list = Listed(s)
    BY <1>0, <1>4 DEF ListInProgress, ListCompensating
  <2>3. \A x \in Listed(s) : StepTruthful(x[1], x[2])
    BY DEF Listed, IInv, Causality, SagaTruthful
  <2>4. \A x \in rec'[r].list : StepTruthful(x[1], x[2])'
    BY <2>2, <2>3, StepStable DEF Listed
  <2>5. RecoveryTruthful(r)'
    BY <2>4 DEF RecoveryTruthful
  <2>6. \A q \in Replicas \ {r} : RecoveryTruthful(q)'
    BY <1>0, <1>4, RecoveryStable DEF ListInProgress, ListCompensating
  <2>7. QED
    BY <1>1, <2>1, <2>5, <2>6
<1>5. CASE RecoveryDone(r)
  BY <1>0, <1>1, <1>2, <1>3, <1>5 DEF RecoveryDone, Waiting, msgVars
<1>6. ASSUME NEW x \in rec[r].list, Republish(r, x)
      PROVE  MessagesTruthful' /\ \A q \in Replicas : RecoveryTruthful(q)'
  <2>1. /\ StepTruthful(x[1], x[2])
        /\ x[1] \in Orders
    BY <1>0 DEF RecoveryTruthful, RecoveryLoop
  <2>2. StepTruthful(x[1], x[2])'
    BY <2>1, StepStable
  <2>3. PICK key \in Keys : key \in Commands /\ key = StepCommand(x[2])
    BY <1>6, StepCommandKey DEF Republish
  <2>4. PICK o \in Orders : o = x[1]
    BY <2>1
  <2>5. /\ key = "payment.process" => Reserved(o)'
        /\ key = "inventory.release" => Reserved(o)' /\ Unpaid(o)'
    BY <1>6, <2>2, <2>3, <2>4, StepCommandKey DEF Republish, StepTruthful
  <2>6. \A m \in Message : m.key = key /\ m.order = o /\ m.ok = TRUE => Truthful(m)'
    BY <2>3, <2>5 DEF Truthful
  <2>7. Publish(key, o, TRUE)
    BY <1>6, <2>3, <2>4 DEF Republish
  <2>8. MessagesTruthful'
    BY <1>0, <2>6, <2>7, PublishTruthful
  <2>9. QED
    BY <1>0, <1>3, <1>6, <2>8 DEF Republish, RecoveryLoop
<1>7. ASSUME NEW x \in rec[r].list, PassOver(r, x)
      PROVE  MessagesTruthful' /\ \A q \in Replicas : RecoveryTruthful(q)'
  BY <1>0, <1>2, <1>3, <1>7 DEF PassOver, RecoveryLoop, msgVars
<1>8. CASE RecoveryFails(r)
  <2>1. \A q \in Replicas : rec'[q].list \subseteq rec[q].list
    BY <1>0, <1>8 DEF RecoveryFails, RecoveryLoop, Waiting
  <2>2. QED
    BY <1>1, <1>2, <1>3, <1>8, <2>1 DEF RecoveryFails
<1>9. QED
  BY <1>1, <1>4, <1>5, <1>6, <1>7, <1>8 DEF RecoveryStep

\* Steps of order-service preserve Causality.
LEMMA OrderCausality ==
    ASSUME IInv, OrderService
    PROVE  Causality'
<1>0. UNCHANGED <<iw, pw, log, pay>>
  BY DEF OrderService, invVars, payVars
<1>1. Monotone /\ \A o \in Orders : TablesTruthful(o)'
  BY <1>0, TablesStable
<1>2. /\ \A w \in InvWorkers : InvWorkerTruthful(w)'
      /\ \A w \in PayWorkers : PayWorkerTruthful(w)'
  BY <1>0, <1>1, InvWorkersStable, PayWorkersStable
<1>3. ASSUME UNCHANGED ow
      PROVE  \A w \in EventWorkers : EventWorkerTruthful(w)'
  BY <1>1, <1>3, EventWorkersStable
<1>4. ASSUME UNCHANGED rec
      PROVE  \A r \in Replicas : RecoveryTruthful(r)'
  BY <1>1, <1>4, RecoveryStable
<1>5. ASSUME UNCHANGED <<order, step>>
      PROVE  \A o \in Orders : SagaTruthful(o)'
  BY <1>1, <1>5, SagaStable
<1>6. ASSUME NEW o \in Orders, Request(o) \/ RequestFails(o)
      PROVE  Causality'
  BY <1>1, <1>2, <1>3, <1>4, <1>6, RequestCausality DEF Causality
<1>7. ASSUME NEW w \in EventWorkers, EventStep(w) \/ EventAbort(w) \/ EventDuplicate(w)
      PROVE  Causality'
  <2>1. \A v \in EventWorkers : EventWorkerTruthful(v)'
    BY <1>0, <1>1, <1>7, EventWorkerCausality, EventWorkersStable
  <2>2. QED
    BY <1>0, <1>1, <1>2, <1>4, <1>7, <2>1, EventWorkerCausality DEF Causality
<1>8. ASSUME NEW r \in Replicas, RecoveryStep(r) \/ RecoveryFails(r)
      PROVE  Causality'
  BY <1>0, <1>1, <1>2, <1>3, <1>5, <1>8, RecoveryCausality DEF Causality
<1>9. QED
  BY <1>6, <1>7, <1>8 DEF OrderService, OrchNext

\* A redrive preserves Causality.
LEMMA RedriveCausality ==
    ASSUME IInv, RedriveDlq
    PROVE  Causality'
<1>0. UNCHANGED <<iw, pw, ow, rec, order, step, log, pay>>
  BY DEF RedriveDlq, invVars, payVars, orchVars
<1>1. Monotone /\ \A o \in Orders : TablesTruthful(o)'
  BY <1>0, TablesStable
<1>2. PICK m \in dlq : Redrive(m) \/ RedriveDies(m)
  BY DEF RedriveDlq
<1>3. MsgTypeOK /\ MessagesTruthful /\ m \in Message /\ Truthful(m)
  BY DEF IInv, TypeOK, MsgTypeOK, Causality, MessagesTruthful
<1>4. \A x \in Rerouted(m) : x \in Message /\ Truthful(x)
  BY <1>3, RetriedType, TruthfulCopies DEF Rerouted
<1>5. \A x \in queue' \cup dlq' : x \in queue \cup dlq \/ Truthful(x)'
  BY <1>1, <1>2, <1>4, TruthfulStable DEF Redrive, RedriveDies
<1>6. MessagesTruthful'
  BY <1>1, <1>3, <1>5, MessagesStable
<1>7. QED
  BY <1>0, <1>1, <1>6, InvWorkersStable, PayWorkersStable, EventWorkersStable,
     RecoveryStable, SagaStable DEF Causality

\* A step that touches no table, message or goroutine (a service starts for the
\* first time) preserves Causality.
LEMMA StillCausal ==
    ASSUME IInv, UNCHANGED <<msgVars, invVars, payVars, orchVars>>
    PROVE  Causality'
<1>0. UNCHANGED <<queue, dlq, iw, pw, ow, rec, order, step, log, pay>>
  BY DEF msgVars, invVars, payVars, orchVars
<1>1. Monotone /\ \A o \in Orders : TablesTruthful(o)'
  BY <1>0, TablesStable
<1>2. MessagesTruthful'
  BY <1>0, <1>1, MessagesStable DEF IInv, TypeOK, Causality
<1>3. QED
  BY <1>0, <1>1, <1>2, InvWorkersStable, PayWorkersStable, EventWorkersStable,
     RecoveryStable, SagaStable DEF Causality
=============================================================================
