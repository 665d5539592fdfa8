---------------------------- MODULE ProductProofs ----------------------------
(***************************************************************************)
(* Products and their stock in OrderSystem, with any number of orders,     *)
(* products, workers, replicas and faults: an order for a product without  *)
(* an inventory row waits, and no unit of one with a row is sold twice.    *)
(*                                                                         *)
(* handleReserve finds the row before it can come to any answer, and rows  *)
(* are never deleted: so whatever takes a saga past its first step was     *)
(* derived, through messages, workers and the other tables, from a row.    *)
(* What is charged, by the same causality, is held; and the rows balance   *)
(* with the log.                                                           *)
(***************************************************************************)
EXTENDS OrderSystemProofs

USE DEF Keys, Commands, Events, DeadEvent

\* An answer of inventory-service is about a product with a row.
Knowing(m) == m.key \in {"inventory.reserved", "inventory.released"} => Known(m.order)

\* A worker that has read the row, or is past it, is at work on such a product.
InvWorkerKnows(w) == iw[w].pc \in {"cas", "yes", "no"} => Known(iw[w].msg.order)

EventWorkerKnows(w) == ow[w].pc # "idle" => Knowing(ow[w].msg)

SagaKnows(o) ==
    /\ Reserved(o) => Known(o)
    /\ step[o] \notin {"NONE", "RESERVING_INVENTORY"} => Known(o)

\* With IInv, inductive.
ProductsKnown ==
    /\ \A m \in queue \cup dlq : Knowing(m)
    /\ \A w \in InvWorkers : InvWorkerKnows(w)
    /\ \A w \in EventWorkers : EventWorkerKnows(w)
    /\ \A o \in Orders : SagaKnows(o)

-----------------------------------------------------------------------------
(* What a step leaves alone.                                               *)

\* No step deletes an inventory row.
LEMMA RowsStay ==
    ASSUME IInv, [Next]_vars
    PROVE  skus \subseteq skus'
<1>1. CASE UNCHANGED invVars
  BY <1>1 DEF invVars
<1>2. ASSUME NEW w \in InvWorkers, InvStep(w) \/ InvFault(w)
      PROVE  skus' = skus
  BY <1>2 DEF InvStep, InvFault, TakeReserve, TakeRelease, ReadInventory, ReadMissing,
       ReserveAtomic, ReserveDuplicate, ReserveConflict, ReleaseAtomic, ReleaseRefused,
       ReleaseFails, InvReply, InvAbort, InvDuplicate, invVars
<1>3. ASSUME Operator
      PROVE  skus \subseteq skus'
  BY <1>3 DEF Operator, CreateSKU, UpdateAvailableQty
<1>4. QED
  BY <1>1, <1>2, <1>3 DEF Next, vars, InventoryService, InvNext, PaymentService, OrderService,
     RedriveDlq, FirstStart

\* Messages on their way know their product if those that a step adds do.
LEMMA MessagesKnow ==
    ASSUME skus \subseteq skus', \A m \in queue \cup dlq : Knowing(m),
           \A m \in queue' \cup dlq' : m \in queue \cup dlq \/ Knowing(m)'
    PROVE  \A m \in queue' \cup dlq' : Knowing(m)'
  BY DEF Knowing, Known

\* A message that is retried, dead-lettered, requeued or repeated keeps its key
\* and its order.
LEMMA CopiesKnow ==
    ASSUME skus \subseteq skus', \A m \in queue \cup dlq : Knowing(m),
           NEW h \in Message, Knowing(h), HandlerError(h) \/ Abort(h) \/ Duplicate(h)
    PROVE  \A m \in queue' \cup dlq' : Knowing(m)'
<1>1. HandlerError(h) \/ Requeue(h)
  BY DEF Abort, Duplicate
<1>2. \A m \in queue' \cup dlq' :
          m \in queue \cup dlq \/ m = h \/ m = [h EXCEPT !.tries = @ + 1]
  BY <1>1 DEF HandlerError, Requeue
<1>3. /\ [h EXCEPT !.tries = @ + 1].key = h.key
      /\ [h EXCEPT !.tries = @ + 1].order = h.order
  BY DEF Message
<1>4. Knowing(h)' /\ Knowing([h EXCEPT !.tries = @ + 1])'
  BY <1>3 DEF Knowing, Known
<1>5. QED
  BY <1>2, <1>4, MessagesKnow

\* A publication knows its product, or does not claim to.
LEMMA PublicationKnows ==
    ASSUME skus \subseteq skus', \A m \in queue \cup dlq : Knowing(m),
           NEW key, NEW o, NEW ok, Publish(key, o, ok),
           key \in {"inventory.reserved", "inventory.released"} => Known(o)
    PROVE  \A m \in queue' \cup dlq' : Knowing(m)'
<1>1. \A m \in queue' \cup dlq' : m \in queue \cup dlq \/ m = Fresh(key, o, ok)
  BY DEF Publish, msgVars
<1>2. Fresh(key, o, ok).key = key /\ Fresh(key, o, ok).order = o
  BY DEF Fresh
<1>3. \A m : m = Fresh(key, o, ok) => Knowing(m)'
  BY <1>2 DEF Knowing, Known
<1>4. QED
  BY <1>1, <1>3, MessagesKnow

\* What a worker, an order or a saga knows stays known.
LEMMA StillKnown ==
    ASSUME skus \subseteq skus', ProductsKnown
    PROVE  /\ \A w \in InvWorkers : iw'[w] = iw[w] => InvWorkerKnows(w)'
           /\ \A w \in EventWorkers : ow'[w] = ow[w] => EventWorkerKnows(w)'
           /\ \A o \in Orders : step'[o] = step[o] /\ (Reserved(o)' => Reserved(o))
                                    => SagaKnows(o)'
<1>1. \A o : Known(o) => Known(o)'
  BY DEF Known
<1>2. \A w \in InvWorkers : iw'[w] = iw[w] => InvWorkerKnows(w)'
  BY <1>1 DEF ProductsKnown, InvWorkerKnows
<1>3. \A w \in EventWorkers : ow'[w] = ow[w] => EventWorkerKnows(w)'
  BY <1>1 DEF ProductsKnown, EventWorkerKnows, Knowing
<1>4. \A o \in Orders : step'[o] = step[o] /\ (Reserved(o)' => Reserved(o)) => SagaKnows(o)'
  BY <1>1 DEF ProductsKnown, SagaKnows
<1>5. QED
  BY <1>2, <1>3, <1>4

-----------------------------------------------------------------------------
(* What a step newly claims, service by service.                           *)

\* An inventory worker answers only after it, or the worker that reserved for
\* the order, has read the row.
LEMMA InvWorkerProducts ==
    ASSUME IInv, ProductsKnown, skus \subseteq skus',
           NEW w \in InvWorkers, InvStep(w) \/ InvFault(w)
    PROVE  /\ \A m \in queue' \cup dlq' : Knowing(m)'
           /\ InvWorkerKnows(w)'
           /\ \A v \in InvWorkers \ {w} : iw'[v] = iw[v]
           /\ \A o \in Orders : Reserved(o)' => Reserved(o) \/ Known(o)'
<1>0. /\ \A m \in queue \cup dlq : Knowing(m)
      /\ iw \in [InvWorkers -> InvWorker]
      /\ InvWorkerTruthful(w)
      /\ InvWorkerKnows(w)
      /\ \A o \in Orders : SagaKnows(o)
      /\ \A o : Known(o) => Known(o)'
  BY DEF ProductsKnown, IInv, TypeOK, InvTypeOK, Causality, Known
<1>1. PICK h : h = iw[w].msg
  OBVIOUS
<1>2. ASSUME iw[w].pc # "idle"
      PROVE  /\ h \in Message /\ h.order \in Orders
             /\ Knowing(h)
             /\ iw[w].pc = "release" => Known(h.order)
  BY <1>0, <1>1, <1>2 DEF InvWorkerTruthful, Truthful, Message, Knowing, SagaKnows
<1>3. ASSUME UNCHANGED <<queue, dlq>>
      PROVE  \A m \in queue' \cup dlq' : Knowing(m)'
  BY <1>0, <1>3, MessagesKnow
<1>4. ASSUME UNCHANGED log
      PROVE  \A o \in Orders : Reserved(o)' => Reserved(o) \/ Known(o)'
  BY <1>4 DEF Reserved
<1>5. ASSUME iw' = [iw EXCEPT ![w] = IdleInv]
      PROVE  InvWorkerKnows(w)' /\ \A v \in InvWorkers \ {w} : iw'[v] = iw[v]
  BY <1>0, <1>5 DEF InvWorkerKnows, IdleInv
<1>6. ASSUME NEW m \in queue, TakeReserve(w, m) \/ TakeRelease(w, m)
      PROVE  /\ \A x \in queue' \cup dlq' : Knowing(x)'
             /\ InvWorkerKnows(w)'
             /\ \A v \in InvWorkers \ {w} : iw'[v] = iw[v]
             /\ UNCHANGED log
  <2>1. \A x \in queue' \cup dlq' : x \in queue \cup dlq
    BY <1>6 DEF TakeReserve, TakeRelease, Take
  <2>2. m.order \in Orders /\ Truthful(m)
    BY DEF IInv, TypeOK, MsgTypeOK, Causality, MessagesTruthful, Message
  <2>3. /\ Reserved(m.order) => Known(m.order)'
        /\ Released(m.order) => Known(m.order)'
    BY <1>0, <2>2 DEF SagaKnows, IInv, Causality, TablesTruthful
  <2>4. InvWorkerKnows(w)' /\ \A v \in InvWorkers \ {w} : iw'[v] = iw[v]
    BY <1>0, <1>6, <2>3 DEF TakeReserve, TakeRelease, InvWorkerKnows, Known
  <2>5. QED
    BY <1>0, <1>6, <2>1, <2>4, MessagesKnow DEF TakeReserve, TakeRelease
<1>7. CASE ReadInventory(w)
  <2>1. Known(h.order)'
    BY <1>0, <1>1, <1>7 DEF ReadInventory, Known
  <2>2. iw'[w].msg = h /\ \A v \in InvWorkers \ {w} : iw'[v] = iw[v]
    BY <1>0, <1>1, <1>7 DEF ReadInventory, InvWorker
  <2>3. QED
    BY <1>3, <1>4, <1>7, <2>1, <2>2 DEF ReadInventory, InvWorkerKnows, Known, msgVars
<1>8. CASE ReadMissing(w) \/ ReserveDuplicate(w)
  BY <1>0, <1>1, <1>2, <1>4, <1>5, <1>8, CopiesKnow DEF ReadMissing, ReserveDuplicate
<1>9. CASE ReserveAtomic(w)
  <2>1. Known(h.order)' /\ iw'[w].msg = h /\ \A v \in InvWorkers \ {w} : iw'[v] = iw[v]
    BY <1>0, <1>1, <1>9 DEF ReserveAtomic, InvWorkerKnows, InvWorker
  <2>2. \A o \in Orders : Reserved(o)' => Reserved(o) \/ o = h.order
    BY <1>1, <1>9 DEF ReserveAtomic, Reserved
  <2>3. QED
    BY <1>3, <1>9, <2>1, <2>2 DEF ReserveAtomic, InvWorkerKnows, Known, msgVars
<1>10. CASE ReserveConflict(w)
  <2>1. Known(h.order)' /\ iw'[w].msg = h /\ \A v \in InvWorkers \ {w} : iw'[v] = iw[v]
    BY <1>0, <1>1, <1>10 DEF ReserveConflict, InvWorkerKnows, InvWorker
  <2>2. QED
    BY <1>3, <1>4, <1>10, <2>1 DEF ReserveConflict, InvWorkerKnows, Known, msgVars
<1>11. CASE ReleaseAtomic(w) \/ ReleaseRefused(w) \/ ReleaseFails(w)
  <2>1. iw[w].pc = "release" /\ UNCHANGED <<queue, dlq>>
    BY <1>11 DEF ReleaseAtomic, ReleaseRefused, ReleaseFails, msgVars
  <2>2. Known(h.order)' /\ iw'[w].msg = h /\ \A v \in InvWorkers \ {w} : iw'[v] = iw[v]
    BY <1>0, <1>1, <1>2, <1>11, <2>1
    DEF ReleaseAtomic, ReleaseRefused, ReleaseFails, InvWorker
  <2>3. \A o \in Orders : Reserved(o)' => Reserved(o)
    BY <1>11 DEF ReleaseAtomic, ReleaseRefused, ReleaseFails, ReleaseCommit, Reserved
  <2>4. QED
    BY <1>3, <2>1, <2>2, <2>3 DEF InvWorkerKnows, Known
<1>12. CASE InvReply(w)
  <2>1. Known(h.order)
    BY <1>0, <1>1, <1>12 DEF InvReply, InvWorkerKnows
  <2>2. \A m \in queue' \cup dlq' : Knowing(m)'
    BY <1>0, <1>1, <1>12, <2>1, PublicationKnows DEF InvReply
  <2>3. QED
    BY <1>4, <1>5, <1>12, <2>2 DEF InvReply
<1>13. CASE InvAbort(w)
  BY <1>0, <1>1, <1>2, <1>4, <1>5, <1>13, CopiesKnow DEF InvAbort
<1>14. CASE InvDuplicate(w)
  BY <1>0, <1>1, <1>2, <1>4, <1>14, CopiesKnow, StillKnown DEF InvDuplicate, invVars
<1>15. QED
  BY <1>4, <1>6, <1>7, <1>8, <1>9, <1>10, <1>11, <1>12, <1>13, <1>14 DEF InvStep, InvFault

\* A step of inventory-service preserves what is known of products.
LEMMA InventoryProducts ==
    ASSUME IInv, ProductsKnown, skus \subseteq skus', InventoryService
    PROVE  ProductsKnown'
<1>0. UNCHANGED <<ow, step>>
  BY DEF InventoryService, orchVars
<1>1. ASSUME NEW w \in InvWorkers, InvStep(w) \/ InvFault(w)
      PROVE  ProductsKnown'
  <2>1. \A v \in InvWorkers : InvWorkerKnows(v)'
    BY <1>1, InvWorkerProducts, StillKnown
  <2>2. \A o \in Orders : SagaKnows(o)'
    <3> TAKE o \in Orders
    <3>1. Reserved(o)' => Reserved(o) \/ Known(o)'
      BY <1>1, InvWorkerProducts
    <3>2. SagaKnows(o) /\ (Known(o) => Known(o)')
      BY DEF ProductsKnown, Known
    <3>3. QED
      BY <1>0, <3>1, <3>2 DEF SagaKnows
  <2>3. QED
    BY <1>0, <1>1, <2>1, <2>2, InvWorkerProducts, StillKnown DEF ProductsKnown
<1>2. ASSUME Operator
      PROVE  ProductsKnown'
  <2>1. UNCHANGED <<queue, dlq, log, iw>>
    BY <1>2 DEF Operator, CreateSKU, UpdateAvailableQty, msgVars
  <2>2. \A m \in queue' \cup dlq' : Knowing(m)'
    BY <2>1, MessagesKnow DEF ProductsKnown
  <2>3. QED
    BY <1>0, <2>1, <2>2, StillKnown DEF ProductsKnown, Reserved
<1>3. QED
  BY <1>1, <1>2 DEF InventoryService, InvNext

\* payment-service only ever handles orders that reserved, and claims nothing.
LEMMA PaymentProducts ==
    ASSUME IInv, ProductsKnown, skus \subseteq skus', PaymentService
    PROVE  ProductsKnown'
<1>0. /\ UNCHANGED <<iw, ow, step, log>>
      /\ \A m \in queue \cup dlq : Knowing(m)
  BY DEF PaymentService, invVars, orchVars, ProductsKnown
<1>1. ASSUME UNCHANGED <<queue, dlq>>
      PROVE  \A m \in queue' \cup dlq' : Knowing(m)'
  BY <1>0, <1>1, MessagesKnow
<1>2. ASSUME NEW w \in PayWorkers, PayStep(w) \/ PayFault(w)
      PROVE  \A m \in queue' \cup dlq' : Knowing(m)'
  <2>1. PICK h : h = pw[w].msg
    OBVIOUS
  <2>2. ASSUME pw[w].pc # "idle"
        PROVE  h \in Message /\ Knowing(h)
    BY <2>1, <2>2 DEF IInv, Causality, PayWorkerTruthful, Knowing
  <2>3. ASSUME NEW m \in queue, TakeProcess(w, m)
        PROVE  \A x \in queue' \cup dlq' : Knowing(x)'
    BY <1>0, <2>3, MessagesKnow DEF TakeProcess, Take
  <2>4. CASE PayReply(w)
    BY <1>0, <2>4, PublicationKnows DEF PayReply
  <2>5. CASE CreateDuplicate(w) \/ PayAbort(w) \/ PayDuplicate(w)
    BY <1>0, <2>1, <2>2, <2>5, CopiesKnow DEF CreateDuplicate, PayAbort, PayDuplicate
  <2>6. CASE LookupPayment(w) \/ \E outcome \in Outcomes : CreatePaymentWithEvent(w, outcome)
    BY <1>1, <2>6 DEF LookupPayment, CreatePaymentWithEvent, msgVars
  <2>7. QED
    BY <1>2, <2>3, <2>4, <2>5, <2>6 DEF PayStep, PayFault
<1>3. ASSUME NEW o \in Orders, CreatePayment(o)
      PROVE  \A m \in queue' \cup dlq' : Knowing(m)'
  BY <1>1, <1>3 DEF CreatePayment, msgVars
<1>4. \A m \in queue' \cup dlq' : Knowing(m)'
  BY <1>2, <1>3 DEF PaymentService, PayNext
<1>5. QED
  BY <1>0, <1>4, StillKnown DEF ProductsKnown, Reserved

\* An event worker moves a saga on only over an answer, and both answers that
\* take it past its first step know the product.
LEMMA EventWorkerProducts ==
    ASSUME IInv, ProductsKnown, skus \subseteq skus', UNCHANGED log,
           NEW w \in EventWorkers, EventStep(w) \/ EventAbort(w) \/ EventDuplicate(w)
    PROVE  /\ \A m \in queue' \cup dlq' : Knowing(m)'
           /\ EventWorkerKnows(w)'
           /\ \A v \in EventWorkers \ {w} : ow'[v] = ow[v]
           /\ \A o \in Orders : step'[o] = step[o] \/ Known(o)'
<1>0. /\ \A m \in queue \cup dlq : Knowing(m)
      /\ ow \in [EventWorkers -> EventWorker]
      /\ step \in [Orders -> Steps \cup {"NONE"}]
      /\ EventWorkerTruthful(w)
      /\ EventWorkerKnows(w)
      /\ \A o : Known(o) => Known(o)'
  BY DEF ProductsKnown, IInv, TypeOK, OrchTypeOK, Causality, Known
<1>1. PICK h : h = ow[w].msg
  OBVIOUS
<1>2. ASSUME ow[w].pc # "idle"
      PROVE  /\ h \in Message /\ h.order \in Orders
             /\ Knowing(h)
             /\ Known(h.order)
  <2>1. h \in Message /\ h.key \in Events /\ Truthful(h) /\ h.order \in Orders /\ Knowing(h)
    BY <1>0, <1>1, <1>2 DEF EventWorkerTruthful, EventWorkerKnows, Message
  <2>2. h.key = "payment.processed" => Known(h.order)
    BY <2>1 DEF Truthful, ProductsKnown, SagaKnows
  <2>3. QED
    BY <2>1, <2>2 DEF Knowing
<1>3. ASSUME UNCHANGED <<queue, dlq>>
      PROVE  \A m \in queue' \cup dlq' : Knowing(m)'
  BY <1>0, <1>3, MessagesKnow
<1>4. ASSUME ow' = [ow EXCEPT ![w] = IdleEvent] \/ ow' = [ow EXCEPT ![w].pc = "publish"],
             ow[w].pc # "idle"
      PROVE  EventWorkerKnows(w)' /\ \A v \in EventWorkers \ {w} : ow'[v] = ow[v]
  <2>1. ow'[w] = IdleEvent \/ ow'[w].msg = h
    BY <1>0, <1>1, <1>4 DEF EventWorker
  <2>2. Knowing(h)'
    BY <1>0, <1>2, <1>4 DEF Knowing, Known
  <2>3. QED
    BY <1>0, <1>4, <2>1, <2>2 DEF EventWorkerKnows, IdleEvent, Knowing, Known
<1>5. ASSUME NEW m \in queue, TakeEvent(w, m)
      PROVE  /\ \A x \in queue' \cup dlq' : Knowing(x)'
             /\ EventWorkerKnows(w)'
             /\ \A v \in EventWorkers \ {w} : ow'[v] = ow[v]
             /\ UNCHANGED step
  <2>1. \A x \in queue' \cup dlq' : x \in queue \cup dlq
    BY <1>5 DEF TakeEvent, Take
  <2>2. Knowing(m)'
    BY <1>0 DEF Knowing, Known
  <2>3. ow'[w] = ow[w] \/ ow'[w].msg = m
    BY <1>0, <1>5 DEF TakeEvent
  <2>4. EventWorkerKnows(w)'
    BY <1>0, <2>2, <2>3 DEF EventWorkerKnows, Knowing, Known
  <2>5. QED
    BY <1>0, <1>5, <2>1, <2>4, MessagesKnow DEF TakeEvent
<1>6. CASE CommitInventoryReserved(w) \/ CommitPaymentProcessed(w) \/ CommitInventoryReleased(w)
  <2>1. /\ ow[w].pc = "commit" /\ UNCHANGED <<queue, dlq>>
        /\ ow' = [ow EXCEPT ![w] = IdleEvent] \/ ow' = [ow EXCEPT ![w].pc = "publish"]
        /\ \A o \in Orders : step'[o] = step[o] \/ o = h.order
    BY <1>0, <1>1, <1>6
    DEF CommitInventoryReserved, CommitPaymentProcessed, CommitInventoryReleased, msgVars
  <2>2. \A o \in Orders : step'[o] = step[o] \/ Known(o)'
    BY <1>0, <1>2, <2>1
  <2>3. QED
    BY <1>3, <1>4, <2>1, <2>2
<1>7. CASE CommitDuplicate(w) \/ EventAbort(w)
  <2>1. /\ ow[w].pc # "idle" /\ ow' = [ow EXCEPT ![w] = IdleEvent] /\ UNCHANGED step
        /\ HandlerError(h) \/ Abort(h)
    BY <1>1, <1>7 DEF CommitDuplicate, EventAbort
  <2>2. QED
    BY <1>0, <1>2, <1>4, <2>1, CopiesKnow
<1>8. CASE PublishNext(w)
  <2>1. NextCommand(ow[w].msg) \notin {"inventory.reserved", "inventory.released"}
    BY DEF NextCommand
  <2>2. \A m \in queue' \cup dlq' : Knowing(m)'
    BY <1>0, <1>8, <2>1, PublicationKnows DEF PublishNext
  <2>3. QED
    BY <1>4, <1>8, <2>2 DEF PublishNext
<1>9. CASE EventDuplicate(w)
  BY <1>0, <1>1, <1>2, <1>9, CopiesKnow, StillKnown DEF EventDuplicate, orchVars
<1>10. QED
  BY <1>5, <1>6, <1>7, <1>8, <1>9 DEF EventStep

\* A step of order-service preserves what is known of products.
LEMMA OrderProducts ==
    ASSUME IInv, ProductsKnown, skus \subseteq skus', OrderService
    PROVE  ProductsKnown'
<1>0. /\ UNCHANGED <<iw, log>>
      /\ \A m \in queue \cup dlq : Knowing(m)
      /\ step \in [Orders -> Steps \cup {"NONE"}]
  BY DEF OrderService, invVars, ProductsKnown, IInv, TypeOK, OrchTypeOK
<1>1. ASSUME UNCHANGED <<queue, dlq>>
      PROVE  \A m \in queue' \cup dlq' : Knowing(m)'
  BY <1>0, <1>1, MessagesKnow
<1>2. ASSUME \A m \in queue' \cup dlq' : Knowing(m)', UNCHANGED ow,
             \A o \in Orders : step'[o] = step[o] \/ step'[o] = "RESERVING_INVENTORY"
      PROVE  ProductsKnown'
  <2>1. \A o \in Orders : SagaKnows(o)'
    BY <1>0, <1>2, StillKnown DEF ProductsKnown, SagaKnows, Reserved, Known
  <2>2. QED
    BY <1>0, <1>2, <2>1, StillKnown DEF ProductsKnown
<1>3. ASSUME NEW o \in Orders, Request(o) \/ RequestFails(o)
      PROVE  ProductsKnown'
  <2>1. \A m \in queue' \cup dlq' : Knowing(m)'
    BY <1>0, <1>1, <1>3, PublicationKnows
    DEF Request, CreateOrder, StartSaga, StartSagaPublish, RequestFails, msgVars
  <2>2. UNCHANGED ow /\ \A x \in Orders : step'[x] = step[x] \/ step'[x] = "RESERVING_INVENTORY"
    BY <1>0, <1>3 DEF Request, CreateOrder, StartSaga, StartSagaPublish, RequestFails
  <2>3. QED
    BY <1>2, <2>1, <2>2
<1>4. ASSUME NEW w \in EventWorkers, EventStep(w) \/ EventAbort(w) \/ EventDuplicate(w)
      PROVE  ProductsKnown'
  <2>1. \A v \in EventWorkers : EventWorkerKnows(v)'
    BY <1>0, <1>4, EventWorkerProducts, StillKnown
  <2>2. \A o \in Orders : SagaKnows(o)'
    <3> TAKE o \in Orders
    <3>1. step'[o] = step[o] \/ Known(o)'
      BY <1>0, <1>4, EventWorkerProducts
    <3>2. SagaKnows(o) /\ (Known(o) => Known(o)')
      BY DEF ProductsKnown, Known
    <3>3. QED
      BY <1>0, <3>1, <3>2 DEF SagaKnows, Reserved
  <2>3. QED
    BY <1>0, <1>4, <2>1, <2>2, EventWorkerProducts, StillKnown DEF ProductsKnown
<1>5. ASSUME NEW r \in Replicas, RecoveryStep(r) \/ RecoveryFails(r)
      PROVE  ProductsKnown'
  <2>1. ASSUME NEW x \in rec[r].list, Republish(r, x)
        PROVE  \A m \in queue' \cup dlq' : Knowing(m)'
    <3>1. StepCommand(x[2]) \notin {"inventory.reserved", "inventory.released"}
      BY <2>1 DEF Republish, Recoverable, StepCommand
    <3>2. QED
      BY <1>0, <2>1, <3>1, PublicationKnows DEF Republish
  <2>2. \A m \in queue' \cup dlq' : Knowing(m)'
    BY <1>1, <1>5, <2>1
    DEF RecoveryStep, RecoveryFails, ListInProgress, ListCompensating, RecoveryDone, PassOver, msgVars
  <2>3. UNCHANGED <<ow, step>>
    BY <1>5 DEF RecoveryStep, RecoveryFails, ListInProgress, ListCompensating, RecoveryDone,
         Republish, PassOver
  <2>4. QED
    BY <1>2, <2>2, <2>3
<1>6. QED
  BY <1>3, <1>4, <1>5 DEF OrderService, OrchNext

\* A redriven event has lost its key and claims nothing; a command keeps none.
LEMMA RedriveProducts ==
    ASSUME IInv, ProductsKnown, skus \subseteq skus', RedriveDlq
    PROVE  ProductsKnown'
<1>0. /\ UNCHANGED <<iw, ow, step, log>>
      /\ \A m \in queue \cup dlq : Knowing(m)
  BY DEF RedriveDlq, invVars, orchVars, ProductsKnown
<1>1. PICK m \in dlq : Redrive(m) \/ RedriveDies(m)
  BY DEF RedriveDlq
<1>2. m \in Message
  BY DEF IInv, TypeOK, MsgTypeOK
<1>3. \A x \in Rerouted(m) : x.key = DeadEvent
  BY <1>2 DEF Rerouted, Message
<1>4. \A x \in queue' \cup dlq' : x \in queue \cup dlq \/ x.key = DeadEvent
  BY <1>1, <1>3 DEF Redrive, RedriveDies
<1>5. \A x \in queue' \cup dlq' : Knowing(x)'
  BY <1>0, <1>4, MessagesKnow DEF Knowing
<1>6. QED
  BY <1>0, <1>5, StillKnown DEF ProductsKnown, Reserved

-----------------------------------------------------------------------------
(* The theorem.                                                            *)

\* Nobody has been answered yet.
LEMMA ProductsInit == Init => ProductsKnown
  BY DEF Init, MsgInit, InvInit, OrchInit, ProductsKnown, InvWorkerKnows, IdleInv,
     EventWorkerKnows, IdleEvent, SagaKnows, Reserved

\* Service by service.
LEMMA ProductsNext == IInv /\ ProductsKnown /\ [Next]_vars => ProductsKnown'
<1> SUFFICES ASSUME IInv, ProductsKnown, [Next]_vars
             PROVE  ProductsKnown'
  OBVIOUS
<1>1. skus \subseteq skus'
  BY RowsStay
<1>2. CASE UNCHANGED <<msgVars, invVars, payVars, orchVars>>
  <2>1. UNCHANGED <<queue, dlq, iw, ow, step, log>>
    BY <1>2 DEF msgVars, invVars, orchVars
  <2>2. \A m \in queue' \cup dlq' : Knowing(m)'
    BY <1>1, <2>1, MessagesKnow DEF ProductsKnown
  <2>3. QED
    BY <1>1, <2>1, <2>2, StillKnown DEF ProductsKnown, Reserved
<1>3. QED
  BY <1>1, <1>2, InventoryProducts, PaymentProducts, OrderProducts, RedriveProducts
     DEF Next, FirstStart, vars

\* An order for a product that has no row is neither rejected nor its charge
\* decided before the row exists (handleReserve's error for an unknown product
\* only ever retries and dead-letters its command).
THEOREM UnknownProductIsWaitedFor == Spec => []UnknownProductWaits
<1>1. IInv /\ ProductsKnown => UnknownProductWaits
  <2> SUFFICES ASSUME IInv, ProductsKnown, NEW o \in Orders, ~Known(o)
               PROVE  /\ step[o] \in {"NONE", "RESERVING_INVENTORY"}
                      /\ pay[o] \in {"NONE", "PENDING"}
    BY DEF UnknownProductWaits
  <2>1. SagaKnows(o) /\ TablesTruthful(o) /\ pay[o] \in PayStatus
    BY DEF ProductsKnown, IInv, Causality, TypeOK, PayTypeOK
  <2>2. QED
    BY <2>1 DEF SagaKnows, TablesTruthful, PayStatus
<1>2. QED
  BY <1>1, ProductsInit, ProductsNext, Invariant, PTL DEF Spec

-----------------------------------------------------------------------------
(* Goods are sold once.  What is charged is held, by Causality; what is    *)
(* held is in reserved_qty; and the services only move units within a row. *)

\* With IInv, inductive.
Sales ==
    /\ ReservedIsHeld
    /\ LogSound
    /\ puts = 0 => \A p \in Products : stock[p].available + stock[p].reserved <= SeedStock[p]

\* Every product starts with its seed stock, or with none, and nothing held.
LEMMA SalesInit == Init => Sales
<1> SUFFICES ASSUME Init
             PROVE  Sales
  OBVIOUS
<1>1. log = {} /\ \A p \in Products : /\ stock[p].reserved = 0
                                       /\ stock[p].available \in {0, SeedStock[p]}
  BY DEF Init, InvInit
<1>2. \A p \in Products : UnitsOf(HeldOf(p)) = {}
  BY <1>1 DEF HeldOf, Held, Reserved, UnitsOf
<1>3. ReservedIsHeld /\ LogSound
  BY <1>1, <1>2, FS_EmptySet DEF ReservedIsHeld, LogSound, Qty, Released
<1>4. \A p \in Products : stock[p].available + stock[p].reserved <= SeedStock[p]
  BY <1>1, InventoryAssumption
<1>5. QED
  BY <1>3, <1>4 DEF Sales

\* Only inventory-service touches the rows and the log, and it keeps its books.
LEMMA SalesNext == IInv /\ Sales /\ [Next]_vars => Sales'
<1> SUFFICES ASSUME IInv, Sales, [Next]_vars
             PROVE  Sales'
  OBVIOUS
<1>0. InvTypeOK /\ ReservedIsHeld /\ LogSound
  BY DEF IInv, TypeOK, Sales
<1>1. ASSUME NEW w \in InvWorkers, InvStep(w) \/ InvFault(w)
      PROVE  Sales'
  <2>1. InvWorkerTruthful(w)
    BY DEF IInv, Causality
  <2>2. InvWorkerHolds(w) /\ ReleaseBacked(w)
    BY <2>1 DEF InvWorkerTruthful, InvWorkerHolds, ReleaseBacked, Truthful
  <2>3. /\ ReservedIsHeld' /\ LogSound' /\ puts' = puts
        /\ \A p \in Products : stock'[p].available + stock'[p].reserved
                                  = stock[p].available + stock[p].reserved
    BY <1>0, <1>1, <2>2, WorkerBooks
  <2>4. QED
    BY <2>3 DEF Sales
<1>2. CASE Operator
  <2>1. ReservedIsHeld' /\ LogSound' /\ puts \in Nat /\ puts' = puts + 1
    BY <1>0, <1>2, OperatorBooks
  <2>2. puts' # 0
    BY <2>1
  <2>3. QED
    BY <2>1, <2>2 DEF Sales
<1>3. CASE UNCHANGED invVars
  <2>1. UNCHANGED <<stock, log, puts>>
    BY <1>3 DEF invVars
  <2>2. QED
    BY <2>1, BooksStay DEF Sales
<1>4. QED
  BY <1>1, <1>2, <1>3
  DEF Next, InventoryService, InvNext, PaymentService, OrderService, RedriveDlq, FirstStart, vars

\* ... hence in every reachable state.
LEMMA SalesInvariant == Spec => [](IInv /\ Sales)
  BY Invariant, SalesInit, SalesNext, PTL DEF Spec

\* Goods are not sold twice: whatever is duplicated, re-published, raced or cut
\* short, the charged orders of a product, any number of them, ask for no more
\* than the stock the product was seeded with, as long as nobody overwrites it.
THEOREM NothingIsOversold == Spec => []NoOversell
<1>1. IInv /\ Sales => NoOversell
  <2> SUFFICES ASSUME IInv, Sales, puts = 0, NEW p \in Products
               PROVE  Qty(ChargedOf(p)) <= SeedStock[p]
    BY DEF NoOversell
  <2>1. ChargedOf(p) \subseteq HeldOf(p)
    <3> SUFFICES ASSUME NEW o \in ChargedOf(p)
                 PROVE  o \in HeldOf(p)
      OBVIOUS
    <3>1. o \in Orders /\ pay[o] = "SUCCESS" /\ ProductOf[o] = p /\ TablesTruthful(o)
      BY DEF ChargedOf, IInv, Causality
    <3>2. QED
      BY <3>1 DEF TablesTruthful, Unpaid, HeldOf, Held
  <2>2. PICK S, T : S = HeldOf(p) /\ T = ChargedOf(p)
    OBVIOUS
  <2>3. S \in SUBSET Orders /\ IsFiniteSet(S) /\ T \in SUBSET S
    BY <2>1, <2>2, HeldFinite DEF Sales
  <2>4. Qty(T) <= Qty(S) /\ Qty(T) \in Nat /\ Qty(S) \in Nat
    <3>1. IsFiniteSet(T) /\ T \in SUBSET Orders
      BY <2>3, FS_Subset
    <3>2. QED
      BY <2>3, <3>1, QtyMonotone, UnitsFinite
  <2>5. /\ stock[p].reserved = Qty(S) /\ stock[p].available \in Nat /\ SeedStock[p] \in Nat
        /\ stock[p].available + stock[p].reserved <= SeedStock[p]
    BY <2>2, InventoryAssumption DEF Sales, ReservedIsHeld, IInv, TypeOK, InvTypeOK, Row
  <2>6. QED
    BY <2>2, <2>4, <2>5
<1>2. QED
  BY <1>1, SalesInvariant, PTL
=============================================================================
