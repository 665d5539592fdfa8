-------------------------- MODULE InventoryLemmas --------------------------
(***************************************************************************)
(* The types of the broker and of inventory-service, and what its steps do *)
(* to the stock rows and the log, for the proofs about InventoryService    *)
(* and about OrderSystem.                                                  *)
(***************************************************************************)
EXTENDS Inventory, FiniteSetTheorems, TLAPS

USE DEF Keys, Commands, Events, DeadEvent

-----------------------------------------------------------------------------
(* Types.                                                                  *)

\* What a publication puts on the queue is a message.
LEMMA FreshType ==
    ASSUME MsgTypeOK, NEW key \in Keys, NEW o \in Orders, NEW ok \in BOOLEAN
    PROVE  Fresh(key, o, ok) \in Message
<1>1. sent[<<key, o>>] + 1 \in Nat
  BY DEF MsgTypeOK
<1>2. QED
  BY <1>1, MessagesAssumption DEF Fresh, Message

\* A publication keeps the types of the broker.
LEMMA PublishType ==
    ASSUME MsgTypeOK, NEW key \in Keys, NEW o \in Orders, NEW ok \in BOOLEAN,
           Publish(key, o, ok)
    PROVE  MsgTypeOK'
<1>1. CASE Routed(key)
  <2>1. Fresh(key, o, ok) \in Message
    BY FreshType
  <2>2. sent' \in [Keys \X Orders -> Nat]
    BY <1>1 DEF MsgTypeOK, Publish
  <2>3. QED
    BY <1>1, <2>1, <2>2 DEF MsgTypeOK, Publish
<1>2. CASE ~Routed(key)
  BY <1>2 DEF MsgTypeOK, Publish, msgVars
<1>3. QED
  BY <1>1, <1>2

\* A message with one more or no try is still a message.
LEMMA RetriedType ==
    ASSUME NEW m \in Message
    PROVE  /\ Retries(m) => [m EXCEPT !.tries = @ + 1] \in Message
           /\ [m EXCEPT !.key = DeadEvent, !.tries = 0] \in Message
<1>1. ASSUME Retries(m)
      PROVE  [m EXCEPT !.tries = @ + 1] \in Message
  <2>1. m.tries + 1 \in 0..MaxRetries
    BY <1>1, MessagesAssumption DEF Message, Retries
  <2>2. QED
    BY <2>1 DEF Message
<1>2. 0 \in 0..MaxRetries
  BY MessagesAssumption
<1>3. QED
  BY <1>1, <1>2 DEF Message

\* A retry, or a dead letter, keeps the types of the broker.
LEMMA HandlerErrorType ==
    ASSUME MsgTypeOK, NEW m \in Message, HandlerError(m), faults' \in 0..MaxFaults
    PROVE  MsgTypeOK'
  BY RetriedType DEF MsgTypeOK, HandlerError

\* The faults injected stay within their bound.
LEMMA FaultType ==
    ASSUME MsgTypeOK, Fault
    PROVE  faults' \in 0..MaxFaults
  BY MessagesAssumption DEF MsgTypeOK, Fault

\* So does a message that is settled by a fault or delivered again.
LEMMA AbortType ==
    ASSUME MsgTypeOK, NEW m \in Message, Abort(m) \/ Duplicate(m)
    PROVE  MsgTypeOK'
<1>1. faults' \in 0..MaxFaults
  BY FaultType DEF Abort, Duplicate
<1>2. CASE HandlerError(m)
  BY <1>1, <1>2, HandlerErrorType
<1>3. CASE Requeue(m)
  BY <1>1, <1>3 DEF MsgTypeOK, Requeue
<1>4. QED
  BY <1>2, <1>3 DEF Abort, Duplicate

\* A worker receives a message, and the broker keeps its types.
LEMMA TakeType ==
    ASSUME MsgTypeOK, NEW m, Take(m)
    PROVE  MsgTypeOK' /\ m \in Message
  BY DEF MsgTypeOK, Take

\* The answer of inventory-service has a routing key of its own.
LEMMA ReplyKey ==
    ASSUME NEW key \in {"inventory.reserve", "inventory.release"}
    PROVE  Answer(key) \in Keys
  BY DEF Answer

\* An idle worker is of its type.
LEMMA IdleInvType == IdleInv \in InvWorker
  BY DEF IdleInv, InvWorker

\* What a worker at work holds: a command, of the kind its next step is for.
InvWorkerHolds(w) ==
    iw[w].pc # "idle" =>
        /\ iw[w].msg \in Message
        /\ iw[w].msg.key \in {"inventory.reserve", "inventory.release"}
        /\ iw[w].pc \in {"read", "cas"} => iw[w].msg.key = "inventory.reserve"
        /\ iw[w].pc = "release" => iw[w].msg.key = "inventory.release"

\* Steps of an inventory worker keep the types of the broker and of the service.
LEMMA InvWorkerTypes ==
    ASSUME MsgTypeOK, InvTypeOK, NEW w \in InvWorkers, InvWorkerHolds(w),
           InvStep(w) \/ InvFault(w)
    PROVE  MsgTypeOK' /\ InvTypeOK'
<1>0. InvTypeOK /\ MsgTypeOK /\ InvWorkerHolds(w) /\ iw[w] \in InvWorker
  BY DEF InvTypeOK
<1>1. ASSUME NEW m \in queue, TakeReserve(w, m) \/ TakeRelease(w, m)
      PROVE  MsgTypeOK' /\ InvTypeOK'
  <2>1. MsgTypeOK' /\ m \in Message
    BY <1>0, <1>1, TakeType DEF TakeReserve, TakeRelease
  <2>2. iw' \in [InvWorkers -> InvWorker]
    BY <1>0, <1>1, <2>1 DEF TakeReserve, TakeRelease, InvTypeOK, InvWorker
  <2>3. QED
    BY <1>0, <1>1, <2>1, <2>2 DEF TakeReserve, TakeRelease, InvTypeOK
<1>2. CASE ReadInventory(w)
  <2>1. stock[ProductOf[iw[w].msg.order]].version \in Nat
    BY <1>0, <1>2, InventoryAssumption DEF ReadInventory, InvTypeOK, Row
  <2>2. iw' \in [InvWorkers -> InvWorker]
    BY <1>0, <1>2, <2>1 DEF ReadInventory, InvTypeOK, InvWorker
  <2>3. QED
    BY <1>0, <1>2, <2>2 DEF ReadInventory, InvTypeOK, MsgTypeOK, msgVars
<1>3. CASE ReadMissing(w)
  <2>1. MsgTypeOK'
    BY <1>0, <1>3, HandlerErrorType DEF ReadMissing, InvWorkerHolds, MsgTypeOK
  <2>2. QED
    BY <1>0, <1>3, <2>1, IdleInvType DEF ReadMissing, InvTypeOK
<1>4. CASE ReserveAtomic(w)
  <2> DEFINE o == iw[w].msg.order
  <2>1. o \in Orders /\ ProductOf[o] \in Products /\ QtyOf[o] \in Nat
    BY <1>0, <1>4, InventoryAssumption DEF ReserveAtomic, InvWorkerHolds, Message
  <2>2. stock[ProductOf[o]] \in Row /\ stock[ProductOf[o]].available >= QtyOf[o]
    BY <1>0, <1>4, <2>1 DEF ReserveAtomic, CasMatches, InvTypeOK
  <2>3. [available |-> stock[ProductOf[o]].available - QtyOf[o],
         reserved |-> stock[ProductOf[o]].reserved + QtyOf[o],
         version |-> stock[ProductOf[o]].version + 1] \in Row
    BY <2>1, <2>2 DEF Row
  <2>4. stock' \in [Products -> Row]
    BY <1>0, <1>4, <2>1, <2>3 DEF ReserveAtomic, InvTypeOK
  <2>5. iw' \in [InvWorkers -> InvWorker]
    BY <1>0, <1>4 DEF ReserveAtomic, InvTypeOK, InvWorker
  <2>6. QED
    BY <1>0, <1>4, <2>1, <2>4, <2>5 DEF ReserveAtomic, InvTypeOK, MsgTypeOK, msgVars
<1>5. CASE ReserveDuplicate(w)
  <2>1. MsgTypeOK'
    BY <1>0, <1>5, HandlerErrorType DEF ReserveDuplicate, InvWorkerHolds, MsgTypeOK
  <2>2. QED
    BY <1>0, <1>5, <2>1, IdleInvType DEF ReserveDuplicate, InvTypeOK
<1>6. CASE ReserveConflict(w)
  <2>1. iw' \in [InvWorkers -> InvWorker]
    BY <1>0, <1>6 DEF ReserveConflict, InvTypeOK, InvWorker
  <2>2. QED
    BY <1>0, <1>6, <2>1 DEF ReserveConflict, InvTypeOK, MsgTypeOK, msgVars
<1>7. ASSUME iw[w].pc = "release", ReleaseCommit(iw[w].msg.order)
      PROVE  stock' \in [Products -> Row] /\ log' \subseteq Orders \X {"RESERVE", "RELEASE"}
  <2> DEFINE o == iw[w].msg.order
  <2>1. o \in Orders /\ ProductOf[o] \in Products /\ QtyOf[o] \in Nat
    BY <1>0, <1>7, InventoryAssumption DEF InvWorkerHolds, Message
  <2>2. stock[ProductOf[o]] \in Row
    BY <1>0, <2>1 DEF InvTypeOK
  <2>3. [available |-> stock[ProductOf[o]].available + QtyOf[o],
         reserved |-> Unreserve(stock[ProductOf[o]].reserved, QtyOf[o]),
         version |-> stock[ProductOf[o]].version + 1] \in Row
    BY <2>1, <2>2 DEF Row, Unreserve
  <2>4. QED
    BY <1>0, <1>7, <2>1, <2>3 DEF ReleaseCommit, InvTypeOK
<1>8. ASSUME NEW pc \in {"yes", "no"}, iw' = [iw EXCEPT ![w].pc = pc]
      PROVE  iw' \in [InvWorkers -> InvWorker]
  BY <1>0, <1>8 DEF InvTypeOK, InvWorker
<1>9. CASE ReleaseAtomic(w)
  BY <1>0, <1>7, <1>8, <1>9 DEF ReleaseAtomic, InvTypeOK, MsgTypeOK, msgVars
<1>10. CASE ReleaseRefused(w)
  BY <1>0, <1>8, <1>10 DEF ReleaseRefused, InvTypeOK, MsgTypeOK, msgVars
<1>11. CASE ReleaseFails(w)
  <2>1. faults' \in 0..MaxFaults
    BY <1>0, <1>11, FaultType DEF ReleaseFails
  <2>2. stock' \in [Products -> Row] /\ log' \subseteq Orders \X {"RESERVE", "RELEASE"}
    BY <1>0, <1>7, <1>11 DEF ReleaseFails, InvTypeOK
  <2>3. QED
    BY <1>0, <1>8, <1>11, <2>1, <2>2 DEF ReleaseFails, InvTypeOK, MsgTypeOK
<1>12. CASE InvReply(w)
  <2>1. /\ iw[w].msg.order \in Orders
        /\ Answer(iw[w].msg.key) \in Keys
        /\ (iw[w].pc = "yes") \in BOOLEAN
    BY <1>0, <1>12, ReplyKey DEF InvReply, InvWorkerHolds, Message
  <2>2. MsgTypeOK'
    BY <1>0, <1>12, <2>1, PublishType DEF InvReply
  <2>3. QED
    BY <1>0, <1>12, <2>2, IdleInvType DEF InvReply, InvTypeOK
<1>13. CASE InvAbort(w)
  <2>1. MsgTypeOK'
    BY <1>0, <1>13, AbortType DEF InvAbort, InvWorkerHolds
  <2>2. QED
    BY <1>0, <1>13, <2>1, IdleInvType DEF InvAbort, InvTypeOK
<1>14. CASE InvDuplicate(w)
  <2>1. MsgTypeOK'
    BY <1>0, <1>14, AbortType DEF InvDuplicate, InvWorkerHolds
  <2>2. QED
    BY <1>0, <1>14, <2>1 DEF InvDuplicate, InvTypeOK, invVars
<1>15. QED
  BY <1>1, <1>2, <1>3, <1>4, <1>5, <1>6, <1>9, <1>10, <1>11, <1>12, <1>13, <1>14
  DEF InvStep, InvFault

\* An operator's request keeps the types of the stock rows.
LEMMA OperatorTypes ==
    ASSUME MsgTypeOK, InvTypeOK, Operator
    PROVE  MsgTypeOK' /\ InvTypeOK'
<1>1. PICK p \in Products, qty \in PutQtys : CreateSKU(p, qty) \/ UpdateAvailableQty(p, qty)
  BY DEF Operator
<1>2. qty \in Nat /\ puts + 1 \in 0..MaxPuts
  BY <1>1, InventoryAssumption
  DEF InvTypeOK, CreateSKU, UpdateAvailableQty
<1>3. stock' \in [Products -> Row]
  BY <1>1, <1>2 DEF InvTypeOK, Row, CreateSKU, UpdateAvailableQty
<1>4. QED
  BY <1>1, <1>2, <1>3
  DEF InvTypeOK, MsgTypeOK, msgVars, CreateSKU, UpdateAvailableQty

-----------------------------------------------------------------------------
(* Counting units.                                                         *)

\* An order asks for QtyOf units.
LEMMA UnitsOfOne ==
    ASSUME NEW o \in Orders
    PROVE  /\ IsFiniteSet({o} \X (1..QtyOf[o]))
           /\ Cardinality({o} \X (1..QtyOf[o])) = QtyOf[o]
<1>1. QtyOf[o] \in Nat \ {0}
  BY InventoryAssumption
<1>2. IsFiniteSet(1..QtyOf[o]) /\ Cardinality(1..QtyOf[o]) = QtyOf[o]
  BY <1>1, FS_Interval
<1>3. IsFiniteSet({o}) /\ Cardinality({o}) = 1
  BY FS_Singleton
<1>4. /\ IsFiniteSet({o} \X (1..QtyOf[o]))
      /\ Cardinality({o} \X (1..QtyOf[o])) = Cardinality({o}) * Cardinality(1..QtyOf[o])
  BY <1>2, <1>3, FS_Product
<1>5. QED
  BY <1>1, <1>2, <1>3, <1>4

\* Finitely many orders ask for finitely many units.
LEMMA UnitsFinite ==
    ASSUME NEW S \in SUBSET Orders, IsFiniteSet(S)
    PROVE  IsFiniteSet(UnitsOf(S)) /\ Qty(S) \in Nat
<1> DEFINE f == [o \in S |-> {o} \X (1..QtyOf[o])]
           T == {{o} \X (1..QtyOf[o]) : o \in S}
<1>1. f \in Surjection(S, T)
  BY DEF Surjection
<1>2. IsFiniteSet(T)
  BY <1>1, FS_Surjection
<1>3. \A U \in T : IsFiniteSet(U)
  BY UnitsOfOne
<1>4. IsFiniteSet(UNION T)
  BY <1>2, <1>3, FS_UNION
<1>5. QED
  BY <1>4, FS_CardinalityType DEF UnitsOf, Qty

\* One more order asks for its units on top.
LEMMA QtyAdd ==
    ASSUME NEW S \in SUBSET Orders, IsFiniteSet(S), NEW o \in Orders \ S
    PROVE  Qty(S \cup {o}) = Qty(S) + QtyOf[o]
<1> DEFINE U == {o} \X (1..QtyOf[o])
<1>1. UnitsOf(S \cup {o}) = UnitsOf(S) \cup U
  BY DEF UnitsOf
<1>2. UnitsOf(S) \cap U = {}
  BY DEF UnitsOf
<1>3. IsFiniteSet(UnitsOf(S)) /\ Qty(S) \in Nat
  BY UnitsFinite
<1>4. IsFiniteSet(U) /\ Cardinality(U) = QtyOf[o] /\ QtyOf[o] \in Nat
  BY UnitsOfOne, InventoryAssumption
<1> HIDE DEF U
<1>5. Cardinality(UnitsOf(S) \cup U)
        = Cardinality(UnitsOf(S)) + Cardinality(U) - Cardinality(UnitsOf(S) \cap U)
  BY <1>3, <1>4, FS_Union
<1>6. Cardinality(UnitsOf(S) \cap U) = 0
  BY <1>2, FS_EmptySet
<1>7. Cardinality(UnitsOf(S)) = Qty(S) /\ Cardinality(UnitsOf(S \cup {o})) = Qty(S \cup {o})
  BY DEF Qty
<1>8. Cardinality(UnitsOf(S) \cup U) = Qty(S) + QtyOf[o]
  BY <1>3, <1>4, <1>5, <1>6, <1>7
<1>9. QED
  BY <1>1, <1>7, <1>8

\* Fewer orders ask for no more units.
LEMMA QtyMonotone ==
    ASSUME NEW S \in SUBSET Orders, IsFiniteSet(S), NEW T \in SUBSET S
    PROVE  Qty(T) <= Qty(S)
<1>1. IsFiniteSet(UnitsOf(S)) /\ UnitsOf(T) \subseteq UnitsOf(S)
  BY UnitsFinite DEF UnitsOf
<1>2. QED
  BY <1>1, FS_Subset DEF Qty

\* One order alone.
LEMMA QtyOne ==
    ASSUME NEW o \in Orders
    PROVE  Qty({o}) = QtyOf[o]
<1>1. UnitsOf({o}) = {o} \X (1..QtyOf[o])
  BY DEF UnitsOf
<1>2. QED
  BY <1>1, UnitsOfOne DEF Qty

-----------------------------------------------------------------------------
(* What a step of a worker does to the stock rows and the log.             *)

\* ReserveAtomic's transaction, for an order that has not reserved.
Reserves(o) ==
    /\ ~Reserved(o)
    /\ stock[ProductOf[o]].available >= QtyOf[o]
    /\ stock' = [stock EXCEPT ![ProductOf[o]] =
                    [available |-> stock[ProductOf[o]].available - QtyOf[o],
                     reserved |-> stock[ProductOf[o]].reserved + QtyOf[o],
                     version |-> stock[ProductOf[o]].version + 1]]
    /\ log' = log \cup {<<o, "RESERVE">>}

\* ReleaseAtomic's, for one that has.
Releases(o) == Reserved(o) /\ ReleaseCommit(o)

\* A worker that holds a release command holds it for an order that reserved.
ReleaseBacked(w) == iw[w].pc = "release" => Reserved(iw[w].msg.order)

\* The log is finite, and what it releases it had reserved.
LogSound == IsFiniteSet(log) /\ \A o \in Orders : Released(o) => Reserved(o)

\* A worker reserves, releases, or leaves the rows and the log alone.
LEMMA WorkerMoves ==
    ASSUME InvTypeOK, NEW w \in InvWorkers, InvWorkerHolds(w), ReleaseBacked(w),
           InvStep(w) \/ InvFault(w)
    PROVE  \/ UNCHANGED <<stock, log>>
           \/ \E o \in Orders : Reserves(o) \/ Releases(o)
<1>1. CASE ReserveAtomic(w)
  <2>1. PICK o : o = iw[w].msg.order
    OBVIOUS
  <2>2. o \in Orders
    BY <1>1, <2>1 DEF ReserveAtomic, InvWorkerHolds, Message
  <2>3. Reserves(o)
    BY <1>1, <2>1 DEF ReserveAtomic, CasMatches, Reserves
  <2>4. QED
    BY <2>2, <2>3
<1>2. CASE iw[w].pc = "release" /\ ReleaseCommit(iw[w].msg.order)
  <2>1. PICK o : o = iw[w].msg.order
    OBVIOUS
  <2>2. o \in Orders /\ Releases(o)
    BY <1>2, <2>1 DEF ReleaseBacked, Releases, InvWorkerHolds, Message
  <2>3. QED
    BY <2>2
<1>3. QED
  BY <1>1, <1>2 DEF InvStep, InvFault, TakeReserve, TakeRelease, ReadInventory, ReadMissing,
     ReserveDuplicate, ReserveConflict, ReleaseAtomic, ReleaseRefused, ReleaseFails,
     InvReply, InvAbort, InvDuplicate, invVars

\* What is held of a product is finite, and an order that holds some is in it.
LEMMA HeldFinite ==
    ASSUME LogSound, NEW p \in Products
    PROVE  HeldOf(p) \in SUBSET Orders /\ IsFiniteSet(HeldOf(p)) /\ Qty(HeldOf(p)) \in Nat
<1> DEFINE E == {e \in log : e \in HeldOf(p) \X {"RESERVE"}}
           f == [e \in E |-> e[1]]
<1>1. IsFiniteSet(E)
  BY FS_Subset DEF LogSound
<1>2. \A o \in HeldOf(p) : <<o, "RESERVE">> \in E
  BY DEF HeldOf, Held, Reserved
<1>3. f \in Surjection(E, HeldOf(p))
  BY <1>2 DEF Surjection
<1>4. IsFiniteSet(HeldOf(p))
  BY <1>1, <1>3, FS_Surjection
<1>5. QED
  BY <1>4, UnitsFinite DEF HeldOf

\* A reservation moves what it asks for from available_qty to reserved_qty.
LEMMA ReservesMoves ==
    ASSUME InvTypeOK, ReservedIsHeld, LogSound, NEW o \in Orders, Reserves(o)
    PROVE  /\ ReservedIsHeld' /\ LogSound'
           /\ \A p \in Products : stock'[p].available + stock'[p].reserved
                                     = stock[p].available + stock[p].reserved
<1>0. /\ stock \in [Products -> Row] /\ ProductOf[o] \in Products /\ QtyOf[o] \in Nat
      /\ ~Reserved(o) /\ ~Released(o) /\ ~Held(o)
  BY InventoryAssumption DEF InvTypeOK, Reserves, LogSound, Held
<1>1. \A x \in Orders : Held(x)' <=> Held(x) \/ x = o
  BY <1>0 DEF Reserves, Held, Reserved, Released
<1>2. LogSound'
  BY FS_AddElement DEF Reserves, LogSound, Reserved, Released
<1>3. ASSUME NEW p \in Products
      PROVE  /\ stock'[p].reserved = Qty(HeldOf(p))'
             /\ stock'[p].available + stock'[p].reserved
                  = stock[p].available + stock[p].reserved
  <2>1. /\ stock[p].available \in Nat /\ stock[p].reserved \in Nat
        /\ stock[p].reserved = Qty(HeldOf(p))
    BY <1>0 DEF Row, ReservedIsHeld
  <2>2. CASE p = ProductOf[o]
    <3>1. HeldOf(p)' = HeldOf(p) \cup {o} /\ o \in Orders \ HeldOf(p)
      BY <1>0, <1>1, <2>2 DEF HeldOf
    <3>2. Qty(HeldOf(p))' = Qty(HeldOf(p)) + QtyOf[o]
      <4>1. PICK S : S = HeldOf(p)
        OBVIOUS
      <4>2. S \in SUBSET Orders /\ IsFiniteSet(S) /\ o \in Orders \ S
        BY <3>1, <4>1, HeldFinite
      <4>3. Qty(S \cup {o}) = Qty(S) + QtyOf[o]
        BY <4>2, QtyAdd
      <4>4. QED
        BY <3>1, <4>1, <4>3 DEF Qty, UnitsOf
    <3>3. /\ stock'[p].available = stock[p].available - QtyOf[o]
          /\ stock'[p].reserved = stock[p].reserved + QtyOf[o]
      BY <1>0, <2>2 DEF Reserves
    <3>4. QED
      BY <1>0, <2>1, <3>2, <3>3
  <2>3. CASE p # ProductOf[o]
    <3>1. HeldOf(p)' = HeldOf(p)
      BY <1>1, <2>3 DEF HeldOf
    <3>2. stock'[p] = stock[p]
      BY <1>0, <2>3 DEF Reserves
    <3>3. QED
      BY <2>1, <3>1, <3>2 DEF Qty, UnitsOf
  <2>4. QED
    BY <2>2, <2>3
<1>4. QED
  BY <1>2, <1>3 DEF ReservedIsHeld

\* A release moves it back, and GREATEST does not come into play.
LEMMA ReleasesMoves ==
    ASSUME InvTypeOK, ReservedIsHeld, LogSound, NEW o \in Orders, Releases(o)
    PROVE  /\ ReservedIsHeld' /\ LogSound'
           /\ \A p \in Products : stock'[p].available + stock'[p].reserved
                                     = stock[p].available + stock[p].reserved
<1>0. /\ stock \in [Products -> Row] /\ ProductOf[o] \in Products /\ QtyOf[o] \in Nat
      /\ Reserved(o) /\ ~Released(o) /\ Held(o)
  BY InventoryAssumption DEF InvTypeOK, Releases, ReleaseCommit, Held
<1>1. \A x \in Orders : Held(x)' <=> Held(x) /\ x # o
  BY <1>0 DEF Releases, ReleaseCommit, Held, Reserved, Released
<1>2. LogSound'
  BY <1>0, FS_AddElement DEF Releases, ReleaseCommit, LogSound, Reserved, Released
<1>3. ASSUME NEW p \in Products
      PROVE  /\ stock'[p].reserved = Qty(HeldOf(p))'
             /\ stock'[p].available + stock'[p].reserved
                  = stock[p].available + stock[p].reserved
  <2>1. /\ stock[p].available \in Nat /\ stock[p].reserved \in Nat
        /\ stock[p].reserved = Qty(HeldOf(p))
    BY <1>0 DEF Row, ReservedIsHeld
  <2>2. CASE p = ProductOf[o]
    <3>1. PICK S : S = HeldOf(p) \ {o}
      OBVIOUS
    <3>2. HeldOf(p)' = S /\ HeldOf(p) = S \cup {o} /\ o \in Orders \ S
      BY <1>0, <1>1, <2>2, <3>1 DEF HeldOf
    <3>3. S \in SUBSET Orders /\ IsFiniteSet(S)
      BY <3>1, HeldFinite, FS_Subset
    <3>4. Qty(S \cup {o}) = Qty(S) + QtyOf[o] /\ Qty(S) \in Nat
      BY <3>2, <3>3, QtyAdd, UnitsFinite
    <3>5. Qty(HeldOf(p))' = Qty(S) /\ Qty(HeldOf(p)) = Qty(S) + QtyOf[o]
      BY <3>2, <3>4 DEF Qty, UnitsOf
    <3>6. /\ stock'[p].available = stock[p].available + QtyOf[o]
          /\ stock'[p].reserved = Unreserve(stock[p].reserved, QtyOf[o])
      BY <1>0, <2>2 DEF Releases, ReleaseCommit
    <3>7. QED
      BY <1>0, <2>1, <3>4, <3>5, <3>6 DEF Unreserve
  <2>3. CASE p # ProductOf[o]
    <3>1. HeldOf(p)' = HeldOf(p)
      BY <1>1, <2>3 DEF HeldOf
    <3>2. stock'[p] = stock[p]
      BY <1>0, <2>3 DEF Releases, ReleaseCommit
    <3>3. QED
      BY <2>1, <3>1, <3>2 DEF Qty, UnitsOf
  <2>4. QED
    BY <2>2, <2>3
<1>4. QED
  BY <1>2, <1>3 DEF ReservedIsHeld

-----------------------------------------------------------------------------
(* The books: the stock rows and the log together.                         *)

\* Who touches neither keeps them.
LEMMA BooksStay ==
    ASSUME ReservedIsHeld, LogSound, UNCHANGED <<stock, log>>
    PROVE  /\ ReservedIsHeld' /\ LogSound'
           /\ \A p \in Products : stock'[p].available + stock'[p].reserved
                                     = stock[p].available + stock[p].reserved
  BY DEF ReservedIsHeld, LogSound, HeldOf, Held, Reserved, Released

\* A worker keeps them balanced, and moves units only within a row.
LEMMA WorkerBooks ==
    ASSUME InvTypeOK, ReservedIsHeld, LogSound,
           NEW w \in InvWorkers, InvWorkerHolds(w), ReleaseBacked(w), InvStep(w) \/ InvFault(w)
    PROVE  /\ ReservedIsHeld' /\ LogSound' /\ puts' = puts
           /\ \A p \in Products : stock'[p].available + stock'[p].reserved
                                     = stock[p].available + stock[p].reserved
<1>1. UNCHANGED <<stock, log>> \/ \E o \in Orders : Reserves(o) \/ Releases(o)
  BY WorkerMoves
<1>2. puts' = puts
  BY DEF InvStep, InvFault, TakeReserve, TakeRelease, ReadInventory, ReadMissing, ReserveAtomic,
     ReserveDuplicate, ReserveConflict, ReleaseAtomic, ReleaseRefused, ReleaseFails, InvReply,
     InvAbort, InvDuplicate, invVars
<1>3. QED
  BY <1>1, <1>2, BooksStay, ReservesMoves, ReleasesMoves

\* An operator overwrites available_qty and nothing else.
LEMMA OperatorBooks ==
    ASSUME InvTypeOK, ReservedIsHeld, LogSound, Operator
    PROVE  ReservedIsHeld' /\ LogSound' /\ puts \in Nat /\ puts' = puts + 1
<1>1. PICK p \in Products, qty \in PutQtys : CreateSKU(p, qty) \/ UpdateAvailableQty(p, qty)
  BY DEF Operator
<1>2. log' = log /\ puts' = puts + 1 /\ puts \in Nat
  BY <1>1, InventoryAssumption DEF CreateSKU, UpdateAvailableQty, InvTypeOK
<1>3. \A q \in Products : stock'[q].reserved = stock[q].reserved
  BY <1>1 DEF CreateSKU, UpdateAvailableQty, InvTypeOK, Row
<1>4. QED
  BY <1>2, <1>3
  DEF ReservedIsHeld, LogSound, Qty, UnitsOf, HeldOf, Held, Reserved, Released
=============================================================================
