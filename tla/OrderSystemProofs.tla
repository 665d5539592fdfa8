------------------------- MODULE OrderSystemProofs --------------------------
(***************************************************************************)
(* Theorems of OrderSystem for any number of orders, products, workers,    *)
(* replicas, retries and faults, and any outcome of the charges.           *)
(***************************************************************************)
EXTENDS OrderSystemCausality

USE DEF Keys, Commands, Events, DeadEvent

-----------------------------------------------------------------------------
(* The invariant.                                                          *)

\* Every initial state satisfies it.
LEMMA InitInvariant == Init => IInv
<1> SUFFICES ASSUME Init
             PROVE  TypeOK /\ Causality
  BY DEF IInv
<1> USE DEF Init, MsgInit, InvInit, PayInit, OrchInit
<1>1. MsgTypeOK
  BY MessagesAssumption DEF MsgTypeOK
<1> declared \subseteq Queues
  BY MessagesAssumption
<1>2. InvTypeOK
  BY InventoryAssumption, IdleTypes DEF InvTypeOK, Row
<1>3. PayTypeOK
  BY IdleTypes DEF PayTypeOK, PayStatus
<1>4. OrchTypeOK
  BY OrchestratorAssumption, IdleTypes DEF OrchTypeOK, OrderStatus
<1>5. Causality
  BY DEF Causality, MessagesTruthful, InvWorkerTruthful, IdleInv, PayWorkerTruthful, IdlePay,
         EventWorkerTruthful, IdleEvent, RecoveryTruthful, Waiting, SagaTruthful,
         StepTruthful, TablesTruthful, Reserved, Released
<1>6. QED
  BY <1>1, <1>2, <1>3, <1>4, <1>5 DEF TypeOK

\* Every step, and stuttering, preserves it.
LEMMA NextInvariant == IInv /\ [Next]_vars => IInv'
<1> SUFFICES ASSUME IInv, [Next]_vars
             PROVE  IInv'
  OBVIOUS
<1>1. CASE Next
  <2>1. TypeOK'
    BY <1>1, InventoryTypes, PaymentTypes, OrderTypes, RedriveTypes, FirstStartTypes DEF Next
  <2>2. Causality'
    BY <1>1, InventoryCausality, PaymentCausality, OrderCausality, RedriveCausality, StillCausal
       DEF Next, FirstStart
  <2>3. QED
    BY <2>1, <2>2 DEF IInv
<1>2. CASE UNCHANGED vars
  <2>1. TypeOK'
    BY <1>2 DEF IInv, TypeOK, MsgTypeOK, InvTypeOK, PayTypeOK, OrchTypeOK, vars, msgVars,
                invVars, payVars, orchVars
  <2>2. Causality'
    BY <1>2, StillCausal DEF vars
  <2>3. QED
    BY <2>1, <2>2 DEF IInv
<1>3. QED
  BY <1>1, <1>2

\* Hence every reachable state satisfies it.
LEMMA Invariant == Spec => []IInv
  BY InitInvariant, NextInvariant, PTL DEF Spec

\* Every variable of the three services and of the broker keeps its type, for
\* any number of orders, workers, replicas, retries and faults.
THEOREM TypeCorrect == Spec => []TypeOK
<1>1. IInv => TypeOK
  BY DEF IInv
<1>2. QED
  BY <1>1, Invariant, PTL

\* No message, worker, recovery list, order or saga is ever ahead of the tables
\* it was derived from (the handlers' and the recovery loop's use of stale data).
THEOREM CausalityHolds == Spec => []Causality
<1>1. IInv => Causality
  BY DEF IInv
<1>2. QED
  BY <1>1, Invariant, PTL

\* An order that is charged keeps its goods reserved: handleRelease looks at
\* neither the payment nor the saga, and yet never gives back stock paid for.
THEOREM ChargedStockIsKept == Spec => []ChargedKeepsStock
<1>1. IInv => ChargedKeepsStock
  BY DEF IInv, Causality, TablesTruthful, ChargedKeepsStock, Held, Unpaid
<1>2. QED
  BY <1>1, Invariant, PTL

\* Stock is given back only for an order that reserved it and whose payment can
\* no longer succeed.
THEOREM ReleaseIsForTheUnpaid == Spec => []ReleasedOnlyUnpaid
<1>1. IInv => ReleasedOnlyUnpaid
  BY DEF IInv, Causality, TablesTruthful, ReleasedOnlyUnpaid, Unpaid
<1>2. QED
  BY <1>1, Invariant, PTL

\* What orders.status tells the client is true of the other services' tables.
THEOREM StatusCanBeTrusted == Spec => []StatusIsTrue
<1>1. IInv => StatusIsTrue
  BY DEF IInv, Causality, SagaTruthful, StatusIsTrue
<1>2. QED
  BY <1>1, Invariant, PTL

\* All answers about one payment, duplicates included, tell its one outcome.
THEOREM AnswersAgree == Spec => []PaymentAnswersAgree
<1>1. IInv => PaymentAnswersAgree
  BY DEF IInv, Causality, MessagesTruthful, Truthful, PaymentAnswersAgree
<1>2. QED
  BY <1>1, Invariant, PTL

-----------------------------------------------------------------------------
(* The contract: every step reserves, decides, blocks or returns for one    *)
(* order, or shows nothing of the kind.                                    *)

\* A step that leaves both tables alone is none of the contract's.
LEMMA TablesUnchanged ==
    ASSUME UNCHANGED <<log, pay>>
    PROVE  UNCHANGED Contract!vars
  BY DEF Contract!vars, stockOf, moneyOf, Reserved, Released

\* How one new entry of the log shows in the contract.
LEMMA LogShows ==
    ASSUME NEW o \in Orders, NEW action \in {"RESERVE", "RELEASE"},
           log' = log \cup {<<o, action>>}, pay' = pay,
           action = "RESERVE" => ~Reserved(o) /\ ~Released(o),
           action = "RELEASE" => Reserved(o) /\ ~Released(o)
    PROVE  /\ stockOf[o] = IF action = "RESERVE" THEN "free" ELSE "held"
           /\ stockOf' = [stockOf EXCEPT ![o] =
                              IF action = "RESERVE" THEN "held" ELSE "returned"]
           /\ moneyOf' = moneyOf
<1>1. \A x \in Orders, a \in {"RESERVE", "RELEASE"} :
          <<x, a>> \in log' <=> <<x, a>> \in log \/ (x = o /\ a = action)
  OBVIOUS
<1>2. \A x \in Orders :
          /\ Reserved(x)' <=> Reserved(x) \/ (x = o /\ action = "RESERVE")
          /\ Released(x)' <=> Released(x) \/ (x = o /\ action = "RELEASE")
  BY <1>1 DEF Reserved, Released
<1>3. \A x \in Orders : stockOf[x] =
          IF ~Reserved(x) THEN "free" ELSE IF Released(x) THEN "returned" ELSE "held"
  BY DEF stockOf
<1>4. stockOf' = [x \in Orders |-> IF x = o
                     THEN IF action = "RESERVE" THEN "held" ELSE "returned"
                     ELSE stockOf[x]]
  BY <1>2, <1>3 DEF stockOf
<1>5. stockOf' = [stockOf EXCEPT ![o] = IF action = "RESERVE" THEN "held" ELSE "returned"]
  BY <1>4 DEF stockOf
<1>6. moneyOf' = moneyOf
  BY DEF moneyOf
<1>7. QED
  BY <1>3, <1>5, <1>6

\* How a new payment row shows in the contract.
LEMMA PaymentShows ==
    ASSUME PayTypeOK, NEW o \in Orders, NEW row \in {"PENDING", "SUCCESS", "FAILED"},
           pay[o] = "NONE", pay' = [pay EXCEPT ![o] = row], log' = log
    PROVE  /\ moneyOf[o] = "none"
           /\ moneyOf' = [moneyOf EXCEPT ![o] = Money(row)]
           /\ stockOf' = stockOf
<1>1. \A x \in Orders : pay'[x] = IF x = o THEN row ELSE pay[x]
  BY DEF PayTypeOK
<1>2. moneyOf' = [moneyOf EXCEPT ![o] = Money(row)]
  <2>1. moneyOf' = [x \in Orders |-> Money(pay'[x])]
    BY DEF moneyOf
  <2>2. \A x \in Orders : Money(pay'[x]) = IF x = o THEN Money(row) ELSE Money(pay[x])
    BY <1>1
  <2>3. moneyOf' = [x \in Orders |-> IF x = o THEN Money(row) ELSE Money(pay[x])]
    BY <2>1, <2>2
  <2>4. QED
    BY <2>3 DEF moneyOf
<1>3. stockOf' = stockOf
  BY DEF stockOf, Reserved, Released
<1>4. QED
  BY <1>2, <1>3 DEF moneyOf, Money

\* The initial states are the contract's.
LEMMA ContractInit == Init => Contract!Init
  BY DEF Init, InvInit, PayInit, Contract!Init, stockOf, moneyOf, Money, Reserved, Released

\* A step of inventory-service reserves, returns, or shows nothing.
LEMMA InventoryContract ==
    ASSUME IInv, InventoryService
    PROVE  Contract!Next \/ UNCHANGED Contract!vars
<1>0. pay' = pay
  BY DEF InventoryService, payVars
<1>1. ASSUME UNCHANGED log
      PROVE  UNCHANGED Contract!vars
  BY <1>0, <1>1, TablesUnchanged
<1>2. ASSUME NEW w \in InvWorkers, iw[w].pc # "idle"
      PROVE  /\ iw[w].msg.order \in Orders
             /\ TablesTruthful(iw[w].msg.order)
             /\ iw[w].pc = "release" =>
                   Reserved(iw[w].msg.order) /\ Unpaid(iw[w].msg.order)
  BY <1>2 DEF IInv, Causality, InvWorkerTruthful, Truthful, Message
<1>3. ASSUME NEW w \in InvWorkers, ReserveAtomic(w)
      PROVE  Contract!Next
  <2>1. PICK o \in Orders : o = iw[w].msg.order
    BY <1>2, <1>3 DEF ReserveAtomic
  <2>2. ~Reserved(o) /\ ~Released(o) /\ log' = log \cup {<<o, "RESERVE">>}
    BY <1>2, <1>3, <2>1 DEF ReserveAtomic, TablesTruthful
  <2>3. /\ stockOf[o] = "free"
        /\ stockOf' = [stockOf EXCEPT ![o] = "held"]
        /\ moneyOf' = moneyOf
    BY <1>0, <2>2, LogShows
  <2>4. QED
    BY <2>3 DEF Contract!Next, Contract!Reserve
<1>4. ASSUME NEW w \in InvWorkers, iw[w].pc = "release", ReleaseCommit(iw[w].msg.order)
      PROVE  Contract!Next
  <2>1. PICK o \in Orders : o = iw[w].msg.order
    BY <1>2, <1>4
  <2>2. /\ Reserved(o) /\ Unpaid(o) /\ ~Released(o)
        /\ log' = log \cup {<<o, "RELEASE">>}
    BY <1>2, <1>4, <2>1 DEF ReleaseCommit
  <2>3. /\ stockOf[o] = "held"
        /\ stockOf' = [stockOf EXCEPT ![o] = "returned"]
        /\ moneyOf' = moneyOf
    BY <1>0, <2>2, LogShows
  <2>4. moneyOf[o] \in {"declined", "blocked"}
    BY <2>2 DEF moneyOf, Money, Unpaid
  <2>5. QED
    BY <2>3, <2>4 DEF Contract!Next, Contract!Return
<1>5. ASSUME NEW w \in InvWorkers, InvStep(w) \/ InvFault(w)
      PROVE  Contract!Next \/ UNCHANGED Contract!vars
  <2>1. \/ UNCHANGED log
        \/ ReserveAtomic(w)
        \/ iw[w].pc = "release" /\ ReleaseCommit(iw[w].msg.order)
    BY <1>5 DEF InvStep, InvFault, TakeReserve, TakeRelease, ReadInventory, ReadMissing,
         ReserveDuplicate, ReserveConflict, ReleaseAtomic, ReleaseRefused, ReleaseFails,
         InvReply, InvAbort, InvDuplicate, invVars
  <2>2. QED
    BY <1>1, <1>3, <1>4, <2>1
<1>6. ASSUME Operator
      PROVE  UNCHANGED log
  BY <1>6 DEF Operator, CreateSKU, UpdateAvailableQty
<1>7. QED
  BY <1>1, <1>5, <1>6 DEF InventoryService, InvNext

\* A step of payment-service decides, blocks, or shows nothing.
LEMMA PaymentContract ==
    ASSUME IInv, PaymentService
    PROVE  Contract!Next \/ UNCHANGED Contract!vars
<1>0. log' = log /\ PayTypeOK
  BY DEF IInv, TypeOK, PaymentService, invVars
<1>1. ASSUME UNCHANGED pay
      PROVE  UNCHANGED Contract!vars
  BY <1>0, <1>1, TablesUnchanged
<1>2. ASSUME NEW w \in PayWorkers, NEW outcome \in Outcomes, CreatePaymentWithEvent(w, outcome)
      PROVE  Contract!Next
  <2>1. PICK o \in Orders : o = pw[w].msg.order
    BY <1>2 DEF CreatePaymentWithEvent, IInv, Causality, PayWorkerTruthful, Message
  <2>2. /\ pay[o] = "NONE" /\ pay' = [pay EXCEPT ![o] = outcome]
        /\ outcome \in {"SUCCESS", "FAILED"}
        /\ Reserved(o) /\ ~Released(o)
    BY <1>2, <2>1, PaymentAssumption
    DEF CreatePaymentWithEvent, IInv, Causality, PayWorkerTruthful, Truthful,
        TablesTruthful, Unpaid
  <2>3. /\ moneyOf[o] = "none"
        /\ moneyOf' = [moneyOf EXCEPT ![o] =
                           IF outcome = "SUCCESS" THEN "charged" ELSE "declined"]
        /\ stockOf' = stockOf
    BY <1>0, <2>2, PaymentShows DEF Money
  <2>4. stockOf[o] = "held"
    BY <2>2 DEF stockOf
  <2>5. QED
    BY <2>2, <2>3, <2>4 DEF Contract!Next, Contract!Decide
<1>3. ASSUME NEW o \in Orders, CreatePayment(o)
      PROVE  Contract!Next
  <2>1. /\ moneyOf[o] = "none"
        /\ moneyOf' = [moneyOf EXCEPT ![o] = "blocked"]
        /\ stockOf' = stockOf
    BY <1>0, <1>3, PaymentShows DEF CreatePayment, Money
  <2>2. QED
    BY <2>1 DEF Contract!Next, Contract!Block
<1>4. ASSUME NEW w \in PayWorkers, PayStep(w) \/ PayFault(w)
      PROVE  UNCHANGED pay \/ \E outcome \in Outcomes : CreatePaymentWithEvent(w, outcome)
  BY <1>4 DEF PayStep, PayFault, TakeProcess, LookupPayment, CreateDuplicate, PayReply,
       PayAbort, PayDuplicate, payVars
<1>5. QED
  BY <1>1, <1>2, <1>3, <1>4 DEF PaymentService, PayNext

\* Every step is a step of the contract, or a stutter.
LEMMA ContractStep == IInv /\ [Next]_vars => [Contract!Next]_(Contract!vars)
<1> SUFFICES ASSUME IInv, [Next]_vars
             PROVE  Contract!Next \/ UNCHANGED Contract!vars
  OBVIOUS
<1>1. CASE InventoryService
  BY <1>1, InventoryContract
<1>2. CASE PaymentService
  BY <1>2, PaymentContract
<1>3. CASE OrderService \/ RedriveDlq \/ (\E q \in Queues : FirstStart(q)) \/ UNCHANGED vars
  BY <1>3, TablesUnchanged DEF OrderService, RedriveDlq, FirstStart, vars, invVars, payVars
<1>4. QED
  BY <1>1, <1>2, <1>3 DEF Next

\* The three services implement the contract: per order, one reservation, one
\* decision over held stock, and a return only of what will not be paid for.
THEOREM ContractImplemented == Spec => ImplementsContract
  BY ContractInit, ContractStep, Invariant, PTL DEF Spec, ImplementsContract, Contract!Spec
=============================================================================
