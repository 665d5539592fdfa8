------------------------------ MODULE Payment ------------------------------
(***************************************************************************)
(* payment-service: at most one payments row per order, processed_events   *)
(* keyed on the command's message_id, and the workers that run             *)
(* PaymentCommandHandler.                                                  *)
(***************************************************************************)
EXTENDS Messages

CONSTANTS
    PayWorkers,
    Outcomes,           \* what a new charge may become: PAYMENT_FAILURE_RATE
    ExternalPayments    \* orders a client also POSTs to /payments

ASSUME PaymentAssumption ==
    /\ Outcomes \subseteq {"SUCCESS", "FAILED"}
    /\ Outcomes # {}
    /\ ExternalPayments \subseteq Orders

VARIABLES
    pay,            \* status of the order's payments row
    payProcessed,   \* processed_events of this service
    pw              \* the workers

payVars == <<pay, payProcessed, pw>>

PayStatus == {"NONE", "PENDING", "SUCCESS", "FAILED"}

PayWorker == [pc : {"idle", "lookup", "create", "reply"},
              msg : Message \cup {NoMessage}, ok : BOOLEAN]

IdlePay == [pc |-> "idle", msg |-> NoMessage, ok |-> FALSE]

PayInit ==
    /\ pay = [o \in Orders |-> "NONE"]
    /\ payProcessed = {}
    /\ pw = [w \in PayWorkers |-> IdlePay]

-----------------------------------------------------------------------------
(* payment.process: handleProcess.                                         *)

\* IsProcessed: a command seen before is acknowledged without an event.
TakeProcess(w, m) ==
    /\ pw[w].pc = "idle"
    /\ m.key = "payment.process"
    /\ Take(m)
    /\ pw' = IF Id(m) \in payProcessed THEN pw
             ELSE [pw EXCEPT ![w] = [pc |-> "lookup", msg |-> m, ok |-> FALSE]]
    /\ UNCHANGED <<pay, payProcessed>>

\* Mutant: the answer to a repeated command does not look at the row's status.
LookupForgetsStatus(w) ==
    /\ pw[w].pc = "lookup"
    /\ pw' = [pw EXCEPT ![w].pc = IF pay[pw[w].msg.order] = "NONE" THEN "create" ELSE "reply"]
    /\ UNCHANGED <<msgVars, pay, payProcessed>>

\* GetByOrderID: an existing row, whoever made it, decides the answer.
LookupPayment(w) ==
    LET row == pay[pw[w].msg.order] IN
    /\ pw[w].pc = "lookup"
    /\ pw' = IF row = "NONE" THEN [pw EXCEPT ![w].pc = "create"]
             ELSE [pw EXCEPT ![w].pc = "reply", ![w].ok = (row = "SUCCESS")]
    /\ UNCHANGED <<msgVars, pay, payProcessed>>

\* Mutant: a new row is always reported as a success.
CreateReportsSuccess(w, outcome) ==
    LET m == pw[w].msg IN
    /\ pw[w].pc = "create"
    /\ pay[m.order] = "NONE"
    /\ pay' = [pay EXCEPT ![m.order] = outcome]
    /\ payProcessed' = payProcessed \cup {Id(m)}
    /\ pw' = [pw EXCEPT ![w].pc = "reply", ![w].ok = TRUE]
    /\ UNCHANGED msgVars

\* CreatePaymentWithEvent: the row and the processed mark in one transaction.
CreatePaymentWithEvent(w, outcome) ==
    LET m == pw[w].msg IN
    /\ pw[w].pc = "create"
    /\ pay[m.order] = "NONE"
    /\ pay' = [pay EXCEPT ![m.order] = outcome]
    /\ payProcessed' = payProcessed \cup {Id(m)}
    /\ pw' = [pw EXCEPT ![w].pc = "reply", ![w].ok = (outcome = "SUCCESS")]
    /\ UNCHANGED msgVars

\* order_id is unique: someone created the row first, and the command errs.
CreateDuplicate(w) ==
    /\ pw[w].pc = "create"
    /\ pay[pw[w].msg.order] # "NONE"
    /\ HandlerError(pw[w].msg)
    /\ pw' = [pw EXCEPT ![w] = IdlePay]
    /\ UNCHANGED <<faults, pay, payProcessed>>

\* Publish PaymentProcessedEvent; the command is then acknowledged.
PayReply(w) ==
    /\ pw[w].pc = "reply"
    /\ Publish("payment.processed", pw[w].msg.order, pw[w].ok)
    /\ pw' = [pw EXCEPT ![w] = IdlePay]
    /\ UNCHANGED <<pay, payProcessed>>

PayAbort(w) ==
    /\ pw[w].pc # "idle"
    /\ Abort(pw[w].msg)
    /\ pw' = [pw EXCEPT ![w] = IdlePay]
    /\ UNCHANGED <<pay, payProcessed>>

PayDuplicate(w) ==
    /\ pw[w].pc # "idle"
    /\ Duplicate(pw[w].msg)
    /\ UNCHANGED payVars

\* POST /payments inserts a PENDING row for any order id.
CreatePayment(o) ==
    /\ o \in ExternalPayments
    /\ pay[o] = "NONE"
    /\ pay' = [pay EXCEPT ![o] = "PENDING"]
    /\ UNCHANGED <<msgVars, payProcessed, pw>>

PayStep(w) ==
    \/ \E m \in queue : TakeProcess(w, m)
    \/ LookupPayment(w)
    \/ \E outcome \in Outcomes : CreatePaymentWithEvent(w, outcome)
    \/ CreateDuplicate(w)
    \/ PayReply(w)

PayFault(w) == PayAbort(w) \/ PayDuplicate(w)

PayNext ==
    \/ \E w \in PayWorkers : PayStep(w) \/ PayFault(w)
    \/ \E o \in Orders : CreatePayment(o)

PayTypeOK ==
    /\ pay \in [Orders -> PayStatus]
    /\ payProcessed \subseteq Ids
    /\ pw \in [PayWorkers -> PayWorker]
=============================================================================
