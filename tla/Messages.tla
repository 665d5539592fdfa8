------------------------------ MODULE Messages ------------------------------
(***************************************************************************)
(* The broker as the three services see it.  A message is a record; its    *)
(* payload is the order it speaks of (a saga belongs to one order, and     *)
(* product, quantity and amount are functions of the order) and, for an    *)
(* event, the Success flag.                                                *)
(*                                                                         *)
(* A worker of the consumer pool takes a message out of queue and holds it *)
(* unacknowledged in its own state while its handler runs.  The handler's  *)
(* result settles the message: nil acknowledges it (it is gone), an error  *)
(* sends it through the retry queue or to the dead-letter queue.  Queues   *)
(* keep no order between messages: sixteen workers per process, retries    *)
(* that wait out a TTL and redeliveries leave none to rely on.             *)
(***************************************************************************)
EXTENDS Naturals, FiniteSets

CONSTANTS
    Orders,       \* the orders clients may place
    DeclaredBefore,   \* queues an earlier start has declared (they are durable)
    MaxRetries,   \* RETRY_MAX_ATTEMPTS: errors before the dead-letter queue
    MaxFaults,    \* bound: faults the environment may inject
    NoMessage     \* what a worker holds when it holds nothing

Queues == {"inventory.commands", "payment.commands", "order.events"}

\* order-service declares its own queue before it serves a request.
ASSUME MessagesAssumption ==
    /\ DeclaredBefore \subseteq Queues
    /\ "order.events" \in DeclaredBefore
    /\ MaxRetries \in Nat /\ MaxFaults \in Nat

VARIABLES
    declared,     \* queues declared and bound to their exchange
    queue,        \* messages ready for delivery
    dlq,          \* messages dead-lettered
    sent,         \* messages so far of each key for each order
    faults        \* faults injected so far

msgVars == <<queue, dlq, sent, faults>>

Commands == {"inventory.reserve", "inventory.release", "payment.process"}
Events == {"inventory.reserved", "inventory.released", "payment.processed"}
Keys == Commands \cup Events

\* The routing key a dead-lettered event carries: its dead-letter queue's name.
DeadEvent == "order.events.dlq"

\* n tells apart the publications of a key for an order: Id(m) is message_id,
\* a fresh UUID per Publish that retries, redeliveries and redrives preserve.
Message == [key : Keys \cup {DeadEvent}, order : Orders, ok : BOOLEAN,
            n : Nat, tries : 0..MaxRetries]

Id(m) == <<m.key, m.order, m.n>>

Ids == Keys \X Orders \X Nat

MsgInit ==
    /\ declared = DeclaredBefore
    /\ queue = {}
    /\ dlq = {}
    /\ sent = [x \in Keys \X Orders |-> 0]
    /\ faults = 0

-----------------------------------------------------------------------------
(* topology.go: each service declares and binds the queue it consumes from. *)

QueueOf(key) ==
    CASE key \in {"inventory.reserve", "inventory.release"} -> "inventory.commands"
      [] key = "payment.process" -> "payment.commands"
      [] OTHER -> "order.events"

Setup(q) ==
    /\ q \notin declared
    /\ declared' = declared \cup {q}

\* Whether the exchange has a queue for this key.
Routed(key) == QueueOf(key) \in declared

-----------------------------------------------------------------------------
(* Steps that handlers are built from.                                     *)

Fresh(key, o, ok) ==
    [key |-> key, order |-> o, ok |-> ok, n |-> sent[<<key, o>>] + 1, tries |-> 0]

\* Publisher.Publish with a new UUID, confirmed by the broker.  It does not set
\* mandatory: a message that no queue is bound for is confirmed and dropped.
Publish(key, o, ok) ==
    IF Routed(key)
    THEN /\ queue' = queue \cup {Fresh(key, o, ok)}
         /\ sent' = [sent EXCEPT ![<<key, o>>] = @ + 1]
         /\ UNCHANGED <<dlq, faults>>
    ELSE UNCHANGED msgVars

\* A worker receives m.
Take(m) ==
    /\ m \in queue
    /\ queue' = queue \ {m}
    /\ UNCHANGED <<dlq, sent, faults>>

\* Mutant: the retry count is never compared with the cap.
RetriesForever(m) == TRUE

\* amqpretry.Decide for the errors these handlers return, none Permanent.
Retries(m) == m.tries < MaxRetries

\* dispatchMsg when the handler of the held message m returned an error.
HandlerError(m) ==
    /\ IF Retries(m)
       THEN /\ queue' = queue \cup {[m EXCEPT !.tries = @ + 1]}
            /\ dlq' = dlq
       ELSE /\ queue' = queue
            /\ dlq' = dlq \cup {m}
    /\ sent' = sent

\* The held message m goes back unsettled: its process died, its channel
\* dropped, or the copy to the retry queue failed and dispatchMsg requeued it.
Requeue(m) ==
    /\ queue' = queue \cup {m}
    /\ UNCHANGED <<dlq, sent>>

\* The environment injects one more fault.
Fault == faults < MaxFaults /\ faults' = faults + 1

\* The handler of the held message m is cut short, by a failing database or
\* publish call (an error) or by a crash or a dropped channel (no settlement).
Abort(m) == Fault /\ (HandlerError(m) \/ Requeue(m))

\* The message a worker holds is delivered once more while the worker goes on:
\* a dropped channel, a lost acknowledgement, or an unconfirmed publication
\* (of m, or of its copy to the retry queue) that had reached the broker.
Duplicate(m) == Fault /\ Requeue(m)

-----------------------------------------------------------------------------
(* scripts/redrive-dlq.sh republishes a dead letter under the routing key   *)
(* the dead-letter queue reports.  Both ways into that queue set the key to *)
(* the queue's own name, which saga.commands (direct) routes nowhere and    *)
(* saga.events (topic, bound with "#") routes to order.events.              *)

Rerouted(m) ==
    IF m.key \in Commands THEN {}
    ELSE {[m EXCEPT !.key = DeadEvent, !.tries = 0]}

Redrive(m) ==
    /\ m \in dlq
    /\ dlq' = dlq \ {m}
    /\ queue' = queue \cup Rerouted(m)
    /\ UNCHANGED <<sent, faults>>

\* The script takes its batch off the queue at once: what it has not published
\* when it dies, or when a publication fails, is gone.
RedriveDies(m) ==
    /\ m \in dlq
    /\ Fault
    /\ dlq' = dlq \ {m}
    /\ UNCHANGED <<queue, sent>>

MsgTypeOK ==
    /\ queue \subseteq Message
    /\ dlq \subseteq Message
    /\ sent \in [Keys \X Orders -> Nat]
    /\ faults \in 0..MaxFaults
=============================================================================
