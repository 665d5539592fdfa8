------------------------------ MODULE Consumer ------------------------------
(***************************************************************************)
(* messaging/consumer.go of one process, which answers commands (inventory *)
(* or payment), with its queue at the broker and the process's own end.    *)
(*                                                                         *)
(* A copy of a message is ready at the broker or unacknowledged on a       *)
(* channel.  A delivery is a copy together with the channel it came on;    *)
(* the process passes it from the client's stream to the distributor, to   *)
(* the work channel, to a worker.  Settling it only has an effect while    *)
(* that channel is open.  The order of the buffers is abstracted: neither  *)
(* is first in, first out across sixteen workers, retries and redelivery.  *)
(***************************************************************************)
EXTENDS Connection, FiniteSets

CONSTANTS
    Msgs,              \* the commands in the queue
    Poison,            \* those whose body does not parse: a Permanent error
    Silent,            \* those of payment.process: once on record, not answered
    Workers,           \* consumerWorkers: 16
    Prefetch,          \* consumerPrefetch: 32
    MaxRetries,        \* RETRY_MAX_ATTEMPTS
    ReopenAttempts,    \* of reconnectConsumer: 5
    NoDelivery         \* what an idle worker holds

ASSUME ConsumerAssumption ==
    /\ IsFiniteSet(Msgs)
    /\ Poison \subseteq Msgs
    /\ Silent \subseteq Msgs
    /\ Prefetch \in Nat \ {0}
    /\ MaxRetries \in Nat
    /\ ReopenAttempts \in Nat \ {0}

VARIABLES
    ready,      \* copies ready for delivery, those in the retry queue included
    unacked,    \* deliveries the broker waits to hear of
    dead,       \* messages in the dead-letter queue
    answered,   \* messages whose answer has reached the broker
    recorded,   \* those on record: processed_events, or the unique inventory_logs
    chan,       \* number of the consumer's current channel
    open,       \* whether it is
    stream,     \* deliveries in the client library, not yet received
    dist,       \* the distributor goroutine
    work,       \* the buffered channel from the distributor to the workers
    worker,     \* the pool
    proc,       \* "up" or "down"
    stopped     \* consumerCtx is done

brokerVars == <<ready, unacked, dead>>
chanVars == <<chan, open>>
poolVars == <<work, worker>>
procVars == <<proc, stopped>>
outcomes == <<answered, recorded>>
vars == <<conn, watch, dials, left, ready, unacked, dead, answered, recorded, chan,
          open, stream, dist, work, worker, proc, stopped>>

Copy == [id : Nat \ {0}, msg : Msgs, tries : 0..MaxRetries]
Delivery == [ch : Nat, copy : Copy]

ASSUME NoDeliveryAssumption == NoDelivery \notin Delivery

\* What a goroutine remembers: where it is, the delivery it holds, its attempt
\* and the lost connections it had seen when the last one failed.
Local(pc, d, attempt, seen) ==
    [pc |-> pc, held |-> d, attempt |-> attempt, seen |-> seen]

Selecting == Local("select", NoDelivery, 1, 0)
Idle == Local("idle", NoDelivery, 1, 0)

Copies == ready \cup {d.copy : d \in unacked}

Live(d) == open /\ d.ch = chan

\* A number for one more copy of a message: one that is not in use.
FreshId ==
    LET used == {c.id : c \in Copies}
    IN CHOOSE n \in 1..(Cardinality(used) + 1) : n \notin used

\* The copy that the publisher of the command puts into the queue.
First(m) == [id |-> 1, msg |-> m, tries |-> 0]

ConsumerInit ==
    /\ ConnInit
    /\ ready = {First(m) : m \in Msgs}
    /\ unacked = {} /\ dead = {} /\ answered = {} /\ recorded = {}
    /\ chan = 1 /\ open = TRUE
    /\ stream = {}
    /\ dist = Selecting
    /\ work = {}
    /\ worker = [w \in Workers |-> Idle]
    /\ proc = "up" /\ stopped = FALSE

-----------------------------------------------------------------------------
(* The broker.                                                             *)

Outstanding == {d \in unacked : d.ch = chan}

\* basic.deliver, within the prefetch count of the channel.
Deliver(c) ==
    /\ open
    /\ Cardinality(Outstanding) < Prefetch
    /\ c \in ready
    /\ LET d == [ch |-> chan, copy |-> c] IN
       /\ unacked' = unacked \cup {d}
       /\ stream' = stream \cup {d}
    /\ ready' = ready \ {c}
    /\ UNCHANGED <<mqVars, left, dead, outcomes, chanVars, dist, poolVars, procVars>>

\* The broker finds out that a channel is gone and requeues what it had there.
Return(d) ==
    /\ d \in unacked /\ ~Live(d)
    /\ unacked' = unacked \ {d}
    /\ ready' = ready \cup {d.copy}
    /\ UNCHANGED <<mqVars, left, dead, outcomes, chanVars, stream, dist, poolVars, procVars>>

\* The connection, or the consumer's channel alone, is lost.
Drop ==
    /\ proc = "up" /\ conn = "up"
    /\ Spend("drop")
    /\ conn' \in {"up", "down"}
    /\ open' = FALSE
    /\ UNCHANGED <<watch, dials, brokerVars, outcomes, chan, stream, dist, poolVars, procVars>>

-----------------------------------------------------------------------------
(* The process.                                                            *)

\* The process is gone with everything it had in memory.
Dies ==
    /\ proc = "up" /\ proc' = "down"
    /\ conn' = "down" /\ watch' = "waiting" /\ dials' = 0
    /\ open' = FALSE
    /\ stream' = {} /\ work' = {}
    /\ dist' = Selecting
    /\ worker' = [w \in Workers |-> Idle]
    /\ stopped' = FALSE
    /\ UNCHANGED <<brokerVars, outcomes, chan>>

Crash == Spend("crash") /\ Dies

\* watch gives the connection up: panic.
WatchPanics == watch = "dialing" /\ LastDial /\ Spend("dial") /\ Dies

\* SIGTERM: stopConsumers cancels consumerCtx.
Stop ==
    /\ proc = "up" /\ ~stopped
    /\ Spend("stop")
    /\ stopped' = TRUE
    /\ UNCHANGED <<mqVars, brokerVars, outcomes, chanVars, stream, dist, poolVars, proc>>

\* main returns when the HTTP server is down, whatever the workers are doing.
Exit == stopped /\ UNCHANGED left /\ Dies

\* The process is started again: New dials, StartConsumer opens a channel.
Restart ==
    /\ proc = "down" /\ proc' = "up"
    /\ conn' = "up"
    /\ chan' = chan + 1 /\ open' = TRUE
    /\ UNCHANGED <<watch, dials, left, brokerVars, outcomes, stream, dist, poolVars, stopped>>

\* The connection's own steps.
Watch ==
    /\ proc = "up"
    /\ Notice \/ DialSucceeds \/ DialFails
    /\ UNCHANGED <<brokerVars, outcomes, chanVars, stream, dist, poolVars, procVars>>

-----------------------------------------------------------------------------
(* The distributor goroutine.                                              *)

\* case msg := <-currentMsgs and work <- msg; after a close the library may still
\* hand over what it has buffered.  A full buffer makes the distributor wait.
HasRoom == Cardinality(work) < Cardinality(Workers)

Receive(d) ==
    /\ dist.pc = "select" /\ proc = "up"
    /\ d \in stream
    /\ stream' = stream \ {d}
    /\ IF HasRoom
       THEN work' = work \cup {d} /\ dist' = dist
       ELSE work' = work /\ dist' = Local("handoff", d, 1, 0)
    /\ UNCHANGED <<mqVars, left, brokerVars, outcomes, chanVars, worker, procVars>>

HandOff ==
    /\ dist.pc = "handoff" /\ HasRoom
    /\ work' = work \cup {dist.held}
    /\ dist' = Selecting
    /\ UNCHANGED <<mqVars, left, brokerVars, outcomes, chanVars, stream, worker, procVars>>

\* currentMsgs is closed.
SeeClosed ==
    /\ dist.pc = "select" /\ proc = "up" /\ ~open
    /\ stream' = {}
    /\ dist' = Local("reconnect", NoDelivery, 1, 0)
    /\ UNCHANGED <<mqVars, left, brokerVars, outcomes, chanVars, poolVars, procVars>>

\* An attempt of reconnectConsumer succeeds: Channel, Qos and Consume.
Reopen ==
    /\ dist.pc = "reconnect" /\ HasChannel
    /\ chan' = chan + 1 /\ open' = TRUE
    /\ dist' = Selecting
    /\ UNCHANGED <<mqVars, left, brokerVars, outcomes, stream, poolVars, procVars>>

\* It fails for lack of a channel, or Qos or Consume fails on the one it got.
NotReopened ==
    \/ NoChannel(dist.seen) /\ UNCHANGED left
    \/ HasChannel /\ Spend("consume")

ReopenFails ==
    /\ dist.pc = "reconnect" /\ NotReopened
    /\ dist.attempt < ReopenAttempts
    /\ dist' = Local("reconnect", NoDelivery, dist.attempt + 1, Drops)
    /\ UNCHANGED <<mqVars, brokerVars, outcomes, chanVars, stream, poolVars, procVars>>

\* The last attempt fails: panic.
DistributorPanics ==
    /\ dist.pc = "reconnect" /\ NotReopened
    /\ dist.attempt = ReopenAttempts
    /\ Dies

\* case <-ctx.Done(): the channel is closed; the workers finish what is in work.
SeeStop ==
    /\ dist.pc = "select" /\ stopped
    /\ open' = FALSE
    /\ stream' = {}
    /\ dist' = Local("done", NoDelivery, 1, 0)
    /\ UNCHANGED <<mqVars, left, brokerVars, outcomes, chan, poolVars, procVars>>

Distributor ==
    \/ \E d \in stream : Receive(d)
    \/ HandOff \/ SeeClosed \/ Reopen \/ ReopenFails \/ DistributorPanics \/ SeeStop

-----------------------------------------------------------------------------
(* A worker: dispatchMsg.                                                  *)

At(w, pc) == worker[w].pc = pc

Msg(w) == worker[w].held.copy.msg

Tries(w) == worker[w].held.copy.tries

Goto(w, pc) ==
    worker' = [worker EXCEPT ![w] = Local(pc, worker[w].held, 1, worker[w].seen)]

\* The handler returned an error that is not Permanent: amqpretry.Decide.
OnError(tries) == IF tries < MaxRetries THEN "retry" ELSE "bury"

Errs(w) == Goto(w, OnError(Tries(w)))

\* A statement fails: by a fault, or because its context is done.
DbError == IF stopped THEN UNCHANGED left ELSE Spend("error")

\* What the handler's first read leads to: a payment command on record (its
\* IsProcessed) is acknowledged and not answered, whether the answer of its first
\* handling was sent or not; an inventory command (ExistsReserve, ExistsRelease)
\* is answered again.
Begins(m) ==
    CASE m \in recorded \cap Silent -> "ack"
      [] m \in recorded \ Silent -> "publish"
      [] OTHER -> "handle"

Taken(w, d, pc) ==
    /\ At(w, "idle")
    /\ d \in work
    /\ work' = work \ {d}
    /\ worker' = [worker EXCEPT ![w] = Local(pc, d, 1, 0)]
    /\ UNCHANGED <<mqVars, brokerVars, outcomes, chanVars, stream, dist, procVars>>

Pick(w, d) == Taken(w, d, Begins(d.copy.msg)) /\ UNCHANGED left

\* That first read fails.
PickFails(w, d) ==
    /\ d.copy.msg \notin Poison
    /\ Taken(w, d, OnError(d.copy.tries))
    /\ DbError

Unmoved == UNCHANGED <<mqVars, chanVars, stream, dist, work, procVars>>

\* A handler leaves a record or not: a rejected reservation leaves none, and to a
\* payment that an earlier command has made no second id is added.
MayRecord(w) == recorded' \in {recorded, recorded \cup {Msg(w)}}

\* The handler's work on the database is done; it publishes the answer next.
Commit(w) ==
    /\ At(w, "handle") /\ Msg(w) \notin Poison
    /\ MayRecord(w)
    /\ Goto(w, "publish")
    /\ Unmoved /\ UNCHANGED <<left, brokerVars, answered>>

\* A later statement fails, and be it the COMMIT, with the work done.
HandlerFails(w) ==
    /\ At(w, "handle") /\ Msg(w) \notin Poison
    /\ MayRecord(w)
    /\ DbError
    /\ Errs(w)
    /\ Unmoved /\ UNCHANGED <<brokerVars, answered>>

\* A second delivery was handled meanwhile: the insert violates the unique index.
HandlerCollides(w) ==
    /\ At(w, "handle") /\ Msg(w) \in recorded
    /\ Errs(w)
    /\ Unmoved /\ UNCHANGED <<left, brokerVars, outcomes>>

\* The body does not parse.
Refuse(w) ==
    /\ At(w, "handle") /\ Msg(w) \in Poison
    /\ Goto(w, "bury")
    /\ Unmoved /\ UNCHANGED <<left, brokerVars, outcomes>>

\* Mutant: the recovered panic settles nothing.
ForgetsPanic(w) == Goto(w, "idle")

\* dispatchMsg recovers: Nack without requeue.
Recover(w) == Goto(w, "reject")

HandlerPanics(w) ==
    /\ At(w, "handle")
    /\ Spend("error")
    /\ Recover(w)
    /\ Unmoved /\ UNCHANGED <<brokerVars, outcomes>>

\* Publisher.Publish: the answer is confirmed and the handler returns nil.
Answer(w) ==
    /\ At(w, "publish")
    /\ Confirmed
    /\ answered' = answered \cup {Msg(w)}
    /\ Goto(w, "ack")
    /\ Unmoved /\ UNCHANGED <<brokerVars, recorded>>

\* ... or an attempt fails, with the answer at the broker or not.
AnswerFails(w) ==
    /\ At(w, "publish")
    /\ \/ Unsent(worker[w].seen) /\ UNCHANGED answered
       \/ Unconfirmed /\ answered' \in {answered, answered \cup {Msg(w)}}
    /\ IF GivesUp(worker[w].attempt, stopped)
       THEN Errs(w)
       ELSE worker' = [worker EXCEPT ![w] =
                          Local("publish", worker[w].held, worker[w].attempt + 1, Drops)]
    /\ Unmoved /\ UNCHANGED <<brokerVars, recorded>>

\* PublishRaw reaches the broker: the message with its count raised goes to the
\* retry queue (and, after the TTL, back to the queue), or to the dead letters.
Filed(w) ==
    /\ IF At(w, "retry")
       THEN /\ ready' = ready \cup
                   {[id |-> FreshId, msg |-> Msg(w), tries |-> Tries(w) + 1]}
            /\ dead' = dead
       ELSE /\ ready' = ready
            /\ dead' = dead \cup {Msg(w)}
    /\ UNCHANGED unacked

Filing(w) == At(w, "retry") \/ At(w, "bury")

\* Mutant: the delivery is requeued though its copy is in the retry queue.
RequeuesAnyway(w) == Goto(w, IF At(w, "retry") THEN "requeue" ELSE "ack")

\* PublishRaw returned nil.
Settled(w) == Goto(w, "ack")

\* Mutant: the error of PublishRaw is ignored.
AcksAnyway(w) == Goto(w, "ack")

\* PublishRaw returned an error: Nack, with requeue for a retry.
Unsettled(w) == Goto(w, IF At(w, "retry") THEN "requeue" ELSE "reject")

File(w) ==
    /\ Filing(w)
    /\ Confirmed
    /\ Filed(w)
    /\ Settled(w)
    /\ Unmoved /\ UNCHANGED outcomes

FileFails(w) ==
    /\ Filing(w)
    /\ \/ Unsent(worker[w].seen) /\ UNCHANGED brokerVars
       \/ Unconfirmed /\ (Filed(w) \/ UNCHANGED brokerVars)
    /\ Unsettled(w)
    /\ Unmoved /\ UNCHANGED outcomes

\* Ack or Nack of the held delivery, without effect on a closed channel.
Settle(w) ==
    LET d == worker[w].held IN
    /\ worker[w].pc \in {"ack", "requeue", "reject"}
    /\ IF Live(d)
       THEN /\ unacked' = unacked \ {d}
            /\ ready' = IF At(w, "requeue") THEN ready \cup {d.copy} ELSE ready
            /\ dead' = IF At(w, "reject") THEN dead \cup {Msg(w)} ELSE dead
       ELSE UNCHANGED brokerVars
    /\ worker' = [worker EXCEPT ![w] = Idle]
    /\ Unmoved /\ UNCHANGED <<left, outcomes>>

Work(w) ==
    \/ \E d \in work : Pick(w, d) \/ PickFails(w, d)
    \/ Commit(w) \/ HandlerFails(w) \/ HandlerCollides(w)
    \/ Refuse(w) \/ HandlerPanics(w)
    \/ Answer(w) \/ AnswerFails(w) \/ File(w) \/ FileFails(w) \/ Settle(w)

-----------------------------------------------------------------------------
Next ==
    \/ \E c \in ready : Deliver(c)
    \/ \E d \in unacked : Return(d)
    \/ Drop \/ Crash \/ WatchPanics \/ Stop \/ Exit \/ Restart \/ Watch
    \/ Distributor
    \/ \E w \in Workers : Work(w)

Spec == ConsumerInit /\ [][Next]_vars

DistState ==
    [pc : {"select", "handoff", "reconnect", "done"}, held : Delivery \cup {NoDelivery},
     attempt : 1..ReopenAttempts, seen : Nat]

WorkerPc ==
    {"idle", "handle", "publish", "retry", "bury", "ack", "requeue", "reject"}

WorkerState ==
    [pc : WorkerPc, held : Delivery \cup {NoDelivery},
     attempt : 1..PublishAttempts, seen : Nat]

ConsumerTypeOK ==
    /\ ConnTypeOK
    /\ ready \subseteq Copy
    /\ unacked \subseteq Delivery
    /\ dead \subseteq Msgs
    /\ answered \subseteq Msgs
    /\ recorded \subseteq Msgs
    /\ chan \in Nat
    /\ open \in BOOLEAN
    /\ stream \subseteq Delivery
    /\ dist \in DistState
    /\ work \subseteq Delivery
    /\ worker \in [Workers -> WorkerState]
    /\ proc \in {"up", "down"}
    /\ stopped \in BOOLEAN

-----------------------------------------------------------------------------
InWorkers == {worker[w].held : w \in Workers} \ {NoDelivery}

InProcess == stream \cup work \cup InWorkers \cup ({dist.held} \ {NoDelivery})

CopiesOf(m) == {c \in Copies : c.msg = m}

\* Messages that nothing more is owed for.
Accounted == answered \cup dead \cup (Silent \cap recorded)

\* Whatever fails, a message is still at the broker, or its answer or itself
\* has reached its destination, or, for a payment, it is on record: an
\* acknowledgement is never the last trace.
NothingLost == \A m \in Msgs : CopiesOf(m) # {} \/ m \in Accounted

\* Every delivery that counts against the prefetch of the open channel is in
\* the process's hands, once: none is dropped or settled twice between the
\* distributor, the work channel and the workers.
NoLeak ==
    /\ open => Outstanding = {d \in InProcess : d.ch = chan}
    /\ \A v, w \in Workers : v # w => worker[v].held = NoDelivery
                                        \/ worker[v].held # worker[w].held
    /\ \A w \in Workers : worker[w].held \notin stream \cup work \cup {dist.held}
                             \/ worker[w].held = NoDelivery

\* "prefetch >= consumerWorkers so workers never starve": when no delivery is on
\* its way to the workers and one of them is idle, the broker may send the next.
NeverStarved ==
    (open /\ stream \cup work = {} /\ dist.pc = "select"
          /\ \E w \in Workers : At(w, "idle"))
        => Cardinality(Outstanding) < Prefetch

\* Only a fault of delivery makes a message exist twice: while no connection,
\* confirmation or process was lost, either one copy of it is still to be
\* handled, or it is answered, or it is a dead letter, or it is a payment whose
\* handler erred after its commit and whose retry was not answered.
Undisturbed == \A kind \in {"drop", "confirm", "crash", "stop"} : Spent(kind) = 0

Owed(m) == {c \in CopiesOf(m) :
               ~ \E w \in Workers : At(w, "ack") /\ worker[w].held.copy = c}

ExactlyOnce ==
    Undisturbed =>
        \A m \in Msgs :
            IF m \in answered \cup dead
            THEN Owed(m) = {} /\ m \notin answered \cap dead
            ELSE \/ Cardinality(Owed(m)) = 1
                 \/ Owed(m) = {} /\ m \in Silent \cap recorded

\* Fewer lost connections and confirmations than Publish has attempts use up no
\* retry and dead-letter nobody, but for the second of two concurrent deliveries
\* of a command that the first has put on record.
OutageIsMasked ==
    (Spent("error") = 0 /\ Spent("stop") = 0
       /\ Spent("drop") + Spent("confirm") < PublishAttempts)
        => /\ \A c \in Copies : c.tries = 0 \/ c.msg \in recorded
           /\ dead \subseteq Poison \cup recorded

\* A process that was neither killed nor stopped is only down after dial, or
\* the distributor, ran out of attempts: each of the latter costs a lost
\* connection or a refused consumer, redialing uses up none.
DownOnlyAfterOutage ==
    (proc = "down" /\ Spent("crash") = 0 /\ Spent("stop") = 0)
        => \/ Spent("dial") >= DialAttempts
           \/ Spent("drop") + Spent("consume") >= ReopenAttempts

-----------------------------------------------------------------------------
(* The goroutines run, the broker delivers and requeues, and a process that *)
(* is down is started again some time.                                      *)
Fairness ==
    /\ \A w \in Workers : WF_vars(Work(w))
    /\ WF_vars(Distributor)
    /\ WF_vars(Watch)
    /\ WF_vars(Exit)
    /\ WF_vars(Restart)
    /\ WF_vars(\E c \in ready : Deliver(c))
    /\ WF_vars(\E d \in unacked : Return(d))

FairSpec == Spec /\ Fairness

\* When the faults are over, the queue drains: no delivery stays
\* unacknowledged, no goroutine waits for another for ever.
QueueDrains == <>[](Copies = {})

\* The consumer keeps the promise of AtLeastOnce.
Promise ==
    INSTANCE AtLeastOnce WITH owed <- {c.msg : c \in Copies}, recorded <- Silent \cap recorded

KeepsPromise == Promise!Spec
=============================================================================
