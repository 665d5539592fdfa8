--------------------------- MODULE DeliveryProofs ---------------------------
(***************************************************************************)
(* Where a delivery is, in Consumer with any number of messages, workers   *)
(* and faults: every one that counts against the prefetch is in exactly    *)
(* one place of the process, so that none leaks, no worker starves and     *)
(* nothing is handled twice unless a fault of delivery repeats it.         *)
(***************************************************************************)
EXTENDS ConsumerProofs

-----------------------------------------------------------------------------
(* The inductive invariant.                                                *)

\* Who is not at work holds nothing.
EmptyHands ==
    /\ \A w \in Workers : worker[w].pc = "idle" => worker[w].held = NoDelivery
    /\ dist.pc # "handoff" => dist.held = NoDelivery

\* A delivery is in the client's stream, with the distributor, in the work
\* channel or with one worker, and in no two of these.
OnePlace ==
    /\ stream \cap work = {}
    /\ dist.held \notin stream \cup work
    /\ \A v, w \in Workers : v # w => worker[v].held = NoDelivery
                                        \/ worker[v].held # worker[w].held
    /\ \A w \in Workers : worker[w].held \notin stream \cup work \cup {dist.held}
                             \/ worker[w].held = NoDelivery

\* The broker has a copy ready or unacknowledged on one channel.
OneCopy ==
    /\ \A d \in unacked : d.copy \notin ready
    /\ \A d, e \in unacked : d.copy = e.copy => d = e

\* No delivery is from a channel to come.
Numbered == \A d \in unacked \cup InProcess : d.ch <= chan

\* While the channel is open, broker and process agree on what is outstanding.
Matching == open => Outstanding = {d \in InProcess : d.ch = chan}

\* With IInv, inductive.
DeliveryInv == EmptyHands /\ OnePlace /\ OneCopy /\ Numbered /\ Matching

-----------------------------------------------------------------------------
(* What the steps have in common.                                          *)

\* What is in the process's hands is a delivery.
LEMMA InProcessType ==
    ASSUME IInv
    PROVE  /\ InProcess \subseteq Delivery /\ unacked \subseteq Delivery
           /\ \A w \in Workers : worker[w].held \in Delivery \cup {NoDelivery}
           /\ dist.held \in Delivery \cup {NoDelivery}
           /\ chan \in Nat
<1>1. /\ \A w \in Workers : worker[w].held \in Delivery \cup {NoDelivery}
      /\ dist.held \in Delivery \cup {NoDelivery}
  BY DEF IInv, ConsumerTypeOK, WorkerState, DistState
<1>2. QED
  BY <1>1 DEF InProcess, InWorkers, IInv, ConsumerTypeOK

\* Broker and process stay in agreement when the process parts with nothing
\* that the broker still expects to hear of on an open channel.
LEMMA StillMatching ==
    ASSUME OneCopy, Numbered, Matching, UNCHANGED <<unacked, chan>>,
           \A d \in unacked : d.copy \notin ready',
           InProcess' \subseteq InProcess, open' => open /\ InProcess' = InProcess
    PROVE  OneCopy' /\ Numbered' /\ Matching'
<1>1. OneCopy' /\ Numbered'
  BY DEF OneCopy, Numbered
<1>2. Outstanding' = Outstanding
  BY DEF Outstanding
<1>3. Matching'
  BY <1>2 DEF Matching
<1>4. QED
  BY <1>1, <1>3

\* The distributor and the workers keep what they have.
LEMMA SameHands ==
    ASSUME UNCHANGED <<stream, work>>, dist'.held = dist.held,
           \A w \in Workers : worker'[w].held = worker[w].held
    PROVE  InProcess' = InProcess /\ (OnePlace => OnePlace')
<1>1. InProcess' = InProcess
  BY DEF InProcess, InWorkers
<1>2. OnePlace => OnePlace'
  BY DEF OnePlace
<1>3. QED
  BY <1>1, <1>2

\* A new channel has no deliveries.
LEMMA NewChannel ==
    ASSUME IInv, OneCopy, Numbered, UNCHANGED <<ready, unacked>>, chan' = chan + 1,
           InProcess' = InProcess
    PROVE  OneCopy' /\ Numbered' /\ Matching'
<1>1. chan \in Nat /\ \A d \in unacked \cup InProcess : d.ch \in Nat /\ d.ch <= chan
  BY InProcessType DEF Numbered, Delivery
<1>2. OneCopy' /\ Numbered'
  BY <1>1 DEF OneCopy, Numbered
<1>3. Outstanding' = {} /\ {d \in InProcess' : d.ch = chan'} = {}
  BY <1>1 DEF Outstanding
<1>4. Matching'
  BY <1>3 DEF Matching
<1>5. QED
  BY <1>2, <1>4

-----------------------------------------------------------------------------
(* The broker, the environment and the process.                            *)

\* A copy that is ready is delivered: it was in nobody's hands.
LEMMA DeliverMatches ==
    ASSUME IInv, DeliveryInv, NEW c \in ready, Deliver(c)
    PROVE  DeliveryInv'
<1>0. EmptyHands /\ OnePlace /\ OneCopy /\ Numbered /\ Matching
  BY DEF DeliveryInv
<1>1. PICK d : d = [ch |-> chan, copy |-> c]
  OBVIOUS
<1>2. d.ch = chan /\ d.copy = c /\ d \in Delivery
  BY <1>1 DEF IInv, ConsumerTypeOK, Delivery
<1>3. /\ open /\ unacked' = unacked \cup {d} /\ stream' = stream \cup {d}
      /\ ready' = ready \ {c}
      /\ UNCHANGED <<chan, open, dist, work, worker>>
  BY <1>1 DEF Deliver, chanVars, poolVars
<1>4. d \notin unacked
  BY <1>0, <1>2 DEF OneCopy
<1>5. d \notin InProcess
  BY <1>0, <1>2, <1>3, <1>4 DEF Matching, Outstanding
<1>6. d \notin stream \cup work /\ dist.held # d /\ \A w \in Workers : worker[w].held # d
  BY <1>2, <1>5, NoDeliveryAssumption DEF InProcess, InWorkers
<1>7. EmptyHands'
  BY <1>0, <1>3 DEF EmptyHands
<1>8. OnePlace'
  BY <1>0, <1>3, <1>6 DEF OnePlace
<1>9. OneCopy'
  BY <1>0, <1>2, <1>3 DEF OneCopy
<1>10. InProcess' = InProcess \cup {d}
  BY <1>3 DEF InProcess, InWorkers
<1>11. Numbered'
  BY <1>0, <1>2, <1>3, <1>10, InProcessType DEF Numbered
<1>12. Outstanding' = Outstanding \cup {d}
  BY <1>2, <1>3 DEF Outstanding
<1>13. Matching'
  BY <1>0, <1>2, <1>3, <1>10, <1>12 DEF Matching
<1>14. QED
  BY <1>7, <1>8, <1>9, <1>11, <1>13 DEF DeliveryInv

\* The broker takes back what it had on a channel that is gone.
LEMMA ReturnMatches ==
    ASSUME IInv, DeliveryInv, NEW d \in unacked, Return(d)
    PROVE  DeliveryInv'
<1>0. EmptyHands /\ OnePlace /\ OneCopy /\ Numbered /\ Matching
  BY DEF DeliveryInv
<1>1. /\ unacked' = unacked \ {d} /\ ready' = ready \cup {d.copy}
      /\ UNCHANGED <<chan, open, stream, dist, work, worker>>
      /\ ~(open /\ d.ch = chan)
  BY DEF Return, Live, chanVars, poolVars
<1>2. EmptyHands' /\ OnePlace' /\ InProcess' = InProcess
  BY <1>0, <1>1, SameHands DEF EmptyHands
<1>3. OneCopy' /\ Numbered'
  BY <1>0, <1>1, <1>2 DEF OneCopy, Numbered
<1>4. Matching'
  BY <1>0, <1>1, <1>2 DEF Matching, Outstanding
<1>5. QED
  BY <1>2, <1>3, <1>4 DEF DeliveryInv

\* A process that dies has nothing in its hands, and its channel is gone.
LEMMA DeathMatches ==
    ASSUME DeliveryInv, Dies
    PROVE  DeliveryInv'
<1>0. OneCopy /\ Numbered /\ Matching
  BY DEF DeliveryInv
<1>1. /\ stream' = {} /\ work' = {} /\ dist' = Selecting
      /\ worker' = [w \in Workers |-> Idle]
      /\ UNCHANGED <<ready, unacked, chan>> /\ ~open'
  BY DEF Dies, brokerVars
<1>2. EmptyHands' /\ OnePlace' /\ InProcess' = {}
  BY <1>1 DEF EmptyHands, OnePlace, InProcess, InWorkers, Selecting, Idle, Local
<1>3. OneCopy' /\ Numbered' /\ Matching'
  BY <1>0, <1>1, <1>2, StillMatching DEF OneCopy
<1>4. QED
  BY <1>2, <1>3 DEF DeliveryInv

\* A lost connection, a shutdown under way, the watcher, and a new start.
LEMMA ProcessMatches ==
    ASSUME IInv, DeliveryInv, Drop \/ Stop \/ Watch \/ Restart
    PROVE  DeliveryInv'
<1>0. EmptyHands /\ OnePlace /\ OneCopy /\ Numbered /\ Matching
  BY DEF DeliveryInv
<1>1. UNCHANGED <<ready, unacked, stream, dist, work, worker>>
  BY DEF Drop, Stop, Watch, Restart, brokerVars, poolVars
<1>2. EmptyHands' /\ OnePlace' /\ InProcess' = InProcess
  BY <1>0, <1>1, SameHands DEF EmptyHands
<1>3. CASE Drop \/ Stop \/ Watch
  <2>1. UNCHANGED chan /\ (open' => open)
    BY <1>3 DEF Drop, Stop, Watch, chanVars
  <2>2. QED
    BY <1>0, <1>1, <1>2, <2>1, StillMatching DEF DeliveryInv, OneCopy
<1>4. CASE Restart
  BY <1>0, <1>1, <1>2, <1>4, NewChannel DEF Restart, DeliveryInv
<1>5. QED
  BY <1>3, <1>4

-----------------------------------------------------------------------------
(* The distributor, and a worker that takes a delivery: hand to hand.      *)

\* A delivery moves from the stream to the work channel or to the distributor.
LEMMA ReceiveMatches ==
    ASSUME IInv, DeliveryInv, NEW d \in stream, Receive(d)
    PROVE  DeliveryInv'
<1>0. EmptyHands /\ OnePlace /\ OneCopy /\ Numbered /\ Matching
  BY DEF DeliveryInv
<1>1. /\ d \in Delivery /\ dist.held = NoDelivery
      /\ stream' = stream \ {d} /\ UNCHANGED <<ready, unacked, chan, open, worker>>
  BY <1>0 DEF IInv, ConsumerTypeOK, EmptyHands, Receive, brokerVars, chanVars
<1>2. \/ work' = work \cup {d} /\ dist' = dist
      \/ work' = work /\ dist'.pc = "handoff" /\ dist'.held = d
  BY DEF Receive, Local
<1>3. d \notin work /\ \A w \in Workers : worker[w].held # d
  BY <1>0, <1>1, NoDeliveryAssumption DEF OnePlace
<1>4. EmptyHands'
  BY <1>0, <1>1, <1>2 DEF EmptyHands
<1>5. NoDelivery \notin stream \cup work
  BY NoDeliveryAssumption DEF IInv, ConsumerTypeOK
<1>6. OnePlace'
  BY <1>0, <1>1, <1>2, <1>3, <1>5, NoDeliveryAssumption DEF OnePlace
<1>7. InProcess' = InProcess
  <2>1. InWorkers' = InWorkers
    BY <1>1 DEF InWorkers
  <2>2. QED
    BY <1>1, <1>2, <2>1, NoDeliveryAssumption DEF InProcess
<1>8. QED
  BY <1>0, <1>1, <1>4, <1>6, <1>7, StillMatching DEF DeliveryInv, OneCopy

\* The distributor hands its delivery over.
LEMMA HandOffMatches ==
    ASSUME IInv, DeliveryInv, HandOff
    PROVE  DeliveryInv'
<1>0. EmptyHands /\ OnePlace /\ OneCopy /\ Numbered /\ Matching
  BY DEF DeliveryInv
<1>1. PICK d : d = dist.held
  OBVIOUS
<1>2. /\ d \in Delivery /\ work' = work \cup {d} /\ dist'.pc = "select" /\ dist'.held = NoDelivery
      /\ UNCHANGED <<ready, unacked, chan, open, stream, worker>>
  BY <1>1 DEF IInv, Holding, HandOff, Selecting, Local, brokerVars, chanVars
<1>3. NoDelivery \notin stream \cup work
  BY NoDeliveryAssumption DEF IInv, ConsumerTypeOK
<1>4. EmptyHands' /\ OnePlace'
  BY <1>0, <1>1, <1>2, <1>3, NoDeliveryAssumption DEF EmptyHands, OnePlace
<1>5. InProcess' = InProcess
  <2>1. InWorkers' = InWorkers
    BY <1>2 DEF InWorkers
  <2>2. QED
    BY <1>1, <1>2, <2>1, NoDeliveryAssumption DEF InProcess
<1>6. QED
  BY <1>0, <1>2, <1>4, <1>5, StillMatching DEF DeliveryInv, OneCopy

\* The distributor's steps.
LEMMA DistributorMatches ==
    ASSUME IInv, DeliveryInv, Distributor
    PROVE  DeliveryInv'
<1>0. EmptyHands /\ OnePlace /\ OneCopy /\ Numbered /\ Matching
  BY DEF DeliveryInv
<1>1. CASE SeeClosed \/ SeeStop
  <2>1. /\ stream' = {} /\ dist'.pc # "handoff" /\ dist'.held = NoDelivery /\ ~open'
        /\ dist.held = NoDelivery
        /\ UNCHANGED <<ready, unacked, chan, work, worker>>
    BY <1>0, <1>1
    DEF SeeClosed, SeeStop, Local, EmptyHands, brokerVars, chanVars, poolVars, mqVars
  <2>2. EmptyHands' /\ OnePlace' /\ InProcess' \subseteq InProcess
    <3>1. InWorkers' = InWorkers
      BY <2>1 DEF InWorkers
    <3>2. QED
      BY <1>0, <2>1, <3>1 DEF EmptyHands, OnePlace, InProcess
  <2>3. QED
    BY <1>0, <2>1, <2>2, StillMatching DEF DeliveryInv, OneCopy
<1>2. CASE Reopen
  <2>1. /\ dist'.pc # "handoff" /\ dist'.held = NoDelivery /\ dist.held = NoDelivery
        /\ chan' = chan + 1 /\ UNCHANGED <<ready, unacked, stream, work, worker>>
    BY <1>0, <1>2 DEF Reopen, Selecting, Local, EmptyHands, brokerVars, poolVars
  <2>2. EmptyHands' /\ OnePlace' /\ InProcess' = InProcess
    BY <1>0, <2>1, SameHands DEF EmptyHands
  <2>3. QED
    BY <1>0, <2>1, <2>2, NewChannel DEF DeliveryInv
<1>3. CASE ReopenFails
  <2>1. /\ dist'.pc # "handoff" /\ dist'.held = NoDelivery /\ dist.held = NoDelivery
        /\ UNCHANGED <<ready, unacked, chan, open, stream, work, worker>>
    BY <1>0, <1>3 DEF ReopenFails, Local, EmptyHands, brokerVars, chanVars, poolVars
  <2>2. EmptyHands' /\ OnePlace' /\ InProcess' = InProcess
    BY <1>0, <2>1, SameHands DEF EmptyHands
  <2>3. QED
    BY <1>0, <2>1, <2>2, StillMatching DEF DeliveryInv, OneCopy
<1>4. CASE DistributorPanics
  BY <1>4, DeathMatches DEF DistributorPanics
<1>5. QED
  BY <1>1, <1>2, <1>3, <1>4, ReceiveMatches, HandOffMatches DEF Distributor

\* A worker takes a delivery from the buffer.
LEMMA PickMatches ==
    ASSUME IInv, DeliveryInv, NEW w \in Workers, NEW d \in work, Pick(w, d) \/ PickFails(w, d)
    PROVE  DeliveryInv'
<1>0. EmptyHands /\ OnePlace /\ OneCopy /\ Numbered /\ Matching
  BY DEF DeliveryInv
<1>1. /\ d \in Delivery /\ worker[w].held = NoDelivery /\ work' = work \ {d}
      /\ worker'[w].held = d /\ worker'[w].pc # "idle"
      /\ \A v \in Workers : v # w => worker'[v] = worker[v]
      /\ UNCHANGED <<ready, unacked, chan, open, stream, dist>>
  BY <1>0 DEF IInv, ConsumerTypeOK, EmptyHands, Pick, PickFails, Taken, Begins, OnError, At,
     Local, brokerVars, chanVars
<1>2. d \notin stream /\ dist.held # d /\ \A v \in Workers : worker[v].held # d
  BY <1>0, <1>1, NoDeliveryAssumption DEF OnePlace
<1>3. EmptyHands'
  BY <1>0, <1>1 DEF EmptyHands
<1>4. OnePlace'
  BY <1>0, <1>1, <1>2, NoDeliveryAssumption DEF OnePlace
<1>5. InProcess' = InProcess
  <2>1. InWorkers' = InWorkers \cup {d}
    BY <1>1, NoDeliveryAssumption DEF InWorkers
  <2>2. QED
    BY <1>1, <2>1 DEF InProcess
<1>6. QED
  BY <1>0, <1>1, <1>3, <1>4, <1>5, StillMatching DEF DeliveryInv, OneCopy

\* One more copy, under its own number, is a copy the broker did not have.
LEMMA NewCopy ==
    ASSUME IInv, NEW c, c.id = FreshId
    PROVE  c \notin Copies
  BY FreshIdType DEF IInv

\* A worker that goes on with its delivery: the broker may get one more copy.
LEMMA GoesOnMatches ==
    ASSUME IInv, DeliveryInv, NEW w \in Workers,
           \/ Commit(w) \/ HandlerFails(w) \/ HandlerCollides(w)
           \/ Refuse(w) \/ HandlerPanics(w)
           \/ Answer(w) \/ AnswerFails(w) \/ File(w) \/ FileFails(w)
    PROVE  DeliveryInv'
<1>0. /\ EmptyHands /\ OnePlace /\ OneCopy /\ Numbered /\ Matching
      /\ worker \in [Workers -> WorkerState]
  BY DEF DeliveryInv, IInv, ConsumerTypeOK
<1>1. UNCHANGED <<chan, open, stream, dist, work, unacked>>
  BY DEF Commit, HandlerFails, HandlerCollides, Refuse, HandlerPanics, Answer, AnswerFails,
         File, FileFails,
         Filed, Unmoved, chanVars, brokerVars
<1>2. /\ worker'[w].held = worker[w].held /\ worker'[w].pc # "idle"
      /\ \A v \in Workers : v # w => worker'[v] = worker[v]
  BY <1>0 DEF Commit, HandlerFails, HandlerCollides, Refuse, HandlerPanics, Answer, AnswerFails,
         File, FileFails,
         Errs, OnError, Recover, Settled, Unsettled, Goto, Local
<1>3. ready' = ready
        \/ ready' = ready \cup {[id |-> FreshId, msg |-> Msg(w), tries |-> Tries(w) + 1]}
  BY DEF Commit, HandlerFails, HandlerCollides, Refuse, HandlerPanics, Answer, AnswerFails,
         File, FileFails,
         Filed, brokerVars
<1>4. \A d \in unacked : d.copy \notin ready'
  <2>1. PICK c : c = [id |-> FreshId, msg |-> Msg(w), tries |-> Tries(w) + 1]
    OBVIOUS
  <2>2. c \notin Copies
    BY <2>1, NewCopy
  <2>3. QED
    BY <1>0, <1>3, <2>1, <2>2 DEF OneCopy, Copies
<1>5. EmptyHands'
  BY <1>0, <1>1, <1>2 DEF EmptyHands
<1>6. OnePlace' /\ InProcess' = InProcess
  BY <1>0, <1>1, <1>2, SameHands
<1>7. QED
  BY <1>0, <1>1, <1>4, <1>5, <1>6, StillMatching DEF DeliveryInv

\* A worker settles its delivery: it leaves the broker and the process at once,
\* or, from an old channel, concerns neither.
LEMMA SettleMatches ==
    ASSUME IInv, DeliveryInv, NEW w \in Workers, Settle(w)
    PROVE  DeliveryInv'
<1>0. /\ EmptyHands /\ OnePlace /\ OneCopy /\ Numbered /\ Matching
      /\ worker \in [Workers -> WorkerState]
  BY DEF DeliveryInv, IInv, ConsumerTypeOK
<1>1. PICK d : d = worker[w].held
  OBVIOUS
<1>2. /\ d \in Delivery /\ worker' = [worker EXCEPT ![w] = Idle]
      /\ UNCHANGED <<chan, open, stream, dist, work>>
  BY <1>1 DEF Settle, IInv, Holding, Unmoved, chanVars
<1>3. /\ worker'[w].held = NoDelivery
      /\ \A v \in Workers : v # w => worker'[v] = worker[v]
  BY <1>0, <1>2 DEF Idle, Local
<1>4. EmptyHands' /\ OnePlace'
  BY <1>0, <1>2, <1>3 DEF EmptyHands, OnePlace
<1>5. InProcess' = InProcess \ {d}
  <2>1. /\ d \notin stream \cup work /\ dist.held # d
        /\ \A v \in Workers : v # w => worker[v].held # d
    BY <1>0, <1>1, <1>2, NoDeliveryAssumption DEF OnePlace
  <2>2. InWorkers' = InWorkers \ {d}
    BY <1>1, <1>3, <2>1 DEF InWorkers
  <2>3. QED
    BY <1>2, <2>1, <2>2 DEF InProcess
<1>6. CASE Live(d)
  <2>1. /\ unacked' = unacked \ {d}
        /\ ready' = ready \/ ready' = ready \cup {d.copy}
    BY <1>1, <1>6 DEF Settle
  <2>2. d \in unacked
    BY <1>0, <1>1, <1>2, <1>6, NoDeliveryAssumption
    DEF Live, Matching, Outstanding, InProcess, InWorkers
  <2>3. OneCopy' /\ Numbered'
    BY <1>0, <1>2, <1>5, <2>1, <2>2 DEF OneCopy, Numbered
  <2>4. Outstanding' = Outstanding \ {d}
    BY <1>2, <2>1 DEF Outstanding
  <2>5. Matching'
    BY <1>0, <1>2, <1>5, <2>4 DEF Matching
  <2>6. QED
    BY <1>4, <2>3, <2>5 DEF DeliveryInv
<1>7. CASE ~Live(d)
  <2>1. UNCHANGED <<ready, unacked>>
    BY <1>1, <1>7 DEF Settle, brokerVars
  <2>2. OneCopy' /\ Numbered'
    BY <1>0, <1>2, <1>5, <2>1 DEF OneCopy, Numbered
  <2>3. open => {x \in InProcess' : x.ch = chan} = {x \in InProcess : x.ch = chan}
    BY <1>5, <1>7 DEF Live
  <2>4. Matching'
    BY <1>0, <1>2, <2>1, <2>3 DEF Matching, Outstanding
  <2>5. QED
    BY <1>4, <2>2, <2>4 DEF DeliveryInv
<1>8. QED
  BY <1>6, <1>7

-----------------------------------------------------------------------------
(* The invariant, and the theorems it gives at once.                       *)

\* Everything is ready and nothing in anybody's hands.
LEMMA DeliveryInit == ConsumerInit => DeliveryInv
  BY DEF ConsumerInit, DeliveryInv, EmptyHands, OnePlace, OneCopy, Numbered, Matching,
     InProcess, InWorkers, Outstanding, Selecting, Idle, Local

\* Step by step.
LEMMA DeliveryNext == IInv /\ DeliveryInv /\ [Next]_vars => DeliveryInv'
<1> SUFFICES ASSUME IInv, DeliveryInv, [Next]_vars
             PROVE  DeliveryInv'
  OBVIOUS
<1>1. CASE UNCHANGED vars
  BY <1>1 DEF DeliveryInv, EmptyHands, OnePlace, OneCopy, Numbered, Matching, InProcess,
     InWorkers, Outstanding, vars
<1>2. CASE Crash \/ WatchPanics \/ Exit
  BY <1>2, DeathMatches DEF Crash, WatchPanics, Exit
<1>3. ASSUME NEW w \in Workers, Work(w)
      PROVE  DeliveryInv'
  BY <1>3, PickMatches, GoesOnMatches, SettleMatches DEF Work
<1>4. QED
  BY <1>1, <1>2, <1>3, DeliverMatches, ReturnMatches, ProcessMatches, DistributorMatches DEF Next

\* ... hence in every reachable state.
LEMMA DeliveryInvariant == Spec => [](IInv /\ DeliveryInv)
  BY InvariantHolds, DeliveryInit, DeliveryNext, PTL DEF Spec

\* consumer.go: every delivery that counts against the prefetch of the open
\* channel is in the process's hands, once, through lost channels, crashes and
\* whatever settles late: none is dropped or settled twice.
THEOREM NoDeliveryLeaks == Spec => []NoLeak
<1>1. DeliveryInv => NoLeak
  BY DEF DeliveryInv, OnePlace, Matching, NoLeak
<1>2. QED
  BY <1>1, DeliveryInvariant, PTL

\* consumerPrefetch >= consumerWorkers, of which there are finitely many.
PrefetchCoversWorkers == IsFiniteSet(Workers) /\ Cardinality(Workers) <= Prefetch

\* What the workers but one hold is less than there are workers.
LEMMA IdleWorkerHasRoom ==
    ASSUME IsFiniteSet(Workers), NEW w \in Workers, NEW S,
           S \subseteq {worker[v].held : v \in Workers \ {w}}
    PROVE  Cardinality(S) < Cardinality(Workers)
<1> DEFINE f == [v \in Workers \ {w} |-> worker[v].held]
           T == {worker[v].held : v \in Workers \ {w}}
<1>1. /\ IsFiniteSet(Workers \ {w}) /\ Cardinality(Workers) \in Nat
      /\ Cardinality(Workers \ {w}) = Cardinality(Workers) - 1
  BY FS_RemoveElement, FS_CardinalityType
<1>2. f \in Surjection(Workers \ {w}, T)
  BY DEF Surjection
<1>3. IsFiniteSet(T) /\ Cardinality(T) <= Cardinality(Workers \ {w})
  BY <1>1, <1>2, FS_Surjection
<1>4. IsFiniteSet(S) /\ Cardinality(S) <= Cardinality(T)
  BY <1>3, FS_Subset
<1>5. Cardinality(S) \in Nat /\ Cardinality(T) \in Nat
  BY <1>3, <1>4, FS_CardinalityType
<1>6. QED
  BY <1>1, <1>3, <1>4, <1>5

\* "prefetch >= consumerWorkers so workers never starve": with that, whatever
\* channels were lost before, a worker that is idle while nothing is on its way
\* is never kept waiting by deliveries nobody holds.
THEOREM WorkersNeverStarve ==
    ASSUME PrefetchCoversWorkers
    PROVE  Spec => []NeverStarved
<1>1. IInv /\ DeliveryInv => NeverStarved
  <2> SUFFICES ASSUME IInv, DeliveryInv, open, stream \cup work = {}, dist.pc = "select",
                      NEW w \in Workers, At(w, "idle")
               PROVE  Cardinality(Outstanding) < Prefetch
    BY DEF NeverStarved
  <2>1. EmptyHands /\ Matching
    BY DEF DeliveryInv
  <2>2. Outstanding \subseteq {worker[v].held : v \in Workers \ {w}}
    <3> SUFFICES ASSUME NEW d \in Outstanding
                 PROVE  \E v \in Workers \ {w} : d = worker[v].held
      OBVIOUS
    <3>1. d \in InWorkers
      BY <2>1 DEF Matching, InProcess, EmptyHands
    <3>2. PICK v \in Workers : d = worker[v].held /\ d # NoDelivery
      BY <3>1 DEF InWorkers
    <3>3. v # w
      BY <2>1, <3>2 DEF EmptyHands, At
    <3>4. QED
      BY <3>2, <3>3
  <2>3. PICK S : S = Outstanding
    OBVIOUS
  <2>4. Cardinality(S) < Cardinality(Workers)
    BY <2>2, <2>3, IdleWorkerHasRoom DEF PrefetchCoversWorkers
  <2>5. IsFiniteSet(S)
    BY <2>3, FS_Subset DEF Outstanding, IInv, Finite
  <2>6. Cardinality(S) \in Nat /\ Cardinality(Workers) \in Nat
    BY <2>5, FS_CardinalityType DEF PrefetchCoversWorkers
  <2>7. QED
    BY <2>3, <2>4, <2>6, ConsumerAssumption DEF PrefetchCoversWorkers
<1>2. QED
  BY <1>1, DeliveryInvariant, PTL

-----------------------------------------------------------------------------
(* Exactly once.                                                           *)

\* A worker is about to acknowledge this copy: it owes nothing any more.
Acking(c) == \E w \in Workers : At(w, "ack") /\ worker[w].held.copy = c

\* A message is settled one way, or there is one copy of it to be handled, or it
\* is a payment on record whose last copy is acknowledged without an answer.
Trail(m) ==
    IF m \in answered \cup dead
    THEN Owed(m) = {} /\ m \notin answered \cap dead
    ELSE (\E c \in Copies : Owed(m) = {c}) \/ (Owed(m) = {} /\ m \in Silent \cap recorded)

\* Nothing has happened to connection, process and channel: every delivery is
\* of the one channel there ever was.
Calm ==
    /\ open /\ proc = "up" /\ ~stopped
    /\ conn = "up" /\ watch = "waiting"
    /\ dist.pc \in {"select", "handoff"}
    /\ \A d \in unacked \cup InProcess : d.ch = chan

\* With IInv and DeliveryInv, inductive.
OnceInv == Undisturbed => Calm /\ \A m \in Msgs : Trail(m)

\* A system that is undisturbed was so before, and no fault of delivery has
\* just occurred.
LEMMA UndisturbedBefore ==
    ASSUME ConnTypeOK, [Next]_vars, Undisturbed'
    PROVE  Undisturbed /\ \A kind \in {"drop", "confirm", "crash", "stop"} : ~ Spend(kind)
<1>1. \A kind \in Kinds : Spent(kind) \in Nat /\ Spent(kind)' \in Nat /\ Spent(kind) <= Spent(kind)'
  BY SpentGrows
<1>2. {"drop", "confirm", "crash", "stop"} \subseteq Kinds \ {"any"}
  BY DEF Kinds
<1>3. \A kind \in {"drop", "confirm", "crash", "stop"} : Spent(kind)' = 0
  BY DEF Undisturbed
<1>4. Undisturbed
  BY <1>1, <1>2, <1>3 DEF Undisturbed
<1>5. ASSUME NEW kind \in {"drop", "confirm", "crash", "stop"}, Spend(kind)
      PROVE  FALSE
  <2>1. Spent(kind)' = Spent(kind) + 1
    BY <1>2, <1>5, SpentOne
  <2>2. QED
    BY <1>1, <1>2, <1>3, <2>1
<1>6. QED
  BY <1>4, <1>5

\* What can happen then.
CalmStep ==
    \/ \E c \in ready : Deliver(c)
    \/ (\E d \in stream : Receive(d)) \/ HandOff
    \/ \E w \in Workers :
          \/ \E d \in work : Pick(w, d) \/ PickFails(w, d)
          \/ Commit(w) \/ HandlerFails(w) \/ HandlerCollides(w)
          \/ Refuse(w) \/ HandlerPanics(w)
          \/ Answer(w) \/ File(w) \/ Settle(w)

\* No step depends on a fault of delivery but those that follow one.
LEMMA CalmSteps ==
    ASSUME Calm, [Next]_vars,
           \A kind \in {"drop", "confirm", "crash", "stop"} : ~ Spend(kind)
    PROVE  CalmStep \/ UNCHANGED vars
<1>1. ~ Drop /\ ~ Crash /\ ~ Stop /\ ~ Unconfirmed
  BY DEF Drop, Crash, Stop, Unconfirmed
<1>2. ~ WatchPanics /\ ~ Exit /\ ~ Restart /\ ~ Watch
  BY DEF Calm, WatchPanics, Exit, Restart, Watch, Notice, DialSucceeds, DialFails
<1>3. \A d \in unacked : ~ Return(d)
  BY DEF Calm, Return, Live
<1>4. ~ SeeClosed /\ ~ Reopen /\ ~ ReopenFails /\ ~ DistributorPanics /\ ~ SeeStop
  BY DEF Calm, SeeClosed, Reopen, ReopenFails, DistributorPanics, SeeStop
<1>5. \A w \in Workers : ~ AnswerFails(w) /\ ~ FileFails(w)
  BY <1>1 DEF Calm, AnswerFails, FileFails, Unsent, NoChannel
<1>6. QED
  BY <1>1, <1>2, <1>3, <1>4, <1>5 DEF Next, Distributor, Work, CalmStep

\* The calm goes on.
LEMMA CalmStays ==
    ASSUME IInv, DeliveryInv, DeliveryInv', Calm, CalmStep
    PROVE  Calm'
<1>1. UNCHANGED <<open, proc, stopped, conn, watch, chan>>
  BY DEF CalmStep, Deliver, Receive, HandOff, Pick, PickFails, Taken, Commit, HandlerFails,
     HandlerCollides, Refuse, HandlerPanics, Answer, File, Settle, Unmoved, mqVars, chanVars,
     procVars
<1>2. dist'.pc \in {"select", "handoff"}
  BY DEF Calm, CalmStep, Deliver, Receive, HandOff, Pick, PickFails, Taken, Commit, HandlerFails,
     HandlerCollides, Refuse, HandlerPanics, Answer, File, Settle, Unmoved, Selecting, Local
<1>3. \A d \in unacked' : d.ch = chan
  <2>1. CASE unacked' \subseteq unacked
    BY <2>1 DEF Calm
  <2>2. ASSUME NEW c \in ready, Deliver(c)
        PROVE  \A d \in unacked' : d.ch = chan
    BY <2>2 DEF Calm, Deliver
  <2>3. QED
    BY <2>1, <2>2 DEF CalmStep, Receive, HandOff, Pick, PickFails, Taken, Commit,
       HandlerFails, HandlerCollides, Refuse, HandlerPanics, Answer, File, Settle, Filed,
       brokerVars
<1>4. \A d \in InProcess' : d.ch = chan
  <2>1. CASE InProcess' \subseteq InProcess
    BY <2>1 DEF Calm
  <2>2. ASSUME NEW c \in ready, Deliver(c)
        PROVE  \A d \in InProcess' : d.ch = chan
    <3>1. PICK e : e = [ch |-> chan, copy |-> c]
      OBVIOUS
    <3>2. InProcess' = InProcess \cup {e} /\ e.ch = chan
      BY <2>2, <3>1 DEF Deliver, InProcess, InWorkers, poolVars
    <3>3. QED
      BY <3>2 DEF Calm
  <2>3. ASSUME ~ \E c \in ready : Deliver(c)
        PROVE  InProcess' \subseteq InProcess
    <3>1. worker \in [Workers -> WorkerState]
      BY DEF IInv, ConsumerTypeOK
    <3>2. CASE (\E d \in stream : Receive(d)) \/ HandOff
      <4>1. UNCHANGED worker /\ InWorkers' = InWorkers
        BY <3>2 DEF Receive, HandOff, InWorkers
      <4>2. ASSUME NEW d \in stream, Receive(d)
            PROVE  /\ stream' \subseteq stream /\ work' \subseteq work \cup {d}
                   /\ dist'.held \in {dist.held, d}
        BY <4>2 DEF Receive, Local
      <4>3. ASSUME HandOff
            PROVE  /\ stream' = stream /\ work' = work \cup {dist.held}
                   /\ dist'.held = NoDelivery /\ dist.held # NoDelivery
        BY <4>3, NoDeliveryAssumption DEF HandOff, Selecting, Local, IInv, Holding
      <4>4. ASSUME NEW d \in stream, Receive(d)
            PROVE  InProcess' \subseteq InProcess
        BY <4>1, <4>2, <4>4 DEF InProcess
      <4>5. CASE HandOff
        BY <4>1, <4>3, <4>5 DEF InProcess
      <4>6. QED
        BY <3>2, <4>4, <4>5
    <3>3. ASSUME NEW w \in Workers, NEW d \in work, Pick(w, d) \/ PickFails(w, d)
          PROVE  InProcess' \subseteq InProcess
      <4>1. InWorkers' \subseteq InWorkers \cup {d} /\ UNCHANGED <<stream, dist>> /\ work' \subseteq work
        BY <3>1, <3>3 DEF Pick, PickFails, Taken, InWorkers, Local
      <4>2. QED
        BY <4>1 DEF InProcess
    <3>4. ASSUME NEW w \in Workers,
                 \/ Commit(w) \/ HandlerFails(w) \/ HandlerCollides(w)
                 \/ Refuse(w) \/ HandlerPanics(w)
                 \/ Answer(w) \/ File(w) \/ Settle(w)
          PROVE  InProcess' \subseteq InProcess
      <4>1. UNCHANGED <<stream, dist, work>>
        BY <3>4 DEF Commit, HandlerFails, HandlerCollides, Refuse, HandlerPanics, Answer, File,
           Settle, Unmoved
      <4>2. \A v \in Workers : worker'[v].held \in {worker[v].held, NoDelivery}
        BY <3>1, <3>4 DEF Commit, HandlerFails, HandlerCollides, Refuse, HandlerPanics,
           Answer, File, Settle, Errs, Recover, Settled, Goto, Idle, Local
      <4>3. InWorkers' \subseteq InWorkers
        BY <4>2 DEF InWorkers
      <4>4. QED
        BY <4>1, <4>3 DEF InProcess
    <3>5. QED
      BY <2>3, <3>2, <3>3, <3>4 DEF CalmStep
  <2>4. QED
    BY <2>1, <2>2, <2>3
<1>5. QED
  BY <1>1, <1>2, <1>3, <1>4 DEF Calm

\* In the calm, a worker at work holds a delivery the broker waits to hear of,
\* and no other worker has the same copy.
LEMMA CalmHeld ==
    ASSUME IInv, DeliveryInv, Calm, NEW w \in Workers, ~ At(w, "idle")
    PROVE  /\ worker[w].held \in unacked /\ Live(worker[w].held)
           /\ worker[w].held.copy \in Copies /\ worker[w].held.copy \notin ready
           /\ worker[w].held.copy.msg = Msg(w) /\ Msg(w) \in Msgs
           /\ \A v \in Workers : v # w /\ ~ At(v, "idle") =>
                  worker[v].held.copy # worker[w].held.copy
<1>1. ASSUME NEW v \in Workers, ~ At(v, "idle")
      PROVE  worker[v].held \in unacked /\ worker[v].held \in Delivery /\ Live(worker[v].held)
  <2>1. worker[v].held \in Delivery
    BY <1>1, HeldType
  <2>2. worker[v].held \in InProcess
    BY <2>1, NoDeliveryAssumption DEF InProcess, InWorkers
  <2>3. QED
    BY <2>1, <2>2 DEF DeliveryInv, Matching, Outstanding, Calm, Live
<1>2. worker[w].held.copy \in Copies /\ worker[w].held.copy \notin ready
  BY <1>1 DEF Copies, DeliveryInv, OneCopy
<1>3. ASSUME NEW v \in Workers, v # w, ~ At(v, "idle"), worker[v].held.copy = worker[w].held.copy
      PROVE  FALSE
  <2>1. worker[v].held = worker[w].held
    BY <1>1, <1>3 DEF DeliveryInv, OneCopy
  <2>2. QED
    BY <1>1, <1>3, <2>1, NoDeliveryAssumption DEF DeliveryInv, OnePlace
<1>4. QED
  BY <1>1, <1>2, <1>3, HeldType DEF Msg

\* Copies, acknowledgements and outcomes as they were, so is the trail.
LEMMA TrailStays ==
    ASSUME NEW m \in Msgs, Trail(m),
           \A c : c.msg = m => (c \in Copies' /\ ~ Acking(c)' <=> c \in Copies /\ ~ Acking(c)),
           m \in answered' <=> m \in answered, m \in dead' <=> m \in dead,
           m \in recorded => m \in recorded'
    PROVE  Trail(m)'
<1>1. Owed(m) = {c \in Copies : c.msg = m /\ ~ Acking(c)}
  BY DEF Owed, CopiesOf, Acking
<1>2. Owed(m)' = {c \in Copies' : c.msg = m /\ ~ Acking(c)'}
  BY DEF Owed, CopiesOf, Acking
<1>3. Owed(m)' = Owed(m)
  BY <1>1, <1>2
<1>4. QED
  BY <1>1, <1>2, <1>3 DEF Trail

\* What a worker has still to decide about is all that is owed for its message.
LEMMA OwesOne ==
    ASSUME IInv, DeliveryInv, Calm, NEW w \in Workers, ~ At(w, "idle"), ~ At(w, "ack"),
           Trail(Msg(w))
    PROVE  Owed(Msg(w)) = {worker[w].held.copy} /\ Msg(w) \notin answered \cup dead
<1>1. PICK c : c = worker[w].held.copy
  OBVIOUS
<1>2. /\ c \in Copies /\ c.msg = Msg(w)
      /\ \A v \in Workers : v # w /\ ~ At(v, "idle") => worker[v].held.copy # c
  BY <1>1, CalmHeld
<1>3. \A v \in Workers : At(v, "ack") => worker[v].held.copy # c
  BY <1>2 DEF At
<1>4. c \in Owed(Msg(w))
  BY <1>2, <1>3 DEF Owed, CopiesOf
<1>5. QED
  BY <1>1, <1>4 DEF Trail

\* Nobody begins or ends to acknowledge.
LEMMA AckingStays ==
    ASSUME \A v \in Workers : /\ At(v, "ack")' <=> At(v, "ack")
                              /\ At(v, "ack") => worker'[v].held = worker[v].held,
           NEW c
    PROVE  Acking(c)' <=> Acking(c)
  BY DEF Acking

\* A worker takes a delivery that it will handle, answer or file.
Picks(w, d) ==
    \/ Pick(w, d) /\ Begins(d.copy.msg) # "ack"
    \/ PickFails(w, d)

\* A delivery changes hands, or a worker goes on without an acknowledgement.
LEMMA HandsKeepTrail ==
    ASSUME IInv, NEW m \in Msgs, Trail(m),
           \/ \E c \in ready : Deliver(c)
           \/ (\E d \in stream : Receive(d)) \/ HandOff
           \/ \E w \in Workers :
                 \/ \E d \in work : Picks(w, d)
                 \/ Commit(w) \/ HandlerFails(w) \/ HandlerCollides(w)
                 \/ Refuse(w) \/ HandlerPanics(w)
    PROVE  Trail(m)'
<1>0. worker \in [Workers -> WorkerState]
  BY DEF IInv, ConsumerTypeOK
<1>1. Copies' = Copies
  <2>1. ASSUME NEW c \in ready, Deliver(c)
        PROVE  Copies' = Copies
    <3>1. PICK d : d = [ch |-> chan, copy |-> c]
      OBVIOUS
    <3>2. ready' = ready \ {c} /\ unacked' = unacked \cup {d} /\ d.copy = c
      BY <2>1, <3>1 DEF Deliver
    <3>3. QED
      BY <2>1, <3>2 DEF Copies
  <2>2. CASE UNCHANGED <<ready, unacked>>
    BY <2>2 DEF Copies
  <2>3. QED
    BY <2>1, <2>2 DEF Receive, HandOff, Picks, Pick, PickFails, Taken, Commit, HandlerFails,
       HandlerCollides, Refuse, HandlerPanics, brokerVars
<1>2. UNCHANGED <<answered, dead>> /\ recorded \subseteq recorded'
  BY DEF Deliver, Receive, HandOff, Picks, Pick, PickFails, Taken, Commit, HandlerFails,
     HandlerCollides, Refuse, HandlerPanics, MayRecord, brokerVars, outcomes
<1>3. \A v \in Workers : /\ At(v, "ack")' <=> At(v, "ack")
                         /\ At(v, "ack") => worker'[v].held = worker[v].held
  <2>1. CASE UNCHANGED worker
    BY <2>1 DEF At
  <2>2. ASSUME NEW w \in Workers,
               \/ \E d \in work : Picks(w, d)
               \/ Commit(w) \/ HandlerFails(w) \/ HandlerCollides(w)
               \/ Refuse(w) \/ HandlerPanics(w)
        PROVE  /\ \A v \in Workers : v # w => worker'[v] = worker[v]
               /\ worker[w].pc # "ack" /\ worker'[w].pc # "ack"
    BY <1>0, <2>2 DEF Picks, Pick, PickFails, Taken, OnError, Commit, HandlerFails,
       HandlerCollides, Refuse, HandlerPanics, Errs, Recover, Goto, Local, At
  <2>3. QED
    BY <2>1, <2>2 DEF Deliver, Receive, HandOff, poolVars, At
<1>4. \A c : Acking(c)' <=> Acking(c)
  BY <1>3, AckingStays
<1>5. QED
  BY <1>1, <1>2, <1>4, TrailStays

\* A worker comes to acknowledge what is answered or buried: nothing is owed.
LEMMA DoneKeepsTrail ==
    ASSUME IInv, DeliveryInv, Calm, \A m \in Msgs : Trail(m),
           NEW w \in Workers, Answer(w) \/ (File(w) /\ At(w, "bury")), NEW n \in Msgs
    PROVE  Trail(n)'
<1>0. worker \in [Workers -> WorkerState] /\ ~ At(w, "idle") /\ ~ At(w, "ack")
  BY DEF IInv, ConsumerTypeOK, Answer, File, At
<1>1. PICK c, m : c = worker[w].held.copy /\ m = Msg(w)
  OBVIOUS
<1>2. m \in Msgs /\ c.msg = m /\ c \in Copies
  BY <1>0, <1>1, CalmHeld
<1>3. Owed(m) = {c} /\ m \notin answered \cup dead
  BY <1>0, <1>1, <1>2, OwesOne
<1>4. /\ worker'[w].pc = "ack" /\ worker'[w].held.copy = c
      /\ \A v \in Workers : v # w => worker'[v] = worker[v]
  BY <1>0, <1>1 DEF Answer, File, Settled, Goto, Local
<1>5. /\ UNCHANGED <<ready, unacked>>
      /\ \/ answered' = answered \cup {m} /\ dead' = dead
         \/ answered' = answered /\ dead' = dead \cup {m}
      /\ recorded' = recorded
  BY <1>1 DEF Answer, File, Filed, At, brokerVars, outcomes
<1>6. Copies' = Copies
  BY <1>5 DEF Copies
<1>7. \A x : Acking(x)' <=> Acking(x) \/ x = c
  BY <1>0, <1>4 DEF Acking, At
<1>8. CASE n # m
  BY <1>2, <1>5, <1>6, <1>7, <1>8, TrailStays
<1>9. CASE n = m
  <2>1. Owed(m)' = {x \in Copies' : x.msg = m /\ ~ Acking(x)'}
    BY DEF Owed, CopiesOf, Acking
  <2>2. Owed(m) = {x \in Copies : x.msg = m /\ ~ Acking(x)}
    BY DEF Owed, CopiesOf, Acking
  <2>3. Owed(m)' = {}
    BY <1>3, <1>6, <1>7, <2>1, <2>2
  <2>4. m \in answered' \cup dead' /\ m \notin answered' \cap dead'
    BY <1>3, <1>5
  <2>5. QED
    BY <1>9, <2>3, <2>4 DEF Trail
<1>10. QED
  BY <1>8, <1>9

\* A worker comes to acknowledge what it has sent to the retry queue: the new
\* copy is what is owed.
LEMMA RetryKeepsTrail ==
    ASSUME IInv, DeliveryInv, Calm, \A m \in Msgs : Trail(m),
           NEW w \in Workers, File(w), At(w, "retry"), NEW n \in Msgs
    PROVE  Trail(n)'
<1>0. worker \in [Workers -> WorkerState] /\ ~ At(w, "idle") /\ ~ At(w, "ack")
  BY DEF IInv, ConsumerTypeOK, At
<1>1. PICK c, m : c = worker[w].held.copy /\ m = Msg(w)
  OBVIOUS
<1>2. PICK k : k = [id |-> FreshId, msg |-> Msg(w), tries |-> Tries(w) + 1]
  OBVIOUS
<1>3. m \in Msgs /\ c.msg = m /\ c \in Copies
  BY <1>0, <1>1, CalmHeld
<1>4. Owed(m) = {c} /\ m \notin answered \cup dead
  BY <1>0, <1>1, <1>3, OwesOne
<1>5. k \notin Copies /\ k.msg = m
  BY <1>1, <1>2, NewCopy
<1>6. /\ worker'[w].pc = "ack" /\ worker'[w].held.copy = c
      /\ \A v \in Workers : v # w => worker'[v] = worker[v]
  BY <1>0, <1>1 DEF File, Settled, Goto, Local
<1>7. ready' = ready \cup {k} /\ UNCHANGED <<unacked, answered, dead, recorded>>
  BY <1>2 DEF File, Filed, outcomes
<1>8. Copies' = Copies \cup {k}
  BY <1>7 DEF Copies
<1>9. \A x : Acking(x)' <=> Acking(x) \/ x = c
  BY <1>0, <1>6 DEF Acking, At
<1>10. \A x : Acking(x) => x \in Copies
  <2>1. \A v \in Workers : At(v, "ack") => ~ At(v, "idle")
    BY DEF At
  <2>2. QED
    BY <2>1, CalmHeld DEF Acking
<1>11. CASE n # m
  BY <1>3, <1>5, <1>7, <1>8, <1>9, <1>11, TrailStays
<1>12. CASE n = m
  <2>1. Owed(m)' = {x \in Copies' : x.msg = m /\ ~ Acking(x)'}
    BY DEF Owed, CopiesOf, Acking
  <2>2. Owed(m) = {x \in Copies : x.msg = m /\ ~ Acking(x)}
    BY DEF Owed, CopiesOf, Acking
  <2>3. Owed(m)' = {k} /\ k \in Copies'
    BY <1>3, <1>4, <1>5, <1>8, <1>9, <1>10, <2>1, <2>2
  <2>4. QED
    BY <1>4, <1>7, <1>12, <2>3 DEF Trail
<1>13. QED
  BY <1>11, <1>12

\* What a worker settles was accounted for when it came to acknowledge; what it
\* requeues is the same copy, and what it rejects is a dead letter.
LEMMA SettleKeepsTrail ==
    ASSUME IInv, DeliveryInv, Calm, \A m \in Msgs : Trail(m),
           NEW w \in Workers, Settle(w), NEW n \in Msgs
    PROVE  Trail(n)'
<1>0. worker \in [Workers -> WorkerState] /\ ~ At(w, "idle")
  BY DEF IInv, ConsumerTypeOK, Settle, At
<1>1. PICK d, c, m : d = worker[w].held /\ c = d.copy /\ m = Msg(w)
  OBVIOUS
<1>2. /\ d \in unacked /\ Live(d) /\ c \notin ready /\ c \in Copies
      /\ m \in Msgs /\ c.msg = m
      /\ \A v \in Workers : v # w /\ ~ At(v, "idle") => worker[v].held.copy # c
  BY <1>0, <1>1, CalmHeld
<1>3. /\ worker'[w].pc = "idle" /\ \A v \in Workers : v # w => worker'[v] = worker[v]
      /\ unacked' = unacked \ {d} /\ answered' = answered /\ recorded' = recorded
  BY <1>0, <1>1, <1>2 DEF Settle, Idle, Local, outcomes
<1>4. \A e \in unacked : e # d => e.copy # c
  BY <1>1, <1>2 DEF DeliveryInv, OneCopy
<1>5. \A x : x # c => (Acking(x)' <=> Acking(x))
  BY <1>0, <1>1, <1>3 DEF Acking, At
<1>6. \A v \in Workers : v # w => (At(v, "ack")' <=> At(v, "ack")) /\ ~ At(w, "ack")'
  BY <1>3 DEF At
<1>7. CASE At(w, "requeue")
  <2>1. ready' = ready \cup {c} /\ dead' = dead
    BY <1>1, <1>2, <1>7 DEF Settle, At
  <2>2. Copies' = Copies
    BY <1>1, <1>2, <1>3, <2>1 DEF Copies
  <2>3. ~ Acking(c) /\ ~ Acking(c)'
    BY <1>2, <1>3, <1>7 DEF Acking, At
  <2>4. QED
    BY <1>3, <1>5, <2>1, <2>2, <2>3, TrailStays
<1>8. CASE ~ At(w, "requeue")
  <2>1. ready' = ready /\ dead' = IF At(w, "reject") THEN dead \cup {m} ELSE dead
    BY <1>1, <1>2, <1>8 DEF Settle
  <2>2. Copies' = Copies \ {c}
    BY <1>1, <1>2, <1>3, <1>4, <2>1 DEF Copies
  <2>3. CASE At(w, "ack")
    <3>1. Acking(c) /\ dead' = dead
      BY <1>1, <2>1, <2>3 DEF Acking, At
    <3>2. QED
      BY <1>3, <1>5, <2>2, <3>1, TrailStays
  <2>4. CASE At(w, "reject")
    <3>1. dead' = dead \cup {m} /\ ~ At(w, "ack")
      BY <2>1, <2>4 DEF At
    <3>2. Owed(m) = {c} /\ m \notin answered \cup dead
      BY <1>0, <1>1, <1>2, <3>1, OwesOne
    <3>3. CASE n # m
      BY <1>2, <1>3, <1>5, <2>2, <3>1, <3>3, TrailStays
    <3>4. CASE n = m
      <4>1. Owed(m)' = {x \in Copies' : x.msg = m /\ ~ Acking(x)'}
        BY DEF Owed, CopiesOf, Acking
      <4>2. Owed(m) = {x \in Copies : x.msg = m /\ ~ Acking(x)}
        BY DEF Owed, CopiesOf, Acking
      <4>3. Owed(m)' = {}
        BY <1>5, <2>2, <3>2, <4>1, <4>2
      <4>4. QED
        BY <1>3, <3>1, <3>2, <3>4, <4>3 DEF Trail
    <3>5. QED
      BY <3>3, <3>4
  <2>5. QED
    BY <1>8, <2>3, <2>4 DEF Settle, At
<1>9. QED
  BY <1>7, <1>8

\* A payment on record is taken to be acknowledged at once: its copy was the one
\* owed, and it leaves a record.
LEMMA SkipKeepsTrail ==
    ASSUME IInv, DeliveryInv, Calm, \A m \in Msgs : Trail(m),
           NEW w \in Workers, NEW d \in work, Pick(w, d), Begins(d.copy.msg) = "ack",
           NEW n \in Msgs
    PROVE  Trail(n)'
<1>0. worker \in [Workers -> WorkerState] /\ d \in Delivery /\ At(w, "idle")
  BY DEF IInv, ConsumerTypeOK, Pick, Taken
<1>1. PICK c, m : c = d.copy /\ m = d.copy.msg
  OBVIOUS
<1>2. d \in unacked
  BY <1>0, NoDeliveryAssumption DEF DeliveryInv, Matching, Outstanding, Calm, InProcess
<1>3. m \in Msgs /\ c.msg = m /\ c \in Copies
  BY <1>0, <1>1, <1>2 DEF Delivery, Copy, Copies
<1>4. m \in Silent \cap recorded
  BY <1>1 DEF Begins
<1>5. \A v \in Workers : At(v, "ack") => worker[v].held.copy # c
  <2> SUFFICES ASSUME NEW v \in Workers, At(v, "ack"), worker[v].held.copy = c
               PROVE  FALSE
    OBVIOUS
  <2>1. ~ At(v, "idle")
    BY DEF At
  <2>2. worker[v].held \in unacked
    BY <2>1, CalmHeld
  <2>3. worker[v].held = d
    BY <1>1, <1>2, <2>2 DEF DeliveryInv, OneCopy
  <2>4. QED
    BY <1>0, <2>3, NoDeliveryAssumption DEF DeliveryInv, OnePlace
<1>6. c \in Owed(m)
  BY <1>3, <1>5 DEF Owed, CopiesOf
<1>7. Owed(m) = {c} /\ m \notin answered \cup dead
  BY <1>3, <1>6 DEF Trail
<1>8. /\ worker'[w].pc = "ack" /\ worker'[w].held.copy = c
      /\ \A v \in Workers : v # w => worker'[v] = worker[v]
  BY <1>0, <1>1 DEF Pick, Taken, Local
<1>9. UNCHANGED <<ready, unacked, dead, answered, recorded>>
  BY DEF Pick, Taken, brokerVars, outcomes
<1>10. Copies' = Copies
  BY <1>9 DEF Copies
<1>11. \A x : Acking(x)' <=> Acking(x) \/ x = c
  BY <1>0, <1>8 DEF Acking, At
<1>12. CASE n # m
  BY <1>3, <1>9, <1>10, <1>11, <1>12, TrailStays
<1>13. CASE n = m
  <2>1. Owed(m)' = {x \in Copies' : x.msg = m /\ ~ Acking(x)'}
    BY DEF Owed, CopiesOf, Acking
  <2>2. Owed(m) = {x \in Copies : x.msg = m /\ ~ Acking(x)}
    BY DEF Owed, CopiesOf, Acking
  <2>3. Owed(m)' = {}
    BY <1>7, <1>10, <1>11, <2>1, <2>2
  <2>4. QED
    BY <1>4, <1>7, <1>9, <1>13, <2>3 DEF Trail
<1>14. QED
  BY <1>12, <1>13

\* Every step of the calm keeps the trail of every message.
LEMMA TrailNext ==
    ASSUME IInv, DeliveryInv, Calm, \A m \in Msgs : Trail(m), CalmStep, NEW n \in Msgs
    PROVE  Trail(n)'
<1>1. ASSUME NEW w \in Workers, File(w)
      PROVE  Trail(n)'
  BY <1>1, DoneKeepsTrail, RetryKeepsTrail DEF File, Filing
<1>2. ASSUME NEW w \in Workers, Answer(w) \/ Settle(w)
      PROVE  Trail(n)'
  BY <1>2, DoneKeepsTrail, SettleKeepsTrail
<1>3. ASSUME NEW w \in Workers, NEW d \in work, Pick(w, d), Begins(d.copy.msg) = "ack"
      PROVE  Trail(n)'
  BY <1>3, SkipKeepsTrail
<1>4. ASSUME ~ \E w \in Workers : Answer(w) \/ File(w) \/ Settle(w),
             ~ \E w \in Workers, d \in work : Pick(w, d) /\ Begins(d.copy.msg) = "ack"
      PROVE  Trail(n)'
  BY <1>4, HandsKeepTrail DEF CalmStep, Picks
<1>5. QED
  BY <1>1, <1>2, <1>3, <1>4

\* At the start every message has its one copy.
LEMMA OnceInit == ConsumerInit => OnceInv
<1> SUFFICES ASSUME ConsumerInit
             PROVE  OnceInv
  OBVIOUS
<1>1. Calm
  BY DEF ConsumerInit, ConnInit, Calm, InProcess, InWorkers, Selecting, Idle, Local
<1>2. ready = {First(m) : m \in Msgs}
  BY DEF ConsumerInit
<1>3. Copies = ready /\ \A c : ~ Acking(c)
  BY DEF ConsumerInit, Copies, Acking, At, Idle, Local
<1>4. ASSUME NEW m \in Msgs
      PROVE  Trail(m)
  <2>1. PICK k : k = First(m)
    OBVIOUS
  <2>2. k \in Copies /\ k.msg = m
    BY <1>2, <1>3, <2>1 DEF First
  <2>3. \A c \in Copies : c.msg = m => c = k
    BY <1>2, <1>3, <2>1 DEF First
  <2>4. Owed(m) = {c \in Copies : c.msg = m /\ ~ Acking(c)}
    BY DEF Owed, CopiesOf, Acking
  <2>5. Owed(m) = {k}
    BY <1>3, <2>2, <2>3, <2>4
  <2>6. QED
    BY <2>2, <2>5 DEF Trail, ConsumerInit
<1>5. QED
  BY <1>1, <1>4 DEF OnceInv

\* Step by step.
LEMMA OnceNext == IInv /\ DeliveryInv /\ DeliveryInv' /\ OnceInv /\ [Next]_vars => OnceInv'
<1> SUFFICES ASSUME IInv, DeliveryInv, DeliveryInv', OnceInv, [Next]_vars, Undisturbed'
             PROVE  Calm' /\ \A m \in Msgs : Trail(m)'
  BY DEF OnceInv
<1>1. Undisturbed /\ \A kind \in {"drop", "confirm", "crash", "stop"} : ~ Spend(kind)
  BY UndisturbedBefore DEF IInv, ConsumerTypeOK
<1>2. Calm /\ \A m \in Msgs : Trail(m)
  BY <1>1 DEF OnceInv
<1>3. CASE CalmStep
  BY <1>2, <1>3, CalmStays, TrailNext
<1>4. CASE UNCHANGED vars
  <2>1. Calm'
    BY <1>2, <1>4 DEF vars, Calm, InProcess, InWorkers
  <2>2. \A m \in Msgs : Trail(m)'
    BY <1>2, <1>4 DEF vars, Trail, Owed, CopiesOf, Copies, At
  <2>3. QED
    BY <2>1, <2>2
<1>5. QED
  BY <1>1, <1>2, <1>3, <1>4, CalmSteps

\* ... hence in every reachable state.
LEMMA OnceInvariant == Spec => []OnceInv
  BY DeliveryInvariant, OnceInit, OnceNext, PTL DEF Spec

\* dispatchMsg and amqpretry: while no connection, confirmation or process was
\* lost, errors, retries and panics repeat nothing: a message is answered, or a
\* dead letter, or has one copy to be handled, whatever the workers interleave.
THEOREM HandledExactlyOnce == Spec => []ExactlyOnce
<1>1. OnceInv => ExactlyOnce
  <2> SUFFICES ASSUME OnceInv, Undisturbed, NEW m \in Msgs
               PROVE  IF m \in answered \cup dead
                      THEN Owed(m) = {} /\ m \notin answered \cap dead
                      ELSE \/ Cardinality(Owed(m)) = 1
                           \/ Owed(m) = {} /\ m \in Silent \cap recorded
    BY DEF ExactlyOnce
  <2>1. Trail(m)
    BY DEF OnceInv
  <2>2. CASE m \in answered \cup dead
    BY <2>1, <2>2 DEF Trail
  <2>3. CASE m \notin answered \cup dead
    <3>1. ASSUME NEW c \in Copies, Owed(m) = {c}
          PROVE  Cardinality(Owed(m)) = 1
      BY <3>1, FS_Singleton
    <3>2. QED
      BY <2>1, <2>3, <3>1 DEF Trail
  <2>4. QED
    BY <2>2, <2>3
<1>2. QED
  BY OnceInvariant, <1>1, PTL
=============================================================================
