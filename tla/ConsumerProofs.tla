--------------------------- MODULE ConsumerProofs ---------------------------
(***************************************************************************)
(* For any number of messages, workers and faults and any value of the     *)
(* bounds in the code, the consumer loses no message and implements        *)
(* AtLeastOnce.                                                            *)
(***************************************************************************)
EXTENDS Consumer, FiniteSetTheorems, TLAPS

-----------------------------------------------------------------------------
(* The inductive invariant.                                                *)

\* Who is at work holds a delivery, and a retry has retries left.
Holding ==
    /\ \A w \in Workers :
          /\ worker[w].pc # "idle" => worker[w].held \in Delivery
          /\ worker[w].pc = "retry" => Tries(w) < MaxRetries
    /\ dist.pc = "handoff" => dist.held \in Delivery

Finite == IsFiniteSet(ready) /\ IsFiniteSet(unacked)

\* Something remains of message m other than its copies with at most t tries.
Remains(m, t) == m \in Accounted \/ \E c \in Copies : c.msg = m /\ c.tries > t

\* A worker acknowledges only what was answered, buried or copied with its retry
\* count raised.  The count is what keeps two workers from relying on each other.
Evidence == \A w \in Workers : At(w, "ack") => Remains(Msg(w), Tries(w))

IInv == ConsumerTypeOK /\ Holding /\ Finite /\ Evidence /\ NothingLost

-----------------------------------------------------------------------------
(* A fresh copy.                                                           *)

\* A set of numbers with a finite source leaves one of 1..n+1 unused.
LEMMA UnusedNumber ==
    ASSUME NEW S, IsFiniteSet(S)
    PROVE  \E n \in 1..(Cardinality(S) + 1) : n \notin S
<1>1. Cardinality(S) \in Nat
  BY FS_CardinalityType
<1> DEFINE I == 1..(Cardinality(S) + 1)
<1>2. IsFiniteSet(I) /\ Cardinality(I) = Cardinality(S) + 1
  <2>1. 1 \in Int /\ Cardinality(S) + 1 \in Int
    BY <1>1
  <2>2. QED
    BY <1>1, <2>1, FS_Interval
<1>3. ASSUME I \subseteq S
      PROVE  FALSE
  <2>1. Cardinality(I) <= Cardinality(S)
    BY <1>3, FS_Subset
  <2>2. QED
    BY <1>1, <1>2, <2>1
<1>4. QED
  BY <1>3

\* The image of a finite set under a function is finite.
LEMMA FiniteImage ==
    ASSUME NEW S, IsFiniteSet(S), NEW f, DOMAIN f = S, f \in [S -> {f[x] : x \in S}]
    PROVE  IsFiniteSet({f[x] : x \in S})
<1>1. f \in Surjection(S, {f[x] : x \in S})
  BY DEF Surjection
<1>2. QED
  BY <1>1, FS_Surjection

\* The number of one more copy is a positive natural that no copy has.
LEMMA FreshIdType ==
    ASSUME Finite
    PROVE  FreshId \in Nat \ {0} /\ \A c \in Copies : c.id # FreshId
<1> DEFINE f == [d \in unacked |-> d.copy]
           g == [c \in Copies |-> c.id]
           used == {c.id : c \in Copies}
<1>1. IsFiniteSet({f[d] : d \in unacked})
  BY FiniteImage DEF Finite
<1>2. {f[d] : d \in unacked} = {d.copy : d \in unacked}
  OBVIOUS
<1>3. IsFiniteSet(Copies)
  BY <1>1, <1>2, FS_Union DEF Finite, Copies
<1>4. IsFiniteSet({g[c] : c \in Copies})
  <2> HIDE DEF g
  <2>1. DOMAIN g = Copies /\ g \in [Copies -> {g[c] : c \in Copies}]
    BY DEF g
  <2>2. QED
    BY <1>3, <2>1, FiniteImage
<1>5. used = {g[c] : c \in Copies}
  OBVIOUS
<1>6. IsFiniteSet(used)
  BY <1>4, <1>5
<1>7. \E n \in 1..(Cardinality(used) + 1) : n \notin used
  BY <1>6, UnusedNumber
<1>8. FreshId \in 1..(Cardinality(used) + 1) /\ FreshId \notin used
  BY <1>7 DEF FreshId
<1>9. Cardinality(used) \in Nat
  BY <1>6, FS_CardinalityType
<1>10. QED
  BY <1>8, <1>9

-----------------------------------------------------------------------------
(* What every step has in common.                                          *)

\* Counting down a fault keeps the type of the budget.
LEMMA SpendType ==
    ASSUME ConnTypeOK, NEW kind \in Kinds, Spend(kind)
    PROVE  /\ left' \in [Kinds -> Nat]
           /\ \A k \in Kinds : left'[k] <= Budget[k]
<1>1. "any" \in Kinds
  BY DEF Kinds
<1>2. ASSUME NEW k \in Kinds
      PROVE  left'[k] \in Nat /\ left'[k] <= left[k]
  BY <1>1, <1>2 DEF Spend, ConnTypeOK
<1>3. left' \in [Kinds -> Nat]
  BY <1>2, <1>1 DEF Spend, ConnTypeOK
<1>4. ASSUME NEW k \in Kinds
      PROVE  left'[k] <= Budget[k]
  BY <1>2, <1>4, ConnectionAssumption DEF ConnTypeOK
<1>5. QED
  BY <1>3, <1>4

\* The number of lost connections is one.
LEMMA DropsType ==
    ASSUME ConnTypeOK
    PROVE  Drops \in Nat
<1>1. "drop" \in Kinds
  BY DEF Kinds
<1>2. left["drop"] \in Nat /\ Budget["drop"] \in Nat /\ left["drop"] <= Budget["drop"]
  BY <1>1, ConnectionAssumption DEF ConnTypeOK
<1>3. QED
  BY <1>2 DEF Drops, Spent

\* As long as nothing is forgotten, and each worker that comes to acknowledge
\* has its evidence, evidence and messages stay.
LEMMA Kept ==
    ASSUME Evidence, NothingLost,
           Accounted \subseteq Accounted', Copies \subseteq Copies',
           \A v \in Workers :
              At(v, "ack")' => \/ At(v, "ack") /\ worker'[v].held = worker[v].held
                               \/ Remains(Msg(v), Tries(v))'
    PROVE  Evidence' /\ NothingLost'
<1>1. ASSUME NEW v \in Workers, At(v, "ack")'
      PROVE  Remains(Msg(v), Tries(v))'
  <2>1. CASE At(v, "ack") /\ worker'[v].held = worker[v].held
    <3>1. Remains(Msg(v), Tries(v))
      BY <2>1 DEF Evidence
    <3>2. Msg(v)' = Msg(v) /\ Tries(v)' = Tries(v)
      BY <2>1 DEF Msg, Tries
    <3>3. CASE Msg(v) \in Accounted
      BY <3>2, <3>3 DEF Remains
    <3>4. CASE \E c \in Copies : c.msg = Msg(v) /\ c.tries > Tries(v)
      BY <3>2, <3>4 DEF Remains
    <3>5. QED
      BY <3>1, <3>3, <3>4 DEF Remains
  <2>2. QED
    BY <1>1, <2>1
<1>2. ASSUME NEW m \in Msgs
      PROVE  CopiesOf(m)' # {} \/ m \in Accounted'
  BY <1>2 DEF NothingLost, CopiesOf
<1>3. QED
  BY <1>1, <1>2 DEF Evidence, NothingLost

\* A process that dies takes nothing with it that the broker does not have.
LEMMA DiesKeeps ==
    ASSUME IInv, Dies, left' \in [Kinds -> Nat], \A k \in Kinds : left'[k] <= Budget[k]
    PROVE  IInv'
<1> USE DEF IInv
<1>1. Selecting \in DistState /\ Idle \in WorkerState /\ 0 \in 0..(DialAttempts - 1)
  BY ConnectionAssumption, ConsumerAssumption DEF Selecting, Idle, Local, DistState, WorkerState, WorkerPc
<1>2. ConsumerTypeOK'
  BY <1>1 DEF ConsumerTypeOK, ConnTypeOK, Dies, brokerVars, outcomes
<1>3. Holding'
  BY DEF Holding, Dies, Idle, Selecting, Local
<1>4. Finite'
  BY DEF Finite, Dies, brokerVars
<1>5. Evidence' /\ NothingLost'
  <2>1. Copies' = Copies /\ Accounted' = Accounted
    BY DEF Copies, Dies, brokerVars, Accounted, outcomes
  <2>2. \A v \in Workers : ~ At(v, "ack")'
    BY DEF At, Dies, Idle, Local
  <2>3. QED
    BY <2>1, <2>2, Kept
<1>6. QED
  BY <1>2, <1>3, <1>4, <1>5

\* A step that leaves the workers and the broker's copies alone keeps the
\* invariant if it keeps the types.
LEMMA NothingMoves ==
    ASSUME IInv, ConsumerTypeOK', UNCHANGED <<brokerVars, outcomes, worker>>,
           dist'.pc = "handoff" => dist'.held \in Delivery
    PROVE  IInv'
<1> USE DEF IInv
<1>1. Holding'
  BY DEF Holding, Tries
<1>2. Finite'
  BY DEF Finite, brokerVars
<1>3. Copies' = Copies /\ Accounted' = Accounted
  BY DEF Copies, brokerVars, Accounted, outcomes
<1>4. \A v \in Workers : At(v, "ack")' => At(v, "ack") /\ worker'[v].held = worker[v].held
  BY DEF At
<1>5. Evidence' /\ NothingLost'
  BY <1>3, <1>4, Kept
<1>6. QED
  BY <1>1, <1>2, <1>5

-----------------------------------------------------------------------------
(* The broker, the environment and the process.                            *)

\* A delivery, and the return of one whose channel is gone.
LEMMA BrokerKeeps ==
    ASSUME IInv, (\E c \in ready : Deliver(c)) \/ (\E d \in unacked : Return(d))
    PROVE  IInv'
<1> USE DEF IInv
<1>1. ASSUME NEW c \in ready, Deliver(c)
      PROVE  IInv'
  <2> DEFINE d == [ch |-> chan, copy |-> c]
  <2>1. d \in Delivery
    BY <1>1 DEF ConsumerTypeOK, Delivery
  <2>2. ready' = ready \ {c} /\ unacked' = unacked \cup {d} /\ d.copy = c
    BY <1>1 DEF Deliver
  <2>3. ConsumerTypeOK'
    BY <1>1, <2>1, <2>2 DEF ConsumerTypeOK, ConnTypeOK, Deliver, mqVars, chanVars, poolVars, procVars, outcomes
  <2>4. Holding'
    BY <1>1 DEF Holding, Deliver, poolVars, Tries
  <2>5. Finite'
    BY <2>2, FS_RemoveElement, FS_AddElement DEF Finite
  <2>6. Copies' = Copies
    BY <2>2, <1>1 DEF Copies
  <2>7. Accounted' = Accounted /\ worker' = worker
    BY <1>1 DEF Deliver, poolVars, Accounted, outcomes
  <2>8. \A v \in Workers : At(v, "ack")' => At(v, "ack") /\ worker'[v].held = worker[v].held
    BY <2>7 DEF At
  <2>9. Evidence' /\ NothingLost'
    BY <2>6, <2>7, <2>8, Kept
  <2>10. QED
    BY <2>3, <2>4, <2>5, <2>9
<1>2. ASSUME NEW d \in unacked, Return(d)
      PROVE  IInv'
  <2>1. d \in Delivery /\ d.copy \in Copy
    BY <1>2 DEF ConsumerTypeOK, Delivery
  <2>2. ready' = ready \cup {d.copy} /\ unacked' = unacked \ {d}
    BY <1>2 DEF Return
  <2>3. ConsumerTypeOK'
    BY <1>2, <2>1, <2>2 DEF ConsumerTypeOK, ConnTypeOK, Return, mqVars, chanVars, poolVars, procVars, outcomes
  <2>4. Holding'
    BY <1>2 DEF Holding, Return, poolVars, Tries
  <2>5. Finite'
    BY <2>2, FS_RemoveElement, FS_AddElement DEF Finite
  <2>6. Copies \subseteq Copies'
    BY <2>2, <1>2 DEF Copies
  <2>7. Accounted' = Accounted /\ worker' = worker
    BY <1>2 DEF Return, poolVars, Accounted, outcomes
  <2>8. \A v \in Workers : At(v, "ack")' => At(v, "ack") /\ worker'[v].held = worker[v].held
    BY <2>7 DEF At
  <2>9. Evidence' /\ NothingLost'
    BY <2>6, <2>7, <2>8, Kept
  <2>10. QED
    BY <2>3, <2>4, <2>5, <2>9
<1>3. QED
  BY <1>1, <1>2

\* A lost connection, a shutdown under way, a new start, and the watcher.
LEMMA ProcessKeeps ==
    ASSUME IInv, Drop \/ Stop \/ Restart \/ Watch
    PROVE  IInv'
<1> USE DEF IInv
<1>1. UNCHANGED <<brokerVars, outcomes, worker, dist>>
  BY DEF Drop, Stop, Restart, Watch, brokerVars, poolVars
<1>2. ConsumerTypeOK'
  <2>1. CASE Drop
    <3>1. left' \in [Kinds -> Nat] /\ \A k \in Kinds : left'[k] <= Budget[k]
      BY <2>1, SpendType DEF Drop, ConsumerTypeOK, Kinds
    <3>2. QED
      BY <2>1, <3>1 DEF Drop, ConsumerTypeOK, ConnTypeOK, brokerVars, poolVars, procVars, outcomes
  <2>2. CASE Stop
    <3>1. left' \in [Kinds -> Nat] /\ \A k \in Kinds : left'[k] <= Budget[k]
      BY <2>2, SpendType DEF Stop, ConsumerTypeOK, Kinds
    <3>2. QED
      BY <2>2, <3>1 DEF Stop, ConsumerTypeOK, ConnTypeOK, mqVars, brokerVars, chanVars, poolVars, outcomes
  <2>3. CASE Restart
    BY <2>3 DEF Restart, ConsumerTypeOK, ConnTypeOK, brokerVars, poolVars, outcomes
  <2>4. CASE Watch
    <3>1. ConnTypeOK'
      <4>1. CASE Notice \/ DialSucceeds
        BY <4>1, ConnectionAssumption DEF Notice, DialSucceeds, ConsumerTypeOK, ConnTypeOK
      <4>2. CASE DialFails
        <5>1. left' \in [Kinds -> Nat] /\ \A k \in Kinds : left'[k] <= Budget[k]
          BY <4>2, SpendType DEF DialFails, ConsumerTypeOK, Kinds
        <5>2. dials + 1 \in 0..(DialAttempts - 1)
          BY <4>2, ConnectionAssumption DEF DialFails, LastDial, ConsumerTypeOK, ConnTypeOK
        <5>3. QED
          BY <4>2, <5>1, <5>2 DEF DialFails, ConsumerTypeOK, ConnTypeOK
      <4>3. QED
        BY <2>4, <4>1, <4>2 DEF Watch
    <3>2. QED
      BY <2>4, <3>1 DEF Watch, ConsumerTypeOK, brokerVars, chanVars, poolVars, procVars, outcomes
  <2>5. QED
    BY <2>1, <2>2, <2>3, <2>4
<1>3. dist'.pc = "handoff" => dist'.held \in Delivery
  BY <1>1 DEF Holding
<1>4. QED
  BY <1>1, <1>2, <1>3, NothingMoves

\* The ways in which the process dies.
LEMMA DeathKeeps ==
    ASSUME IInv, Crash \/ WatchPanics \/ Exit \/ DistributorPanics
    PROVE  IInv'
<1>1. Dies
  BY DEF Crash, WatchPanics, Exit, DistributorPanics
<1>2. ConnTypeOK
  BY DEF IInv, ConsumerTypeOK
<1>3. left' = left \/ \E kind \in Kinds : Spend(kind)
  BY DEF Crash, WatchPanics, Exit, DistributorPanics, NotReopened, Kinds
<1>4. left' \in [Kinds -> Nat] /\ \A k \in Kinds : left'[k] <= Budget[k]
  BY <1>2, <1>3, SpendType DEF ConnTypeOK
<1>5. QED
  BY <1>1, <1>4, DiesKeeps

\* The distributor goroutine.
LEMMA DistributorKeeps ==
    ASSUME IInv, Distributor
    PROVE  IInv'
<1> USE DEF IInv
<1>1. CASE DistributorPanics
  BY <1>1, DeathKeeps
<1>2. ASSUME ~DistributorPanics
      PROVE  UNCHANGED <<brokerVars, outcomes, worker>>
  BY <1>2 DEF Distributor, Receive, HandOff, SeeClosed, Reopen, ReopenFails, SeeStop, poolVars
<1>3. Drops \in Nat
  BY DropsType DEF ConsumerTypeOK
<1>4. /\ Selecting \in DistState
      /\ Local("reconnect", NoDelivery, 1, 0) \in DistState
      /\ Local("done", NoDelivery, 1, 0) \in DistState
  BY ConsumerAssumption DEF Selecting, Local, DistState
<1>5. ASSUME ~DistributorPanics
      PROVE  ConsumerTypeOK' /\ (dist'.pc = "handoff" => dist'.held \in Delivery)
  <2>1. ASSUME NEW d \in stream, Receive(d)
        PROVE  ConsumerTypeOK' /\ (dist'.pc = "handoff" => dist'.held \in Delivery)
    <3>1. d \in Delivery /\ Local("handoff", d, 1, 0) \in DistState
      BY <2>1, ConsumerAssumption DEF ConsumerTypeOK, DistState, Local
    <3>2. QED
      BY <2>1, <3>1 DEF Receive, ConsumerTypeOK, ConnTypeOK, Holding, mqVars, brokerVars,
                        chanVars, procVars, outcomes, Local
  <2>2. CASE HandOff
    BY <1>4, <2>2 DEF HandOff, ConsumerTypeOK, ConnTypeOK, Holding, Selecting, Local, mqVars,
                      brokerVars, chanVars, procVars, outcomes
  <2>3. CASE SeeClosed
    BY <1>4, <2>3 DEF SeeClosed, ConsumerTypeOK, ConnTypeOK, Local, mqVars, brokerVars,
                      chanVars, poolVars, procVars, outcomes
  <2>4. CASE Reopen
    BY <1>4, <2>4 DEF Reopen, ConsumerTypeOK, ConnTypeOK, Selecting, Local, mqVars, brokerVars,
                      poolVars, procVars, outcomes
  <2>5. CASE ReopenFails
    <3>1. Local("reconnect", NoDelivery, dist.attempt + 1, Drops) \in DistState
      BY <1>3, <2>5, ConsumerAssumption DEF ReopenFails, ConsumerTypeOK, DistState, Local
    <3>2. left' = left \/ \E kind \in Kinds : Spend(kind)
      BY <2>5 DEF ReopenFails, NotReopened, Kinds
    <3>3. left' \in [Kinds -> Nat] /\ \A k \in Kinds : left'[k] <= Budget[k]
      BY <3>2, SpendType DEF ConsumerTypeOK, ConnTypeOK
    <3>4. QED
      BY <2>5, <3>1, <3>3 DEF ReopenFails, ConsumerTypeOK, ConnTypeOK, mqVars, brokerVars,
                              chanVars, poolVars, procVars, outcomes, Local
  <2>6. CASE SeeStop
    BY <1>4, <2>6 DEF SeeStop, ConsumerTypeOK, ConnTypeOK, Local, mqVars, brokerVars,
                      poolVars, procVars, outcomes
  <2>7. QED
    BY <1>5, <2>1, <2>2, <2>3, <2>4, <2>5, <2>6 DEF Distributor
<1>6. QED
  BY <1>1, <1>2, <1>5, NothingMoves

-----------------------------------------------------------------------------
(* The workers.                                                            *)

\* What a worker at work holds.
LEMMA HeldType ==
    ASSUME IInv, NEW w \in Workers, ~ At(w, "idle")
    PROVE  /\ worker[w].held \in Delivery
           /\ worker[w].held.copy \in Copy
           /\ Msg(w) \in Msgs
           /\ Tries(w) \in 0..MaxRetries
           /\ worker[w].seen \in Nat
           /\ worker[w].attempt \in 1..PublishAttempts
<1>1. worker[w].held \in Delivery /\ worker[w] \in WorkerState
  BY DEF IInv, Holding, At, ConsumerTypeOK
<1>2. worker[w].held.copy \in Copy
  BY <1>1 DEF Delivery
<1>3. QED
  BY <1>1, <1>2 DEF Copy, Msg, Tries, WorkerState

\* A worker moves on with a delivery, while the broker may learn but not forget.
LEMMA WorkerMoves ==
    ASSUME IInv, NEW w \in Workers, NEW pc \in WorkerPc \ {"idle"}, NEW d \in Delivery,
           NEW a \in 1..PublishAttempts, NEW s \in Nat,
           worker' = [worker EXCEPT ![w] = Local(pc, d, a, s)],
           pc = "retry" => d.copy.tries < MaxRetries,
           pc = "ack" => Remains(d.copy.msg, d.copy.tries)',
           ConnTypeOK', Finite', ready' \subseteq Copy, unacked' \subseteq Delivery,
           dead' \subseteq Msgs, answered' \subseteq Msgs, recorded' \subseteq Msgs,
           work' \subseteq work,
           UNCHANGED <<chan, open, stream, dist, proc, stopped>>,
           Copies \subseteq Copies', dead \subseteq dead', answered \subseteq answered',
           recorded \subseteq recorded'
    PROVE  IInv'
<1> USE DEF IInv
<1>1. Local(pc, d, a, s) \in WorkerState
  BY DEF Local, WorkerState
<1>2. worker' \in [Workers -> WorkerState] /\ worker'[w] = Local(pc, d, a, s)
        /\ \A v \in Workers : v # w => worker'[v] = worker[v]
  BY <1>1 DEF ConsumerTypeOK
<1>3. ConsumerTypeOK'
  BY <1>2 DEF ConsumerTypeOK
<1>4. Holding'
  <2>1. ASSUME NEW v \in Workers
        PROVE  (worker[v].pc # "idle" => worker[v].held \in Delivery)'
                 /\ (worker[v].pc = "retry" => Tries(v) < MaxRetries)'
    <3>1. CASE v = w
      BY <1>2, <3>1 DEF Local, Tries
    <3>2. CASE v # w
      BY <1>2, <3>2 DEF Holding, Tries
    <3>3. QED
      BY <3>1, <3>2
  <2>2. QED
    BY <2>1 DEF Holding
<1>5. ASSUME NEW v \in Workers, At(v, "ack")'
      PROVE  \/ At(v, "ack") /\ worker'[v].held = worker[v].held
             \/ Remains(Msg(v), Tries(v))'
  <2>1. CASE v = w
    <3>1. pc = "ack" /\ Msg(v)' = d.copy.msg /\ Tries(v)' = d.copy.tries
      BY <1>2, <1>5, <2>1 DEF At, Local, Msg, Tries
    <3>2. QED
      BY <3>1 DEF Remains
  <2>2. CASE v # w
    BY <1>2, <1>5, <2>2 DEF At
  <2>3. QED
    BY <2>1, <2>2
<1>6. Evidence' /\ NothingLost'
  <2>1. Accounted \subseteq Accounted'
    BY DEF Accounted
  <2>2. QED
    BY <1>5, <2>1, Kept
<1>7. QED
  BY <1>3, <1>4, <1>6

\* The same for a worker that keeps its delivery.
LEMMA GotoKeeps ==
    ASSUME IInv, NEW w \in Workers, ~ At(w, "idle"), NEW pc \in WorkerPc \ {"idle"},
           Goto(w, pc),
           pc = "retry" => Tries(w) < MaxRetries,
           pc = "ack" => \/ Msg(w) \in Accounted'
                         \/ \E c \in Copies' : c.msg = Msg(w) /\ c.tries > Tries(w),
           Unmoved, left' = left \/ \E kind \in Kinds : Spend(kind),
           Finite', ready' \subseteq Copy, unacked' \subseteq Delivery,
           dead' \subseteq Msgs, answered' \subseteq Msgs, recorded' \subseteq Msgs,
           Copies \subseteq Copies', dead \subseteq dead', answered \subseteq answered',
           recorded \subseteq recorded'
    PROVE  IInv'
<1>1. ConnTypeOK'
  <2>1. ConnTypeOK
    BY DEF IInv, ConsumerTypeOK
  <2>2. left' \in [Kinds -> Nat] /\ \A k \in Kinds : left'[k] <= Budget[k]
    BY <2>1, SpendType DEF ConnTypeOK
  <2>3. QED
    BY <2>1, <2>2 DEF ConnTypeOK, Unmoved, mqVars
<1>2. PICK d \in Delivery : d = worker[w].held
  BY HeldType
<1>3. PICK s \in Nat : s = worker[w].seen
  BY HeldType
<1>4. worker' = [worker EXCEPT ![w] = Local(pc, d, 1, s)] /\ 1 \in 1..PublishAttempts
  BY <1>2, <1>3, ConnectionAssumption DEF Goto
<1>5. d.copy.msg = Msg(w) /\ d.copy.tries = Tries(w)
  BY <1>2 DEF Msg, Tries
<1>6. pc = "ack" => Remains(d.copy.msg, d.copy.tries)'
  BY <1>5 DEF Remains
<1>7. QED
  BY <1>1, <1>4, <1>5, <1>6, WorkerMoves DEF Unmoved, mqVars, chanVars, procVars

\* An error of the handler leads to a retry, if there is one left, or the end.
LEMMA ErrsKeeps ==
    ASSUME IInv, NEW w \in Workers, ~ At(w, "idle"), Errs(w), Unmoved,
           left' = left \/ \E kind \in Kinds : Spend(kind),
           UNCHANGED brokerVars, answered \subseteq answered', answered' \subseteq Msgs,
           recorded \subseteq recorded', recorded' \subseteq Msgs
    PROVE  IInv'
<1>1. Finite' /\ Copies' = Copies
  BY DEF IInv, Finite, Copies, brokerVars
<1>2. ready' \subseteq Copy /\ unacked' \subseteq Delivery /\ dead' \subseteq Msgs /\ dead' = dead
  BY DEF IInv, ConsumerTypeOK, brokerVars
<1>3. CASE Tries(w) < MaxRetries
  <2>1. Goto(w, "retry") /\ "retry" \in WorkerPc \ {"idle"}
    BY <1>3 DEF Errs, OnError, WorkerPc
  <2>2. QED
    BY <1>1, <1>2, <1>3, <2>1, GotoKeeps
<1>4. CASE ~(Tries(w) < MaxRetries)
  <2>1. Goto(w, "bury") /\ "bury" \in WorkerPc \ {"idle"}
    BY <1>4 DEF Errs, OnError, WorkerPc
  <2>2. QED
    BY <1>1, <1>2, <2>1, GotoKeeps
<1>5. QED
  BY <1>3, <1>4

\* A worker takes a delivery from the buffer, and its handler begins.
LEMMA PickKeeps ==
    ASSUME IInv, NEW w \in Workers, NEW d \in work, Pick(w, d) \/ PickFails(w, d)
    PROVE  IInv'
<1>0. ConsumerTypeOK /\ ConnTypeOK /\ Finite /\ 1 \in 1..PublishAttempts
  BY ConnectionAssumption DEF IInv, ConsumerTypeOK
<1>1. d \in Delivery /\ d.copy \in Copy /\ 0 \in Nat
  BY <1>0 DEF ConsumerTypeOK, Delivery
<1>2. PICK pc \in {"handle", "publish", "ack", "retry", "bury"} :
        /\ Taken(w, d, pc)
        /\ pc = "retry" => d.copy.tries < MaxRetries
        /\ pc = "ack" => d.copy.msg \in recorded \cap Silent
  <2>1. CASE Pick(w, d)
    <3>1. Begins(d.copy.msg) \in {"handle", "publish", "ack"}
            /\ (Begins(d.copy.msg) = "ack" => d.copy.msg \in recorded \cap Silent)
      BY DEF Begins
    <3>2. QED
      BY <2>1, <3>1 DEF Pick
  <2>2. CASE PickFails(w, d)
    <3>1. OnError(d.copy.tries) \in {"retry", "bury"}
            /\ (OnError(d.copy.tries) = "retry" => d.copy.tries < MaxRetries)
      BY DEF OnError
    <3>2. QED
      BY <2>2, <3>1 DEF PickFails
  <2>3. QED
    BY <2>1, <2>2
<1>3. left' = left \/ \E kind \in Kinds : Spend(kind)
  BY DEF Pick, PickFails, DbError, Kinds
<1>4. left' \in [Kinds -> Nat] /\ \A k \in Kinds : left'[k] <= Budget[k]
  BY <1>0, <1>3, SpendType DEF ConnTypeOK
<1>5. Copies' = Copies /\ Finite' /\ ConnTypeOK'
  BY <1>0, <1>2, <1>4 DEF Taken, Copies, Finite, brokerVars, mqVars, ConnTypeOK
<1>6. worker' = [worker EXCEPT ![w] = Local(pc, d, 1, 0)] /\ work' \subseteq work
  BY <1>2 DEF Taken
<1>7. UNCHANGED <<chan, open, stream, dist, proc, stopped, ready, unacked, dead, answered, recorded>>
  BY <1>2 DEF Taken, brokerVars, chanVars, procVars, outcomes
<1>8. ready \subseteq Copy /\ unacked \subseteq Delivery /\ dead \subseteq Msgs /\ answered \subseteq Msgs
        /\ recorded \subseteq Msgs
  BY <1>0 DEF ConsumerTypeOK
<1>9. pc = "ack" => Remains(d.copy.msg, d.copy.tries)'
  <2>1. CASE d.copy.msg \in recorded \cap Silent
    BY <1>7, <2>1 DEF Remains, Accounted
  <2>2. QED
    BY <1>2, <2>1
<1>10. pc \in WorkerPc \ {"idle"}
  BY DEF WorkerPc
<1>11. QED
  BY <1>0, <1>1, <1>2, <1>5, <1>6, <1>7, <1>8, <1>9, <1>10, WorkerMoves

\* The handler up to its answer.
LEMMA HandlerKeeps ==
    ASSUME IInv, NEW w \in Workers,
           \/ Commit(w) \/ HandlerFails(w) \/ HandlerCollides(w) \/ Refuse(w)
           \/ HandlerPanics(w)
           \/ Answer(w) \/ AnswerFails(w)
    PROVE  IInv'
<1>1. ~ At(w, "idle") /\ Unmoved /\ UNCHANGED brokerVars
  BY DEF Commit, HandlerFails, HandlerCollides, Refuse, HandlerPanics, Answer, AnswerFails, At
<1>2. left' = left \/ \E kind \in Kinds : Spend(kind)
  BY DEF Commit, HandlerFails, HandlerCollides, Refuse, HandlerPanics, Answer, AnswerFails, Unsent, Unconfirmed,
         Confirmed, DbError, Kinds
<1>3. Msg(w) \in Msgs
  BY <1>1, HeldType
<1>4. /\ answered \subseteq answered' /\ answered' \subseteq Msgs
      /\ recorded \subseteq recorded' /\ recorded' \subseteq Msgs
  BY <1>3 DEF Commit, HandlerFails, HandlerCollides, Refuse, HandlerPanics, Answer, AnswerFails, IInv,
              ConsumerTypeOK, MayRecord, outcomes
<1>5. Finite' /\ Copies' = Copies
  BY <1>1 DEF IInv, Finite, Copies, brokerVars
<1>6. ready' \subseteq Copy /\ unacked' \subseteq Delivery /\ dead' \subseteq Msgs /\ dead' = dead
  BY <1>1 DEF IInv, ConsumerTypeOK, brokerVars
<1>7. {"publish", "bury", "reject", "ack"} \subseteq WorkerPc \ {"idle"}
  BY DEF WorkerPc
<1>8. CASE Commit(w) \/ Refuse(w) \/ HandlerPanics(w)
  <2>1. PICK pc \in {"publish", "bury", "reject"} : Goto(w, pc)
    BY <1>8 DEF Commit, Refuse, HandlerPanics, Recover
  <2>2. QED
    BY <1>1, <1>2, <1>4, <1>5, <1>6, <1>7, <2>1, GotoKeeps
<1>9. CASE Answer(w)
  <2>1. Goto(w, "ack") /\ Msg(w) \in Accounted'
    BY <1>9 DEF Answer, Accounted
  <2>2. QED
    BY <1>1, <1>2, <1>4, <1>5, <1>6, <1>7, <2>1, GotoKeeps
<1>10. CASE HandlerFails(w) \/ HandlerCollides(w)
  BY <1>1, <1>2, <1>4, <1>10, ErrsKeeps DEF HandlerFails, HandlerCollides
<1>11. CASE AnswerFails(w)
  <2>1. CASE GivesUp(worker[w].attempt, stopped)
    BY <1>1, <1>2, <1>4, <1>11, <2>1, ErrsKeeps DEF AnswerFails
  <2>2. CASE ~GivesUp(worker[w].attempt, stopped)
    <3>1. ConnTypeOK /\ ConnTypeOK'
      <4>1. ConnTypeOK
        BY DEF IInv, ConsumerTypeOK
      <4>2. left' \in [Kinds -> Nat] /\ \A k \in Kinds : left'[k] <= Budget[k]
        BY <1>2, <4>1, SpendType DEF ConnTypeOK
      <4>3. QED
        BY <1>1, <4>1, <4>2 DEF ConnTypeOK, Unmoved, mqVars
    <3>2. PICK d \in Delivery : d = worker[w].held
      BY <1>1, HeldType
    <3>3. PICK s \in Nat : s = Drops
      BY <3>1, DropsType
    <3>4. PICK a \in 1..PublishAttempts : a = worker[w].attempt + 1
      <4>1. worker[w].attempt \in 1..PublishAttempts /\ worker[w].attempt # PublishAttempts
        BY <1>1, <2>2, HeldType DEF GivesUp
      <4>2. QED
        BY <4>1, ConnectionAssumption
    <3>5. worker' = [worker EXCEPT ![w] = Local("publish", d, a, s)]
      BY <1>11, <2>2, <3>2, <3>3, <3>4 DEF AnswerFails
    <3>6. UNCHANGED <<chan, open, stream, dist, work, proc, stopped>>
      BY <1>1 DEF Unmoved, chanVars, procVars
    <3>7. QED
      BY <1>4, <1>5, <1>6, <1>7, <3>1, <3>5, <3>6, WorkerMoves
  <2>3. QED
    BY <2>1, <2>2
<1>12. QED
  BY <1>8, <1>9, <1>10, <1>11

\* Filing a message, in the retry queue or among the dead letters, and what the
\* worker does about it.
LEMMA FileKeeps ==
    ASSUME IInv, NEW w \in Workers, File(w) \/ FileFails(w)
    PROVE  IInv'
<1>1. ~ At(w, "idle") /\ Unmoved /\ Filing(w) /\ answered' = answered /\ recorded' = recorded
  BY DEF File, FileFails, Filing, At, outcomes
<1>2. left' = left \/ \E kind \in Kinds : Spend(kind)
  BY DEF File, FileFails, Unsent, Unconfirmed, Confirmed, Kinds
<1>3. Msg(w) \in Msgs /\ Tries(w) \in 0..MaxRetries
  BY <1>1, HeldType
<1>4. ConsumerTypeOK /\ Finite
  BY DEF IInv
<1>5. UNCHANGED brokerVars \/ Filed(w)
  BY DEF File, FileFails
<1>6. /\ Finite' /\ ready' \subseteq Copy /\ unacked' \subseteq Delivery /\ dead' \subseteq Msgs
      /\ answered' \subseteq Msgs /\ recorded' \subseteq Msgs /\ recorded \subseteq recorded'
      /\ Copies \subseteq Copies' /\ dead \subseteq dead' /\ answered \subseteq answered'
  <2>1. CASE UNCHANGED brokerVars
    BY <1>1, <1>4, <2>1 DEF Finite, ConsumerTypeOK, Copies, brokerVars
  <2>2. CASE Filed(w) /\ At(w, "retry")
    <3> DEFINE c == [id |-> FreshId, msg |-> Msg(w), tries |-> Tries(w) + 1]
    <3>1. ready' = ready \cup {c} /\ dead' = dead /\ unacked' = unacked
      BY <2>2 DEF Filed
    <3>2. Tries(w) < MaxRetries
      BY <2>2 DEF IInv, Holding, At
    <3>3. FreshId \in Nat \ {0}
      BY <1>4, FreshIdType
    <3>4. Tries(w) + 1 \in 0..MaxRetries
      BY <1>3, <3>2, ConsumerAssumption
    <3>5. c \in Copy
      BY <1>3, <3>3, <3>4 DEF Copy
    <3>6. Finite'
      BY <1>4, <3>1, FS_AddElement DEF Finite
    <3> HIDE DEF c
    <3>7. QED
      BY <1>1, <1>4, <3>1, <3>5, <3>6 DEF ConsumerTypeOK, Copies
  <2>3. CASE Filed(w) /\ ~ At(w, "retry")
    <3>1. ready' = ready /\ unacked' = unacked /\ dead' = dead \cup {Msg(w)}
      BY <2>3 DEF Filed
    <3>2. QED
      BY <1>1, <1>3, <1>4, <3>1 DEF Finite, ConsumerTypeOK, Copies
  <2>4. QED
    BY <1>5, <2>1, <2>2, <2>3
<1>7. CASE File(w)
  <2>1. Filed(w) /\ Goto(w, "ack") /\ "ack" \in WorkerPc \ {"idle"}
    BY <1>7 DEF File, Settled, WorkerPc
  <2>2. \/ Msg(w) \in Accounted'
        \/ \E c \in Copies' : c.msg = Msg(w) /\ c.tries > Tries(w)
    <3>1. CASE At(w, "retry")
      <4> DEFINE c == [id |-> FreshId, msg |-> Msg(w), tries |-> Tries(w) + 1]
      <4>1. c \in Copies'
        BY <2>1, <3>1 DEF Filed, Copies
      <4>2. c.msg = Msg(w) /\ c.tries > Tries(w)
        BY <1>3
      <4>3. QED
        BY <4>1, <4>2
    <3>2. CASE ~ At(w, "retry")
      BY <2>1, <3>2 DEF Filed, Accounted
    <3>3. QED
      BY <3>1, <3>2
  <2>3. QED
    BY <1>1, <1>2, <1>6, <2>1, <2>2, GotoKeeps
<1>8. CASE FileFails(w)
  <2>1. PICK pc \in {"requeue", "reject"} : Goto(w, pc)
    BY <1>8 DEF FileFails, Unsettled
  <2>2. pc \in WorkerPc \ {"idle"} /\ pc # "ack" /\ pc # "retry"
    BY DEF WorkerPc
  <2>3. QED
    BY <1>1, <1>2, <1>6, <2>1, <2>2, GotoKeeps
<1>9. QED
  BY <1>7, <1>8

\* Settling: a copy is only forgotten with something else remaining of its
\* message, and other evidence that was that copy has the same ground.
LEMMA SettleKeeps ==
    ASSUME IInv, NEW w \in Workers, Settle(w)
    PROVE  IInv'
<1> USE DEF IInv
<1>1. ~ At(w, "idle") /\ Unmoved /\ left' = left /\ UNCHANGED outcomes
        /\ worker' = [worker EXCEPT ![w] = Idle]
  BY DEF Settle, At
<1>2. PICK d : d = worker[w].held
  OBVIOUS
<1>3. d \in Delivery /\ d.copy \in Copy /\ d.copy.msg = Msg(w) /\ d.copy.tries = Tries(w)
        /\ Msg(w) \in Msgs /\ Tries(w) \in 0..MaxRetries
  BY <1>1, <1>2, HeldType DEF Msg, Tries
<1>4. \/ UNCHANGED brokerVars
      \/ /\ unacked' = unacked \ {d}
         /\ ready' = IF At(w, "requeue") THEN ready \cup {d.copy} ELSE ready
         /\ dead' = IF At(w, "reject") THEN dead \cup {Msg(w)} ELSE dead
  BY <1>2 DEF Settle
<1>5. Idle \in WorkerState
  BY ConnectionAssumption DEF Idle, Local, WorkerState, WorkerPc
<1>6. ready' \subseteq Copy /\ unacked' \subseteq Delivery /\ dead' \subseteq Msgs /\ dead \subseteq dead'
  BY <1>3, <1>4 DEF ConsumerTypeOK, brokerVars
<1>7. ConsumerTypeOK'
  BY <1>1, <1>5, <1>6 DEF ConsumerTypeOK, ConnTypeOK, Unmoved, mqVars, chanVars, procVars, outcomes
<1>8. Holding'
  BY <1>1 DEF Holding, Idle, Local, Tries, ConsumerTypeOK, Unmoved
<1>9. Finite'
  <2>1. IsFiniteSet(unacked \ {d}) /\ IsFiniteSet(ready \cup {d.copy})
    BY FS_RemoveElement, FS_AddElement DEF Finite
  <2>2. QED
    BY <1>4, <2>1 DEF Finite, brokerVars
<1>10. Copies \ {d.copy} \subseteq Copies'
  BY <1>4 DEF Copies, brokerVars
<1>11. d.copy \in Copies => \/ d.copy \in Copies'
                            \/ Msg(w) \in Accounted'
                            \/ \E c \in Copies' : c.msg = Msg(w) /\ c.tries > Tries(w)
  <2>1. CASE UNCHANGED brokerVars \/ At(w, "requeue")
    BY <1>4, <2>1 DEF Copies, brokerVars
  <2>2. CASE At(w, "reject") /\ ~ UNCHANGED brokerVars
    BY <1>4, <2>2 DEF Accounted
  <2>3. CASE At(w, "ack")
    <3>1. CASE Msg(w) \in Accounted
      BY <1>1, <1>6, <3>1 DEF Accounted, outcomes
    <3>2. ASSUME NEW c \in Copies, c.msg = Msg(w), c.tries > Tries(w)
          PROVE  c \in Copies'
      BY <1>3, <1>10, <3>2
    <3>3. Remains(Msg(w), Tries(w))
      BY <2>3 DEF Evidence
    <3>4. QED
      BY <3>1, <3>2, <3>3 DEF Remains
  <2>4. QED
    BY <2>1, <2>2, <2>3 DEF Settle, At
<1>12. Copies \subseteq Copy
  BY DEF Copies, ConsumerTypeOK, Delivery
<1>13. ASSUME NEW m, NEW t \in Nat, Remains(m, t)
       PROVE  m \in Accounted' \/ \E c \in Copies' : c.msg = m /\ c.tries > t
  <2>1. CASE m \in Accounted
    BY <1>1, <1>6, <2>1 DEF Accounted, outcomes
  <2>2. ASSUME NEW c \in Copies, c.msg = m, c.tries > t
        PROVE  m \in Accounted' \/ \E e \in Copies' : e.msg = m /\ e.tries > t
    <3>1. CASE c # d.copy
      BY <1>10, <2>2, <3>1
    <3>2. CASE c = d.copy
      <4>1. m = Msg(w) /\ Tries(w) > t
        BY <1>3, <2>2, <3>2
      <4>2. CASE d.copy \in Copies'
        BY <2>2, <3>2, <4>2
      <4>3. CASE Msg(w) \in Accounted'
        BY <4>1, <4>3
      <4>4. ASSUME NEW e \in Copies', e.msg = Msg(w), e.tries > Tries(w)
            PROVE  e.msg = m /\ e.tries > t
        <5>1. Copies' \subseteq Copy
          BY <1>7 DEF Copies, ConsumerTypeOK, Delivery
        <5>2. e.tries \in Nat
          BY <5>1, <4>4, ConsumerAssumption DEF Copy
        <5>3. QED
          BY <1>3, <4>1, <4>4, <5>2, ConsumerAssumption
      <4>5. QED
        BY <1>11, <2>2, <3>2, <4>2, <4>3, <4>4
    <3>3. QED
      BY <3>1, <3>2
  <2>3. QED
    BY <1>13, <2>1, <2>2 DEF Remains
<1>14. Evidence'
  <2>1. ASSUME NEW v \in Workers, At(v, "ack")'
        PROVE  Remains(Msg(v), Tries(v))'
    <3>1. v # w /\ worker'[v] = worker[v] /\ At(v, "ack")
      BY <1>1, <2>1 DEF At, Idle, Local, ConsumerTypeOK
    <3>2. PICK m, t : m = Msg(v) /\ t = Tries(v)
      OBVIOUS
    <3>3. t \in Nat /\ Remains(m, t)
      BY <3>1, <3>2, HeldType, ConsumerAssumption DEF Evidence, At
    <3>4. Msg(v)' = m /\ Tries(v)' = t
      BY <3>1, <3>2 DEF Msg, Tries
    <3>5. QED
      BY <1>13, <3>3, <3>4 DEF Remains
  <2>2. QED
    BY <2>1 DEF Evidence
<1>15. ASSUME NEW m \in Msgs
       PROVE  CopiesOf(m)' # {} \/ m \in Accounted'
  <2>1. CASE m \in Accounted
    BY <1>1, <1>6, <2>1 DEF Accounted, outcomes
  <2>2. ASSUME NEW c \in Copies, c.msg = m
        PROVE  CopiesOf(m)' # {} \/ m \in Accounted'
    <3>1. CASE c # d.copy
      BY <1>10, <2>2, <3>1 DEF CopiesOf
    <3>2. CASE c = d.copy
      BY <1>3, <1>11, <2>2, <3>2 DEF CopiesOf
    <3>3. QED
      BY <3>1, <3>2
  <2>3. QED
    BY <1>15, <2>1, <2>2 DEF NothingLost, CopiesOf
<1>16. QED
  BY <1>7, <1>8, <1>9, <1>14, <1>15 DEF NothingLost

-----------------------------------------------------------------------------
(* The invariant of the specification.                                     *)

\* Every message is ready, no goroutine holds one.
LEMMA InitInvariant == ConsumerInit => IInv
<1> SUFFICES ASSUME ConsumerInit
             PROVE  IInv
  OBVIOUS
<1>1. ready = {First(m) : m \in Msgs}
  BY DEF ConsumerInit
<1>3. ready \subseteq Copy
  BY <1>1, ConsumerAssumption DEF First, Copy
<1>4. ConnTypeOK
  BY ConnectionAssumption DEF ConsumerInit, ConnInit, ConnTypeOK
<1>5. Selecting \in DistState /\ Idle \in WorkerState
  BY ConnectionAssumption, ConsumerAssumption DEF Selecting, Idle, Local, DistState, WorkerState, WorkerPc
<1>6. ConsumerTypeOK
  BY <1>3, <1>4, <1>5 DEF ConsumerInit, ConsumerTypeOK
<1>7. Holding
  BY DEF ConsumerInit, Holding, Selecting, Idle, Local
<1>8. Finite
  <2> DEFINE f == [m \in Msgs |-> First(m)]
  <2>1. DOMAIN f = Msgs /\ f \in [Msgs -> {f[m] : m \in Msgs}]
    OBVIOUS
  <2>2. ready = {f[m] : m \in Msgs}
    BY <1>1
  <2> HIDE DEF f
  <2>3. IsFiniteSet(ready)
    BY <2>1, <2>2, ConsumerAssumption, FiniteImage
  <2>4. QED
    BY <2>3, FS_EmptySet DEF ConsumerInit, Finite
<1>9. Evidence
  BY DEF ConsumerInit, Evidence, At, Idle, Local
<1>10. NothingLost
  <2>1. ASSUME NEW m \in Msgs
        PROVE  \E c \in Copies : c.msg = m
    <3>1. First(m) \in Copies /\ First(m).msg = m
      BY <1>1 DEF Copies, First
    <3>2. QED
      BY <3>1
  <2>2. QED
    BY <2>1 DEF NothingLost, CopiesOf
<1>11. QED
  BY <1>6, <1>7, <1>8, <1>9, <1>10 DEF IInv

\* The broker's steps, the process's, the distributor's and the workers'.
LEMMA NextKeeps == IInv /\ [Next]_vars => IInv'
<1> SUFFICES ASSUME IInv, [Next]_vars
             PROVE  IInv'
  OBVIOUS
<1>1. CASE UNCHANGED vars
  BY <1>1 DEF IInv, ConsumerTypeOK, ConnTypeOK, Holding, Tries, Finite, Evidence, At, Remains,
              Msg, Copies, NothingLost, CopiesOf, Accounted, outcomes, vars
<1>2. CASE (\E c \in ready : Deliver(c)) \/ (\E d \in unacked : Return(d))
  BY <1>2, BrokerKeeps
<1>3. CASE Drop \/ Stop \/ Restart \/ Watch
  BY <1>3, ProcessKeeps
<1>4. CASE Crash \/ WatchPanics \/ Exit
  BY <1>4, DeathKeeps
<1>5. CASE Distributor
  BY <1>5, DistributorKeeps
<1>6. ASSUME NEW w \in Workers, Work(w)
      PROVE  IInv'
  BY <1>6, PickKeeps, HandlerKeeps, FileKeeps, SettleKeeps DEF Work
<1>7. QED
  BY <1>1, <1>2, <1>3, <1>4, <1>5, <1>6 DEF Next

\* ... hence in every reachable state.
LEMMA InvariantHolds == Spec => []IInv
BY InitInvariant, NextKeeps, PTL DEF Spec

\* Type correctness of consumer.go and mq.go.
THEOREM ConsumerTypeCorrect == Spec => []ConsumerTypeOK
<1>1. IInv => ConsumerTypeOK
  BY DEF IInv
<1>2. QED
  BY InvariantHolds, <1>1, PTL

\* consumer.go: through any number of lost connections, unconfirmed messages,
\* errors, crashes, shutdowns and restarts, an acknowledgement is never the last
\* trace of a message.
THEOREM NoMessageLost == Spec => []NothingLost
<1>1. IInv => NothingLost
  BY DEF IInv
<1>2. QED
  BY InvariantHolds, <1>1, PTL

-----------------------------------------------------------------------------
(* The refinement of AtLeastOnce.                                          *)

\* The messages of a set of copies.
MsgsOf(S) == {c.msg : c \in S}

\* The abstract step that stutters.
Stutters == UNCHANGED <<MsgsOf(Copies), answered, dead, Silent \cap recorded>>

\* A copy of m that comes to exist repeats m, or changes nothing of the promise.
LEMMA OneMoreCopy ==
    ASSUME IInv, NEW m \in Msgs, MsgsOf(Copies)' = MsgsOf(Copies) \cup {m},
           answered' = answered, dead' = dead, recorded' = recorded
    PROVE  Promise!Repeat(m) \/ Stutters
<1>1. CASE m \in MsgsOf(Copies)
  BY <1>1 DEF Stutters
<1>2. CASE m \notin MsgsOf(Copies)
  <2>1. m \in Accounted
    BY <1>2 DEF IInv, NothingLost, CopiesOf, MsgsOf
  <2>2. QED
    BY <2>1 DEF Promise!Repeat, Promise!Settled, Accounted, MsgsOf
<1>3. QED
  BY <1>1, <1>2

\* What the steps that are not a worker's do to the promise.
LEMMA OthersStutter ==
    ASSUME \/ UNCHANGED vars
           \/ \E c \in ready : Deliver(c)
           \/ \E d \in unacked : Return(d)
           \/ Drop \/ Crash \/ WatchPanics \/ Stop \/ Exit \/ Restart \/ Watch
           \/ Distributor
    PROVE  Stutters
<1>1. answered' = answered /\ dead' = dead /\ recorded' = recorded
  BY DEF vars, Deliver, Return, Drop, Crash, WatchPanics, Stop, Exit, Restart, Watch,
         Distributor, Receive, HandOff, SeeClosed, Reopen, ReopenFails, DistributorPanics,
         SeeStop, Dies, brokerVars, outcomes
<1>2. CASE (\E c \in ready : Deliver(c)) \/ (\E d \in unacked : Return(d))
  <2>1. Copies' = Copies
    <3>1. ASSUME NEW c \in ready, Deliver(c)
          PROVE  Copies' = Copies
      <4> DEFINE d == [ch |-> chan, copy |-> c]
      <4>1. ready' = ready \ {c} /\ unacked' = unacked \cup {d} /\ d.copy = c
        BY <3>1 DEF Deliver
      <4> HIDE DEF d
      <4>2. QED
        BY <3>1, <4>1 DEF Copies
    <3>2. ASSUME NEW d \in unacked, Return(d)
          PROVE  Copies' = Copies
      BY <3>2 DEF Return, Copies
    <3>3. QED
      BY <1>2, <3>1, <3>2
  <2>2. QED
    BY <1>1, <2>1 DEF Stutters, MsgsOf
<1>3. ASSUME ~ \E c \in ready : Deliver(c), ~ \E d \in unacked : Return(d)
      PROVE  ready' = ready /\ unacked' = unacked
  BY <1>3 DEF vars, Drop, Crash, WatchPanics, Stop, Exit, Restart, Watch,
              Distributor, Receive, HandOff, SeeClosed, Reopen, ReopenFails,
              DistributorPanics, SeeStop, Dies, brokerVars
<1>4. QED
  BY <1>1, <1>2, <1>3 DEF Stutters, Copies, MsgsOf

\* What a worker's steps do to the promise.
LEMMA WorkersPromise ==
    ASSUME IInv, IInv', NEW w \in Workers, Work(w)
    PROVE  (\E m \in Msgs : Promise!Answer(m) \/ Promise!Record(m) \/ Promise!Bury(m)
                               \/ Promise!Forget(m) \/ Promise!Repeat(m))
           \/ Stutters
<1>1. ASSUME ~ At(w, "idle")
      PROVE  Msg(w) \in Msgs
  BY <1>1, HeldType
<1>2. CASE \/ \E d \in work : Pick(w, d) \/ PickFails(w, d)
           \/ HandlerCollides(w) \/ Refuse(w) \/ HandlerPanics(w)
  <2>1. UNCHANGED <<ready, unacked, dead, answered, recorded>>
    BY <1>2 DEF Pick, PickFails, Taken, HandlerCollides, Refuse, HandlerPanics, brokerVars, outcomes
  <2>2. QED
    BY <2>1 DEF Stutters, MsgsOf, Copies
<1>7. CASE Commit(w) \/ HandlerFails(w)
  <2>1. /\ UNCHANGED <<ready, unacked, dead, answered>> /\ Msg(w) \in Msgs
        /\ recorded' \in {recorded, recorded \cup {Msg(w)}}
    BY <1>1, <1>7 DEF Commit, HandlerFails, MayRecord, At, brokerVars
  <2>2. MsgsOf(Copies)' = MsgsOf(Copies)
    BY <2>1 DEF MsgsOf, Copies
  <2>3. PICK m \in Msgs : m = Msg(w)
    BY <2>1
  <2>4. CASE m \in Silent
    BY <2>1, <2>2, <2>3, <2>4 DEF Promise!Record, Stutters, MsgsOf
  <2>5. CASE m \notin Silent
    BY <2>1, <2>2, <2>3, <2>5 DEF Stutters
  <2>6. QED
    BY <2>4, <2>5
<1>3. CASE Answer(w) \/ AnswerFails(w)
  <2>1. /\ UNCHANGED <<ready, unacked, dead, recorded>>
        /\ answered' \in {answered, answered \cup {Msg(w)}}
    BY <1>3 DEF Answer, AnswerFails, brokerVars
  <2>2. Copies' = Copies /\ Msg(w) \in Msgs
    BY <1>1, <1>3, <2>1 DEF Copies, Answer, AnswerFails, At
  <2>3. Promise!Answer(Msg(w)) \/ Stutters
    BY <2>1, <2>2 DEF Promise!Answer, Stutters, MsgsOf
  <2>4. QED
    BY <2>2, <2>3
<1>4. CASE File(w) \/ FileFails(w)
  <2>1. (UNCHANGED brokerVars \/ Filed(w)) /\ Msg(w) \in Msgs /\ answered' = answered
          /\ recorded' = recorded
    BY <1>1, <1>4 DEF File, FileFails, Filing, At, outcomes
  <2>2. CASE UNCHANGED brokerVars
    BY <2>1, <2>2 DEF brokerVars, Copies, Stutters, MsgsOf
  <2>3. CASE Filed(w) /\ At(w, "retry")
    <3> DEFINE c == [id |-> FreshId, msg |-> Msg(w), tries |-> Tries(w) + 1]
    <3>1. ready' = ready \cup {c} /\ dead' = dead /\ unacked' = unacked
      BY <2>3 DEF Filed
    <3>2. c.msg = Msg(w)
      OBVIOUS
    <3> HIDE DEF c
    <3>3. Copies' = Copies \cup {c}
      BY <3>1 DEF Copies
    <3>4. MsgsOf(Copies)' = MsgsOf(Copies) \cup {Msg(w)}
      BY <3>2, <3>3 DEF MsgsOf
    <3>5. QED
      BY <2>1, <3>1, <3>4, OneMoreCopy
  <2>4. CASE Filed(w) /\ ~ At(w, "retry")
    <3>1. Copies' = Copies /\ dead' = dead \cup {Msg(w)}
      BY <2>4 DEF Filed, Copies
    <3>2. PICK m \in Msgs : m = Msg(w)
      BY <2>1
    <3>3. Promise!Bury(m)
      BY <2>1, <3>1, <3>2 DEF Promise!Bury
    <3>4. QED
      BY <3>3
  <2>5. QED
    BY <2>1, <2>2, <2>3, <2>4
<1>5. CASE Settle(w)
  <2>1. PICK d : d = worker[w].held
    OBVIOUS
  <2>2. Msg(w) \in Msgs /\ answered' = answered /\ recorded' = recorded /\ d.copy.msg = Msg(w)
    BY <1>1, <1>5, <2>1 DEF Settle, At, Msg, outcomes
  <2>3. CASE UNCHANGED brokerVars
    BY <2>2, <2>3 DEF brokerVars, Copies, Stutters, MsgsOf
  <2>4. CASE ~ UNCHANGED brokerVars
    <3>1. /\ unacked' = unacked \ {d}
          /\ ready' = IF At(w, "requeue") THEN ready \cup {d.copy} ELSE ready
          /\ dead' = IF At(w, "reject") THEN dead \cup {Msg(w)} ELSE dead
      BY <1>5, <2>1, <2>4 DEF Settle
    <3>2. CASE At(w, "requeue")
      <4>1. Copies' = Copies \cup {d.copy} /\ dead' = dead
        BY <3>1, <3>2 DEF Copies, At
      <4>2. MsgsOf(Copies)' = MsgsOf(Copies) \cup {Msg(w)}
        BY <2>2, <4>1 DEF MsgsOf
      <4>3. QED
        BY <2>2, <4>1, <4>2, OneMoreCopy
    <3>3. CASE ~ At(w, "requeue")
      <4>1. Copies' \subseteq Copies /\ Copies \ {d.copy} \subseteq Copies'
        BY <3>1, <3>3 DEF Copies
      <4>2. MsgsOf(Copies)' \in {MsgsOf(Copies), MsgsOf(Copies) \ {Msg(w)}}
        BY <2>2, <4>1 DEF MsgsOf
      <4>3. CASE At(w, "reject")
        <5>1. PICK m \in Msgs : m = Msg(w)
          BY <2>2
        <5>2. Promise!Bury(m)
          BY <2>2, <3>1, <4>2, <4>3, <5>1 DEF Promise!Bury, MsgsOf
        <5>3. QED
          BY <5>2
      <4>4. CASE ~ At(w, "reject") /\ MsgsOf(Copies)' = MsgsOf(Copies)
        BY <2>2, <3>1, <4>4 DEF Stutters
      <4>5. CASE ~ At(w, "reject") /\ MsgsOf(Copies)' # MsgsOf(Copies)
        <5>1. Msg(w) \notin MsgsOf(Copies)' /\ dead' = dead
          BY <3>1, <4>2, <4>5
        <5>2. PICK m \in Msgs : m = Msg(w)
          BY <2>2
        <5>3. m \in Accounted'
          BY <5>1, <5>2 DEF IInv, NothingLost, CopiesOf, MsgsOf
        <5>4. Promise!Forget(m)
          BY <2>2, <3>1, <4>2, <4>5, <5>1, <5>2, <5>3 DEF Promise!Forget, Promise!Settled, Accounted, MsgsOf
        <5>5. QED
          BY <5>4
      <4>6. QED
        BY <4>2, <4>3, <4>4, <4>5
    <3>4. QED
      BY <3>2, <3>3
  <2>5. QED
    BY <2>3, <2>4
<1>6. QED
  BY <1>2, <1>3, <1>4, <1>5, <1>7 DEF Work

\* consumer.go implements the promise: each command is answered or becomes a
\* dead letter, or a payment is on record, before broker and process forget it.
THEOREM PromiseKept == Spec => KeepsPromise
<1>1. ConsumerInit => Promise!Init
  <2> SUFFICES ASSUME ConsumerInit
               PROVE  Promise!Init
    OBVIOUS
  <2>1. ready = {First(m) : m \in Msgs} /\ \A m \in Msgs : First(m).msg = m
    BY DEF ConsumerInit, First
  <2>2. {c.msg : c \in ready} = Msgs
    BY <2>1
  <2>3. Copies = ready
    BY DEF ConsumerInit, Copies
  <2>4. QED
    BY <2>2, <2>3 DEF Promise!Init, ConsumerInit
<1>2. IInv /\ IInv' /\ [Next]_vars => [Promise!Next]_<<{c.msg : c \in Copies}, answered, dead,
                                                     Silent \cap recorded>>
  <2> SUFFICES ASSUME IInv, IInv', [Next]_vars
               PROVE  Promise!Next \/ Stutters
    BY DEF Stutters, MsgsOf
  <2>1. ASSUME NEW w \in Workers, Work(w)
        PROVE  Promise!Next \/ Stutters
    BY <2>1, WorkersPromise DEF Promise!Next
  <2>2. QED
    BY <2>1, OthersStutter DEF Next
<1>3. QED
  BY InvariantHolds, <1>1, <1>2, PTL DEF Spec, KeepsPromise, Promise!Spec

-----------------------------------------------------------------------------
(* Outages.                                                                *)

\* Failed attempts are paid for: of dial by failures to dial, of the
\* distributor by lost connections it did not know of or by a refused consumer,
\* of a worker by such connections or by a lost confirmation.
Paid ==
    /\ dials <= Spent("dial")
    /\ stopped => Spent("stop") > 0
    /\ dist.seen <= Drops /\ dist.attempt <= dist.seen + Spent("consume") + 1
    /\ \A w \in Workers :
          /\ worker[w].seen <= Drops
          /\ worker[w].attempt <= worker[w].seen + Spent("confirm") + 1

\* No handler failed and fewer connections and confirmations were lost than
\* Publish has attempts.
Mild ==
    /\ Spent("error") = 0 /\ Spent("stop") = 0
    /\ Spent("drop") + Spent("confirm") < PublishAttempts

\* No retry was used up, and none is about to be, for a message not on record.
Unharmed ==
    /\ \A c \in Copies : c.tries = 0 \/ c.msg \in recorded
    /\ dead \subseteq Poison \cup recorded
    /\ \A w \in Workers :
          /\ worker[w].pc \in {"retry", "requeue"} => Msg(w) \in recorded
          /\ worker[w].pc \in {"bury", "reject"} => Msg(w) \in Poison \cup recorded

\* With IInv, inductive.
OutageInv == Paid /\ DownOnlyAfterOutage /\ (Mild => Unharmed)

\* Every step leaves the faults alone, or spends one.
LEMMA FaultSteps ==
    ASSUME [Next]_vars
    PROVE  UNCHANGED left \/ \E kind \in Kinds : Spend(kind)
<1>1. CASE UNCHANGED vars
  BY <1>1 DEF vars
<1>2. CASE (\E c \in ready : Deliver(c)) \/ (\E d \in unacked : Return(d)) \/ Exit \/ Restart
  BY <1>2 DEF Deliver, Return, Exit, Restart
<1>3. CASE Drop \/ Crash \/ WatchPanics \/ Stop \/ Watch
  BY <1>3 DEF Drop, Crash, WatchPanics, Stop, Watch, Notice, DialSucceeds, DialFails, Kinds
<1>4. CASE Distributor
  BY <1>4 DEF Distributor, Receive, HandOff, SeeClosed, Reopen, ReopenFails, DistributorPanics,
              SeeStop, NotReopened, Kinds
<1>5. ASSUME NEW w \in Workers, Work(w)
      PROVE  UNCHANGED left \/ \E kind \in Kinds : Spend(kind)
  BY <1>5 DEF Work, Pick, PickFails, Taken, Commit, HandlerFails, HandlerCollides, Refuse, HandlerPanics, Answer, AnswerFails,
              File, FileFails, Settle, Confirmed, Unconfirmed, Unsent, DbError, Kinds
<1>6. QED
  BY <1>1, <1>2, <1>3, <1>4, <1>5 DEF Next

\* The faults spent only grow ...
LEMMA SpentGrows ==
    ASSUME ConnTypeOK, [Next]_vars, NEW kind \in Kinds
    PROVE  Spent(kind) \in Nat /\ Spent(kind)' \in Nat /\ Spent(kind) <= Spent(kind)'
<1>1. left[kind] \in Nat /\ Budget[kind] \in Nat /\ left[kind] <= Budget[kind]
  BY ConnectionAssumption DEF ConnTypeOK
<1>2. left'[kind] \in Nat /\ left'[kind] <= left[kind]
  <2>1. CASE UNCHANGED left
    BY <1>1, <2>1
  <2>2. ASSUME NEW k \in Kinds, Spend(k)
        PROVE  left'[kind] \in Nat /\ left'[kind] <= left[kind]
    <3>1. left[k] > 0 /\ left["any"] > 0 /\ left' = [left EXCEPT ![k] = @ - 1, !["any"] = @ - 1]
      BY <2>2 DEF Spend
    <3>2. left \in [Kinds -> Nat] /\ "any" \in Kinds
      BY DEF ConnTypeOK, Kinds
    <3>3. left'[kind] \in Nat /\ left'[kind] <= left[kind]
      <4>1. [left EXCEPT ![k] = @ - 1] \in [Kinds -> Nat]
        BY <3>1, <3>2
      <4>2. CASE k = "any"
        <5>1. left' \in [Kinds -> Nat]
          BY <2>2, SpendType
        <5>2. QED
          BY <1>1, <3>1, <3>2, <4>2, <5>1
      <4>3. CASE k # "any"
        BY <1>1, <3>1, <3>2, <4>3
      <4>4. QED
        BY <4>2, <4>3
    <3>4. QED
      BY <3>3
  <2>3. QED
    BY <2>1, <2>2, FaultSteps
<1>3. QED
  BY <1>1, <1>2 DEF Spent

\* ... by one when one is spent.
LEMMA SpentOne ==
    ASSUME ConnTypeOK, NEW kind \in Kinds \ {"any"}, Spend(kind)
    PROVE  Spent(kind)' = Spent(kind) + 1
<1>1. left \in [Kinds -> Nat] /\ "any" \in Kinds /\ Budget[kind] \in Nat
  BY ConnectionAssumption DEF ConnTypeOK, Kinds
<1>2. left'[kind] = left[kind] - 1
  BY <1>1 DEF Spend
<1>3. QED
  BY <1>1, <1>2 DEF Spent

\* Without a channel the goroutine has not seen the latest drop.
LEMMA UnseenDrop ==
    ASSUME ConnTypeOK, NEW seen \in Nat, seen <= Drops, NoChannel(seen)
    PROVE  seen + 1 <= Drops
<1>1. seen # Drops
  BY DEF NoChannel, Locked, ConnTypeOK
<1>2. Drops \in Nat
  BY DropsType
<1>3. QED
  BY <1>1, <1>2

\* What a step does to the attempts of a worker.
LEMMA WorkerAttempts ==
    ASSUME IInv, [Next]_vars, NEW v \in Workers
    PROVE  \/ worker'[v] = worker[v]
           \/ worker'[v].attempt = 1 /\ worker'[v].seen \in {0, worker[v].seen}
           \/ /\ AnswerFails(v)
              /\ worker'[v].attempt = worker[v].attempt + 1 /\ worker'[v].seen = Drops
<1>0. worker \in [Workers -> WorkerState]
  BY DEF IInv, ConsumerTypeOK
<1>1. CASE UNCHANGED worker
  BY <1>1
<1>2. CASE Dies
  BY <1>2 DEF Dies, Idle, Local
<1>3. ASSUME NEW w \in Workers, Work(w)
      PROVE  \/ worker'[v] = worker[v]
             \/ worker'[v].attempt = 1 /\ worker'[v].seen \in {0, worker[v].seen}
             \/ /\ AnswerFails(v)
                /\ worker'[v].attempt = worker[v].attempt + 1 /\ worker'[v].seen = Drops
  <2>1. CASE AnswerFails(w)
    BY <1>0, <2>1 DEF AnswerFails, Errs, Goto, Local
  <2>2. CASE \/ (\E d \in work : Pick(w, d) \/ PickFails(w, d)) \/ Settle(w)
             \/ \E pc \in WorkerPc : Goto(w, pc)
    BY <1>0, <2>2 DEF Pick, PickFails, Taken, Settle, Goto, Local, Idle
  <2>3. QED
    BY <1>3, <2>1, <2>2 DEF Work, Commit, HandlerFails, HandlerCollides, Refuse, HandlerPanics, Answer, File,
       FileFails, Errs, OnError, Recover, Settled, Unsettled, WorkerPc
<1>4. QED
  BY <1>1, <1>2, <1>3 DEF Next, vars, Deliver, Return, Drop, Crash, WatchPanics, Stop, Exit,
     Restart, Watch, Distributor, Receive, HandOff, SeeClosed, Reopen, ReopenFails,
     DistributorPanics, SeeStop, poolVars

\* No attempt comes for nothing.
LEMMA PaidNext ==
    ASSUME IInv, Paid, [Next]_vars
    PROVE  Paid'
<1>0. ConnTypeOK /\ ConsumerTypeOK
  BY DEF IInv, ConsumerTypeOK
<1>1. /\ Spent("dial") \in Nat /\ Spent("dial")' \in Nat /\ Spent("dial") <= Spent("dial")'
      /\ Spent("stop") \in Nat /\ Spent("stop")' \in Nat /\ Spent("stop") <= Spent("stop")'
      /\ Drops \in Nat /\ Drops' \in Nat /\ Drops <= Drops'
      /\ Spent("confirm") \in Nat /\ Spent("confirm")' \in Nat
      /\ Spent("confirm") <= Spent("confirm")'
      /\ Spent("consume") \in Nat /\ Spent("consume")' \in Nat
      /\ Spent("consume") <= Spent("consume")'
  BY <1>0, SpentGrows DEF Kinds, Drops
<1>2. dials' <= Spent("dial")'
  <2>1. dials \in Nat
    BY <1>0 DEF ConnTypeOK
  <2>2. CASE DialFails
    BY <1>0, <1>1, <2>1, <2>2, SpentOne DEF DialFails, Kinds, Paid
  <2>3. CASE dials' \in {0, dials}
    BY <1>1, <2>1, <2>3 DEF Paid
  <2>4. QED
    BY <2>2, <2>3 DEF Next, vars, Deliver, Return, Drop, Crash, WatchPanics, Stop, Exit, Restart,
       Watch, Notice, DialSucceeds, Distributor, Receive, HandOff, SeeClosed, Reopen,
       ReopenFails, DistributorPanics, SeeStop, Dies, mqVars, Work, Pick, PickFails, Taken, Commit, HandlerFails,
       HandlerCollides, Refuse, HandlerPanics, Answer, AnswerFails, File, FileFails, Settle, Unmoved
<1>3. stopped' => Spent("stop")' > 0
  <2>1. CASE Stop
    BY <1>0, <1>1, <2>1, SpentOne DEF Stop, Kinds
  <2>2. CASE stopped' = FALSE \/ UNCHANGED stopped
    <3>1. CASE UNCHANGED stopped
      <4>1. stopped => Spent("stop")' > 0
        BY <1>1 DEF Paid
      <4>2. QED
        BY <3>1, <4>1
    <3>2. QED
      BY <2>2, <3>1
  <2>3. QED
    BY <2>1, <2>2 DEF Next, vars, Deliver, Return, Drop, Crash, WatchPanics, Exit, Restart,
       Watch, Distributor, Receive, HandOff, SeeClosed, Reopen, ReopenFails, DistributorPanics,
       SeeStop, Dies, procVars, Work, Pick, PickFails, Taken, Commit, HandlerFails,
       HandlerCollides, Refuse, HandlerPanics, Answer, AnswerFails, File, FileFails, Settle, Unmoved
<1>4. dist'.seen <= Drops' /\ dist'.attempt <= dist'.seen + Spent("consume")' + 1
  <2>1. dist.seen \in Nat /\ dist.attempt \in Nat
    BY <1>0, ConsumerAssumption DEF ConsumerTypeOK, DistState
  <2>2. CASE ReopenFails
    <3>1. dist'.seen = Drops /\ dist'.attempt = dist.attempt + 1
      BY <2>2 DEF ReopenFails, Local
    <3>2. CASE NoChannel(dist.seen)
      <4>1. dist.seen + 1 <= Drops
        BY <1>0, <2>1, <3>2, UnseenDrop DEF Paid
      <4>2. QED
        BY <1>1, <2>1, <3>1, <4>1 DEF Paid
    <3>3. CASE Spend("consume")
      <4>1. Spent("consume")' = Spent("consume") + 1
        BY <1>0, <3>3, SpentOne DEF Kinds
      <4>2. QED
        BY <1>1, <2>1, <3>1, <4>1 DEF Paid
    <3>4. QED
      BY <2>2, <3>2, <3>3 DEF ReopenFails, NotReopened
  <2>3. CASE dist' = dist
    BY <1>1, <2>1, <2>3 DEF Paid
  <2>4. CASE dist'.seen = 0 /\ dist'.attempt = 1
    BY <1>1, <2>4
  <2>5. QED
    BY <2>2, <2>3, <2>4 DEF Next, vars, Deliver, Return, Drop, Crash, WatchPanics, Stop, Exit,
       Restart, Watch, Distributor, Receive, HandOff, SeeClosed, Reopen, DistributorPanics,
       SeeStop, Dies, Selecting, Local, Work, Pick, PickFails, Taken, Commit, HandlerFails,
       HandlerCollides, Refuse, HandlerPanics, Answer, AnswerFails, File, FileFails, Settle, Unmoved
<1>5. ASSUME NEW v \in Workers
      PROVE  /\ worker'[v].seen <= Drops'
             /\ worker'[v].attempt <= worker'[v].seen + Spent("confirm")' + 1
  <2>1. worker[v].seen \in Nat /\ worker[v].attempt \in Nat
    BY <1>0, ConnectionAssumption DEF ConsumerTypeOK, WorkerState
  <2>2. CASE worker'[v] = worker[v]
    BY <1>1, <2>1, <2>2 DEF Paid
  <2>3. CASE worker'[v].attempt = 1 /\ worker'[v].seen \in {0, worker[v].seen}
    BY <1>1, <2>1, <2>3 DEF Paid
  <2>4. CASE AnswerFails(v) /\ worker'[v].attempt = worker[v].attempt + 1 /\ worker'[v].seen = Drops
    <3>1. CASE Unsent(worker[v].seen)
      <4>1. worker[v].seen + 1 <= Drops
        BY <1>0, <2>1, <3>1, UnseenDrop DEF Unsent, Paid
      <4>2. QED
        BY <1>1, <2>1, <2>4, <4>1 DEF Paid
    <3>2. CASE Unconfirmed
      <4>1. Spent("confirm")' = Spent("confirm") + 1
        BY <1>0, <3>2, SpentOne DEF Unconfirmed, Kinds
      <4>2. QED
        BY <1>1, <2>1, <2>4, <4>1 DEF Paid
    <3>3. QED
      BY <2>4, <3>1, <3>2 DEF AnswerFails
  <2>5. QED
    BY <2>2, <2>3, <2>4, WorkerAttempts
<1>6. QED
  BY <1>2, <1>3, <1>4, <1>5 DEF Paid

\* The process goes down for one of the reasons it has.
LEMMA DownNext ==
    ASSUME IInv, Paid, DownOnlyAfterOutage, [Next]_vars
    PROVE  DownOnlyAfterOutage'
<1>0. ConnTypeOK /\ ConsumerTypeOK
  BY DEF IInv, ConsumerTypeOK
<1>1. \A kind \in Kinds : Spent(kind) \in Nat /\ Spent(kind)' \in Nat /\ Spent(kind) <= Spent(kind)'
  BY <1>0, SpentGrows
<1>2. CASE UNCHANGED proc
  BY <1>1, <1>2, ConnectionAssumption, ConsumerAssumption DEF DownOnlyAfterOutage, Kinds
<1>3. CASE Crash
  BY <1>0, <1>1, <1>3, SpentOne DEF Crash, Kinds, DownOnlyAfterOutage
<1>4. CASE Exit
  BY <1>1, <1>4 DEF Exit, Kinds, DownOnlyAfterOutage, Paid
<1>5. CASE WatchPanics
  <2>1. Spent("dial")' = Spent("dial") + 1
    BY <1>0, <1>5, SpentOne DEF WatchPanics, Kinds
  <2>2. dials + 1 = DialAttempts /\ dials \in Nat /\ dials <= Spent("dial")
    BY <1>0, <1>5 DEF WatchPanics, LastDial, ConnTypeOK, Paid
  <2>3. QED
    BY <1>1, <2>1, <2>2 DEF DownOnlyAfterOutage, Kinds
<1>6. CASE DistributorPanics
  <2>1. dist.seen \in Nat /\ dist.attempt \in Nat
    BY <1>0, ConsumerAssumption DEF ConsumerTypeOK, DistState
  <2>2. /\ Drops \in Nat /\ Drops' \in Nat /\ Drops <= Drops'
        /\ Spent("consume") \in Nat /\ Spent("consume")' \in Nat
        /\ Spent("consume") <= Spent("consume")'
    BY <1>1 DEF Drops, Kinds
  <2>3. dist.seen <= Drops /\ ReopenAttempts <= dist.seen + Spent("consume") + 1
    BY <1>6 DEF DistributorPanics, Paid
  <2>4. CASE NoChannel(dist.seen)
    <3>1. dist.seen + 1 <= Drops
      BY <1>0, <2>1, <2>3, <2>4, UnseenDrop
    <3>2. ReopenAttempts <= Drops' + Spent("consume")'
      BY <2>1, <2>2, <2>3, <3>1, ConsumerAssumption
    <3>3. QED
      BY <2>2, <3>2, ConsumerAssumption DEF DownOnlyAfterOutage, Drops
  <2>5. CASE Spend("consume")
    <3>1. Spent("consume")' = Spent("consume") + 1
      BY <1>0, <2>5, SpentOne DEF Kinds
    <3>2. ReopenAttempts <= Drops' + Spent("consume")'
      BY <2>1, <2>2, <2>3, <3>1, ConsumerAssumption
    <3>3. QED
      BY <2>2, <3>2, ConsumerAssumption DEF DownOnlyAfterOutage, Drops
  <2>6. QED
    BY <1>6, <2>4, <2>5 DEF DistributorPanics, NotReopened
<1>7. CASE Restart
  BY <1>7 DEF Restart, DownOnlyAfterOutage
<1>8. QED
  BY <1>2, <1>3, <1>4, <1>5, <1>6, <1>7 DEF Next, vars, Deliver, Return, Drop, Stop, Watch,
     Distributor, Receive, HandOff, SeeClosed, Reopen, ReopenFails, SeeStop, procVars,
     Work, Pick, PickFails, Taken, Commit, HandlerFails, HandlerCollides, Refuse, HandlerPanics, Answer, AnswerFails, File,
     FileFails, Settle, Unmoved

\* An outage was mild before if it is mild now.
LEMMA MildBefore ==
    ASSUME ConnTypeOK, [Next]_vars, Mild'
    PROVE  Mild
<1>1. \A kind \in Kinds : Spent(kind) \in Nat /\ Spent(kind)' \in Nat /\ Spent(kind) <= Spent(kind)'
  BY SpentGrows
<1>2. {"error", "stop", "drop", "confirm"} \subseteq Kinds
  BY DEF Kinds
<1>3. QED
  BY <1>1, <1>2, ConnectionAssumption DEF Mild

\* In a mild outage a worker does no harm.
LEMMA WorkUnharmed ==
    ASSUME IInv, Paid, Mild, Unharmed, NEW w \in Workers, Work(w), [Next]_vars, Paid', Mild'
    PROVE  Unharmed'
<1>0. ConnTypeOK /\ worker \in [Workers -> WorkerState]
  BY DEF IInv, ConsumerTypeOK
<1>1. /\ worker[w].pc \in {"retry", "requeue"} => Msg(w) \in recorded
      /\ worker[w].pc \in {"bury", "reject"} => Msg(w) \in Poison \cup recorded
  BY DEF Unharmed
<1>2. ~ HandlerPanics(w) /\ ~ HandlerFails(w) /\ \A d \in work : ~ PickFails(w, d)
  <2>1. Spent("error")' = 0 /\ Spent("error") = 0 /\ Spent("stop") = 0
    BY DEF Mild
  <2>2. ~ stopped
    BY <2>1 DEF Paid
  <2>3. ~ Spend("error")
    BY <1>0, <2>1, SpentOne DEF Kinds
  <2>4. QED
    BY <2>2, <2>3 DEF HandlerPanics, HandlerFails, PickFails, DbError
<1>3. ASSUME AnswerFails(w)
      PROVE  worker'[w].pc = "publish" /\ UNCHANGED brokerVars
  <2>1. worker[w].attempt \in Nat /\ worker[w].seen \in Nat
    BY <1>0, ConnectionAssumption DEF WorkerState
  <2>2. ~ stopped
    BY DEF Paid, Mild
  <2>3. worker[w].attempt <= Drops' + Spent("confirm")'
    <3>1. /\ Drops \in Nat /\ Drops' \in Nat /\ Drops <= Drops'
          /\ Spent("confirm") \in Nat /\ Spent("confirm")' \in Nat
          /\ Spent("confirm") <= Spent("confirm")'
      BY <1>0, SpentGrows DEF Kinds, Drops
    <3>2. worker[w].seen <= Drops /\ worker[w].attempt <= worker[w].seen + Spent("confirm") + 1
      BY DEF Paid
    <3>3. CASE Unsent(worker[w].seen)
      <4>1. worker[w].seen + 1 <= Drops
        BY <1>0, <2>1, <3>2, <3>3, UnseenDrop DEF Unsent
      <4>2. QED
        BY <2>1, <3>1, <3>2, <4>1
    <3>4. CASE Unconfirmed
      <4>1. Spent("confirm")' = Spent("confirm") + 1
        BY <1>0, <3>4, SpentOne DEF Unconfirmed, Kinds
      <4>2. QED
        BY <2>1, <3>1, <3>2, <4>1
    <3>5. QED
      BY <1>3, <3>3, <3>4 DEF AnswerFails
  <2>4. ~ GivesUp(worker[w].attempt, stopped)
    <3>1. Drops' + Spent("confirm")' < PublishAttempts
      BY DEF Mild, Drops
    <3>2. Drops' \in Nat /\ Spent("confirm")' \in Nat
      BY <1>0, SpentGrows DEF Kinds, Drops
    <3>3. QED
      BY <2>1, <2>2, <2>3, <3>1, <3>2, ConnectionAssumption DEF GivesUp
  <2>5. QED
    BY <1>0, <1>3, <2>4 DEF AnswerFails, Local
<1>9. recorded \subseteq recorded'
  BY <1>2 DEF Work, Pick, Taken, Commit, HandlerCollides, Refuse, Answer, AnswerFails, File,
              FileFails, Settle, MayRecord, outcomes
<1>4. /\ \A v \in Workers : v # w => worker'[v] = worker[v]
      /\ \/ worker'[w].pc \in {"idle", "handle", "publish", "ack"}
         \/ worker'[w].held = worker[w].held
              /\ \/ worker'[w].pc \in {"bury", "reject"} /\ Msg(w) \in Poison
                 \/ Msg(w) \in recorded
  <2>1. CASE AnswerFails(w)
    BY <1>0, <1>3, <2>1 DEF AnswerFails, Errs, Goto
  <2>2. CASE \/ (\E d \in work : Pick(w, d)) \/ Commit(w) \/ Answer(w) \/ File(w) \/ Settle(w)
    BY <1>0, <2>2 DEF Pick, Taken, Begins, Commit, Answer, File, Settle, Settled, Goto, Local, Idle
  <2>3. CASE Refuse(w) \/ FileFails(w)
    BY <1>0, <1>1, <2>3 DEF Refuse, FileFails, Filing, Unsettled, Goto, Local, At
  <2>4. CASE HandlerCollides(w)
    BY <1>0, <2>4 DEF HandlerCollides, Errs, Goto, Local
  <2>5. QED
    BY <1>2, <2>1, <2>2, <2>3, <2>4 DEF Work
<1>5. \A v \in Workers :
         /\ worker'[v].pc \in {"retry", "requeue"} => Msg(v)' \in recorded'
         /\ worker'[v].pc \in {"bury", "reject"} => Msg(v)' \in Poison \cup recorded'
  <2>1. ASSUME NEW v \in Workers, v # w
        PROVE  /\ worker'[v].pc \in {"retry", "requeue"} => Msg(v)' \in recorded'
               /\ worker'[v].pc \in {"bury", "reject"} => Msg(v)' \in Poison \cup recorded'
    BY <1>4, <1>9, <2>1 DEF Unharmed, Msg
  <2>2. /\ worker'[w].pc \in {"retry", "requeue"} => Msg(w)' \in recorded'
        /\ worker'[w].pc \in {"bury", "reject"} => Msg(w)' \in Poison \cup recorded'
    BY <1>4, <1>9 DEF Msg
  <2>3. QED
    BY <2>1, <2>2
<1>6. /\ dead' \subseteq Poison \cup recorded'
      /\ \A c \in Copies' : c \in Copies \/ c.msg \in recorded'
  <2>1. CASE AnswerFails(w)
    BY <1>3, <1>9, <2>1 DEF Unharmed, brokerVars, Copies
  <2>2. CASE \/ (\E d \in work : Pick(w, d)) \/ Commit(w) \/ HandlerCollides(w) \/ Refuse(w)
             \/ Answer(w)
    BY <1>9, <2>2 DEF Pick, Taken, Commit, HandlerCollides, Refuse, Answer, Unharmed, brokerVars,
                      Copies
  <2>3. CASE File(w) \/ FileFails(w)
    <3>1. Filing(w) /\ (UNCHANGED brokerVars \/ Filed(w))
      BY <2>3 DEF File, FileFails
    <3>2. CASE UNCHANGED brokerVars
      BY <1>9, <3>2 DEF Unharmed, brokerVars, Copies
    <3>3. CASE Filed(w) /\ At(w, "retry")
      <4>1. PICK c : c = [id |-> FreshId, msg |-> Msg(w), tries |-> Tries(w) + 1]
        OBVIOUS
      <4>2. c.msg \in recorded'
        BY <1>1, <1>9, <3>3, <4>1 DEF At
      <4>3. ready' = ready \cup {c} /\ dead' = dead /\ unacked' = unacked
        BY <3>3, <4>1 DEF Filed
      <4>4. QED
        BY <1>9, <4>2, <4>3 DEF Unharmed, Copies
    <3>4. CASE Filed(w) /\ ~ At(w, "retry")
      BY <1>1, <1>9, <3>1, <3>4 DEF Filed, Filing, At, Unharmed, Copies
    <3>5. QED
      BY <3>1, <3>2, <3>3, <3>4
  <2>4. CASE Settle(w)
    <3>1. CASE UNCHANGED brokerVars
      BY <1>9, <3>1 DEF Unharmed, brokerVars, Copies
    <3>2. CASE ~ UNCHANGED brokerVars
      <4>1. PICK d : d = worker[w].held
        OBVIOUS
      <4>2. /\ unacked' = unacked \ {d}
            /\ ready' = IF At(w, "requeue") THEN ready \cup {d.copy} ELSE ready
            /\ dead' = IF At(w, "reject") THEN dead \cup {Msg(w)} ELSE dead
        BY <2>4, <3>2, <4>1 DEF Settle
      <4>3. d.copy.msg = Msg(w)
        BY <4>1 DEF Msg
      <4>4. At(w, "requeue") => Msg(w) \in recorded'
        BY <1>1, <1>9 DEF At
      <4>5. At(w, "reject") => Msg(w) \in Poison \cup recorded'
        BY <1>1, <1>9 DEF At
      <4>6. dead' \subseteq Poison \cup recorded'
        BY <1>9, <4>2, <4>5 DEF Unharmed
      <4>7. ASSUME NEW c \in Copies'
            PROVE  c \in Copies \/ c.msg \in recorded'
        BY <4>2, <4>3, <4>4, <4>7 DEF Copies
      <4>8. QED
        BY <4>6, <4>7
    <3>3. QED
      BY <3>1, <3>2
  <2>5. QED
    BY <1>2, <2>1, <2>2, <2>3, <2>4 DEF Work
<1>7. \A c \in Copies' : c.tries = 0 \/ c.msg \in recorded'
  BY <1>6, <1>9 DEF Unharmed
<1>8. QED
  BY <1>5, <1>6, <1>7 DEF Unharmed

\* Nor does anybody else.
LEMMA UnharmedNext ==
    ASSUME IInv, Paid, Mild, Unharmed, [Next]_vars, Paid', Mild'
    PROVE  Unharmed'
<1>1. ASSUME NEW w \in Workers, Work(w)
      PROVE  Unharmed'
  BY <1>1, WorkUnharmed
<1>2. ASSUME \A w \in Workers : ~ Work(w)
      PROVE  Unharmed'
  <2>1. /\ \/ UNCHANGED vars
           \/ \E c \in ready : Deliver(c)
           \/ \E d \in unacked : Return(d)
           \/ Drop \/ Crash \/ WatchPanics \/ Stop \/ Exit \/ Restart \/ Watch
           \/ Distributor
    BY <1>2 DEF Next
  <2>2. dead' = dead /\ recorded' = recorded
    BY <2>1 DEF vars, Deliver, Return, Drop, Crash, WatchPanics, Stop, Exit, Restart, Watch,
       Distributor, Receive, HandOff, SeeClosed, Reopen, ReopenFails, DistributorPanics,
       SeeStop, Dies, brokerVars, outcomes
  <2>3. Copies' \subseteq Copies
    <3>1. ASSUME NEW c \in ready, Deliver(c)
          PROVE  Copies' \subseteq Copies
      <4> DEFINE d == [ch |-> chan, copy |-> c]
      <4>1. ready' = ready \ {c} /\ unacked' = unacked \cup {d} /\ d.copy = c
        BY <3>1 DEF Deliver
      <4> HIDE DEF d
      <4>2. QED
        BY <3>1, <4>1 DEF Copies
    <3>2. ASSUME NEW d \in unacked, Return(d)
          PROVE  Copies' \subseteq Copies
      BY <3>2 DEF Return, Copies
    <3>3. ASSUME UNCHANGED <<ready, unacked>>
          PROVE  Copies' \subseteq Copies
      BY <3>3 DEF Copies
    <3>4. QED
      BY <2>1, <3>1, <3>2, <3>3 DEF vars, Drop, Crash, WatchPanics, Stop, Exit, Restart, Watch,
         Distributor, Receive, HandOff, SeeClosed, Reopen, ReopenFails, DistributorPanics,
         SeeStop, Dies, brokerVars
  <2>4. worker' = worker \/ worker' = [w \in Workers |-> Idle]
    BY <2>1 DEF vars, Deliver, Return, Drop, Crash, WatchPanics, Stop, Exit, Restart, Watch,
       Distributor, Receive, HandOff, SeeClosed, Reopen, ReopenFails, DistributorPanics,
       SeeStop, Dies, poolVars
  <2>5. \A w \in Workers :
           /\ worker'[w].pc \in {"retry", "requeue"} => Msg(w)' \in recorded'
           /\ worker'[w].pc \in {"bury", "reject"} => Msg(w)' \in Poison \cup recorded'
    BY <2>2, <2>4 DEF Unharmed, Msg, Idle, Local
  <2>6. QED
    BY <2>2, <2>3, <2>5 DEF Unharmed
<1>3. QED
  BY <1>1, <1>2

\* What both theorems rest on.
LEMMA OutageInvariant == Spec => []OutageInv
<1>1. ConsumerInit => OutageInv
  <2> SUFFICES ASSUME ConsumerInit
               PROVE  OutageInv
    OBVIOUS
  <2>1. IInv
    BY InitInvariant
  <2>2. \A kind \in Kinds : Spent(kind) = 0
    BY ConnectionAssumption DEF ConsumerInit, ConnInit, Spent
  <2>3. Paid
    BY <2>2 DEF Paid, ConsumerInit, ConnInit, Selecting, Idle, Local, Drops, Kinds
  <2>4. DownOnlyAfterOutage
    BY DEF DownOnlyAfterOutage, ConsumerInit
  <2>5. Unharmed
    <3>2. \A c \in Copies : c.tries = 0
      BY DEF ConsumerInit, Copies, First
    <3>3. QED
      BY <3>2 DEF Unharmed, ConsumerInit, Idle, Local
  <2>6. QED
    BY <2>3, <2>4, <2>5 DEF OutageInv
<1>2. IInv /\ OutageInv /\ [Next]_vars => OutageInv'
  <2> SUFFICES ASSUME IInv, OutageInv, [Next]_vars
               PROVE  OutageInv'
    OBVIOUS
  <2>1. Paid'
    BY PaidNext DEF OutageInv
  <2>2. DownOnlyAfterOutage'
    BY DownNext DEF OutageInv
  <2>3. ASSUME Mild'
        PROVE  Unharmed'
    <3>1. Mild
      BY <2>3, MildBefore DEF IInv, ConsumerTypeOK
    <3>2. QED
      BY <2>1, <2>3, <3>1, UnharmedNext DEF OutageInv
  <2>4. QED
    BY <2>1, <2>2, <2>3 DEF OutageInv
<1>3. QED
  BY InvariantHolds, <1>1, <1>2, PTL DEF Spec

\* mq.go and reconnectConsumer: a process that nobody killed or stopped goes down
\* only after the attempts of dial, or the distributor's, have all failed.
THEOREM OutageEndsProcess == Spec => []DownOnlyAfterOutage
<1>1. OutageInv => DownOnlyAfterOutage
  BY DEF OutageInv
<1>2. QED
  BY OutageInvariant, <1>1, PTL

\* Publisher.Publish: with fewer lost connections and confirmations than it has
\* attempts no message is retried and none that parses is dead-lettered, unless it
\* is on record, by a concurrent delivery.
THEOREM ShortOutageIsMasked == Spec => []OutageIsMasked
<1>1. OutageInv => OutageIsMasked
  BY DEF OutageInv, Mild, Unharmed, OutageIsMasked
<1>2. QED
  BY OutageInvariant, <1>1, PTL
=============================================================================
