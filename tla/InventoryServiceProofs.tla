----------------------- MODULE InventoryServiceProofs -----------------------
(***************************************************************************)
(* Theorems of InventoryService: inventory-service under any caller that   *)
(* releases only what was reserved, for any number of orders, products,    *)
(* workers, attempts, operator requests and faults.                        *)
(***************************************************************************)
EXTENDS InventoryService, InventoryLemmas

USE DEF Keys, Commands, Events, DeadEvent

\* A message that speaks of a reservation, a positive answer or a command to
\* release, speaks of one that is in the log.
Backed(m) ==
    /\ m.key = "inventory.reserved" /\ m.ok => Reserved(m.order)
    /\ m.key = "inventory.release" => Reserved(m.order)

\* A worker about to answer "yes" to a reserve command found or wrote the log,
\* and one that works on a release command releases what is in the log.
InvWorkerBacked(w) ==
    /\ iw[w].pc = "yes" /\ iw[w].msg.key = "inventory.reserve" => Reserved(iw[w].msg.order)
    /\ iw[w].pc # "idle" /\ iw[w].msg.key = "inventory.release" => Reserved(iw[w].msg.order)

\* Inductive.
SIInv ==
    /\ ServiceTypeOK
    /\ \A m \in queue \cup dlq : Backed(m)
    /\ \A w \in InvWorkers : InvWorkerHolds(w) /\ InvWorkerBacked(w)

-----------------------------------------------------------------------------
\* The log only grows: what is backed stays so, and so do copies of it.
LEMMA BackedStay ==
    ASSUME log \subseteq log', \A m \in queue \cup dlq : Backed(m),
           \A m \in queue' \cup dlq' : m \in queue \cup dlq \/ Backed(m)'
    PROVE  \A m \in queue' \cup dlq' : Backed(m)'
  BY DEF Backed, Reserved

\* A command that goes back to the queue is as backed as it was.
LEMMA CommandBacked ==
    ASSUME log \subseteq log', \A m \in queue \cup dlq : Backed(m),
           NEW h \in Message, Backed(h), h.key \in {"inventory.reserve", "inventory.release"},
           HandlerError(h) \/ Abort(h) \/ Duplicate(h)
    PROVE  \A m \in queue' \cup dlq' : Backed(m)'
<1>1. HandlerError(h) \/ Requeue(h)
  BY DEF Abort, Duplicate
<1>2. \A m \in queue' \cup dlq' :
          m \in queue \cup dlq \/ m = h \/ m = [h EXCEPT !.tries = @ + 1]
  BY <1>1 DEF HandlerError, Requeue
<1>3. PICK r : r = [h EXCEPT !.tries = @ + 1]
  OBVIOUS
<1>4. r.key = h.key /\ r.order = h.order /\ r.ok = h.ok
  BY <1>3 DEF Message
<1>5. Backed(h)' /\ Backed(r)'
  BY <1>4 DEF Backed, Reserved
<1>6. QED
  BY <1>2, <1>3, <1>5, BackedStay

\* A worker that a step leaves alone keeps what it holds and knows.
LEMMA WorkersStay ==
    ASSUME log \subseteq log', NEW w \in InvWorkers, iw'[w] = iw[w],
           InvWorkerHolds(w), InvWorkerBacked(w)
    PROVE  InvWorkerHolds(w)' /\ InvWorkerBacked(w)'
  BY DEF InvWorkerHolds, InvWorkerBacked, Reserved

\* A worker reports a reservation only when the log has it.
LEMMA WorkerInvariant ==
    ASSUME SIInv, NEW w \in InvWorkers, InvStep(w) \/ InvFault(w)
    PROVE  /\ log \subseteq log'
           /\ \A m \in queue' \cup dlq' : Backed(m)'
           /\ InvWorkerHolds(w)' /\ InvWorkerBacked(w)'
           /\ \A v \in InvWorkers \ {w} : iw'[v] = iw[v]
<1>0. /\ iw \in [InvWorkers -> InvWorker]
      /\ queue \subseteq Message
      /\ \A m \in queue \cup dlq : Backed(m)
      /\ InvWorkerHolds(w) /\ InvWorkerBacked(w)
  BY DEF SIInv, ServiceTypeOK, InvTypeOK, MsgTypeOK
<1>1. log \subseteq log'
  BY DEF InvStep, InvFault, TakeReserve, TakeRelease, ReadInventory, ReadMissing, ReserveAtomic,
     ReserveDuplicate, ReserveConflict, ReleaseAtomic, ReleaseRefused, ReleaseFails,
     ReleaseCommit, InvReply, InvAbort, InvDuplicate, invVars
<1>2. PICK h : h = iw[w].msg
  OBVIOUS
<1>3. ASSUME iw' = [iw EXCEPT ![w] = IdleInv]
      PROVE  /\ InvWorkerHolds(w)' /\ InvWorkerBacked(w)'
             /\ \A v \in InvWorkers \ {w} : iw'[v] = iw[v]
  BY <1>0, <1>3 DEF InvWorkerHolds, InvWorkerBacked, IdleInv
<1>4. ASSUME UNCHANGED <<queue, dlq>>
      PROVE  \A m \in queue' \cup dlq' : Backed(m)'
  BY <1>0, <1>1, <1>4, BackedStay
<1>5. ASSUME NEW pc \in {"read", "cas", "yes", "no"}, iw[w].pc # "idle",
             iw'[w].pc = pc, iw'[w].msg = h,
             pc \in {"read", "cas"} => h.key = "inventory.reserve",
             pc = "yes" /\ h.key = "inventory.reserve" => Reserved(h.order)'
      PROVE  InvWorkerHolds(w)' /\ InvWorkerBacked(w)'
  <2>1. h.key = "inventory.release" => Reserved(h.order)'
    BY <1>0, <1>1, <1>2, <1>5 DEF InvWorkerBacked, Reserved
  <2>2. QED
    BY <1>0, <1>2, <1>5, <2>1 DEF InvWorkerHolds, InvWorkerBacked, Reserved
<1>6. ASSUME NEW m \in queue, TakeReserve(w, m) \/ TakeRelease(w, m)
      PROVE  /\ \A x \in queue' \cup dlq' : Backed(x)'
             /\ InvWorkerHolds(w)' /\ InvWorkerBacked(w)'
             /\ \A v \in InvWorkers \ {w} : iw'[v] = iw[v]
  <2>1. \A x \in queue' \cup dlq' : x \in queue \cup dlq
    BY <1>6 DEF TakeReserve, TakeRelease, Take
  <2>2. InvWorkerHolds(w)' /\ \A v \in InvWorkers \ {w} : iw'[v] = iw[v]
    BY <1>0, <1>6 DEF TakeReserve, TakeRelease, InvWorkerHolds
  <2>3. InvWorkerBacked(w)'
    <3>1. m.key = "inventory.release" => Reserved(m.order)
      BY <1>0, <1>6 DEF Backed
    <3>2. QED
      BY <1>0, <1>6, <3>1 DEF TakeReserve, TakeRelease, InvWorkerBacked, Reserved
  <2>4. QED
    BY <1>0, <1>1, <2>1, <2>2, <2>3, BackedStay
<1>7. CASE ReadInventory(w) \/ ReserveConflict(w)
  <2>1. /\ iw[w].pc # "idle" /\ iw'[w].pc \in {"read", "cas", "no"} /\ iw'[w].msg = h
        /\ h.key = "inventory.reserve"
        /\ \A v \in InvWorkers \ {w} : iw'[v] = iw[v]
        /\ UNCHANGED <<queue, dlq>>
    BY <1>0, <1>2, <1>7 DEF ReadInventory, ReserveConflict, InvWorkerHolds, InvWorker, msgVars
  <2>2. QED
    BY <1>1, <1>4, <1>5, <2>1
<1>8. CASE ReserveAtomic(w)
  <2>1. /\ iw[w].pc # "idle" /\ iw'[w].pc = "yes" /\ iw'[w].msg = h
        /\ \A v \in InvWorkers \ {w} : iw'[v] = iw[v]
        /\ UNCHANGED <<queue, dlq>>
        /\ Reserved(h.order)'
    BY <1>0, <1>2, <1>8 DEF ReserveAtomic, InvWorker, Reserved, msgVars
  <2>2. QED
    BY <1>1, <1>4, <1>5, <2>1
<1>9. CASE ReleaseAtomic(w) \/ ReleaseRefused(w) \/ ReleaseFails(w)
  <2>1. /\ iw[w].pc = "release" /\ iw'[w].pc \in {"yes", "no"} /\ iw'[w].msg = h
        /\ \A v \in InvWorkers \ {w} : iw'[v] = iw[v]
        /\ UNCHANGED <<queue, dlq>>
    BY <1>0, <1>2, <1>9 DEF ReleaseAtomic, ReleaseRefused, ReleaseFails, InvWorker, msgVars
  <2>2. h.key = "inventory.release"
    BY <1>0, <1>2, <2>1 DEF InvWorkerHolds
  <2>3. QED
    BY <1>1, <1>4, <1>5, <2>1, <2>2
<1>10. CASE ReadMissing(w) \/ ReserveDuplicate(w) \/ InvAbort(w)
  <2>1. /\ iw[w].pc # "idle" /\ iw' = [iw EXCEPT ![w] = IdleInv]
        /\ HandlerError(h) \/ Abort(h)
    BY <1>2, <1>10 DEF ReadMissing, ReserveDuplicate, InvAbort
  <2>2. /\ h \in Message /\ h.key \in {"inventory.reserve", "inventory.release"}
        /\ Backed(h)
    BY <1>0, <1>2, <2>1 DEF InvWorkerHolds, InvWorkerBacked, Backed
  <2>3. QED
    BY <1>0, <1>1, <1>3, <2>1, <2>2, CommandBacked
<1>11. CASE InvDuplicate(w)
  <2>1. /\ h \in Message /\ h.key \in {"inventory.reserve", "inventory.release"}
        /\ Backed(h) /\ Duplicate(h) /\ UNCHANGED iw
    BY <1>0, <1>2, <1>11 DEF InvDuplicate, InvWorkerHolds, InvWorkerBacked, Backed, invVars
  <2>2. QED
    BY <1>0, <1>1, <2>1, CommandBacked, WorkersStay
<1>12. CASE InvReply(w)
  <2>1. PICK key, ok : key = Answer(h.key) /\ ok = (iw[w].pc = "yes")
    OBVIOUS
  <2>2. /\ Publish(key, h.order, ok) /\ iw' = [iw EXCEPT ![w] = IdleInv]
        /\ key = "inventory.reserved" /\ ok => Reserved(h.order)
    BY <1>0, <1>2, <1>12, <2>1 DEF InvReply, Answer, InvWorkerHolds, InvWorkerBacked
  <2>3. \A m \in queue' \cup dlq' : m \in queue \cup dlq \/ m = Fresh(key, h.order, ok)
    BY <2>2 DEF Publish, msgVars
  <2>4. \A m : m = Fresh(key, h.order, ok) => Backed(m)'
    BY <1>1, <2>1, <2>2 DEF Fresh, Backed, Reserved, Answer
  <2>5. QED
    BY <1>0, <1>1, <1>3, <2>2, <2>3, <2>4, BackedStay
<1>13. QED
  BY <1>1, <1>6, <1>7, <1>8, <1>9, <1>10, <1>11, <1>12 DEF InvStep, InvFault

\* Nothing reserved, nothing reported.
LEMMA ServiceInit == Init => SIInv
<1> SUFFICES ASSUME Init
             PROVE  SIInv
  OBVIOUS
<1>1. ServiceTypeOK
  BY MessagesAssumption, InventoryAssumption, IdleInvType
  DEF Init, MsgInit, InvInit, ServiceTypeOK, MsgTypeOK, InvTypeOK, Row
<1>2. QED
  BY <1>1 DEF SIInv, Init, MsgInit, InvInit, InvWorkerHolds, InvWorkerBacked, IdleInv

\* The commands of the environment, the operator, and each statement of a worker.
LEMMA ServiceNext == SIInv /\ [Next]_vars => SIInv'
<1> SUFFICES ASSUME SIInv, [Next]_vars
             PROVE  SIInv'
  OBVIOUS
<1>0. /\ MsgTypeOK /\ InvTypeOK
      /\ \A m \in queue \cup dlq : Backed(m)
      /\ \A w \in InvWorkers : InvWorkerHolds(w) /\ InvWorkerBacked(w)
  BY DEF SIInv, ServiceTypeOK
<1>1. ASSUME NEW w \in InvWorkers, InvStep(w) \/ InvFault(w)
      PROVE  SIInv'
  <2>1. MsgTypeOK' /\ InvTypeOK'
    BY <1>0, <1>1, InvWorkerTypes
  <2>2. \A v \in InvWorkers : InvWorkerHolds(v)' /\ InvWorkerBacked(v)'
    BY <1>0, <1>1, WorkerInvariant, WorkersStay
  <2>3. QED
    BY <1>1, <2>1, <2>2, WorkerInvariant DEF SIInv, ServiceTypeOK
<1>2. ASSUME UNCHANGED <<queue, dlq, log, iw>>, MsgTypeOK' /\ InvTypeOK'
      PROVE  SIInv'
  BY <1>0, <1>2, BackedStay, WorkersStay DEF SIInv, ServiceTypeOK
<1>3. ASSUME Operator
      PROVE  SIInv'
  BY <1>0, <1>2, <1>3, OperatorTypes DEF Operator, CreateSKU, UpdateAvailableQty, msgVars
<1>4. ASSUME NEW key \in {"inventory.reserve", "inventory.release"}, NEW o \in Orders,
             Command(key, o)
      PROVE  SIInv'
  <2>1. MsgTypeOK'
    BY <1>0, <1>4, PublishType DEF Command
  <2>2. InvTypeOK' /\ UNCHANGED <<log, iw>>
    BY <1>0, <1>4 DEF Command, InvTypeOK, invVars
  <2>3. \A m \in queue' \cup dlq' :
            m \in queue \cup dlq \/ (m.key = key /\ m.order = o)
    BY <1>4 DEF Command, Publish, Fresh, msgVars
  <2>4. \A m \in queue' \cup dlq' : m \in queue \cup dlq \/ Backed(m)'
    BY <1>4, <2>2, <2>3 DEF Backed, Command, Reserved
  <2>5. \A m \in queue' \cup dlq' : Backed(m)'
    BY <1>0, <2>2, <2>4, BackedStay
  <2>6. QED
    BY <1>0, <2>1, <2>2, <2>5, WorkersStay DEF SIInv, ServiceTypeOK
<1>5. CASE UNCHANGED vars
  <2>1. MsgTypeOK' /\ InvTypeOK'
    BY <1>0, <1>5 DEF vars, msgVars, invVars, MsgTypeOK, InvTypeOK
  <2>2. QED
    BY <1>2, <1>5, <2>1 DEF vars, msgVars, invVars
<1>6. QED
  BY <1>1, <1>3, <1>4, <1>5 DEF Next, InvNext

\* ... hence in every reachable state.
LEMMA ServiceInvariant == Spec => []SIInv
  BY ServiceInit, ServiceNext, PTL DEF Spec

\* Stock, version and attempts keep their types: in particular available_qty is
\* never below zero, however many workers race for the last units.
THEOREM ServiceTypes == Spec => []ServiceTypeOK
<1>1. SIInv => ServiceTypeOK
  BY DEF SIInv
<1>2. QED
  BY <1>1, ServiceInvariant, PTL

\* Whatever duplicated and concurrent commands do, a reservation that is
\* reported is in inventory_logs.
THEOREM ReportsAreTrue == Spec => []ReportedIsReserved
<1>1. SIInv => ReportedIsReserved
  BY DEF SIInv, Backed, ReportedIsReserved
<1>2. QED
  BY <1>1, ServiceInvariant, PTL

-----------------------------------------------------------------------------
(* The stock rows.                                                         *)

\* Inductive on top of SIInv: reserved_qty is what the log holds.
StockInv == ReservedIsHeld /\ LogSound

\* A step of the service keeps the rows and the log in balance, and leaves the
\* units of a product as many as they were unless it is an operator's.
LEMMA StockStep ==
    ASSUME SIInv, StockInv, [Next]_vars
    PROVE  /\ StockInv'
           /\ puts' = puts => \A p \in Products : stock'[p].available + stock'[p].reserved
                                                   = stock[p].available + stock[p].reserved
<1>0. InvTypeOK /\ ReservedIsHeld /\ LogSound
  BY DEF SIInv, ServiceTypeOK, StockInv
<1>1. ASSUME NEW w \in InvWorkers, InvStep(w) \/ InvFault(w)
      PROVE  /\ StockInv'
             /\ \A p \in Products : stock'[p].available + stock'[p].reserved
                                       = stock[p].available + stock[p].reserved
  <2>1. InvWorkerHolds(w) /\ ReleaseBacked(w)
    BY DEF SIInv, InvWorkerHolds, InvWorkerBacked, ReleaseBacked
  <2>2. QED
    BY <1>0, <1>1, <2>1, WorkerBooks DEF StockInv
<1>2. CASE Operator
  BY <1>0, <1>2, OperatorBooks DEF StockInv
<1>3. CASE UNCHANGED vars \/ \E key \in {"inventory.reserve", "inventory.release"}, o \in Orders :
                                 Command(key, o)
  BY <1>0, <1>3, BooksStay DEF StockInv, vars, invVars, Command
<1>4. QED
  BY <1>1, <1>2, <1>3 DEF Next, InvNext

\* Nothing is held to begin with.
LEMMA StockInit == Init => StockInv
<1> SUFFICES ASSUME Init
             PROVE  StockInv
  OBVIOUS
<1>1. log = {} /\ \A p \in Products : stock[p].reserved = 0
  BY DEF Init, InvInit
<1>2. \A p \in Products : UnitsOf(HeldOf(p)) = {}
  BY <1>1 DEF HeldOf, Held, Reserved, UnitsOf
<1>3. QED
  BY <1>1, <1>2, FS_EmptySet DEF StockInv, ReservedIsHeld, LogSound, Qty, Released

\* ... hence in every reachable state.
LEMMA StockInvariant == Spec => [](SIInv /\ StockInv)
<1>1. SIInv /\ StockInv /\ [Next]_vars => (SIInv /\ StockInv)'
  BY ServiceNext, StockStep
<1>2. QED
  BY <1>1, ServiceInit, StockInit, PTL DEF Spec

\* reserved_qty is exactly what inventory_logs says is held, for any number of
\* orders and workers and whatever commands are duplicated, raced or cut short.
THEOREM ReservedIsWhatIsHeld == Spec => []ReservedIsHeld
<1>1. StockInv => ReservedIsHeld
  BY DEF StockInv
<1>2. QED
  BY <1>1, StockInvariant, PTL

\* Reservations and releases only move units between available_qty and
\* reserved_qty: no step but an operator's changes how many there are.
THEOREM StockIsConserved == Spec => StockConserved
<1>1. SIInv /\ StockInv /\ [Next]_vars =>
        [puts' = puts => \A p \in Products : stock'[p].available + stock'[p].reserved
                                                = stock[p].available + stock[p].reserved]_vars
  BY StockStep
<1>2. QED
  BY <1>1, StockInvariant, PTL DEF Spec, StockConserved

-----------------------------------------------------------------------------
(* The attempts of a reservation.                                          *)

Entries(p) == {e \in log : ProductOf[e[1]] = p}

\* Every reservation and release raises the version of its row by one.
VersionCounts == \A p \in Products : stock[p].version = Cardinality(Entries(p))

\* What has been written to a product's row since the start.
Writes(p) == stock[p].version + puts

\* An attempt that failed was paid for by a write to the row, and so was the
\* one that is about to.
AttemptsPaid(w) ==
    /\ iw[w].pc \in {"read", "cas"} => iw[w].attempt <= Writes(ProductOf[iw[w].msg.order])
    /\ iw[w].pc = "cas" /\ ~CasMatches(w) =>
           iw[w].attempt < Writes(ProductOf[iw[w].msg.order])

\* Inductive on top of SIInv and StockInv.
AttemptInv == VersionCounts /\ \A w \in InvWorkers : AttemptsPaid(w)

\* A new entry of the log is one more write of its row.
LEMMA EntryCounts ==
    ASSUME InvTypeOK, LogSound, VersionCounts,
           NEW o \in Orders, NEW a \in {"RESERVE", "RELEASE"}, <<o, a>> \notin log,
           log' = log \cup {<<o, a>>},
           \A p \in Products : stock'[p].version =
               IF p = ProductOf[o] THEN stock[p].version + 1 ELSE stock[p].version
    PROVE  VersionCounts'
<1> SUFFICES ASSUME NEW p \in Products
             PROVE  stock'[p].version = Cardinality(Entries(p)')
  BY DEF VersionCounts
<1>1. PICK E : E = Entries(p)
  OBVIOUS
<1>2. IsFiniteSet(E)
  BY <1>1, FS_Subset DEF Entries, LogSound
<1>3. stock[p].version = Cardinality(E)
  BY <1>1 DEF VersionCounts
<1>4. CASE p = ProductOf[o]
  <2>1. Entries(p)' = E \cup {<<o, a>>} /\ <<o, a>> \notin E
    BY <1>1, <1>4 DEF Entries
  <2>2. Cardinality(E \cup {<<o, a>>}) = Cardinality(E) + 1
    BY <1>2, <2>1, FS_AddElement
  <2>3. QED
    BY <1>3, <1>4, <2>1, <2>2
<1>5. CASE p # ProductOf[o]
  <2>1. Entries(p)' = E
    BY <1>1, <1>5 DEF Entries
  <2>2. QED
    BY <1>3, <1>5, <2>1
<1>6. QED
  BY <1>4, <1>5

\* A reservation or a release is a write to its own row and to no other.
LEMMA MovesWrite ==
    ASSUME InvTypeOK, LogSound, VersionCounts, NEW o \in Orders, Reserves(o) \/ Releases(o)
    PROVE  /\ VersionCounts'
           /\ \A p \in Products :
                  IF p = ProductOf[o] THEN stock'[p].version = stock[p].version + 1
                                      ELSE stock'[p] = stock[p]
<1>0. stock \in [Products -> Row] /\ ProductOf[o] \in Products
  BY InventoryAssumption DEF InvTypeOK
<1>1. \A p \in Products :
          IF p = ProductOf[o] THEN stock'[p].version = stock[p].version + 1
                              ELSE stock'[p] = stock[p]
  BY <1>0 DEF Reserves, Releases, ReleaseCommit
<1>2. CASE Reserves(o)
  <2>1. <<o, "RESERVE">> \notin log /\ log' = log \cup {<<o, "RESERVE">>}
    BY <1>2 DEF Reserves, Reserved
  <2>2. QED
    BY <1>1, <2>1, EntryCounts
<1>3. CASE Releases(o)
  <2>1. <<o, "RELEASE">> \notin log /\ log' = log \cup {<<o, "RELEASE">>}
    BY <1>3 DEF Releases, ReleaseCommit, Released
  <2>2. QED
    BY <1>1, <2>1, EntryCounts
<1>4. QED
  BY <1>1, <1>2, <1>3

\* A worker that a step leaves alone: its row stays, or one more write pays.
LEMMA PaidStays ==
    ASSUME InvTypeOK, InvTypeOK', NEW w \in InvWorkers, InvWorkerHolds(w), AttemptsPaid(w),
           iw'[w] = iw[w],
           \A p \in Products : (stock'[p] = stock[p] /\ puts' = puts) \/ Writes(p)' > Writes(p)
    PROVE  AttemptsPaid(w)'
<1>1. CASE iw[w].pc \notin {"read", "cas"}
  BY <1>1 DEF AttemptsPaid
<1>2. CASE iw[w].pc \in {"read", "cas"}
  <2>1. PICK o, p : o = iw[w].msg.order /\ p = ProductOf[o]
    OBVIOUS
  <2>2. o \in Orders /\ p \in Products /\ iw[w].attempt \in Nat
    BY <1>2, <2>1, InventoryAssumption DEF InvWorkerHolds, Message, InvTypeOK, InvWorker
  <2>3. Writes(p) \in Nat /\ Writes(p)' \in Nat
    BY <2>2, InventoryAssumption DEF Writes, InvTypeOK, Row
  <2>4. CASE stock'[p] = stock[p] /\ puts' = puts
    BY <2>1, <2>4 DEF AttemptsPaid, Writes, CasMatches
  <2>5. CASE Writes(p)' > Writes(p)
    <3>1. iw[w].attempt <= Writes(p)
      BY <1>2, <2>1 DEF AttemptsPaid
    <3>2. iw[w].attempt < Writes(p)'
      BY <2>2, <2>3, <2>5, <3>1
    <3>3. QED
      BY <2>1, <2>2, <2>3, <3>2 DEF AttemptsPaid
  <2>6. QED
    BY <2>2, <2>4, <2>5
<1>3. QED
  BY <1>1, <1>2

\* The worker at work: a row it has just read is as it was read, and a compare-
\* and-set that fails has been paid for by whoever changed the row.
LEMMA PaidStep ==
    ASSUME MsgTypeOK, InvTypeOK, NEW w \in InvWorkers, InvWorkerHolds(w), AttemptsPaid(w),
           InvStep(w) \/ InvFault(w)
    PROVE  AttemptsPaid(w)'
<1>0. iw \in [InvWorkers -> InvWorker] /\ iw[w] \in InvWorker
  BY DEF InvTypeOK
<1>1. PICK o, p : o = iw[w].msg.order /\ p = ProductOf[o]
  OBVIOUS
<1>2. iw[w].pc # "idle" => o \in Orders /\ p \in Products
  BY <1>1, InventoryAssumption DEF InvWorkerHolds, Message
<1>3. p \in Products => Writes(p) \in Nat /\ stock[p] \in Row
  BY InventoryAssumption DEF Writes, InvTypeOK, Row
<1>4. ASSUME iw'[w].pc \notin {"read", "cas"}
      PROVE  AttemptsPaid(w)'
  BY <1>4 DEF AttemptsPaid
<1>5. ASSUME NEW m \in queue, TakeReserve(w, m) \/ TakeRelease(w, m)
      PROVE  AttemptsPaid(w)'
  <2>1. /\ iw'[w].pc # "cas" /\ iw'[w].attempt = 0 /\ iw'[w].msg = m
        /\ UNCHANGED <<stock, puts>>
    BY <1>0, <1>5 DEF TakeReserve, TakeRelease
  <2>2. PICK q : q = ProductOf[m.order]
    OBVIOUS
  <2>3. q \in Products
    BY <1>5, <2>2, InventoryAssumption DEF MsgTypeOK, Message
  <2>4. Writes(q)' \in Nat
    BY <2>1, <2>3, InventoryAssumption DEF Writes, InvTypeOK, Row
  <2>5. QED
    BY <2>1, <2>2, <2>4 DEF AttemptsPaid
<1>6. CASE ReadInventory(w)
  <2>1. /\ iw'[w].pc # "read" /\ iw'[w].msg = iw[w].msg /\ iw'[w].attempt = iw[w].attempt
        /\ iw'[w].pc = "cas" => iw'[w].version = stock[p].version
                                 /\ ~(stock[p].available < QtyOf[o])
        /\ UNCHANGED <<stock, puts>> /\ iw[w].pc = "read"
    BY <1>0, <1>1, <1>6 DEF ReadInventory, InvWorker
  <2>2. QtyOf[o] \in Nat /\ stock[p].available \in Nat
    BY <1>2, <1>3, <2>1, InventoryAssumption DEF Row
  <2>3. iw'[w].pc = "cas" => CasMatches(w)'
    BY <1>1, <2>1, <2>2 DEF CasMatches
  <2>4. QED
    BY <1>1, <2>1, <2>3 DEF AttemptsPaid, Writes
<1>7. CASE ReserveConflict(w)
  <2>1. /\ iw'[w].pc \in {"read", "no"} /\ iw'[w].msg = iw[w].msg
        /\ iw'[w].attempt = iw[w].attempt + 1
        /\ iw[w].pc = "cas" /\ ~CasMatches(w)
        /\ UNCHANGED <<stock, puts>>
    BY <1>0, <1>7 DEF ReserveConflict, InvWorker
  <2>2. iw[w].attempt < Writes(p) /\ iw[w].attempt \in Nat
    BY <1>0, <1>1, <2>1 DEF AttemptsPaid, InvWorker
  <2>3. iw'[w].attempt <= Writes(p) /\ Writes(p)' = Writes(p)
    BY <1>2, <1>3, <2>1, <2>2 DEF Writes
  <2>4. QED
    BY <1>1, <2>1, <2>3 DEF AttemptsPaid
<1>8. CASE InvDuplicate(w)
  BY <1>8 DEF InvDuplicate, invVars, AttemptsPaid, Writes, CasMatches
<1>9. QED
  BY <1>0, <1>4, <1>5, <1>6, <1>7, <1>8
  DEF InvStep, InvFault, ReadMissing, ReserveAtomic, ReserveDuplicate, ReleaseAtomic,
      ReleaseRefused, ReleaseFails, InvReply, InvAbort, InvWorker, IdleInv

\* Every step of the service writes to a row, or leaves it and its attempts be.
LEMMA AttemptStep == SIInv /\ StockInv /\ AttemptInv /\ [Next]_vars => AttemptInv'
<1> SUFFICES ASSUME SIInv, StockInv, AttemptInv, [Next]_vars
             PROVE  AttemptInv'
  OBVIOUS
<1>0. /\ MsgTypeOK /\ InvTypeOK /\ InvTypeOK' /\ LogSound /\ VersionCounts
      /\ stock \in [Products -> Row] /\ puts \in Nat
      /\ \A w \in InvWorkers : InvWorkerHolds(w) /\ AttemptsPaid(w)
  BY ServiceNext, InventoryAssumption
  DEF SIInv, ServiceTypeOK, StockInv, AttemptInv, InvTypeOK
<1>1. ASSUME UNCHANGED <<stock, log>>
      PROVE  VersionCounts'
  BY <1>0, <1>1 DEF VersionCounts, Entries
<1>2. \A p \in Products : Writes(p) \in Nat
  BY <1>0 DEF Writes, Row
<1>3. ASSUME NEW w \in InvWorkers, InvStep(w) \/ InvFault(w)
      PROVE  AttemptInv'
  <2>1. ReleaseBacked(w)
    BY DEF SIInv, InvWorkerBacked, InvWorkerHolds, ReleaseBacked
  <2>2. UNCHANGED <<stock, log>> \/ \E o \in Orders : Reserves(o) \/ Releases(o)
    BY <1>0, <1>3, <2>1, WorkerMoves
  <2>3. puts' = puts /\ \A v \in InvWorkers \ {w} : iw'[v] = iw[v]
    BY <1>3, WorkerInvariant
    DEF InvStep, InvFault, TakeReserve, TakeRelease, ReadInventory, ReadMissing, ReserveAtomic,
        ReserveDuplicate, ReserveConflict, ReleaseAtomic, ReleaseRefused, ReleaseFails,
        InvReply, InvAbort, InvDuplicate, invVars
  <2>4. /\ VersionCounts'
        /\ \A p \in Products : stock'[p] = stock[p] \/ stock'[p].version = stock[p].version + 1
    BY <1>0, <1>1, <2>2, MovesWrite
  <2>5. \A p \in Products : (stock'[p] = stock[p] /\ puts' = puts) \/ Writes(p)' > Writes(p)
    BY <1>0, <1>2, <2>3, <2>4 DEF Writes, Row
  <2>6. \A v \in InvWorkers \ {w} : AttemptsPaid(v)'
    BY <1>0, <2>3, <2>5, PaidStays
  <2>7. AttemptsPaid(w)'
    BY <1>0, <1>3, PaidStep
  <2>8. QED
    BY <2>4, <2>6, <2>7 DEF AttemptInv
<1>4. CASE Operator
  <2>1. PICK p \in Products, qty \in PutQtys : CreateSKU(p, qty) \/ UpdateAvailableQty(p, qty)
    BY <1>4 DEF Operator
  <2>2. UNCHANGED <<log, iw>> /\ puts' = puts + 1
    BY <2>1 DEF CreateSKU, UpdateAvailableQty
  <2>3. \A q \in Products : stock'[q].version = stock[q].version
    BY <1>0, <2>1 DEF CreateSKU, UpdateAvailableQty, Row
  <2>4. VersionCounts'
    BY <1>0, <2>2, <2>3 DEF VersionCounts, Entries
  <2>5. \A q \in Products : Writes(q)' > Writes(q)
    BY <1>0, <2>2, <2>3 DEF Writes, Row
  <2>6. \A v \in InvWorkers : AttemptsPaid(v)'
    BY <1>0, <2>2, <2>5, PaidStays
  <2>7. QED
    BY <2>4, <2>6 DEF AttemptInv
<1>5. ASSUME UNCHANGED invVars
      PROVE  AttemptInv'
  BY <1>0, <1>1, <1>5 DEF AttemptInv, AttemptsPaid, Writes, CasMatches, invVars
<1>6. QED
  BY <1>3, <1>4, <1>5 DEF Next, InvNext, Command, vars

\* No attempts and no writes to begin with.
LEMMA AttemptInit == Init => AttemptInv
<1> SUFFICES ASSUME Init
             PROVE  AttemptInv
  OBVIOUS
<1>1. /\ log = {} /\ \A p \in Products : stock[p].version = 0
      /\ \A w \in InvWorkers : iw[w].pc = "idle"
  BY DEF Init, InvInit, IdleInv
<1>2. \A p \in Products : Entries(p) = {}
  BY <1>1 DEF Entries
<1>3. QED
  BY <1>1, <1>2, FS_EmptySet DEF AttemptInv, VersionCounts, AttemptsPaid

\* ... hence in every reachable state.
LEMMA AttemptInvariant == Spec => [](SIInv /\ StockInv /\ AttemptInv)
  BY ServiceNext, StockStep, AttemptStep, ServiceInit, StockInit, AttemptInit, PTL DEF Spec

\* A product's row is written once for each entry of the log, of which an order
\* has two, and by the operators.
LEMMA WritesBounded ==
    ASSUME IsFiniteSet(Orders), InvTypeOK, VersionCounts, NEW p \in Products
    PROVE  Writes(p) <= 2 * Cardinality({o \in Orders : ProductOf[o] = p}) + MaxPuts
<1> DEFINE S == {o \in Orders : ProductOf[o] = p}
<1>1. IsFiniteSet(S) /\ Cardinality(S) \in Nat
  BY FS_Subset, FS_CardinalityType
<1>2. /\ IsFiniteSet({"RESERVE", "RELEASE"})
      /\ Cardinality({"RESERVE", "RELEASE"}) = 2
  <2>1. PICK T, x : T = {"RESERVE"} /\ x = "RELEASE"
    OBVIOUS
  <2>2. IsFiniteSet(T) /\ Cardinality(T) = 1 /\ x \notin T
    BY <2>1, FS_Singleton
  <2>3. IsFiniteSet(T \cup {x}) /\ Cardinality(T \cup {x}) = 2
    BY <2>2, FS_AddElement
  <2>4. T \cup {x} = {"RESERVE", "RELEASE"}
    BY <2>1
  <2>5. QED
    BY <2>3, <2>4
<1>3. /\ IsFiniteSet(S \X {"RESERVE", "RELEASE"})
      /\ Cardinality(S \X {"RESERVE", "RELEASE"}) = Cardinality(S) * 2
  BY <1>1, <1>2, FS_Product
<1>4. Entries(p) \subseteq S \X {"RESERVE", "RELEASE"}
  BY DEF Entries, InvTypeOK
<1>5. IsFiniteSet(Entries(p)) /\ Cardinality(Entries(p)) <= Cardinality(S) * 2
  BY <1>3, <1>4, FS_Subset
<1>6. puts <= MaxPuts /\ puts \in Nat /\ MaxPuts \in Nat /\ stock[p].version \in Nat
  BY InventoryAssumption DEF InvTypeOK, Row
<1>7. stock[p].version <= Cardinality(S) * 2
  BY <1>5 DEF VersionCounts
<1>8. QED
  BY <1>1, <1>6, <1>7 DEF Writes

\* More attempts than writes that can get in between: INVENTORY_RESERVE_MAX_RETRIES
\* exceeds two for each order of the product and one for each operator request.
EnoughAttempts ==
    /\ IsFiniteSet(Orders)
    /\ \A p \in Products :
           2 * Cardinality({o \in Orders : ProductOf[o] = p}) + MaxPuts < ReserveMaxRetries

\* A reservation is rejected because the stock does not cover it, or after as
\* many writes to its row as it may have attempts.
LEMMA RejectionPaid ==
    ASSUME SIInv, AttemptInv, NEW w \in InvWorkers, [Next]_vars,
           iw[w].pc \in {"read", "cas"}, iw'[w].pc = "no"
    PROVE  \/ stock[ProductOf[iw[w].msg.order]].available < QtyOf[iw[w].msg.order]
           \/ ReserveMaxRetries <= Writes(ProductOf[iw[w].msg.order])
<1>0. /\ iw \in [InvWorkers -> InvWorker] /\ InvWorkerHolds(w) /\ AttemptsPaid(w)
      /\ InvTypeOK /\ iw[w] \in InvWorker
  BY DEF SIInv, ServiceTypeOK, AttemptInv, InvTypeOK
<1>1. PICK v \in InvWorkers : InvStep(v) \/ InvFault(v)
  BY <1>0 DEF Next, InvNext, Operator, CreateSKU, UpdateAvailableQty, Command, vars, invVars
<1>2. v = w
  BY <1>0, <1>1, WorkerInvariant
<1>3. ReadInventory(w) \/ ReserveConflict(w)
  BY <1>0, <1>1, <1>2
  DEF InvStep, InvFault, TakeReserve, TakeRelease, ReadMissing, ReserveAtomic,
      ReserveDuplicate, ReleaseAtomic, ReleaseRefused, ReleaseFails, InvReply, InvAbort,
      InvDuplicate, invVars, IdleInv, InvWorker
<1>4. CASE ReadInventory(w)
  BY <1>0, <1>4 DEF ReadInventory, InvWorker
<1>5. CASE ReserveConflict(w)
  <2>1. PICK p : p = ProductOf[iw[w].msg.order]
    OBVIOUS
  <2>2. iw[w].attempt + 1 = ReserveMaxRetries /\ iw[w].attempt < Writes(p)
    BY <1>0, <1>5, <2>1 DEF ReserveConflict, InvWorker, AttemptsPaid
  <2>3. p \in Products /\ iw[w].attempt \in Nat
    BY <1>0, <2>1, InventoryAssumption DEF InvWorkerHolds, Message, InvWorker
  <2>4. Writes(p) \in Nat
    BY <1>0, <2>3, InventoryAssumption DEF Writes, InvTypeOK, Row
  <2>5. QED
    BY <2>1, <2>2, <2>3, <2>4
<1>6. QED
  BY <1>3, <1>4, <1>5

\* With more attempts than writes that can get in between, the optimistic lock
\* rejects no order that the stock would have covered.
THEOREM ContentionNeverRejects ==
    ASSUME EnoughAttempts
    PROVE  Spec => RejectedOnlyWhenShort
<1>1. SIInv /\ StockInv /\ AttemptInv /\ [Next]_vars =>
        [\A w \in InvWorkers :
            iw[w].pc \in {"read", "cas"} /\ iw'[w].pc = "no" =>
                stock[ProductOf[iw[w].msg.order]].available < QtyOf[iw[w].msg.order]]_vars
  <2> SUFFICES ASSUME SIInv, AttemptInv, [Next]_vars, NEW w \in InvWorkers,
                      iw[w].pc \in {"read", "cas"}, iw'[w].pc = "no"
               PROVE  stock[ProductOf[iw[w].msg.order]].available < QtyOf[iw[w].msg.order]
    OBVIOUS
  <2>1. PICK p : p = ProductOf[iw[w].msg.order]
    OBVIOUS
  <2>2. InvTypeOK /\ VersionCounts /\ p \in Products
    BY <2>1, InventoryAssumption
    DEF SIInv, ServiceTypeOK, AttemptInv, InvWorkerHolds, Message
  <2>3. Writes(p) <= 2 * Cardinality({o \in Orders : ProductOf[o] = p}) + MaxPuts
    BY <2>2, WritesBounded DEF EnoughAttempts
  <2>4. PICK n, k : n = Cardinality({o \in Orders : ProductOf[o] = p}) /\ k = Writes(p)
    OBVIOUS
  <2>5. n \in Nat /\ k \in Nat
    <3>1. n \in Nat
      BY <2>4, FS_Subset, FS_CardinalityType DEF EnoughAttempts
    <3>2. k \in Nat
      BY <2>2, <2>4, InventoryAssumption DEF Writes, InvTypeOK, Row
    <3>3. QED
      BY <3>1, <3>2
  <2>6. ~(ReserveMaxRetries <= k)
    BY <2>2, <2>3, <2>4, <2>5, InventoryAssumption DEF EnoughAttempts
  <2>7. QED
    BY <2>1, <2>4, <2>6, RejectionPaid
<1>2. QED
  BY <1>1, AttemptInvariant, PTL DEF Spec, RejectedOnlyWhenShort
=============================================================================
