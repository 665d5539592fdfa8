----------------------------- MODULE Inventory -----------------------------
(***************************************************************************)
(* inventory-service: the stock rows, the reservation log and the pool of  *)
(* workers that run InventoryCommandHandler.  Every database statement or  *)
(* transaction of a handler is a step of its own, so that the workers      *)
(* interleave exactly where the code lets them.                            *)
(***************************************************************************)
EXTENDS Messages

CONSTANTS
    Products,
    ProductOf,          \* the product an order asks for
    QtyOf,              \* and how many of it
    SeedStock,          \* available_qty a product starts with (cmd/main.go)
    Seeded,             \* the products that have an inventory row at startup
    InvWorkers,
    ReserveMaxRetries,  \* INVENTORY_RESERVE_MAX_RETRIES
    PutQtys,            \* quantities an operator may PUT or POST
    MaxPuts             \* bound: such requests

ASSUME InventoryAssumption ==
    /\ ProductOf \in [Orders -> Products]
    /\ QtyOf \in [Orders -> Nat \ {0}]
    /\ SeedStock \in [Products -> Nat]
    /\ Seeded \subseteq Products
    /\ ReserveMaxRetries \in Nat \ {0}
    /\ PutQtys \subseteq Nat
    /\ MaxPuts \in Nat

VARIABLES
    skus,       \* products with a row in inventories
    stock,      \* that row: available_qty, reserved_qty, version
    log,        \* inventory_logs, unique on (order_id, action)
    iw,         \* the workers
    puts        \* operator requests so far

invVars == <<skus, stock, log, iw, puts>>

Row == [available : Nat, reserved : Nat, version : Nat]

InvWorker == [pc : {"idle", "read", "cas", "release", "yes", "no"},
              msg : Message \cup {NoMessage}, version : Nat, attempt : Nat]

IdleInv == [pc |-> "idle", msg |-> NoMessage, version |-> 0, attempt |-> 0]

Reserved(o) == <<o, "RESERVE">> \in log
Released(o) == <<o, "RELEASE">> \in log
Held(o) == Reserved(o) /\ ~Released(o)

InvInit ==
    /\ skus = Seeded
    /\ stock = [p \in Products |->
                   [available |-> IF p \in Seeded THEN SeedStock[p] ELSE 0,
                    reserved |-> 0, version |-> 0]]
    /\ log = {}
    /\ iw = [w \in InvWorkers |-> IdleInv]
    /\ puts = 0

-----------------------------------------------------------------------------
(* inventory.reserve: handleReserve.                                       *)

\* ExistsReserve decides between answering at once and reserving.
TakeReserve(w, m) ==
    /\ iw[w].pc = "idle"
    /\ m.key = "inventory.reserve"
    /\ Take(m)
    /\ iw' = [iw EXCEPT ![w] =
                 [pc |-> IF Reserved(m.order) THEN "yes" ELSE "read",
                  msg |-> m, version |-> 0, attempt |-> 0]]
    /\ UNCHANGED <<skus, stock, log, puts>>

\* GetByProductID finds the row and the handler compares the stock it saw.
ReadInventory(w) ==
    LET o == iw[w].msg.order
        row == stock[ProductOf[o]]
    IN  /\ iw[w].pc = "read"
        /\ ProductOf[o] \in skus
        /\ iw' = IF row.available < QtyOf[o]
                 THEN [iw EXCEPT ![w].pc = "no"]
                 ELSE [iw EXCEPT ![w].pc = "cas", ![w].version = row.version]
        /\ UNCHANGED <<msgVars, skus, stock, log, puts>>

\* Mutant: a product without a row is rejected like one without stock.
MissingRejects(w) ==
    /\ iw[w].pc = "read"
    /\ ProductOf[iw[w].msg.order] \notin skus
    /\ iw' = [iw EXCEPT ![w].pc = "no"]
    /\ UNCHANGED <<msgVars, skus, stock, log, puts>>

\* GetByProductID finds no row: the handler returns its error.
ReadMissing(w) ==
    /\ iw[w].pc = "read"
    /\ ProductOf[iw[w].msg.order] \notin skus
    /\ HandlerError(iw[w].msg)
    /\ iw' = [iw EXCEPT ![w] = IdleInv]
    /\ UNCHANGED <<faults, skus, stock, log, puts>>

\* Mutant: the row is named by product_id alone.
CasUnconditional(w) == TRUE

\* Mutant: the WHERE clause relies on the version, not on the stock.
CasVersionOnly(w) ==
    stock[ProductOf[iw[w].msg.order]].version = iw[w].version

\* The UPDATE's WHERE clause.
CasMatches(w) ==
    LET o == iw[w].msg.order
        row == stock[ProductOf[o]]
    IN  row.version = iw[w].version /\ row.available >= QtyOf[o]

\* ReserveAtomic commits: the row moves and the RESERVE log is inserted.
ReserveAtomic(w) ==
    LET o == iw[w].msg.order IN
    /\ iw[w].pc = "cas"
    /\ CasMatches(w)
    /\ ~Reserved(o)
    /\ stock' = [stock EXCEPT ![ProductOf[o]] =
                    [available |-> @.available - QtyOf[o],
                     reserved |-> @.reserved + QtyOf[o],
                     version |-> @.version + 1]]
    /\ log' = log \cup {<<o, "RESERVE">>}
    /\ iw' = [iw EXCEPT ![w].pc = "yes"]
    /\ UNCHANGED <<msgVars, skus, puts>>

\* The log insert violates its unique index: rollback, and an error.
ReserveDuplicate(w) ==
    /\ iw[w].pc = "cas"
    /\ CasMatches(w)
    /\ Reserved(iw[w].msg.order)
    /\ HandlerError(iw[w].msg)
    /\ iw' = [iw EXCEPT ![w] = IdleInv]
    /\ UNCHANGED <<faults, skus, stock, log, puts>>

\* Mutant: zero rows affected are taken for a reservation.
ConflictReportsSuccess(w) ==
    /\ iw[w].pc = "cas"
    /\ ~CasMatches(w)
    /\ iw' = [iw EXCEPT ![w].pc = "yes"]
    /\ UNCHANGED <<msgVars, skus, stock, log, puts>>

\* Mutant: a lost optimistic lock rejects the order at once.
ConflictRejects(w) ==
    /\ iw[w].pc = "cas"
    /\ ~CasMatches(w)
    /\ iw' = [iw EXCEPT ![w].pc = "no"]
    /\ UNCHANGED <<msgVars, skus, stock, log, puts>>

\* The UPDATE matches no row: try again, until the attempts are used up and
\* the handler answers as if the stock were insufficient.
ReserveConflict(w) ==
    /\ iw[w].pc = "cas"
    /\ ~CasMatches(w)
    /\ iw' = [iw EXCEPT ![w].attempt = @ + 1,
                        ![w].version = 0,
                        ![w].pc = IF iw[w].attempt + 1 = ReserveMaxRetries
                                  THEN "no" ELSE "read"]
    /\ UNCHANGED <<msgVars, skus, stock, log, puts>>

-----------------------------------------------------------------------------
(* inventory.release: handleRelease.                                       *)

\* ExistsRelease decides between answering at once and releasing.
TakeRelease(w, m) ==
    /\ iw[w].pc = "idle"
    /\ m.key = "inventory.release"
    /\ Take(m)
    /\ iw' = [iw EXCEPT ![w] =
                 [pc |-> IF Released(m.order) THEN "yes" ELSE "release",
                  msg |-> m, version |-> 0, attempt |-> 0]]
    /\ UNCHANGED <<skus, stock, log, puts>>

\* Mutant: the release refunds available_qty and leaves reserved_qty.
UnreserveForgotten(reserved, qty) == reserved

\* GREATEST(reserved_qty - qty, 0)
Unreserve(reserved, qty) == IF reserved > qty THEN reserved - qty ELSE 0

\* Mutant: no unique index on (order_id, action).
ReleaseCommitTwice(o) ==
    /\ ProductOf[o] \in skus
    /\ stock' = [stock EXCEPT ![ProductOf[o]] =
                    [available |-> @.available + QtyOf[o],
                     reserved |-> Unreserve(@.reserved, QtyOf[o]),
                     version |-> @.version + 1]]
    /\ log' = log \cup {<<o, "RELEASE">>}

\* ReleaseAtomic's transaction commits.
ReleaseCommit(o) ==
    /\ ProductOf[o] \in skus
    /\ ~Released(o)
    /\ stock' = [stock EXCEPT ![ProductOf[o]] =
                    [available |-> @.available + QtyOf[o],
                     reserved |-> Unreserve(@.reserved, QtyOf[o]),
                     version |-> @.version + 1]]
    /\ log' = log \cup {<<o, "RELEASE">>}

ReleaseAtomic(w) ==
    /\ iw[w].pc = "release"
    /\ ReleaseCommit(iw[w].msg.order)
    /\ iw' = [iw EXCEPT ![w].pc = "yes"]
    /\ UNCHANGED <<msgVars, skus, puts>>

\* No row matches, or the log insert violates its unique index: nothing is
\* written and the handler reports that the release failed.
ReleaseRefused(w) ==
    LET o == iw[w].msg.order IN
    /\ iw[w].pc = "release"
    /\ ProductOf[o] \notin skus \/ Released(o)
    /\ iw' = [iw EXCEPT ![w].pc = "no"]
    /\ UNCHANGED <<msgVars, skus, stock, log, puts>>

\* The database call fails, before or after its commit: an error is not
\* returned to the dispatcher but reported as a failed release.
ReleaseFails(w) ==
    /\ iw[w].pc = "release"
    /\ Fault
    /\ \/ ReleaseCommit(iw[w].msg.order)
       \/ UNCHANGED <<stock, log>>
    /\ iw' = [iw EXCEPT ![w].pc = "no"]
    /\ UNCHANGED <<queue, dlq, sent, skus, puts>>

-----------------------------------------------------------------------------
(* The answer, the faults and the operators' requests.                     *)

Answer(key) ==
    IF key = "inventory.reserve" THEN "inventory.reserved" ELSE "inventory.released"

\* publishReserved and publishReleased; the command is then acknowledged.
InvReply(w) ==
    /\ iw[w].pc \in {"yes", "no"}
    /\ Publish(Answer(iw[w].msg.key), iw[w].msg.order, iw[w].pc = "yes")
    /\ iw' = [iw EXCEPT ![w] = IdleInv]
    /\ UNCHANGED <<skus, stock, log, puts>>

InvAbort(w) ==
    /\ iw[w].pc # "idle"
    /\ Abort(iw[w].msg)
    /\ iw' = [iw EXCEPT ![w] = IdleInv]
    /\ UNCHANGED <<skus, stock, log, puts>>

InvDuplicate(w) ==
    /\ iw[w].pc # "idle"
    /\ Duplicate(iw[w].msg)
    /\ UNCHANGED invVars

\* POST /inventory: CreateSKU inserts a row; product_id is unique.
CreateSKU(p, qty) ==
    /\ puts < MaxPuts
    /\ p \notin skus
    /\ skus' = skus \cup {p}
    /\ stock' = [stock EXCEPT ![p].available = qty]
    /\ puts' = puts + 1
    /\ UNCHANGED <<msgVars, log, iw>>

\* PUT /inventory/:product_id overwrites available_qty, not the version.
UpdateAvailableQty(p, qty) ==
    /\ puts < MaxPuts
    /\ p \in skus
    /\ stock' = [stock EXCEPT ![p].available = qty]
    /\ puts' = puts + 1
    /\ UNCHANGED <<msgVars, skus, log, iw>>

InvStep(w) ==
    \/ \E m \in queue : TakeReserve(w, m) \/ TakeRelease(w, m)
    \/ ReadInventory(w) \/ ReadMissing(w)
    \/ ReserveAtomic(w) \/ ReserveDuplicate(w) \/ ReserveConflict(w)
    \/ ReleaseAtomic(w) \/ ReleaseRefused(w)
    \/ InvReply(w)

InvFault(w) == ReleaseFails(w) \/ InvAbort(w) \/ InvDuplicate(w)

Operator ==
    \E p \in Products, qty \in PutQtys : CreateSKU(p, qty) \/ UpdateAvailableQty(p, qty)

InvNext == (\E w \in InvWorkers : InvStep(w) \/ InvFault(w)) \/ Operator

InvTypeOK ==
    /\ skus \subseteq Products
    /\ stock \in [Products -> Row]
    /\ log \subseteq Orders \X {"RESERVE", "RELEASE"}
    /\ iw \in [InvWorkers -> InvWorker]
    /\ puts \in 0..MaxPuts

-----------------------------------------------------------------------------
(* The stock rows against the log.                                         *)

\* The units that the orders of S ask for, one by one, and their number.
UnitsOf(S) == UNION {{o} \X (1..QtyOf[o]) : o \in S}

Qty(S) == Cardinality(UnitsOf(S))

HeldOf(p) == {o \in Orders : Held(o) /\ ProductOf[o] = p}

\* reserved_qty is exactly what the log says is held, with duplicated and
\* concurrent commands and aborted handlers: GREATEST never hides a debt.
ReservedIsHeld == \A p \in Products : stock[p].reserved = Qty(HeldOf(p))
=============================================================================
