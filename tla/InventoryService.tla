-------------------------- MODULE InventoryService --------------------------
(***************************************************************************)
(* inventory-service on its own, driven by the most general order-service: *)
(* any order may be reserved again at any time (the first command, the     *)
(* recovery loops, redeliveries), and released again once it is reserved,  *)
(* which is all OrderSystem!ReleasedOnlyUnpaid leaves of the caller.       *)
(***************************************************************************)
EXTENDS Inventory

CONSTANT MaxCommands    \* bound: commands for each order

vars == <<declared, msgVars, invVars>>

Init == MsgInit /\ InvInit

Command(key, o) ==
    /\ sent[<<"inventory.reserve", o>>] + sent[<<"inventory.release", o>>] < MaxCommands
    /\ key = "inventory.release" => Reserved(o)
    /\ Publish(key, o, TRUE)
    /\ UNCHANGED invVars

Next ==
    /\ \/ InvNext
       \/ \E key \in {"inventory.reserve", "inventory.release"}, o \in Orders : Command(key, o)
    /\ UNCHANGED declared

Spec == Init /\ [][Next]_vars

ServiceTypeOK == MsgTypeOK /\ InvTypeOK

-----------------------------------------------------------------------------
\* No unit of stock appears or disappears unless an operator overwrites it: no
\* release ever meets less reserved stock than it gives back.
StockConserved ==
    [][puts' = puts =>
          \A p \in Products : stock'[p].available + stock'[p].reserved
                                = stock[p].available + stock[p].reserved]_vars

\* A reservation that is reported is in the log, at the moment of the report
\* and however often the order was commanded before.
ReportedIsReserved ==
    \A m \in queue : m.key = "inventory.reserved" /\ m.ok => Reserved(m.order)

\* With more attempts than writers that can get in between, contention alone
\* never rejects an order: whenever a reservation is rejected, the stock at
\* that moment does not cover it.
RejectedOnlyWhenShort ==
    [][\A w \in InvWorkers :
          iw[w].pc \in {"read", "cas"} /\ iw'[w].pc = "no" =>
              stock[ProductOf[iw[w].msg.order]].available < QtyOf[iw[w].msg.order]]_vars
=============================================================================
