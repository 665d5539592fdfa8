--------------------------- MODULE OrderContract ---------------------------
(***************************************************************************)
(* What the saga promises about the goods and the money of every order,    *)
(* whatever the messages, the workers, the retries and the crashes do.     *)
(* stock[o] is the reservation: none yet, held, or given back.  money[o]   *)
(* is the payment: none yet, charged, declined, or blocked by a pending    *)
(* row that a client created outside the saga.                             *)
(***************************************************************************)
CONSTANT Orders

VARIABLES stock, money

vars == <<stock, money>>

Init ==
    /\ stock = [o \in Orders |-> "free"]
    /\ money = [o \in Orders |-> "none"]

\* An order's stock is reserved once.
Reserve(o) ==
    /\ stock[o] = "free"
    /\ stock' = [stock EXCEPT ![o] = "held"]
    /\ UNCHANGED money

\* The payment is decided once, and only over stock that is held.
Decide(o, decision) ==
    /\ money[o] = "none"
    /\ stock[o] = "held"
    /\ money' = [money EXCEPT ![o] = decision]
    /\ UNCHANGED stock

\* A client's own pending payment takes the place of a decision.
Block(o) ==
    /\ money[o] = "none"
    /\ money' = [money EXCEPT ![o] = "blocked"]
    /\ UNCHANGED stock

\* Stock goes back once, and never that of an order that was charged or
\* may still be charged.
Return(o) ==
    /\ stock[o] = "held"
    /\ money[o] \in {"declined", "blocked"}
    /\ stock' = [stock EXCEPT ![o] = "returned"]
    /\ UNCHANGED money

Next ==
    \E o \in Orders :
        \/ Reserve(o)
        \/ \E decision \in {"charged", "declined"} : Decide(o, decision)
        \/ Block(o)
        \/ Return(o)

Spec == Init /\ [][Next]_vars
=============================================================================
