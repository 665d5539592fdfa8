---------------------------- MODULE AtLeastOnce ----------------------------
(***************************************************************************)
(* What a consumer promises about the messages of its queue, whatever the  *)
(* connection and the process go through: each is answered or becomes a    *)
(* dead letter before it is forgotten, and may be handled again after that. *)
(* The promise is weaker for a Silent message: to be on record is enough.  *)
(***************************************************************************)
CONSTANTS Msgs, Silent

VARIABLES
    owed,       \* messages the broker or the process still has a copy of
    answered,   \* messages that were answered
    dead,       \* messages in the dead-letter queue
    recorded    \* silent messages that were carried out

Init == owed = Msgs /\ answered = {} /\ dead = {} /\ recorded = {}

Answer(m) ==
    /\ answered' = answered \cup {m}
    /\ UNCHANGED <<owed, dead, recorded>>

Record(m) ==
    /\ m \in Silent
    /\ recorded' = recorded \cup {m}
    /\ UNCHANGED <<owed, answered, dead>>

Bury(m) ==
    /\ dead' = dead \cup {m}
    /\ owed' \in {owed, owed \ {m}}
    /\ UNCHANGED <<answered, recorded>>

Settled(m) == m \in answered \cup dead \cup recorded

Forget(m) ==
    /\ Settled(m)
    /\ owed' = owed \ {m}
    /\ UNCHANGED <<answered, dead, recorded>>

\* A second delivery of a message that was settled meanwhile fails, and a copy
\* goes back to the queue.
Repeat(m) ==
    /\ Settled(m)
    /\ owed' = owed \cup {m}
    /\ UNCHANGED <<answered, dead, recorded>>

Next == \E m \in Msgs : Answer(m) \/ Record(m) \/ Bury(m) \/ Forget(m) \/ Repeat(m)

Spec == Init /\ [][Next]_<<owed, answered, dead, recorded>>
=============================================================================
