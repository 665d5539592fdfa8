---------------------------- MODULE SagaHistory ----------------------------
(***************************************************************************)
(* OrderSystem with a history variable that remembers which sagas have     *)
(* left the diagram of README.  With several event workers they can: the   *)
(* guards of the Commit* transactions read a snapshot, and the UPDATEs do  *)
(* not repeat them.  What is true of the other sagas, and how a saga can   *)
(* become one of these, is stated with it.                                 *)
(***************************************************************************)
EXTENDS OrderSystem

VARIABLE strayed    \* the orders whose saga has made a move that is no edge

histVars == <<vars, strayed>>

Leaves(o) ==
    SagaState(o)' # SagaState(o) /\ <<SagaState(o), SagaState(o)'>> \notin Edges

HistInit == Init /\ strayed = {}

Remember == strayed' = strayed \cup {o \in Orders : Leaves(o)}

HistNext == Next /\ Remember

HistSpec == HistInit /\ [][HistNext]_histVars

\* orders.status and saga_states only ever disagree about a saga that has left
\* its diagram, however many event workers race.
DisagreesOnlyAstray == \A o \in Orders : o \in strayed \/ OrderMatches(o)

\* The snapshot that w decided on is outdated: its guard does not hold any more.
Outdated(w, o) == ow[w].pc = "commit" /\ ow[w].msg.order = o /\ ~Expects(ow[w].msg)

\* A saga leaves its diagram in one way: a worker commits for it whose snapshot
\* another worker has outdated.  Late, repeated and reordered events, recovery
\* and requests alone never move a saga back or out of DONE.
StraysOnlyOnStaleSnapshot ==
    [][\A o \in strayed' \ strayed : \E w \in EventWorkers : Outdated(w, o)]_histVars
=============================================================================
