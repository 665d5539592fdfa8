----------------------------- MODULE Connection -----------------------------
(***************************************************************************)
(* messaging/mq.go and messaging/publisher.go of one process: a connection *)
(* under a read-write mutex and the goroutine that watches and redials it. *)
(* The watcher holds the write lock for as long as it dials, so meanwhile  *)
(* every Channel call waits; between a drop and the moment the watcher     *)
(* notices it, Channel fails at once.                                      *)
(*                                                                         *)
(* The environment's faults are counted down in left, kind by kind.        *)
(***************************************************************************)
EXTENDS Naturals

CONSTANTS
    Budget,            \* bound: faults of each kind, and of all kinds together
    DialAttempts,      \* of dial: 5
    PublishAttempts    \* of Publisher.Publish: 3

Kinds == {"drop", "dial", "confirm", "consume", "error", "crash", "stop", "any"}

ASSUME ConnectionAssumption ==
    /\ Budget \in [Kinds -> Nat]
    /\ DialAttempts \in Nat \ {0}
    /\ PublishAttempts \in Nat \ {0}

VARIABLES
    conn,     \* "up" or "down"
    watch,    \* "waiting" on NotifyClose, or "dialing" with the lock held
    dials,    \* failed attempts of the dial under way
    left      \* faults the environment may still inject

mqVars == <<conn, watch, dials>>

ConnInit ==
    /\ conn = "up"
    /\ watch = "waiting"
    /\ dials = 0
    /\ left = Budget

Spend(kind) ==
    /\ left[kind] > 0 /\ left["any"] > 0
    /\ left' = [left EXCEPT ![kind] = @ - 1, !["any"] = @ - 1]

Spent(kind) == Budget[kind] - left[kind]

\* The connections lost so far: what a goroutine may have seen of them.
Drops == Spent("drop")

-----------------------------------------------------------------------------
(* mq.go                                                                   *)

\* watch receives from NotifyClose and takes the write lock.
Notice ==
    /\ conn = "down" /\ watch = "waiting"
    /\ watch' = "dialing"
    /\ dials' = 0
    /\ UNCHANGED <<conn, left>>

DialSucceeds ==
    /\ watch = "dialing"
    /\ conn' = "up"
    /\ watch' = "waiting"
    /\ UNCHANGED <<dials, left>>

\* The last failed attempt makes watch panic instead (Consumer!WatchPanics).
LastDial == dials + 1 = DialAttempts

DialFails ==
    /\ watch = "dialing"
    /\ ~LastDial
    /\ Spend("dial")
    /\ dials' = dials + 1
    /\ UNCHANGED <<conn, watch>>

\* Mutant: conn is replaced without the lock, Channel does not wait.
NeverLocked == FALSE

\* Channel waits for the read lock.
Locked == watch = "dialing"

\* Channel returns a channel of the open connection.
HasChannel == ~Locked /\ conn = "up"

\* Channel returns an error.  A goroutine that retries after a failure sleeps
\* far longer (half a second at least) than the watcher takes to wake up: it
\* does not find the same drop (the seen-th) still unnoticed.
NoChannel(seen) ==
    /\ ~Locked
    /\ conn = "down"
    /\ watch = "waiting" => seen # Drops

-----------------------------------------------------------------------------
(* publisher.go: what one attempt to publish (publishOnce, PublishRaw) comes *)
(* to.                                                                     *)

\* The broker has the message and its confirmation arrives.
Confirmed == HasChannel /\ UNCHANGED left

\* An error though there was a channel: a negative confirmation, none within
\* five seconds, a dropped channel or ctx.Done.  The message may be there.
Unconfirmed == HasChannel /\ Spend("confirm")

\* The error of Channel itself.
Unsent(seen) == NoChannel(seen) /\ UNCHANGED left

\* Mutant: no second attempt.
GivesUpAtOnce(attempt, cancelled) == TRUE

\* Mutant: as long as its context is not cancelled Publish tries again.
NeverGivesUp(attempt, cancelled) == cancelled

\* Publish returns an error after this failed attempt: the last, or any when
\* its context is cancelled.
GivesUp(attempt, cancelled) == cancelled \/ attempt = PublishAttempts

ConnTypeOK ==
    /\ conn \in {"up", "down"}
    /\ watch \in {"waiting", "dialing"}
    /\ dials \in 0..(DialAttempts - 1)
    /\ left \in [Kinds -> Nat]
    /\ \A kind \in Kinds : left[kind] <= Budget[kind]
=============================================================================
