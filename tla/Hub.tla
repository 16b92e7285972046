-------------------------------- MODULE Hub --------------------------------
(***************************************************************************)
(* The hub as its snapshots see it: which forwards are built and not yet   *)
(* queued, queued, in the hands of a worker, journaled as delivered, or in *)
(* the dead-letter queue.  Breakers, buckets, attempts, time and radars    *)
(* only decide which of these steps happens next.  Delivery has those, and *)
(* Replay the operators; both implement this module.                       *)
(***************************************************************************)
EXTENDS Naturals

CONSTANT MaxForwards   \* bound: how many forwards a behaviour creates

ASSUME HubAssumption == MaxForwards \in Nat \ {0}

VARIABLES
    next,         \* the next forward to be created
    planned,      \* built by an HTTP handler, not yet enqueued
    queued,       \* in a heap of the broker
    leased,       \* with a worker that has not passed it on
    delivered,    \* journaled as a success
    letters       \* in the dead-letter queue

hubVars == <<next, planned, queued, leased, delivered, letters>>

Forwards == 1 .. MaxForwards

HubInit ==
    /\ next = 1
    /\ planned = {}
    /\ queued = {}
    /\ leased = {}
    /\ delivered = {}
    /\ letters = {}

(* accept.Fanout, replay.FromDLQ and FromJournal: a new job, a new id.     *)
Build ==
    /\ next <= MaxForwards
    /\ next' = next + 1
    /\ planned' = planned \union {next}
    /\ UNCHANGED <<queued, leased, delivered, letters>>

(* Broker.Enqueue by the same handler.                                     *)
Enqueue(f) ==
    /\ f \in planned
    /\ planned' = planned \ {f}
    /\ queued' = queued \union {f}
    /\ UNCHANGED <<next, leased, delivered, letters>>

(* Build and Enqueue with nothing between them.                            *)
File ==
    /\ next <= MaxForwards
    /\ next' = next + 1
    /\ queued' = queued \union {next}
    /\ UNCHANGED <<planned, leased, delivered, letters>>

(* App.Replay takes out a letter, once its new forward is queued.          *)
RemoveLetter(f) ==
    /\ letters' = letters \ {f}
    /\ UNCHANGED <<next, planned, queued, leased, delivered>>

(* Broker.Lease.                                                           *)
Lease(f) ==
    /\ f \in queued
    /\ queued' = queued \ {f}
    /\ leased' = leased \union {f}
    /\ UNCHANGED <<next, planned, delivered, letters>>

(* Broker.Enqueue by a worker: no admission, no token, a retry.            *)
PutBack(f) ==
    /\ f \in leased
    /\ leased' = leased \ {f}
    /\ queued' = queued \union {f}
    /\ UNCHANGED <<next, planned, delivered, letters>>

(* A success is journaled; at its cap the journal drops its oldest entry.  *)
Deliver(f) ==
    /\ f \in leased
    /\ leased' = leased \ {f}
    /\ \/ delivered' = delivered \union {f}
       \/ \E oldest \in delivered :
             delivered' = (delivered \ {oldest}) \union {f}
    /\ UNCHANGED <<next, planned, queued, letters>>

(* It drops one for an entry that is no success.                           *)
Forget(f) ==
    /\ delivered' = delivered \ {f}
    /\ UNCHANGED <<next, planned, queued, leased, letters>>

(* Dead.Push: a letter more, and from a full queue the oldest goes.        *)
Bury(f) ==
    /\ f \in leased
    /\ leased' = leased \ {f}
    /\ \/ letters' = letters \union {f}
       \/ \E oldest \in letters : letters' = (letters \ {oldest}) \union {f}
    /\ UNCHANGED <<next, planned, queued, delivered>>

HubNext ==
    \/ Build
    \/ File
    \/ \E f \in Forwards :
          \/ Enqueue(f) \/ RemoveLetter(f) \/ Lease(f)
          \/ PutBack(f) \/ Deliver(f) \/ Forget(f) \/ Bury(f)

HubSpec == HubInit /\ [][HubNext]_hubVars

(* The places a forward is at.                                             *)
Places(f) ==
    {p \in {"planned", "queued", "leased", "delivered", "dead"} :
        f \in CASE p = "planned" -> planned
                [] p = "queued" -> queued
                [] p = "leased" -> leased
                [] p = "delivered" -> delivered
                [] p = "dead" -> letters}
=============================================================================
