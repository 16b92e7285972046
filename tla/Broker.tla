------------------------------- MODULE Broker -------------------------------
(***************************************************************************)
(* The broker (internal/queue): one queue per radar, a heap ordered by     *)
(* NotBefore and then CreatedAt, and the number of jobs leased from it.    *)
(* Each method of the code holds the broker's mutex and is one operator.   *)
(*                                                                         *)
(* A heap is the set of its jobs, no job being in it twice, and popping it *)
(* is taking a least element.  Ensure and Enqueue create a radar's queue   *)
(* on first use, from settings that never change: here it always exists.   *)
(***************************************************************************)
EXTENDS Fleet

CONSTANTS
    Ordered,      \* the radars registered with ordered delivery
    MaxInFlight   \* MaxInFlight[r]: the radar's configured concurrency

ASSUME BrokerAssumption ==
    /\ Ordered \subseteq Radars
    /\ MaxInFlight \in [Radars -> Int]

VARIABLES
    ready,        \* ready[r]: the jobs in the radar's heap
    inFlight      \* inFlight[r]: the leases the broker counts

BrokerTypeOK ==
    /\ ready \in [Radars -> SUBSET Jobs]
    /\ inFlight \in [Radars -> Nat]

(* A job waits in the queue of its radar.                                  *)
FiledByRadar == \A r \in Radars : \A j \in ready[r] : j.radar = r

BrokerInit ==
    /\ ready = [r \in Radars |-> {}]
    /\ inFlight = [r \in Radars |-> 0]

(* A broken variant, for the runs: ordered is ignored.                     *)
MaxFlightUnordered(r) == IF MaxInFlight[r] < 1 THEN 1 ELSE MaxInFlight[r]

(* newRadarQueue: at least one, and exactly one for an ordered radar.      *)
MaxFlight(r) ==
    IF r \in Ordered \/ MaxInFlight[r] < 1 THEN 1 ELSE MaxInFlight[r]

Less(j, k) ==
    \/ j.notBefore < k.notBefore
    \/ j.notBefore = k.notBefore /\ j.fwd < k.fwd

Heads(r) == {j \in ready[r] : \A k \in ready[r] : ~ Less(k, j)}

(* The jobs Lease may return: the head of a queue that has room, is due,   *)
(* and is due no later than any other such head.  Ties between radars fall *)
(* to Go's map order.                                                      *)
DueHeads ==
    {j \in UNION {Heads(r) : r \in {q \in Radars : inFlight[q] < MaxFlight(q)}} :
        j.notBefore <= 0}

Leasable == {j \in DueHeads : \A k \in DueHeads : j.notBefore <= k.notBefore}

(* A broken variant: the head is read and not popped.                      *)
LeasePeeks(j) ==
    /\ j \in Leasable
    /\ UNCHANGED ready
    /\ inFlight' = [inFlight EXCEPT ![j.radar] = @ + 1]

Lease(j) ==
    /\ j \in Leasable
    /\ ready' = [ready EXCEPT ![j.radar] = @ \ {j}]
    /\ inFlight' = [inFlight EXCEPT ![j.radar] = @ + 1]

Enqueue(j) ==
    /\ ready' = [ready EXCEPT ![j.radar] = @ \union {j}]
    /\ UNCHANGED inFlight

Release(r) ==
    /\ inFlight' = [inFlight EXCEPT ![r] = IF @ > 0 THEN @ - 1 ELSE @]
    /\ UNCHANGED ready

BrokerElapse(deadlines) ==
    /\ ready' = [r \in Radars |-> {Aged(j, deadlines) : j \in ready[r]}]
    /\ UNCHANGED inFlight
=============================================================================
