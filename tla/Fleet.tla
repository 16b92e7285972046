------------------------------- MODULE Fleet -------------------------------
(***************************************************************************)
(* What every part of the hub shares: the radars (feeders) a report is     *)
(* forwarded to, the forwards themselves, and the job record the queue,    *)
(* the workers and the dead-letter queue hand to each other                *)
(* (internal/job, internal/radar).                                         *)
(*                                                                         *)
(* A forward is the number of its creation: forward ids are unique         *)
(* (idgen.New), and the number doubles as job.CreatedAt, which the queue   *)
(* only ever compares.  Of the payload nothing is kept, no decision of the *)
(* delivery engine depends on it.                                          *)
(*                                                                         *)
(* Time is relative: notBefore is the number of ticks until a job is due.  *)
(* Of jobs that are due already the code compares only who was due first,  *)
(* so a tick keeps their order and nothing more of how long ago it was.    *)
(***************************************************************************)
EXTENDS Integers, FiniteSets

CONSTANTS
    Radars,       \* the registered radars
    MaxForwards   \* bound: how many forwards a behaviour creates

ASSUME MaxForwardsAssumption == MaxForwards \in Nat \ {0}

VARIABLES
    enabled,      \* enabled[r]: the radar's Enabled flag in the registry
    next          \* the next forward to be created

Forwards == 1 .. MaxForwards

Jobs == [fwd : Forwards, radar : Radars, attempt : Nat, notBefore : Int]

(* A job as the accept pipeline builds it: no attempt yet, due at once.    *)
NewJob(f, r) == [fwd |-> f, radar |-> r, attempt |-> 0, notBefore |-> 0]

(* One tick passes for a job, deadlines being those of all jobs that wait. *)
(* What is due stays in order: each due job ranks behind the later ones.   *)
Aged(j, deadlines) ==
    [j EXCEPT !.notBefore =
        IF @ > 0 THEN @ - 1
        ELSE -1 - Cardinality({t \in -MaxForwards .. 0 :
                                  t \in deadlines /\ @ < t})]

FleetTypeOK ==
    /\ enabled \in [Radars -> BOOLEAN]
    /\ next \in 1 .. MaxForwards + 1

FleetInit ==
    /\ enabled \in [Radars -> BOOLEAN]
    /\ next = 1

(* POST /api/v1/radars/{id}/enable: the operator switches a radar on or    *)
(* off while reports for it are queued, leased or being posted.            *)
SetEnabled(r, on) ==
    /\ enabled' = [enabled EXCEPT ![r] = on]
    /\ UNCHANGED next
=============================================================================
