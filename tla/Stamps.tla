------------------------------- MODULE Stamps -------------------------------
(***************************************************************************)
(* A breaker and a bucket as the code stores them (internal/circuit,       *)
(* internal/ratelimit): with the time of the last trip and of the last     *)
(* refill, brought up to date when a method is called.  Circuit and        *)
(* RateLimit have instead what is left of a pause and what has flowed into *)
(* a bucket, brought up to date with every tick.                           *)
(*                                                                         *)
(* Time is in ticks, a token is Unit units, Rate[r] units flow per tick.   *)
(* Each method runs under its own mutex and reads the clock once.          *)
(***************************************************************************)
EXTENDS Fleet

CONSTANTS
    FailThreshold,  \* Settings.FailThreshold
    OpenFor,        \* Settings.OpenFor, in ticks
    Probes,         \* Settings.Probes
    Unit,           \* units per token
    Rate,           \* Rate[r]: units per tick
    Burst           \* Burst[r]: tokens the bucket holds

(* Settings.normalize and ratelimit.New replace every other value.         *)
ASSUME StampsAssumption ==
    /\ FailThreshold \in Nat \ {0}
    /\ OpenFor \in Nat \ {0}
    /\ Probes \in Nat \ {0}
    /\ Unit \in Nat \ {0}
    /\ Rate \in [Radars -> Nat \ {0}]
    /\ Burst \in [Radars -> Nat \ {0}]

Breakers ==
    [state : {"closed", "open", "half_open"}, failures : 0 .. FailThreshold,
     openedAt : Nat, probesLeft : 0 .. Probes]

Buckets == [content : Nat, lastTime : Nat]

(* circuit.New: openedAt is not read before the first trip.                *)
NewBreaker ==
    [state |-> "closed", failures |-> 0, openedAt |-> 0, probesLeft |-> 0]

(* A broken variant, for the runs: the trip is as old as the last one.     *)
TrippedBefore(b, t) ==
    [state |-> "open", failures |-> b.failures, openedAt |-> b.openedAt,
     probesLeft |-> 0]

(* tripLocked.                                                             *)
Tripped(b, t) ==
    [state |-> "open", failures |-> b.failures, openedAt |-> t,
     probesLeft |-> 0]

(* maybeHalfOpenLocked, the first call of Allow and of Snapshot.           *)
HalfOpened(b, t) ==
    IF b.state = "open" /\ t - b.openedAt >= OpenFor
    THEN [state |-> "half_open", failures |-> b.failures,
          openedAt |-> b.openedAt, probesLeft |-> Probes]
    ELSE b

Succeeded(b) ==
    [state |-> "closed", failures |-> 0, openedAt |-> b.openedAt,
     probesLeft |-> 0]

(* A broken variant: a failed probe does not trip.                         *)
FailedClosedOnly(b, t) ==
    IF b.state # "closed" THEN b
    ELSE IF b.failures + 1 >= FailThreshold
         THEN Tripped([b EXCEPT !.failures = @ + 1], t)
         ELSE [b EXCEPT !.failures = @ + 1]

Failed(b, t) ==
    CASE b.state = "half_open" -> Tripped(b, t)
      [] b.state = "closed" ->
            LET counted == [b EXCEPT !.failures = @ + 1]
            IN  IF counted.failures >= FailThreshold
                THEN Tripped(counted, t) ELSE counted
      [] b.state = "open" -> b

(* ratelimit.New.                                                          *)
FullBucket(r, t) == [content |-> Burst[r] * Unit, lastTime |-> t]

(* A broken variant: the content is not capped.                            *)
RefilledUncapped(r, k, t) ==
    [content |-> k.content + (t - k.lastTime) * Rate[r], lastTime |-> t]

(* The first half of Take; a clock that was set back brings nothing.       *)
Refilled(r, k, t) ==
    LET flowed == IF t > k.lastTime
                  THEN k.content + (t - k.lastTime) * Rate[r] ELSE k.content
    IN  [content |-> IF flowed > Burst[r] * Unit
                     THEN Burst[r] * Unit ELSE flowed,
         lastTime |-> t]
=============================================================================
