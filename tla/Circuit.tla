------------------------------ MODULE Circuit ------------------------------
(***************************************************************************)
(* The per-radar circuit breaker (internal/circuit), one record per radar. *)
(* Every method of the code runs under the breaker's mutex and is one      *)
(* operator here.                                                          *)
(*                                                                         *)
(* cool is what is left of OpenFor: tripLocked stores openedAt, and        *)
(* maybeHalfOpenLocked compares the time since with OpenFor.  It is zero   *)
(* whenever the breaker is not open, where openedAt is never read.         *)
(***************************************************************************)
EXTENDS Fleet

CONSTANTS
    FailThreshold,  \* Settings.FailThreshold
    OpenFor,        \* Settings.OpenFor, in ticks
    Probes          \* Settings.Probes

(* Settings.normalize replaces every other value.                          *)
ASSUME CircuitAssumption ==
    /\ FailThreshold \in Nat \ {0}
    /\ OpenFor \in Nat \ {0}
    /\ Probes \in Nat \ {0}

VARIABLE breakers

BreakerStates == {"closed", "open", "half_open"}

Breakers ==
    [state : BreakerStates, failures : 0 .. FailThreshold,
     cool : 0 .. OpenFor, probesLeft : 0 .. Probes]

(* What a breaker's fields have to do with each other: it is closed below  *)
(* the threshold and nowhere else, the failures that tripped it stay until *)
(* a success, and an open time or probes exist only where they are spent.  *)
Coherent(b) ==
    /\ b.state = "closed" <=> b.failures < FailThreshold
    /\ b.probesLeft > 0 => b.state = "half_open"
    /\ b.cool > 0 => b.state = "open"

CircuitTypeOK == breakers \in [Radars -> Breakers]

NewBreaker ==
    [state |-> "closed", failures |-> 0, cool |-> 0, probesLeft |-> 0]

CircuitInit == breakers = [r \in Radars |-> NewBreaker]

(* tripLocked.                                                             *)
Tripped(b) ==
    [state |-> "open", failures |-> b.failures, cool |-> OpenFor,
     probesLeft |-> 0]

(* A broken variant, for the runs: the time since the trip is not compared.*)
RefreshedTooSoon(b) ==
    IF b.state = "open"
    THEN [b EXCEPT !.state = "half_open", !.probesLeft = Probes, !.cool = 0]
    ELSE b

(* maybeHalfOpenLocked: an open breaker whose time is up gets its probes.  *)
Refreshed(b) ==
    IF b.state = "open" /\ b.cool = 0
    THEN [state |-> "half_open", failures |-> b.failures, cool |-> 0,
          probesLeft |-> Probes]
    ELSE b

(* Allow, the two ways it can answer.  It refreshes the breaker first, and *)
(* an admission by a half-open breaker uses up a probe.                    *)
Admit(r) ==
    LET b == Refreshed(breakers[r])
    IN  \/ /\ b.state = "closed"
           /\ breakers' = [breakers EXCEPT ![r] = b]
        \/ /\ b.state = "half_open"
           /\ b.probesLeft > 0
           /\ breakers' = [breakers EXCEPT ![r] =
                              [b EXCEPT !.probesLeft = @ - 1]]

Deny(r) ==
    LET b == Refreshed(breakers[r])
    IN  /\ b.state = "open" \/ (b.state = "half_open" /\ b.probesLeft = 0)
        /\ breakers' = [breakers EXCEPT ![r] = b]

(* A broken variant: the failures counted so far stay.                     *)
SuccessKeepsFailures(r) ==
    breakers' = [breakers EXCEPT ![r].state = "closed", ![r].cool = 0,
                                 ![r].probesLeft = 0]

(* Success closes the breaker whatever its state.                          *)
Success(r) == breakers' = [breakers EXCEPT ![r] = NewBreaker]

(* A broken variant: off by one at the threshold.                          *)
AfterFailureLate(b) ==
    CASE b.state = "half_open" -> Tripped(b)
      [] b.state = "closed" ->
            IF b.failures > FailThreshold THEN Tripped(b)
            ELSE [b EXCEPT !.failures = @ + 1]
      [] b.state = "open" -> b

(* A broken variant: a failed probe does not trip.                         *)
AfterFailureClosedOnly(b) ==
    IF b.state # "closed" THEN b
    ELSE IF b.failures + 1 >= FailThreshold
         THEN Tripped([b EXCEPT !.failures = @ + 1])
         ELSE [b EXCEPT !.failures = @ + 1]

(* Failure counts while closed, trips again while half-open, and is        *)
(* ignored while open.                                                     *)
AfterFailure(b) ==
    CASE b.state = "half_open" -> Tripped(b)
      [] b.state = "closed" ->
            LET counted == [b EXCEPT !.failures = @ + 1]
            IN  IF counted.failures >= FailThreshold
                THEN Tripped(counted) ELSE counted
      [] b.state = "open" -> b

Failure(r) ==
    breakers' = [breakers EXCEPT ![r] = AfterFailure(breakers[r])]

(* Snapshot, behind GET /api/v1/circuits and behind every save of the      *)
(* store: reading the breaker refreshes it.                                *)
Observe(r) ==
    /\ breakers[r] # Refreshed(breakers[r])
    /\ breakers' = [breakers EXCEPT ![r] = Refreshed(breakers[r])]

Cooled(b) == [b EXCEPT !.cool = IF @ > 0 THEN @ - 1 ELSE 0]

CircuitElapse == breakers' = [r \in Radars |-> Cooled(breakers[r])]
=============================================================================
