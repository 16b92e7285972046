--------------------------- MODULE CircuitProofs ---------------------------
(***************************************************************************)
(* Every operation of the breaker keeps it well typed and coherent.        *)
(***************************************************************************)
EXTENDS Circuit, TLAPS

(* One breaker at a time: the records the operations compute.              *)
LEMMA RefreshedKeeps ==
    ASSUME NEW b \in Breakers
    PROVE  /\ Refreshed(b) \in Breakers
           /\ Coherent(b) => Coherent(Refreshed(b))
<1> DEFINE c == [state |-> "half_open", failures |-> b.failures, cool |-> 0,
                 probesLeft |-> Probes]
<1>1. c \in Breakers
  BY CircuitAssumption DEF Breakers, BreakerStates
<1>2. b.cool = 0 /\ b.state = "open" /\ Coherent(b) => Coherent(c)
  BY CircuitAssumption DEF Breakers, BreakerStates, Coherent
<1> QED BY <1>1, <1>2 DEF Refreshed

LEMMA TrippedKeeps ==
    ASSUME NEW b \in Breakers
    PROVE  /\ Tripped(b) \in Breakers
           /\ b.failures >= FailThreshold => Coherent(Tripped(b))
<1>1. Tripped(b) \in Breakers
  BY CircuitAssumption DEF Tripped, Breakers, BreakerStates
<1>2. /\ Tripped(b).state = "open"
      /\ Tripped(b).failures = b.failures
      /\ Tripped(b).probesLeft = 0
  BY DEF Tripped, Breakers
<1>3. b.failures >= FailThreshold => Coherent(Tripped(b))
  BY <1>2, CircuitAssumption DEF Breakers, Coherent
<1> QED BY <1>1, <1>3

LEMMA AfterFailureKeeps ==
    ASSUME NEW b \in Breakers, Coherent(b)
    PROVE  /\ AfterFailure(b) \in Breakers
           /\ Coherent(AfterFailure(b))
<1>1. CASE b.state = "half_open"
  BY <1>1, TrippedKeeps, CircuitAssumption
     DEF AfterFailure, Coherent, Breakers
<1>2. CASE b.state = "closed"
  <2> DEFINE c == [b EXCEPT !.failures = @ + 1]
  <2>1. /\ c \in Breakers
        /\ c.failures < FailThreshold => Coherent(c)
    BY <1>2, CircuitAssumption DEF Breakers, BreakerStates, Coherent
  <2>2. AfterFailure(b) =
            IF c.failures >= FailThreshold THEN Tripped(c) ELSE c
    BY <1>2 DEF AfterFailure
  <2>3. c.failures >= FailThreshold \/ c.failures < FailThreshold
    BY <2>1, CircuitAssumption DEF Breakers
  <2> HIDE DEF c
  <2> QED BY <2>1, <2>2, <2>3, TrippedKeeps, CircuitAssumption DEF Breakers
<1>3. CASE b.state = "open"
  BY <1>3 DEF AfterFailure
<1> QED BY <1>1, <1>2, <1>3 DEF Breakers, BreakerStates

LEMMA CooledKeeps ==
    ASSUME NEW b \in Breakers
    PROVE  /\ Cooled(b) \in Breakers
           /\ Coherent(b) => Coherent(Cooled(b))
BY CircuitAssumption DEF Cooled, Breakers, BreakerStates, Coherent

LEMMA NewBreakerKeeps == NewBreaker \in Breakers /\ Coherent(NewBreaker)
BY CircuitAssumption DEF NewBreaker, Breakers, BreakerStates, Coherent

(* All of them: the counting of failures stays within its type only        *)
(* because a closed breaker is below the threshold.                        *)
CircuitInv == CircuitTypeOK /\ \A r \in Radars : Coherent(breakers[r])

CircuitStep(r) == Admit(r) \/ Deny(r) \/ Success(r) \/ Failure(r) \/ Observe(r)

(* No operation of the breaker, in whatever order workers and readers call *)
(* them, makes it incoherent.                                              *)
THEOREM CircuitStepKeeps ==
    ASSUME CircuitInv, NEW r \in Radars,
           CircuitStep(r) \/ CircuitElapse \/ UNCHANGED breakers
    PROVE  CircuitInv'
<1> USE DEF CircuitInv, CircuitTypeOK
<1> DEFINE b == breakers[r]
           c == Refreshed(b)
<1>1. c \in Breakers /\ Coherent(c)
  BY RefreshedKeeps
<1>2. CASE Admit(r)
  <2>1. CASE breakers' = [breakers EXCEPT ![r] = c]
    BY <1>1, <2>1
  <2>2. CASE /\ c.state = "half_open"
             /\ c.probesLeft > 0
             /\ breakers' = [breakers EXCEPT ![r] =
                                [c EXCEPT !.probesLeft = @ - 1]]
    <3>1. /\ [c EXCEPT !.probesLeft = @ - 1] \in Breakers
          /\ Coherent([c EXCEPT !.probesLeft = @ - 1])
      BY <1>1, <2>2, CircuitAssumption DEF Breakers, Coherent
    <3> QED BY <3>1, <2>2
  <2> QED BY <1>2, <2>1, <2>2 DEF Admit
<1>3. CASE Deny(r)
  BY <1>1, <1>3 DEF Deny
<1>4. CASE Success(r)
  BY <1>4, NewBreakerKeeps DEF Success
<1>5. CASE Failure(r)
  BY <1>5, AfterFailureKeeps DEF Failure
<1>6. CASE Observe(r)
  BY <1>1, <1>6 DEF Observe
<1>7. CASE CircuitElapse
  BY <1>7, CooledKeeps DEF CircuitElapse
<1>8. CASE UNCHANGED breakers
  BY <1>8
<1> QED BY <1>2, <1>3, <1>4, <1>5, <1>6, <1>7, <1>8 DEF CircuitStep
=============================================================================
