--------------------------- MODULE DeliveryProofs ---------------------------
(***************************************************************************)
(* What holds of the delivery engine for every number of radars, workers   *)
(* and forwards, and every setting of its parts.                           *)
(***************************************************************************)
EXTENDS Delivery, CircuitProofs, FiniteSetTheorems, SequenceTheorems

-----------------------------------------------------------------------------
(* The helpers on jobs, times and dead letters.                            *)

LEMMA AgedKeeps ==
    ASSUME NEW j \in Jobs, NEW D
    PROVE  /\ Aged(j, D) \in Jobs
           /\ Aged(j, D).fwd = j.fwd
           /\ Aged(j, D).radar = j.radar
           /\ Aged(j, D).attempt = j.attempt
<1> DEFINE later == {t \in -MaxForwards .. 0 : t \in D /\ j.notBefore < t}
<1>1. Cardinality(later) \in Nat
  <2>1. -MaxForwards \in Int /\ 0 \in Int
    BY MaxForwardsAssumption
  <2>2. IsFiniteSet(-MaxForwards .. 0)
    BY <2>1, FS_Interval
  <2>3. later \in SUBSET (-MaxForwards .. 0)
    OBVIOUS
  <2>4. IsFiniteSet(later)
    BY <2>2, <2>3, FS_Subset
  <2> QED BY <2>4, FS_CardinalityType
<1>2. Aged(j, D) =
        [j EXCEPT !.notBefore =
            IF @ > 0 THEN @ - 1 ELSE -1 - Cardinality(later)]
  BY DEF Aged
<1> HIDE DEF later
<1> QED BY <1>1, <1>2 DEF Jobs

LEMMA NewJobType ==
    ASSUME NEW f \in Forwards, NEW r \in Radars
    PROVE  NewJob(f, r) \in Jobs
BY DEF NewJob, Jobs

LEMMA DueType ==
    ASSUME NEW j \in Jobs, NEW t \in Int
    PROVE  [j EXCEPT !.notBefore = t] \in Jobs
BY DEF Jobs

LEMMA AttemptType ==
    ASSUME NEW j \in Jobs
    PROVE  [j EXCEPT !.attempt = @ + 1] \in Jobs
BY DEF Jobs

LEMMA FromJobType ==
    ASSUME NEW j \in Jobs, NEW why \in Reasons
    PROVE  FromJob(j, why) \in Items
BY DEF FromJob, Jobs, Items

LEMMA CappedType ==
    ASSUME NEW q \in Seq(Items)
    PROVE  Capped(q) \in Seq(Items)
<1>1. ASSUME Len(q) > DlqMax
      PROVE  SubSeq(q, Len(q) - DlqMax + 1, Len(q)) \in Seq(Items)
  <2>1. /\ Len(q) - DlqMax + 1 \in Int
        /\ Len(q) \in Int
        /\ \A i \in Len(q) - DlqMax + 1 .. Len(q) : q[i] \in Items
    BY <1>1, DlqAssumption, LenProperties, ElementOfSeq
  <2> QED BY <2>1, SubSeqProperties
<1> QED BY <1>1 DEF Capped

LEMMA PushKeeps ==
    ASSUME DlqTypeOK, NEW it \in Items, Push(it)
    PROVE  DlqTypeOK'
<1>1. Append(dead, it) \in Seq(Items)
  BY AppendProperties DEF DlqTypeOK
<1>2. it.fwd \in Forwards
  BY DEF Items
<1> QED BY <1>1, <1>2, CappedType DEF DlqTypeOK, Push

LEMMA TokensFit == \A r \in Radars : Burst[r] * Unit \in Nat
BY RateLimitAssumption

LEMMA WaitType ==
    ASSUME RateLimitTypeOK, NEW r \in Radars
    PROVE  Wait(r) \in Int
BY RateLimitAssumption DEF Wait, RateLimitTypeOK

LEMMA TakeKeeps ==
    ASSUME RateLimitTypeOK, NEW r \in Radars, Take(r)
    PROVE  RateLimitTypeOK'
BY RateLimitAssumption, TokensFit DEF Take, RateLimitTypeOK

LEMMA RefillKeeps ==
    ASSUME RateLimitTypeOK, RateLimitElapse
    PROVE  RateLimitTypeOK'
<1>1. \A r \in Radars : /\ Refilled(r, tokens[r]) \in Nat
                        /\ Refilled(r, tokens[r]) <= Burst[r] * Unit
  BY RateLimitAssumption, TokensFit DEF RateLimitTypeOK, Refilled
<1> QED BY <1>1 DEF RateLimitElapse, RateLimitTypeOK

LEMMA EnqueueKeeps ==
    ASSUME BrokerTypeOK, NEW j \in Jobs, Enqueue(j)
    PROVE  BrokerTypeOK'
BY DEF BrokerTypeOK, Enqueue, Jobs

LEMMA LeasableReady ==
    ASSUME BrokerTypeOK, NEW j \in Leasable
    PROVE  /\ \E r \in Radars : j \in ready[r] /\ inFlight[r] < MaxFlight(r)
           /\ j \in Jobs
BY DEF Leasable, DueHeads, Heads, BrokerTypeOK

LEMMA LeaseKeeps ==
    ASSUME BrokerTypeOK, NEW j \in Leasable, Lease(j)
    PROVE  BrokerTypeOK'
<1>1. j.radar \in Radars
  BY LeasableReady DEF Jobs
<1> QED BY <1>1 DEF BrokerTypeOK, Lease

LEMMA ReleaseKeeps ==
    ASSUME BrokerTypeOK, NEW r \in Radars, Release(r)
    PROVE  BrokerTypeOK'
BY DEF BrokerTypeOK, Release

LEMMA BrokerElapseKeeps ==
    ASSUME BrokerTypeOK, NEW D, BrokerElapse(D)
    PROVE  BrokerTypeOK'
<1>1. \A r \in Radars : {Aged(j, D) : j \in ready[r]} \in SUBSET Jobs
  BY AgedKeeps DEF BrokerTypeOK
<1> QED BY <1>1 DEF BrokerTypeOK, BrokerElapse

-----------------------------------------------------------------------------
(* Types.  The breaker's type is inductive only together with its          *)
(* coherence: the failures of a closed breaker stay below the threshold.   *)

TypeInv == TypeOK /\ BreakerCoherent

LEMMA TypeInvParts ==
    TypeInv <=> /\ FleetTypeOK
                /\ CircuitInv
                /\ RateLimitTypeOK
                /\ BrokerTypeOK
                /\ DlqTypeOK
                /\ WorkersTypeOK
                /\ planned \subseteq Jobs
                /\ journaled \in [Forwards -> SUBSET Verdicts]
                /\ posts \in [Forwards -> Nat]
BY DEF TypeInv, TypeOK, BreakerCoherent, CircuitInv

LEMMA BusyHoldsJob ==
    ASSUME WorkersTypeOK, NEW w \in Workers, Busy(w)
    PROVE  /\ hand[w] \in Jobs
           /\ hand[w].fwd \in Forwards
           /\ hand[w].radar \in Radars
           /\ hand[w].attempt \in Nat
BY DEF WorkersTypeOK, Jobs

LEMMA CauseKept ==
    ASSUME WorkersTypeOK, NEW w \in Workers, UNCHANGED cause
    PROVE  cause[w] \in Causes /\ cause' = [cause EXCEPT ![w] = cause[w]]
BY DEF WorkersTypeOK

LEMMA InitTyped == Init => TypeInv
<1> SUFFICES ASSUME Init PROVE TypeInv
  OBVIOUS
<1> USE DEF Init
<1>1. FleetTypeOK
  BY MaxForwardsAssumption DEF FleetInit, FleetTypeOK
<1>2. CircuitInv
  BY NewBreakerKeeps DEF CircuitInit, CircuitInv, CircuitTypeOK
<1>3. RateLimitTypeOK
  BY TokensFit DEF RateLimitInit, RateLimitTypeOK
<1>4. BrokerTypeOK
  BY DEF BrokerInit, BrokerTypeOK
<1>5. DlqTypeOK
  BY DEF DlqInit, DlqTypeOK
<1>6. WorkersTypeOK
  BY DeliveryAssumption DEF WorkersTypeOK, Busy, Steps, Causes
<1> QED BY <1>1, <1>2, <1>3, <1>4, <1>5, <1>6 DEF TypeInv, TypeOK,
       BreakerCoherent, CircuitInv

(* What a worker's move does to its own registers.                         *)
LEMMA NextStepKeeps ==
    ASSUME WorkersTypeOK, NEW w \in Workers, Busy(w),
           NEW step \in Steps \ {"idle"}, NextStep(w, step),
           NEW j \in Jobs,
           hand' = [hand EXCEPT ![w] = j],
           NEW why \in Causes, step # "bury",
           cause' = [cause EXCEPT ![w] = why]
    PROVE  WorkersTypeOK'
BY DeliveryAssumption DEF WorkersTypeOK, Busy, NextStep

LEMMA StayKeeps ==
    ASSUME WorkersTypeOK, NEW w \in Workers, Busy(w),
           NEW step \in Steps \ {"idle"}, NextStep(w, step),
           UNCHANGED hand,
           NEW why \in Causes,
           cause' = [cause EXCEPT ![w] = why],
           step = "bury" => why \in Reasons
    PROVE  WorkersTypeOK'
BY DeliveryAssumption DEF WorkersTypeOK, Busy, NextStep

LEMMA PostponeKeeps ==
    ASSUME WorkersTypeOK, NEW w \in Workers, Busy(w),
           NEW why \in Causes, NEW t \in Int, Postpone(w, why, t)
    PROVE  WorkersTypeOK'
<1>1. hand' = [hand EXCEPT ![w] = [hand[w] EXCEPT !.notBefore = t]]
  BY DEF Postpone
<1>2. [hand[w] EXCEPT !.notBefore = t] \in Jobs
  BY BusyHoldsJob, DueType
<1>3. "requeue" \in Steps \ {"idle"}
  BY DEF Steps
<1> QED BY <1>1, <1>2, <1>3, NextStepKeeps DEF Postpone, Outcome

LEMMA NextTyped == TypeInv /\ [Next]_vars => TypeInv'
<1> SUFFICES ASSUME TypeInv, [Next]_vars PROVE TypeInv'
  OBVIOUS
<1> USE TypeInvParts
<1>a. TypeInv' <=> /\ FleetTypeOK'
                   /\ CircuitInv'
                   /\ RateLimitTypeOK'
                   /\ BrokerTypeOK'
                   /\ DlqTypeOK'
                   /\ WorkersTypeOK'
                   /\ planned' \subseteq Jobs
                   /\ journaled' \in [Forwards -> SUBSET Verdicts]
                   /\ posts' \in [Forwards -> Nat]
  BY DEF TypeInv, TypeOK, BreakerCoherent, CircuitInv
<1>b. UNCHANGED <<enabled, next>> => FleetTypeOK'
  BY DEF FleetTypeOK
<1>c. UNCHANGED breakers => CircuitInv'
  BY DEF CircuitInv, CircuitTypeOK
<1>d. UNCHANGED tokens => RateLimitTypeOK'
  BY DEF RateLimitTypeOK
<1>e. UNCHANGED <<ready, inFlight>> => BrokerTypeOK'
  BY DEF BrokerTypeOK
<1>f. UNCHANGED <<dead, buried>> => DlqTypeOK'
  BY DEF DlqTypeOK
<1>g. UNCHANGED <<pc, hand, cause>> => WorkersTypeOK'
  BY DEF WorkersTypeOK, Busy
<1>1. ASSUME NEW r \in Radars, PlanForward(r)
      PROVE  TypeInv'
  <2>1. FleetTypeOK' /\ next \in Forwards
    BY <1>1, MaxForwardsAssumption DEF PlanForward, FleetTypeOK, Forwards
  <2>2. planned' \subseteq Jobs
    BY <1>1, <2>1, NewJobType DEF PlanForward
  <2> QED BY <1>a, <1>c, <1>d, <1>e, <1>f, <1>g, <1>1, <2>1, <2>2
          DEF PlanForward
<1>2. ASSUME NEW r \in Radars, SwitchRadar(r)
      PROVE  TypeInv'
  <2>1. FleetTypeOK'
    BY <1>2 DEF SwitchRadar, SetEnabled, FleetTypeOK
  <2> QED BY <1>a, <1>c, <1>d, <1>e, <1>f, <1>g, <1>2, <2>1 DEF SwitchRadar
<1>3. ASSUME NEW r \in Radars, ReadCircuit(r)
      PROVE  TypeInv'
  <2>1. CircuitInv'
    BY <1>3, CircuitStepKeeps DEF ReadCircuit, CircuitStep
  <2> QED BY <1>a, <1>b, <1>d, <1>e, <1>f, <1>g, <1>3, <2>1 DEF ReadCircuit
<1>4. ASSUME NEW j \in planned, EnqueueForward(j)
      PROVE  TypeInv'
  <2>1. BrokerTypeOK'
    BY <1>4, EnqueueKeeps DEF EnqueueForward
  <2> QED BY <1>a, <1>b, <1>c, <1>d, <1>f, <1>g, <1>4, <2>1
          DEF EnqueueForward
<1>5. ASSUME NEW w \in Workers, LeaseJob(w)
      PROVE  TypeInv'
  <2>1. PICK j \in Leasable : Lease(j) /\ hand' = [hand EXCEPT ![w] = j]
    BY <1>5 DEF LeaseJob
  <2>2. BrokerTypeOK'
    BY <2>1, LeaseKeeps
  <2>3. WorkersTypeOK'
    BY <1>5, <2>1, LeasableReady, DeliveryAssumption
       DEF LeaseJob, WorkersTypeOK, NextStep, Steps, Busy
  <2> QED BY <1>a, <1>b, <1>c, <1>d, <1>f, <1>5, <2>2, <2>3 DEF LeaseJob
<1>6. ASSUME NEW w \in Workers, LookUp(w)
      PROVE  TypeInv'
  <2>1. WorkersTypeOK'
    <3>1. /\ Busy(w)
          /\ {"allow", "bury"} \subseteq Steps \ {"idle"}
          /\ "unavailable" \in Causes /\ "unavailable" \in Reasons
      BY <1>6 DEF LookUp, Busy, Steps, Causes, Reasons
    <3> QED BY <1>6, <3>1, StayKeeps, CauseKept DEF LookUp, Outcome
  <2> QED BY <1>a, <1>b, <1>c, <1>d, <1>e, <1>f, <1>6, <2>1 DEF LookUp
<1>7. ASSUME NEW w \in Workers, AskBreaker(w)
      PROVE  TypeInv'
  <2>1. /\ Busy(w)
        /\ hand[w].radar \in Radars
        /\ "take" \in Steps \ {"idle"}
        /\ "skipped_open" \in Causes
        /\ SkipDelay \in Int
    BY <1>7, BusyHoldsJob, DeliveryAssumption
       DEF AskBreaker, Busy, Steps, Causes, Postponed
  <2>2. CircuitInv'
    BY <1>7, <2>1, CircuitStepKeeps DEF AskBreaker, CircuitStep
  <2>3. WorkersTypeOK'
    BY <1>7, <2>1, StayKeeps, CauseKept, PostponeKeeps DEF AskBreaker
  <2> QED BY <1>a, <1>b, <1>d, <1>e, <1>f, <1>7, <2>2, <2>3 DEF AskBreaker
<1>8. ASSUME NEW w \in Workers, TakeToken(w)
      PROVE  TypeInv'
  <2> DEFINE r == hand[w].radar
             f == hand[w].fwd
  <2>1. /\ Busy(w)
        /\ hand[w] \in Jobs /\ r \in Radars /\ f \in Forwards
        /\ "posting" \in Steps \ {"idle"}
        /\ "rate_delayed" \in Causes
        /\ Wait(r) \in Int
    BY <1>8, BusyHoldsJob, WaitType
       DEF TakeToken, Busy, Steps, Causes, Postponed
  <2>2. CASE /\ Take(r)
             /\ hand' = [hand EXCEPT ![w].attempt = @ + 1]
             /\ posts' = [posts EXCEPT ![f] = @ + 1]
             /\ NextStep(w, "posting")
             /\ UNCHANGED cause
    <3>1. RateLimitTypeOK'
      BY <2>1, <2>2, TakeKeeps
    <3>2. WorkersTypeOK'
      <4> DEFINE j == [hand[w] EXCEPT !.attempt = @ + 1]
      <4>1. j \in Jobs
        BY <2>1, AttemptType
      <4>2. hand' = [hand EXCEPT ![w] = j]
        BY <2>2
      <4>3. cause[w] \in Causes /\ cause' = [cause EXCEPT ![w] = cause[w]]
        BY <2>2, CauseKept
      <4>4. /\ WorkersTypeOK /\ Busy(w) /\ NextStep(w, "posting")
            /\ "posting" \in Steps \ {"idle"} /\ "posting" # "bury"
        BY <2>1, <2>2
      <4> HIDE DEF j
      <4> QED BY <4>1, <4>2, <4>3, <4>4, NextStepKeeps
    <3>3. posts' \in [Forwards -> Nat]
      BY <2>1, <2>2
    <3> QED BY <1>a, <1>b, <1>c, <1>e, <1>f, <1>8, <3>1, <3>2, <3>3
            DEF TakeToken
  <2>3. CASE /\ Empty(r)
             /\ Postpone(w, "rate_delayed", Wait(r))
             /\ UNCHANGED posts
    <3>1. WorkersTypeOK'
      BY <2>1, <2>3, PostponeKeeps
    <3> QED BY <1>a, <1>b, <1>c, <1>d, <1>e, <1>f, <1>8, <2>3, <3>1
            DEF TakeToken, Empty
  <2> QED BY <1>8, <2>2, <2>3 DEF TakeToken
<1>9. ASSUME NEW w \in Workers, NEW v \in Verdicts, PostReturns(w, v)
      PROVE  TypeInv'
  <2>1. /\ Busy(w)
        /\ hand[w].fwd \in Forwards
        /\ "report" \in Steps \ {"idle"}
        /\ v \in Causes
    BY <1>9, BusyHoldsJob DEF PostReturns, Busy, Steps, Causes
  <2>2. WorkersTypeOK'
    BY <1>9, <2>1, StayKeeps DEF PostReturns, Outcome
  <2>3. journaled' \in [Forwards -> SUBSET Verdicts]
    BY <1>9, <2>1 DEF PostReturns, Note
  <2> QED BY <1>a, <1>b, <1>c, <1>d, <1>e, <1>f, <1>9, <2>2, <2>3
          DEF PostReturns
<1>10. ASSUME NEW w \in Workers, Report(w)
       PROVE  TypeInv'
  <2>1. /\ Busy(w)
        /\ hand[w].radar \in Radars
        /\ {"release", "bury"} \subseteq Steps \ {"idle"}
        /\ {"exhausted", "retryable"} \subseteq Causes
        /\ {"exhausted", "terminal"} \subseteq Reasons
        /\ \A t \in Delays(hand[w].attempt) : t \in Int
    BY <1>10, BusyHoldsJob, DeliveryAssumption
       DEF Report, Busy, Steps, Causes, Reasons, Verdicts, Delays
  <2>2. CircuitInv'
    BY <1>10, <2>1, CircuitStepKeeps DEF Report, CircuitStep
  <2>3. WorkersTypeOK'
    <3>1. CASE cause[w] = "success" /\ NextStep(w, "release")
               /\ UNCHANGED <<hand, cause>>
      BY <2>1, <3>1, StayKeeps, CauseKept
    <3>2. CASE Outcome(w, "bury", "exhausted") /\ UNCHANGED hand
      BY <2>1, <3>2, StayKeeps DEF Outcome
    <3>3. CASE \E t \in Delays(hand[w].attempt) : Postpone(w, "retryable", t)
      BY <2>1, <3>3, PostponeKeeps
    <3>4. CASE cause[w] = "terminal" /\ NextStep(w, "bury")
               /\ UNCHANGED <<hand, cause>>
      BY <2>1, <3>4, StayKeeps, CauseKept
    <3> QED BY <1>10, <3>1, <3>2, <3>3, <3>4 DEF Report
  <2> QED BY <1>a, <1>b, <1>d, <1>e, <1>f, <1>10, <2>2, <2>3 DEF Report
<1>11. ASSUME NEW w \in Workers, Requeue(w)
       PROVE  TypeInv'
  <2>1. Busy(w) /\ hand[w] \in Jobs /\ "release" \in Steps \ {"idle"}
    BY <1>11, BusyHoldsJob DEF Requeue, Busy, Steps
  <2>2. BrokerTypeOK'
    BY <1>11, <2>1, EnqueueKeeps DEF Requeue
  <2>3. WorkersTypeOK'
    BY <1>11, <2>1, StayKeeps, CauseKept DEF Requeue
  <2> QED BY <1>a, <1>b, <1>c, <1>d, <1>f, <1>11, <2>2, <2>3 DEF Requeue
<1>12. ASSUME NEW w \in Workers, Bury(w)
       PROVE  TypeInv'
  <2>1. /\ Busy(w) /\ hand[w] \in Jobs
        /\ cause[w] \in Reasons
        /\ "release" \in Steps \ {"idle"}
    BY <1>12, BusyHoldsJob DEF Bury, Busy, Steps, WorkersTypeOK
  <2>2. DlqTypeOK'
    BY <1>12, <2>1, FromJobType, PushKeeps DEF Bury
  <2>3. WorkersTypeOK'
    BY <1>12, <2>1, StayKeeps, CauseKept DEF Bury
  <2> QED BY <1>a, <1>b, <1>c, <1>d, <1>e, <1>12, <2>2, <2>3 DEF Bury
<1>13. ASSUME NEW w \in Workers, Finish(w)
       PROVE  TypeInv'
  <2>1. Busy(w) /\ hand[w].radar \in Radars /\ hand[w].fwd \in Forwards
    BY <1>13, BusyHoldsJob DEF Finish, Busy
  <2>2. BrokerTypeOK'
    BY <1>13, <2>1, ReleaseKeeps DEF Finish
  <2>3. WorkersTypeOK'
    BY <1>13, DeliveryAssumption
       DEF Finish, WorkersTypeOK, Outcome, NextStep, Busy, Steps, Causes
  <2>4. journaled' \in [Forwards -> SUBSET Verdicts]
    <3>1. TrailingNote(cause[w]) \in SUBSET Verdicts
      BY DEF TrailingNote, Verdicts
    <3> QED BY <1>13, <2>1, <3>1 DEF Finish
  <2> QED BY <1>a, <1>b, <1>c, <1>d, <1>f, <1>13, <2>2, <2>3, <2>4
          DEF Finish
<1>14. ASSUME Elapse
       PROVE  TypeInv'
  <2> DEFINE D == {j.notBefore : j \in Waiting}
  <2>1. CircuitInv'
    <3>1. CASE Radars = {}
      BY <1>14, <3>1 DEF Elapse, CircuitElapse, CircuitInv, CircuitTypeOK
    <3>2. CASE Radars # {}
      BY <1>14, <3>2, CircuitStepKeeps DEF Elapse
    <3> QED BY <3>1, <3>2
  <2>2. RateLimitTypeOK'
    BY <1>14, RefillKeeps DEF Elapse
  <2>3. BrokerTypeOK'
    BY <1>14, BrokerElapseKeeps DEF Elapse
  <2>4. WorkersTypeOK'
    <3>1. \A w \in Requeuing : hand[w] \in Jobs /\ Aged(hand[w], D) \in Jobs
      BY BusyHoldsJob, AgedKeeps DEF Requeuing, Busy
    <3>2. hand' = [w \in Workers |->
                     IF w \in Requeuing THEN Aged(hand[w], D) ELSE hand[w]]
      BY <1>14 DEF Elapse
    <3> HIDE DEF D
    <3> QED BY <1>14, <3>1, <3>2, DeliveryAssumption
            DEF Elapse, WorkersTypeOK, Busy, Requeuing
  <2>5. planned' \subseteq Jobs
    BY <1>14, AgedKeeps DEF Elapse
  <2> QED BY <1>a, <1>b, <1>f, <1>14, <2>1, <2>2, <2>3, <2>4, <2>5
          DEF Elapse
<1>15. ASSUME UNCHANGED vars
       PROVE  TypeInv'
  BY <1>a, <1>b, <1>c, <1>d, <1>e, <1>f, <1>g, <1>15 DEF vars
<1> QED BY <1>1, <1>2, <1>3, <1>4, <1>5, <1>6, <1>7, <1>8, <1>9, <1>10,
           <1>11, <1>12, <1>13, <1>14, <1>15 DEF Next, Worker, Handle

(* The engine keeps its types, with breakers that stay coherent whatever   *)
(* order the workers' reports and the readers' refreshes come in.          *)
THEOREM TypeSafety == Spec => []TypeInv
<1>1. Init => TypeInv
  BY InitTyped
<1>2. TypeInv /\ [Next]_vars => TypeInv'
  BY NextTyped
<1> QED BY <1>1, <1>2, PTL DEF Spec

THEOREM TypesHold == Spec => []TypeOK
<1>1. TypeInv => TypeOK
  BY DEF TypeInv
<1> QED BY <1>1, TypeSafety, PTL

THEOREM BreakersStayCoherent == Spec => []BreakerCoherent
<1>1. TypeInv => BreakerCoherent
  BY DEF TypeInv
<1> QED BY <1>1, TypeSafety, PTL

-----------------------------------------------------------------------------
(* Leases.  The broker's count follows the workers because each of them    *)
(* takes a lease when it gets busy and gives it back when it is idle       *)
(* again; that the lease is on the radar of its job needs the queues to be *)
(* filed by radar.                                                         *)

LeaseInv == FiledByRadar /\ LeasesAreWorkers

LEMMA MaxFlightValue ==
    \A r \in Radars : /\ MaxFlight(r) \in Nat \ {0}
                      /\ r \in Ordered => MaxFlight(r) = 1
BY BrokerAssumption DEF MaxFlight

LEMMA LesseesFinite == \A r \in Radars : IsFiniteSet(Lessees(r))
BY DeliveryAssumption, FS_Subset DEF Lessees

(* A step in which every worker goes on with the radar it works for.       *)
LEMMA LeasesUndisturbed ==
    ASSUME LeasesAreWorkers, UNCHANGED inFlight,
           \A v \in Workers :
              /\ Busy(v)' <=> Busy(v)
              /\ Busy(v) => hand'[v].radar = hand[v].radar
    PROVE  LeasesAreWorkers'
<1>1. \A r \in Radars : Lessees(r)' = Lessees(r)
  BY DEF Lessees
<1> QED BY <1>1 DEF LeasesAreWorkers

(* Such are all moves of a busy worker but its last.                       *)
LEMMA WorkerGoesOn ==
    ASSUME WorkersTypeOK, NEW w \in Workers, Busy(w),
           NEW step \in Steps \ {"idle"}, NextStep(w, step),
           \/ UNCHANGED hand
           \/ \E t \in Int : hand' = [hand EXCEPT ![w].notBefore = t]
           \/ hand' = [hand EXCEPT ![w].attempt = @ + 1]
    PROVE  \A v \in Workers :
              /\ Busy(v)' <=> Busy(v)
              /\ Busy(v) => /\ hand'[v].radar = hand[v].radar
                            /\ hand'[v].fwd = hand[v].fwd
<1>1. \A v \in Workers : Busy(v)' <=> Busy(v)
  BY DEF WorkersTypeOK, Busy, NextStep
<1>2. hand[w] \in Jobs
  BY BusyHoldsJob
<1>3. /\ hand'[w].radar = hand[w].radar
      /\ hand'[w].fwd = hand[w].fwd
      /\ \A v \in Workers \ {w} : hand'[v] = hand[v]
  BY <1>2 DEF WorkersTypeOK, Jobs
<1> QED BY <1>1, <1>3

LEMMA LeaseAdds ==
    ASSUME TypeInv, LeaseInv, NEW w \in Workers, LeaseJob(w)
    PROVE  LeaseInv'
<1>1. PICK j \in Leasable : Lease(j) /\ hand' = [hand EXCEPT ![w] = j]
  BY DEF LeaseJob
<1>2. /\ j \in Jobs /\ j.radar \in Radars
      /\ inFlight[j.radar] < MaxFlight(j.radar)
  BY <1>1, LeasableReady, TypeInvParts DEF LeaseInv, FiledByRadar
<1>3. FiledByRadar'
  BY <1>1, <1>2, TypeInvParts
     DEF LeaseInv, FiledByRadar, Lease, BrokerTypeOK
<1>4. /\ ~ Busy(w) /\ Busy(w)'
      /\ hand'[w] = j
      /\ \A v \in Workers \ {w} :
            (Busy(v)' <=> Busy(v)) /\ hand'[v] = hand[v]
  BY <1>1, TypeInvParts DEF LeaseJob, WorkersTypeOK, Busy, NextStep
<1>5. ASSUME NEW r \in Radars
      PROVE  /\ inFlight'[r] = Cardinality(Lessees(r)')
             /\ inFlight'[r] <= MaxFlight(r)
  <2>1. CASE r = j.radar
    <3>1. Lessees(r)' = Lessees(r) \union {w} /\ w \notin Lessees(r)
      BY <1>4, <2>1 DEF Lessees
    <3>2. inFlight'[r] = inFlight[r] + 1
      BY <1>1, <2>1, TypeInvParts DEF Lease, BrokerTypeOK
    <3>3. Cardinality(Lessees(r)') = Cardinality(Lessees(r)) + 1
      BY <3>1, LesseesFinite, FS_AddElement
    <3> QED BY <1>2, <2>1, <3>2, <3>3, MaxFlightValue, TypeInvParts
            DEF LeaseInv, LeasesAreWorkers, BrokerTypeOK
  <2>2. CASE r # j.radar
    <3>1. Lessees(r)' = Lessees(r)
      BY <1>4, <2>2 DEF Lessees
    <3>2. inFlight'[r] = inFlight[r]
      BY <1>1, <2>2, TypeInvParts DEF Lease, BrokerTypeOK
    <3> QED BY <3>1, <3>2 DEF LeaseInv, LeasesAreWorkers
  <2> QED BY <2>1, <2>2
<1>6. \A r \in Radars : inFlight'[r] \in Nat
  BY NextTyped, TypeInvParts, <1>1, <1>2 DEF Lease, BrokerTypeOK
<1>7. LeasesAreWorkers'
  BY <1>5, <1>6, MaxFlightValue DEF LeasesAreWorkers, MaxFlight
<1> QED BY <1>3, <1>7 DEF LeaseInv

LEMMA FinishRemoves ==
    ASSUME TypeInv, LeaseInv, NEW w \in Workers, Finish(w)
    PROVE  LeaseInv'
<1> DEFINE q == hand[w].radar
<1>1. Busy(w) /\ q \in Radars
  BY BusyHoldsJob, TypeInvParts DEF Finish, Busy
<1>2. FiledByRadar'
  BY DEF Finish, Release, LeaseInv, FiledByRadar
<1>3. /\ ~ Busy(w)'
      /\ \A v \in Workers \ {w} :
            (Busy(v)' <=> Busy(v)) /\ hand'[v] = hand[v]
  BY TypeInvParts DEF Finish, Outcome, WorkersTypeOK, Busy, NextStep
<1>4. ASSUME NEW r \in Radars
      PROVE  /\ inFlight'[r] = Cardinality(Lessees(r)')
             /\ inFlight'[r] <= MaxFlight(r)
  <2>1. CASE r = q
    <3>1. Lessees(r)' = Lessees(r) \ {w} /\ w \in Lessees(r)
      BY <1>1, <1>3, <2>1 DEF Lessees
    <3>2. /\ Cardinality(Lessees(r)') = Cardinality(Lessees(r)) - 1
          /\ Cardinality(Lessees(r)') \in Nat
      BY <3>1, LesseesFinite, FS_RemoveElement, FS_CardinalityType
    <3>3. inFlight[r] = Cardinality(Lessees(r)) /\ inFlight[r] \in Nat
      BY TypeInvParts DEF LeaseInv, LeasesAreWorkers, BrokerTypeOK
    <3>4. inFlight'[r] = inFlight[r] - 1
      BY <1>1, <2>1, <3>2, <3>3, TypeInvParts DEF Finish, Release, BrokerTypeOK
    <3> QED BY <3>2, <3>3, <3>4, MaxFlightValue DEF LeaseInv, LeasesAreWorkers
  <2>2. CASE r # q
    <3>1. Lessees(r)' = Lessees(r)
      BY <1>3, <2>2 DEF Lessees
    <3>2. inFlight'[r] = inFlight[r]
      BY <2>2, TypeInvParts DEF Finish, Release, BrokerTypeOK
    <3> QED BY <3>1, <3>2 DEF LeaseInv, LeasesAreWorkers
  <2> QED BY <2>1, <2>2
<1>5. LeasesAreWorkers'
  BY <1>4, MaxFlightValue DEF LeasesAreWorkers, MaxFlight
<1> QED BY <1>2, <1>5 DEF LeaseInv

LEMMA InitLeases == Init => LeaseInv
<1> SUFFICES ASSUME Init PROVE LeaseInv
  OBVIOUS
<1>1. FiledByRadar
  BY DEF Init, BrokerInit, FiledByRadar
<1>2. \A r \in Radars : Lessees(r) = {}
  BY DEF Init, Lessees, Busy
<1>3. LeasesAreWorkers
  BY <1>2, FS_EmptySet, MaxFlightValue DEF Init, BrokerInit, LeasesAreWorkers
<1> QED BY <1>1, <1>3 DEF LeaseInv

LEMMA NextLeases == TypeInv /\ LeaseInv /\ [Next]_vars => LeaseInv'
<1> SUFFICES ASSUME TypeInv, LeaseInv, [Next]_vars PROVE LeaseInv'
  OBVIOUS
<1> USE TypeInvParts DEF LeaseInv
<1>a. UNCHANGED <<inFlight, pc, hand>> => LeasesAreWorkers'
  BY DEF LeasesAreWorkers, Lessees, Busy
<1>b. UNCHANGED ready => FiledByRadar'
  BY DEF FiledByRadar
<1>c. ASSUME NEW w \in Workers, Busy(w), UNCHANGED inFlight,
             NEW step \in Steps \ {"idle"}, NextStep(w, step),
             \/ UNCHANGED hand
             \/ \E t \in Int : hand' = [hand EXCEPT ![w].notBefore = t]
             \/ hand' = [hand EXCEPT ![w].attempt = @ + 1]
      PROVE  LeasesAreWorkers'
  BY <1>c, WorkerGoesOn, LeasesUndisturbed
<1>d. ASSUME NEW j \in Jobs, Enqueue(j)
      PROVE  FiledByRadar'
  BY <1>d DEF Enqueue, FiledByRadar, BrokerTypeOK
<1>1. ASSUME NEW r \in Radars, PlanForward(r) \/ SwitchRadar(r) \/ ReadCircuit(r)
      PROVE  LeaseInv'
  BY <1>a, <1>b, <1>1 DEF PlanForward, SwitchRadar, ReadCircuit
<1>2. ASSUME NEW j \in planned, EnqueueForward(j)
      PROVE  LeaseInv'
  BY <1>a, <1>d, <1>2 DEF EnqueueForward, Enqueue
<1>3. ASSUME NEW w \in Workers, LeaseJob(w)
      PROVE  LeaseInv'
  BY <1>3, LeaseAdds
<1>4. ASSUME NEW w \in Workers, LookUp(w)
      PROVE  LeaseInv'
  <2>1. Busy(w) /\ {"allow", "bury"} \subseteq Steps \ {"idle"}
    BY <1>4 DEF LookUp, Busy, Steps
  <2> QED BY <1>4, <1>b, <1>c, <2>1 DEF LookUp, Outcome
<1>5. ASSUME NEW w \in Workers, AskBreaker(w)
      PROVE  LeaseInv'
  <2>1. Busy(w) /\ {"take", "requeue"} \subseteq Steps \ {"idle"}
    BY <1>5 DEF AskBreaker, Busy, Steps
  <2>2. SkipDelay \in Int
    BY DeliveryAssumption
  <2> QED BY <1>5, <1>b, <1>c, <2>1, <2>2 DEF AskBreaker, Postpone, Outcome
<1>6. ASSUME NEW w \in Workers, TakeToken(w)
      PROVE  LeaseInv'
  <2>1. Busy(w) /\ {"posting", "requeue"} \subseteq Steps \ {"idle"}
    BY <1>6 DEF TakeToken, Busy, Steps
  <2>2. Wait(hand[w].radar) \in Int
    BY <2>1, BusyHoldsJob, WaitType
  <2> QED BY <1>6, <1>b, <1>c, <2>1, <2>2 DEF TakeToken, Postpone, Outcome
<1>7. ASSUME NEW w \in Workers, NEW v \in Verdicts, PostReturns(w, v)
      PROVE  LeaseInv'
  <2>1. Busy(w) /\ "report" \in Steps \ {"idle"}
    BY <1>7 DEF PostReturns, Busy, Steps
  <2> QED BY <1>7, <1>b, <1>c, <2>1 DEF PostReturns, Outcome
<1>8. ASSUME NEW w \in Workers, Report(w)
      PROVE  LeaseInv'
  <2>1. /\ Busy(w)
        /\ {"release", "bury", "requeue"} \subseteq Steps \ {"idle"}
        /\ \A t \in Delays(hand[w].attempt) : t \in Int
    BY <1>8, DeliveryAssumption DEF Report, Busy, Steps, Delays
  <2>2. /\ UNCHANGED <<ready, inFlight>>
        /\ \E step \in {"release", "bury", "requeue"} : NextStep(w, step)
        /\ \/ UNCHANGED hand
           \/ \E t \in Int : hand' = [hand EXCEPT ![w].notBefore = t]
    BY <1>8, <2>1 DEF Report, Postpone, Outcome
  <2> QED BY <1>b, <1>c, <2>1, <2>2
<1>9. ASSUME NEW w \in Workers, Requeue(w)
      PROVE  LeaseInv'
  <2>1. Busy(w) /\ hand[w] \in Jobs /\ "release" \in Steps \ {"idle"}
    BY <1>9, BusyHoldsJob DEF Requeue, Busy, Steps
  <2> QED BY <1>9, <1>c, <1>d, <2>1 DEF Requeue, Enqueue
<1>10. ASSUME NEW w \in Workers, Bury(w)
       PROVE  LeaseInv'
  <2>1. Busy(w) /\ "release" \in Steps \ {"idle"}
    BY <1>10 DEF Bury, Busy, Steps
  <2> QED BY <1>10, <1>b, <1>c, <2>1 DEF Bury
<1>11. ASSUME NEW w \in Workers, Finish(w)
       PROVE  LeaseInv'
  BY <1>11, FinishRemoves
<1>12. ASSUME Elapse
       PROVE  LeaseInv'
  <2> DEFINE D == {j.notBefore : j \in Waiting}
  <2>1. FiledByRadar'
    <3>1. \A r \in Radars : ready'[r] = {Aged(j, D) : j \in ready[r]}
      BY <1>12 DEF Elapse, BrokerElapse
    <3>2. \A r \in Radars : \A j \in ready[r] : Aged(j, D).radar = r
      BY AgedKeeps DEF FiledByRadar, BrokerTypeOK
    <3> HIDE DEF D
    <3> QED BY <3>1, <3>2 DEF FiledByRadar
  <2>2. \A w \in Workers :
           /\ Busy(w)' <=> Busy(w)
           /\ Busy(w) => hand'[w].radar = hand[w].radar
    <3>1. \A w \in Workers :
             hand'[w] = IF w \in Requeuing THEN Aged(hand[w], D) ELSE hand[w]
      BY <1>12 DEF Elapse
    <3>2. \A w \in Requeuing : Aged(hand[w], D).radar = hand[w].radar
      BY BusyHoldsJob, AgedKeeps DEF Requeuing, Busy
    <3> HIDE DEF D
    <3> QED BY <1>12, <3>1, <3>2 DEF Elapse, Busy
  <2>3. UNCHANGED inFlight
    BY <1>12 DEF Elapse, BrokerElapse
  <2> QED BY <2>1, <2>2, <2>3, LeasesUndisturbed
<1>13. ASSUME UNCHANGED vars
       PROVE  LeaseInv'
  BY <1>a, <1>b, <1>13 DEF vars
<1> QED BY <1>1, <1>2, <1>3, <1>4, <1>5, <1>6, <1>7, <1>8, <1>9, <1>10,
           <1>11, <1>12, <1>13 DEF Next, Worker, Handle

(* No lease is leaked or returned twice, and no radar ever has more jobs   *)
(* in flight than it may, an ordered one never more than one.              *)
THEOREM LeaseSafety == Spec => []LeasesAreWorkers
<1>1. Init => TypeInv /\ LeaseInv
  BY InitTyped, InitLeases
<1>2. TypeInv /\ LeaseInv /\ [Next]_vars => (TypeInv /\ LeaseInv)'
  BY NextTyped, NextLeases
<1>3. LeaseInv => LeasesAreWorkers
  BY DEF LeaseInv
<1> QED BY <1>1, <1>2, <1>3, PTL DEF Spec

-----------------------------------------------------------------------------
(* Pauses.                                                                 *)

(* Whatever else happens to breakers, one that is pausing stays open.      *)
LEMMA PauseGoesOn ==
    ASSUME CircuitTypeOK, NEW r \in Radars,
           breakers[r].state = "open", breakers[r].cool > 0,
           NEW q \in Radars,
           \/ Admit(q) \/ Deny(q) \/ Failure(q) \/ Observe(q)
           \/ Success(q) /\ q # r
           \/ CircuitElapse
           \/ UNCHANGED breakers
    PROVE  breakers'[r].state = "open"
<1>1. breakers[r] \in Breakers /\ breakers[r].cool # 0
  BY DEF CircuitTypeOK, Breakers
<1>2. Refreshed(breakers[r]) = breakers[r]
  BY <1>1 DEF Refreshed
<1>3. AfterFailure(breakers[r]) = breakers[r]
  BY DEF AfterFailure
<1>4. Cooled(breakers[r]).state = "open"
  BY <1>1 DEF Cooled, Breakers
<1>5. CASE q = r
  <2>1. ~ Admit(r)
    BY <1>2 DEF Admit
  <2>2. Deny(r) \/ Failure(r) \/ Observe(r) => breakers'[r] = breakers[r]
    BY <1>2, <1>3 DEF Deny, Failure, Observe, CircuitTypeOK
  <2>3. CircuitElapse => breakers'[r].state = "open"
    BY <1>4 DEF CircuitElapse
  <2> QED BY <1>5, <2>1, <2>2, <2>3
<1>6. CASE q # r
  <2>1. Admit(q) \/ Deny(q) \/ Failure(q) \/ Observe(q) \/ Success(q)
           => breakers'[r] = breakers[r]
    BY <1>6 DEF Admit, Deny, Failure, Observe, Success, CircuitTypeOK
  <2>2. CircuitElapse => breakers'[r].state = "open"
    BY <1>4 DEF CircuitElapse
  <2> QED BY <2>1, <2>2
<1> QED BY <1>5, <1>6

LEMMA NextKeepsPause == TypeInv /\ [Next]_vars => PauseIsKept
<1> SUFFICES ASSUME TypeInv, [Next]_vars, NEW r \in Radars,
                    breakers[r].state = "open", breakers[r].cool > 0,
                    breakers'[r].state # "open"
             PROVE  \E w \in Workers :
                       /\ pc[w] = "report" /\ cause[w] = "success"
                       /\ hand[w].radar = r
                       /\ pc'[w] = "release"
  BY DEF PauseIsKept
<1> USE TypeInvParts DEF CircuitInv
<1>1. \A q \in Radars :
         ~ (\/ Admit(q) \/ Deny(q) \/ Failure(q) \/ Observe(q)
            \/ Success(q) /\ q # r)
  BY PauseGoesOn
<1>2. ~ CircuitElapse /\ ~ UNCHANGED breakers
  BY PauseGoesOn
<1>3. \A w \in Workers : Busy(w) => hand[w].radar \in Radars
  BY BusyHoldsJob
<1>4. PICK w \in Workers : AskBreaker(w) \/ Report(w)
  <2>1. ~ \E q \in Radars : PlanForward(q) \/ SwitchRadar(q) \/ ReadCircuit(q)
    BY <1>1, <1>2 DEF PlanForward, SwitchRadar, ReadCircuit
  <2>2. ~ (\E j \in planned : EnqueueForward(j)) /\ ~ Elapse
    BY <1>2 DEF EnqueueForward, Elapse
  <2>3. \A w \in Workers :
           /\ ~ LeaseJob(w) /\ ~ LookUp(w) /\ ~ TakeToken(w)
           /\ ~ \E v \in Verdicts : PostReturns(w, v)
    BY <1>2 DEF LeaseJob, LookUp, TakeToken, PostReturns
  <2>4. \A w \in Workers : ~ Requeue(w) /\ ~ Bury(w) /\ ~ Finish(w)
    BY <1>2 DEF Requeue, Bury, Finish
  <2> QED BY <1>2, <2>1, <2>2, <2>3, <2>4 DEF Next, Worker, Handle, vars
<1>5. ~ AskBreaker(w)
  BY <1>1, <1>3 DEF AskBreaker, Busy
<1>6. /\ pc[w] = "report" /\ cause[w] = "success"
      /\ Success(hand[w].radar) /\ hand[w].radar \in Radars
      /\ NextStep(w, "release")
  BY <1>1, <1>3, <1>4, <1>5 DEF Report, Busy
<1>7. hand[w].radar = r
  BY <1>1, <1>6
<1>8. pc'[w] = "release"
  BY <1>6 DEF NextStep, WorkersTypeOK
<1> QED BY <1>6, <1>7, <1>8

(* Nothing but a success reported by a worker ends a breaker's pause       *)
(* before its time.                                                        *)
THEOREM PausesAreKept == Spec => OpenPauseIsKept
<1>1. TypeInv /\ [Next]_vars => PauseIsKept
  BY NextKeepsPause
<1>2. Spec => []TypeInv
  BY TypeSafety
<1> QED BY <1>1, <1>2, PTL DEF Spec, OpenPauseIsKept

-----------------------------------------------------------------------------
(* Owed probes.  A bucket that refills a token for each worker and each    *)
(* probe while the breaker pauses keeps, from the trip on, a token for     *)
(* every worker that was admitted and has not taken one, and for every     *)
(* probe that may still be given out.  So nobody admitted by a half-open   *)
(* breaker meets an empty bucket, and whoever took the last probe reports. *)

Kept(r, k, n) == (k + n) * Unit

Enough(r, b, content, k) ==
    /\ b.state = "open" => content + Rate[r] * b.cool >= Kept(r, k, Probes)
    /\ b.state = "half_open" => content >= Kept(r, k, b.probesLeft)

LEMMA Products ==
    ASSUME NEW m \in Nat, NEW n \in Nat
    PROVE  /\ m * n \in Nat /\ m * 0 = 0
           /\ (m + 1) * n = m * n + n
           /\ n * (m + 1) = n * m + n
OBVIOUS

LEMMA ProductsOrdered ==
    ASSUME NEW m \in Nat, NEW n \in Nat, NEW l \in Nat, m <= n
    PROVE  m * l <= n * l
OBVIOUS

LEMMA KeptNumbers ==
    ASSUME NEW r \in Radars, NEW k \in Nat, NEW n \in Nat
    PROVE  /\ Kept(r, k, n) \in Nat
           /\ Kept(r, k + 1, n) = Kept(r, k, n) + Unit
           /\ Kept(r, k, n + 1) = Kept(r, k, n) + Unit
<1>1. Unit \in Nat /\ k + n \in Nat
  BY RateLimitAssumption
<1>2. (k + 1) + n = (k + n) + 1 /\ k + (n + 1) = (k + n) + 1
  OBVIOUS
<1>3. (k + n) * Unit \in Nat /\ ((k + n) + 1) * Unit = (k + n) * Unit + Unit
  BY <1>1, Products
<1> QED BY <1>2, <1>3 DEF Kept

(* What a well-provisioned radar's settings promise.                       *)
LEMMA ProvisionedNumbers ==
    ASSUME NEW r \in WellProvisioned, NEW k \in Nat, k <= Cardinality(Workers)
    PROVE  /\ r \in Radars /\ Rate[r] \in Nat /\ Unit \in Nat \ {0}
           /\ Burst[r] * Unit \in Nat
           /\ Kept(r, k, Probes) <= Rate[r] * OpenFor
           /\ \A n \in 0 .. Probes : Kept(r, k, n) <= Burst[r] * Unit
<1> DEFINE N == Cardinality(Workers)
<1>1. N \in Nat /\ Probes \in Nat /\ Unit \in Nat /\ OpenFor \in Nat
  BY DeliveryAssumption, FS_CardinalityType, CircuitAssumption,
     RateLimitAssumption
<1>2. /\ r \in Radars /\ Rate[r] \in Nat /\ Burst[r] \in Nat
      /\ Burst[r] >= N + Probes
      /\ OpenFor * Rate[r] >= (N + Probes) * Unit
  BY RateLimitAssumption DEF WellProvisioned
<1> HIDE DEF N
<1>3. \A n \in 0 .. Probes : Kept(r, k, n) <= (N + Probes) * Unit
  <2>1. TAKE n \in 0 .. Probes
  <2>2. k + n \in Nat /\ N + Probes \in Nat /\ k + n <= N + Probes
    BY <1>1 DEF N
  <2> QED BY <1>1, <2>2, ProductsOrdered DEF Kept
<1>4. (N + Probes) * Unit <= Burst[r] * Unit
  BY <1>1, <1>2, ProductsOrdered
<1>5. /\ (N + Probes) * Unit \in Nat /\ Burst[r] * Unit \in Nat
      /\ \A n \in 0 .. Probes : Kept(r, k, n) \in Nat
  <2>1. N + Probes \in Nat
    BY <1>1
  <2>2. (N + Probes) * Unit \in Nat /\ Burst[r] * Unit \in Nat
    BY <1>1, <1>2, <2>1, Products
  <2>3. \A n \in 0 .. Probes : Kept(r, k, n) \in Nat
    BY <1>2, KeptNumbers
  <2> QED BY <2>2, <2>3
<1>6. OpenFor * Rate[r] = Rate[r] * OpenFor /\ Rate[r] * OpenFor \in Nat
  BY <1>1, <1>2
<1>7. Kept(r, k, Probes) <= Rate[r] * OpenFor
  BY <1>1, <1>2, <1>3, <1>5, <1>6
<1>8. \A n \in 0 .. Probes : Kept(r, k, n) <= Burst[r] * Unit
  BY <1>3, <1>4, <1>5
<1> QED BY <1>2, <1>5, <1>7, <1>8, RateLimitAssumption

LEMMA EnoughWhenRefreshed ==
    ASSUME NEW r \in Radars, NEW b \in Breakers, NEW c \in Nat, NEW k \in Nat,
           Enough(r, b, c, k)
    PROVE  Enough(r, Refreshed(b), c, k)
<1>1. CASE b.state = "open" /\ b.cool = 0
  <2>1. Rate[r] * b.cool = 0
    BY <1>1, RateLimitAssumption
  <2>2. c >= Kept(r, k, Probes)
    BY <1>1, <2>1 DEF Enough
  <2> QED BY <1>1, <2>2 DEF Refreshed, Enough
<1>2. CASE ~ (b.state = "open" /\ b.cool = 0)
  BY <1>2 DEF Refreshed
<1> QED BY <1>1, <1>2

LEMMA EnoughAfterFailure ==
    ASSUME NEW r \in WellProvisioned, NEW b \in Breakers, NEW c \in Nat,
           NEW k \in Nat, k <= Cardinality(Workers), Enough(r, b, c, k)
    PROVE  Enough(r, AfterFailure(b), c, k)
<1>1. ASSUME NEW t, t.state = "open", t.cool = OpenFor
      PROVE  Enough(r, t, c, k)
  <2>1. Kept(r, k, Probes) <= Rate[r] * OpenFor /\ Rate[r] * OpenFor \in Nat
    <3>1. Rate[r] \in Nat /\ OpenFor \in Nat
      BY ProvisionedNumbers, CircuitAssumption
    <3> QED BY <3>1, ProvisionedNumbers, Products
  <2>2. Kept(r, k, Probes) \in Nat
    BY ProvisionedNumbers, KeptNumbers, CircuitAssumption
  <2>3. c + Rate[r] * OpenFor >= Kept(r, k, Probes)
    BY <2>1, <2>2
  <2> QED BY <1>1, <2>3 DEF Enough
<1>2. \A f : Tripped(f).state = "open" /\ Tripped(f).cool = OpenFor
  BY DEF Tripped
<1>3. CASE b.state = "half_open"
  BY <1>1, <1>2, <1>3 DEF AfterFailure
<1>4. CASE b.state = "closed"
  <2> DEFINE counted == [b EXCEPT !.failures = @ + 1]
  <2>1. counted.state = "closed"
    BY <1>4 DEF Breakers
  <2>2. AfterFailure(b) \in {counted, Tripped(counted)}
    BY <1>4 DEF AfterFailure
  <2> HIDE DEF counted
  <2> QED BY <1>1, <1>2, <2>1, <2>2 DEF Enough
<1>5. CASE b.state = "open"
  BY <1>5 DEF AfterFailure
<1> QED BY <1>3, <1>4, <1>5 DEF Breakers, BreakerStates

LEMMA EnoughAfterTake ==
    ASSUME NEW r \in Radars, NEW b \in Breakers, NEW c \in Nat, NEW k \in Nat,
           Enough(r, b, c, k + 1)
    PROVE  /\ c >= Unit => Enough(r, b, c - Unit, k)
           /\ Enough(r, b, c, k)
           /\ b.state = "half_open" => c >= Unit
<1>1. /\ Unit \in Nat /\ Probes \in Nat /\ b.probesLeft \in Nat
      /\ Rate[r] * b.cool \in Nat
  BY RateLimitAssumption, CircuitAssumption, Products DEF Breakers
<1>2. /\ Kept(r, k + 1, Probes) = Kept(r, k, Probes) + Unit
      /\ Kept(r, k + 1, b.probesLeft) = Kept(r, k, b.probesLeft) + Unit
      /\ Kept(r, k, Probes) \in Nat /\ Kept(r, k, b.probesLeft) \in Nat
  <2>1. ASSUME NEW n \in Nat
        PROVE  Kept(r, k + 1, n) = Kept(r, k, n) + Unit /\ Kept(r, k, n) \in Nat
    BY KeptNumbers
  <2>2. Probes \in Nat /\ b.probesLeft \in Nat
    BY <1>1
  <2> QED BY <2>1, <2>2
<1> QED BY <1>1, <1>2 DEF Enough

LEMMA EnoughAfterAdmission ==
    ASSUME NEW r \in Radars, NEW b \in Breakers, NEW c \in Nat, NEW k \in Nat,
           b.state = "half_open", b.probesLeft > 0, Enough(r, b, c, k)
    PROVE  Enough(r, [b EXCEPT !.probesLeft = @ - 1], c, k + 1)
<1> DEFINE n == b.probesLeft - 1
<1>1. n \in Nat /\ b.probesLeft = n + 1
  BY CircuitAssumption DEF Breakers
<1> HIDE DEF n
<1>2. Kept(r, k + 1, n) = Kept(r, k, n + 1)
  <2>1. ASSUME NEW m \in Nat
        PROVE  Kept(r, k + 1, m) = Kept(r, k, m + 1)
    <3>1. /\ Kept(r, k + 1, m) = Kept(r, k, m) + Unit
          /\ Kept(r, k, m + 1) = Kept(r, k, m) + Unit
      BY KeptNumbers
    <3> QED BY <3>1
  <2>2. n \in Nat
    BY <1>1
  <2> QED BY <2>1, <2>2
<1> USE DEF n
<1>3. /\ [b EXCEPT !.probesLeft = @ - 1].probesLeft = n
      /\ [b EXCEPT !.probesLeft = @ - 1].state = "half_open"
  BY DEF Breakers
<1> HIDE DEF n
<1>4. c >= Kept(r, k + 1, n)
  BY <1>1, <1>2 DEF Enough
<1> QED BY <1>3, <1>4 DEF Enough

LEMMA EnoughAfterTick ==
    ASSUME NEW r \in WellProvisioned, NEW b \in Breakers, NEW c \in Nat,
           NEW k \in Nat, k <= Cardinality(Workers), Enough(r, b, c, k)
    PROVE  Enough(r, Cooled(b), Refilled(r, c), k)
<1>1. /\ r \in Radars /\ Rate[r] \in Nat /\ Burst[r] * Unit \in Nat
      /\ Probes \in Nat
      /\ \A n \in 0 .. Probes : Kept(r, k, n) <= Burst[r] * Unit
  BY ProvisionedNumbers, CircuitAssumption
<1>2. \A n \in 0 .. Probes : Kept(r, k, n) \in Nat
  <2>1. \A n \in Nat : Kept(r, k, n) \in Nat
    BY <1>1, KeptNumbers
  <2> QED BY <1>1, <2>1
<1>3. /\ Cooled(b).state = b.state /\ Cooled(b).probesLeft = b.probesLeft
      /\ b.probesLeft \in 0 .. Probes
      /\ Cooled(b).cool \in Nat
      /\ b.cool # 0 => b.cool = Cooled(b).cool + 1
      /\ b.cool = 0 => Cooled(b).cool = 0
  BY CircuitAssumption DEF Cooled, Breakers
<1>4. /\ Rate[r] * Cooled(b).cool \in Nat
      /\ b.cool # 0 => Rate[r] * b.cool = Rate[r] * Cooled(b).cool + Rate[r]
      /\ b.cool = 0 => Rate[r] * b.cool = Rate[r] * Cooled(b).cool
  BY <1>1, <1>3, Products
<1>5. CASE c + Rate[r] > Burst[r] * Unit
  <2>1. Refilled(r, c) = Burst[r] * Unit
    BY <1>5 DEF Refilled
  <2> QED BY <1>1, <1>2, <1>3, <1>4, <2>1 DEF Enough
<1>6. CASE ~ (c + Rate[r] > Burst[r] * Unit)
  <2>1. Refilled(r, c) = c + Rate[r]
    BY <1>6 DEF Refilled
  <2>2. CASE b.state = "open"
    <3>1. c + Rate[r] * b.cool >= Kept(r, k, Probes)
      BY <2>2 DEF Enough
    <3>2. c + Rate[r] + Rate[r] * Cooled(b).cool >= Kept(r, k, Probes)
      BY <1>1, <1>2, <1>3, <1>4, <3>1
    <3> QED BY <1>3, <2>1, <2>2, <3>2 DEF Enough
  <2>3. CASE b.state # "open"
    BY <1>1, <1>2, <1>3, <2>1, <2>3 DEF Enough
  <2> QED BY <2>2, <2>3
<1> QED BY <1>5, <1>6
-----------------------------------------------------------------------------
(* Who is admitted, and who of them has no token yet.                      *)

Takers(r) == {w \in Lessees(r) : pc[w] = "take"}

OwedAt(r) ==
    /\ Enough(r, breakers[r], tokens[r], Cardinality(Takers(r)))
    /\ breakers[r].state = "half_open" /\ breakers[r].probesLeft = 0
          => Admitted(r) # {}

OwedInv == \A r \in WellProvisioned : OwedAt(r)

LEMMA TakersCounted ==
    \A r : /\ IsFiniteSet(Takers(r))
           /\ Cardinality(Takers(r)) \in Nat
           /\ Cardinality(Takers(r)) <= Cardinality(Workers)
<1>1. ASSUME NEW r
      PROVE  /\ IsFiniteSet(Takers(r))
             /\ Cardinality(Takers(r)) \in Nat
             /\ Cardinality(Takers(r)) <= Cardinality(Workers)
  <2>1. Takers(r) \in SUBSET Workers
    BY DEF Takers, Lessees
  <2> QED BY <2>1, DeliveryAssumption, FS_Subset, FS_CardinalityType
<1> QED BY <1>1

(* What a move of a busy worker, but its last, does to both sets.          *)
LEMMA RolesChange ==
    ASSUME WorkersTypeOK, NEW w \in Workers, Busy(w),
           NEW step \in Steps \ {"idle"}, NextStep(w, step),
           \/ UNCHANGED hand
           \/ \E t \in Int : hand' = [hand EXCEPT ![w].notBefore = t]
           \/ hand' = [hand EXCEPT ![w].attempt = @ + 1],
           NEW r \in Radars
    PROVE  /\ \/ hand[w].radar # r
              \/ pc[w] # "take" /\ step # "take"
              => Takers(r)' = Takers(r)
           /\ \/ hand[w].radar # r
              \/ /\ pc[w] \in {"take", "posting", "report"}
                 /\ step \in {"take", "posting", "report"}
              \/ /\ pc[w] \notin {"take", "posting", "report"}
                 /\ step \notin {"take", "posting", "report"}
              => Admitted(r)' = Admitted(r)
           /\ hand[w].radar = r /\ pc[w] # "take" /\ step = "take"
              => /\ Takers(r)' = Takers(r) \union {w} /\ w \notin Takers(r)
                 /\ Admitted(r)' # {}
           /\ hand[w].radar = r /\ pc[w] = "take" /\ step # "take"
              => Takers(r)' = Takers(r) \ {w} /\ w \in Takers(r)
<1>1. \A v \in Workers :
         /\ Busy(v)' <=> Busy(v)
         /\ Busy(v) => hand'[v].radar = hand[v].radar
  BY WorkerGoesOn
<1>2. pc'[w] = step /\ \A v \in Workers \ {w} : pc'[v] = pc[v]
  BY DEF NextStep, WorkersTypeOK
<1>3. Lessees(r)' = Lessees(r)
  BY <1>1 DEF Lessees
<1>4. w \in Lessees(r) <=> hand[w].radar = r
  BY DEF Lessees
<1>5. \A v \in Lessees(r) : v \in Workers
  BY DEF Lessees
<1> HIDE DEF Lessees, NextStep
<1> QED BY <1>2, <1>3, <1>4, <1>5 DEF Takers, Admitted

(* A step after which the radar is as before, or only had its breaker read.*)
LEMMA OwedStays ==
    ASSUME TypeInv, NEW r \in WellProvisioned, OwedAt(r),
           breakers'[r] \in {breakers[r], Refreshed(breakers[r])},
           tokens'[r] = tokens[r],
           Takers(r)' = Takers(r), Admitted(r)' = Admitted(r)
    PROVE  OwedAt(r)'
<1>1. breakers[r] \in Breakers /\ tokens[r] \in Nat /\ r \in Radars
  BY TypeInvParts DEF WellProvisioned, CircuitInv, CircuitTypeOK,
                      RateLimitTypeOK
<1>2. Enough(r, breakers'[r], tokens[r], Cardinality(Takers(r)))
  BY <1>1, EnoughWhenRefreshed, TakersCounted DEF OwedAt
<1>3. \/ breakers'[r] = breakers[r]
      \/ breakers'[r].probesLeft # 0
  BY CircuitAssumption DEF Refreshed
<1> QED BY <1>2, <1>3 DEF OwedAt

LEMMA AdmissionOwes ==
    ASSUME TypeInv, NEW w \in Workers, Busy(w), pc[w] = "allow",
           NEW r \in WellProvisioned, hand[w].radar = r, OwedAt(r),
           Admit(r), NextStep(w, "take"), UNCHANGED <<hand, tokens>>
    PROVE  OwedAt(r)'
<1> DEFINE b == Refreshed(breakers[r])
           k == Cardinality(Takers(r))
<1>1. /\ breakers \in [Radars -> Breakers] /\ r \in Radars
      /\ breakers[r] \in Breakers /\ tokens[r] \in Nat /\ b \in Breakers
  BY TypeInvParts, RefreshedKeeps DEF WellProvisioned, CircuitInv,
                      CircuitTypeOK, RateLimitTypeOK
<1>2. Takers(r)' = Takers(r) \union {w} /\ w \notin Takers(r)
      /\ Admitted(r)' # {}
  <2>1. "take" \in Steps \ {"idle"} /\ WorkersTypeOK
    BY TypeInvParts DEF Steps
  <2> QED BY <1>1, <2>1, RolesChange
<1>3. k \in Nat /\ Cardinality(Takers(r)') = k + 1
  BY <1>2, TakersCounted, FS_AddElement
<1>4. Enough(r, b, tokens[r], k)
  BY <1>1, <1>3, EnoughWhenRefreshed DEF OwedAt
<1>5. CASE b.state = "closed" /\ breakers' = [breakers EXCEPT ![r] = b]
  <2>1. breakers'[r].state = "closed"
    BY <1>1, <1>5
  <2> QED BY <2>1 DEF OwedAt, Enough
<1>6. CASE /\ b.state = "half_open" /\ b.probesLeft > 0
           /\ breakers' = [breakers EXCEPT ![r] = [b EXCEPT !.probesLeft = @ - 1]]
  <2>1. breakers'[r] = [b EXCEPT !.probesLeft = @ - 1]
    BY <1>1, <1>6
  <2> HIDE DEF b, k
  <2>2. Enough(r, breakers'[r], tokens[r], k + 1)
    BY <1>1, <1>3, <1>4, <1>6, <2>1, EnoughAfterAdmission
  <2> QED BY <1>2, <1>3, <2>2 DEF OwedAt
<1> QED BY <1>5, <1>6 DEF Admit

LEMMA TakingOwes ==
    ASSUME TypeInv, NEW w \in Workers, TakeToken(w),
           NEW r \in WellProvisioned, hand[w].radar = r, OwedAt(r)
    PROVE  OwedAt(r)'
<1> DEFINE b == breakers[r]
           k == Cardinality(Takers(r)')
<1>1. /\ r \in Radars /\ b \in Breakers /\ tokens[r] \in Nat
      /\ tokens \in [Radars -> Nat] /\ Busy(w) /\ pc[w] = "take"
      /\ breakers'[r] = b /\ WorkersTypeOK
  BY TypeInvParts DEF WellProvisioned, CircuitInv, CircuitTypeOK,
                      RateLimitTypeOK, TakeToken, Busy
<1>2. ASSUME NEW step \in {"posting", "requeue"}, NextStep(w, step),
             \/ \E t \in Int : hand' = [hand EXCEPT ![w].notBefore = t]
             \/ hand' = [hand EXCEPT ![w].attempt = @ + 1]
      PROVE  /\ k \in Nat
             /\ b.state = "half_open" => tokens[r] >= Unit
             /\ Enough(r, b, tokens[r], k)
             /\ tokens[r] >= Unit => Enough(r, b, tokens[r] - Unit, k)
             /\ step = "posting" => Admitted(r)' = Admitted(r)
  <2>1. step \in Steps \ {"idle"} /\ step # "take"
    BY DEF Steps
  <2>2. Takers(r)' = Takers(r) \ {w} /\ w \in Takers(r)
    BY <1>1, <1>2, <2>1, RolesChange
  <2>3. /\ IsFiniteSet(Takers(r)) /\ Cardinality(Takers(r)) \in Nat
        /\ k = Cardinality(Takers(r)) - 1
    BY <2>2, TakersCounted, FS_RemoveElement
  <2>4. IsFiniteSet(Takers(r) \ {w})
    BY <2>3, FS_Subset
  <2>5. k \in Nat
    BY <2>2, <2>4, FS_CardinalityType
  <2>6. k + 1 = Cardinality(Takers(r))
    BY <2>3, <2>5
  <2>7. Enough(r, b, tokens[r], k + 1)
    BY <2>6 DEF OwedAt
  <2>8. step = "posting" => Admitted(r)' = Admitted(r)
    BY <1>1, <1>2, <2>1, RolesChange
  <2> HIDE DEF k, b
  <2> QED BY <1>1, <2>5, <2>7, <2>8, EnoughAfterTake
<1>3. CASE /\ Take(r) /\ NextStep(w, "posting")
           /\ hand' = [hand EXCEPT ![w].attempt = @ + 1]
  <2>1. tokens[r] >= Unit /\ tokens'[r] = tokens[r] - Unit
    BY <1>1, <1>3 DEF Take
  <2>2. Enough(r, breakers'[r], tokens'[r], k) /\ Admitted(r)' = Admitted(r)
    BY <1>1, <1>2, <1>3, <2>1
  <2> QED BY <1>1, <2>2 DEF OwedAt
<1>4. CASE /\ Empty(r) /\ Postpone(w, "rate_delayed", Wait(r))
  <2>1. /\ ~ (tokens[r] >= Unit) /\ tokens'[r] = tokens[r]
    BY <1>1, <1>4, RateLimitAssumption DEF Empty
  <2>2. /\ NextStep(w, "requeue") /\ Wait(r) \in Int
        /\ hand' = [hand EXCEPT ![w].notBefore = Wait(r)]
    BY <1>1, <1>4, WaitType, TypeInvParts DEF Postpone, Outcome
  <2>3. Enough(r, breakers'[r], tokens'[r], k) /\ b.state # "half_open"
    BY <1>1, <1>2, <2>1, <2>2
  <2> QED BY <1>1, <2>3 DEF OwedAt
<1> QED BY <1>3, <1>4 DEF TakeToken

LEMMA ReportOwes ==
    ASSUME TypeInv, NEW w \in Workers, Busy(w),
           NEW r \in WellProvisioned, hand[w].radar = r, OwedAt(r),
           Success(r) \/ Failure(r), UNCHANGED tokens, Takers(r)' = Takers(r)
    PROVE  OwedAt(r)'
<1>1. /\ r \in Radars /\ breakers[r] \in Breakers /\ tokens[r] \in Nat
      /\ breakers \in [Radars -> Breakers]
  BY TypeInvParts DEF WellProvisioned, CircuitInv, CircuitTypeOK,
                      RateLimitTypeOK
<1>2. CASE Success(r)
  <2>1. breakers'[r].state = "closed"
    BY <1>1, <1>2 DEF Success, NewBreaker
  <2> QED BY <2>1 DEF OwedAt, Enough
<1>3. CASE Failure(r)
  <2>1. breakers'[r] = AfterFailure(breakers[r])
    BY <1>1, <1>3 DEF Failure
  <2>2. Enough(r, breakers'[r], tokens[r], Cardinality(Takers(r)))
    BY <1>1, <2>1, EnoughAfterFailure, TakersCounted DEF OwedAt
  <2>3. AfterFailure(breakers[r]).state # "half_open"
    <3>1. \A f : Tripped(f).state = "open"
      BY DEF Tripped
    <3>2. CASE breakers[r].state = "half_open"
      BY <3>1, <3>2 DEF AfterFailure
    <3>3. CASE breakers[r].state = "closed"
      <4> DEFINE counted == [breakers[r] EXCEPT !.failures = @ + 1]
      <4>1. counted.state = "closed"
        BY <1>1, <3>3 DEF Breakers
      <4>2. AfterFailure(breakers[r]) \in {counted, Tripped(counted)}
        BY <3>3 DEF AfterFailure
      <4> HIDE DEF counted
      <4> QED BY <3>1, <4>1, <4>2
    <3>4. CASE breakers[r].state = "open"
      BY <3>4 DEF AfterFailure
    <3> QED BY <1>1, <3>2, <3>3, <3>4 DEF Breakers, BreakerStates
  <2> QED BY <2>1, <2>2, <2>3 DEF OwedAt
<1> QED BY <1>2, <1>3

LEMMA InitOwed == Init => OwedInv
<1> SUFFICES ASSUME Init, NEW r \in WellProvisioned PROVE OwedAt(r)
  BY DEF OwedInv
<1>1. breakers[r].state = "closed"
  BY DEF WellProvisioned, Init, CircuitInit, NewBreaker
<1> QED BY <1>1 DEF OwedAt, Enough

LEMMA NextOwed == TypeInv /\ OwedInv /\ [Next]_vars => OwedInv'
<1> SUFFICES ASSUME TypeInv, OwedInv, [Next]_vars,
                    NEW r \in WellProvisioned
             PROVE  OwedAt(r)'
  BY DEF OwedInv, WellProvisioned
<1>a. /\ OwedAt(r) /\ r \in Radars /\ WorkersTypeOK
      /\ breakers \in [Radars -> Breakers] /\ tokens \in [Radars -> Nat]
  BY TypeInvParts DEF OwedInv, WellProvisioned, CircuitInv, CircuitTypeOK,
                      RateLimitTypeOK
<1>b. ASSUME UNCHANGED <<pc, hand>>
      PROVE  Takers(r)' = Takers(r) /\ Admitted(r)' = Admitted(r)
  BY <1>b DEF Takers, Admitted, Lessees, Busy
<1>c. ASSUME UNCHANGED <<breakers, tokens>>, Takers(r)' = Takers(r),
             Admitted(r)' = Admitted(r)
      PROVE  OwedAt(r)'
  BY <1>a, <1>c, OwedStays
<1>d. ASSUME UNCHANGED <<breakers, tokens>>, NEW w \in Workers, Busy(w),
             pc[w] \notin {"take", "posting", "report"},
             NEW step \in Steps \ {"idle", "take", "posting", "report"},
             NextStep(w, step), UNCHANGED hand
      PROVE  OwedAt(r)'
  <2>1. Takers(r)' = Takers(r) /\ Admitted(r)' = Admitted(r)
    BY <1>a, <1>d, RolesChange
  <2> QED BY <1>c, <1>d, <2>1
<1>1. ASSUME NEW q \in Radars, PlanForward(q) \/ SwitchRadar(q)
      PROVE  OwedAt(r)'
  BY <1>b, <1>c, <1>1 DEF PlanForward, SwitchRadar
<1>2. ASSUME NEW q \in Radars, ReadCircuit(q)
      PROVE  OwedAt(r)'
  <2>1. breakers'[r] \in {breakers[r], Refreshed(breakers[r])}
    BY <1>a, <1>2 DEF ReadCircuit, Observe
  <2> QED BY <1>a, <1>b, <1>2, <2>1, OwedStays DEF ReadCircuit
<1>3. ASSUME NEW j \in planned, EnqueueForward(j)
      PROVE  OwedAt(r)'
  BY <1>b, <1>c, <1>3 DEF EnqueueForward
<1>4. ASSUME NEW w \in Workers, LeaseJob(w)
      PROVE  OwedAt(r)'
  <2>1. /\ \A v \in Workers \ {w} : pc'[v] = pc[v] /\ hand'[v] = hand[v]
        /\ pc[w] = "idle" /\ pc'[w] = "lookup"
    BY <1>a, <1>4 DEF LeaseJob, NextStep, WorkersTypeOK
  <2>2. Takers(r)' = Takers(r) /\ Admitted(r)' = Admitted(r)
    BY <2>1 DEF Takers, Admitted, Lessees, Busy
  <2> QED BY <1>c, <1>4, <2>2 DEF LeaseJob
<1>5. ASSUME NEW w \in Workers, LookUp(w)
      PROVE  OwedAt(r)'
  <2>1. /\ Busy(w) /\ pc[w] \notin {"take", "posting", "report"}
        /\ {"allow", "bury"} \subseteq
              Steps \ {"idle", "take", "posting", "report"}
    BY <1>5 DEF LookUp, Busy, Steps
  <2> QED BY <1>5, <1>d, <2>1 DEF LookUp, Outcome
<1>6. ASSUME NEW w \in Workers, AskBreaker(w)
      PROVE  OwedAt(r)'
  <2>1. /\ Busy(w) /\ pc[w] = "allow" /\ hand[w].radar \in Radars
        /\ {"take", "requeue"} \subseteq Steps \ {"idle"}
        /\ SkipDelay \in Int /\ UNCHANGED tokens
    BY <1>6, <1>a, BusyHoldsJob, DeliveryAssumption
       DEF AskBreaker, Busy, Steps
  <2>2. CASE /\ Admit(hand[w].radar) /\ NextStep(w, "take")
             /\ UNCHANGED hand
    <3>1. CASE hand[w].radar = r
      BY <1>a, <2>1, <2>2, <3>1, AdmissionOwes
    <3>2. CASE hand[w].radar # r
      <4>1. breakers'[r] = breakers[r]
        BY <1>a, <2>2, <3>2 DEF Admit
      <4>2. Takers(r)' = Takers(r) /\ Admitted(r)' = Admitted(r)
        BY <1>a, <2>1, <2>2, <3>2, RolesChange
      <4> QED BY <1>a, <2>1, <4>1, <4>2, OwedStays
    <3> QED BY <3>1, <3>2
  <2>3. CASE /\ Deny(hand[w].radar)
             /\ Postpone(w, "skipped_open", SkipDelay)
    <3>1. breakers'[r] \in {breakers[r], Refreshed(breakers[r])}
      BY <1>a, <2>1, <2>3 DEF Deny
    <3>2. /\ \E step \in {"requeue"} : NextStep(w, step)
          /\ \E t \in Int : hand' = [hand EXCEPT ![w].notBefore = t]
      BY <2>1, <2>3 DEF Postpone, Outcome
    <3>a. ASSUME NEW step \in {"requeue"}, NextStep(w, step)
          PROVE  Takers(r)' = Takers(r) /\ Admitted(r)' = Admitted(r)
      <4>1. step \in Steps \ {"idle"} /\ step \notin {"take", "posting", "report"}
        BY <2>1
      <4> QED BY <1>a, <2>1, <3>2, <3>a, <4>1, RolesChange
    <3>3. Takers(r)' = Takers(r) /\ Admitted(r)' = Admitted(r)
      BY <3>2, <3>a
    <3> QED BY <1>a, <2>1, <3>1, <3>3, OwedStays
  <2> QED BY <1>6, <2>2, <2>3 DEF AskBreaker
<1>7. ASSUME NEW w \in Workers, TakeToken(w)
      PROVE  OwedAt(r)'
  <2>1. CASE hand[w].radar = r
    BY <1>a, <1>7, <2>1, TakingOwes
  <2>2. CASE hand[w].radar # r
    <3>1. /\ Busy(w) /\ Wait(hand[w].radar) \in Int
          /\ {"posting", "requeue"} \subseteq Steps \ {"idle"}
      BY <1>7, <1>a, TypeInvParts, BusyHoldsJob, WaitType
         DEF TakeToken, Busy, Steps
    <3>2. tokens'[r] = tokens[r] /\ UNCHANGED breakers
      BY <1>a, <1>7, <2>2 DEF TakeToken, Take, Empty
    <3>3. /\ \E step \in {"posting", "requeue"} : NextStep(w, step)
          /\ \/ \E t \in Int : hand' = [hand EXCEPT ![w].notBefore = t]
             \/ hand' = [hand EXCEPT ![w].attempt = @ + 1]
      BY <1>7, <3>1 DEF TakeToken, Postpone, Outcome
    <3>4. Takers(r)' = Takers(r) /\ Admitted(r)' = Admitted(r)
      BY <1>a, <2>2, <3>1, <3>3, RolesChange
    <3> QED BY <1>a, <3>2, <3>4, OwedStays
  <2> QED BY <2>1, <2>2
<1>8. ASSUME NEW w \in Workers, NEW v \in Verdicts, PostReturns(w, v)
      PROVE  OwedAt(r)'
  <2>1. /\ Busy(w) /\ pc[w] = "posting" /\ "report" \in Steps \ {"idle"}
        /\ NextStep(w, "report") /\ UNCHANGED <<hand, breakers, tokens>>
    BY <1>8 DEF PostReturns, Outcome, Busy, Steps
  <2>2. Takers(r)' = Takers(r) /\ Admitted(r)' = Admitted(r)
    BY <1>a, <2>1, RolesChange
  <2> QED BY <1>c, <2>1, <2>2
<1>9. ASSUME NEW w \in Workers, Report(w)
      PROVE  OwedAt(r)'
  <2>1. /\ Busy(w) /\ pc[w] = "report"
        /\ {"release", "bury", "requeue"} \subseteq Steps \ {"idle"}
        /\ \A t \in Delays(hand[w].attempt) : t \in Int
    BY <1>9, DeliveryAssumption DEF Report, Busy, Steps, Delays
  <2>2. /\ UNCHANGED tokens
        /\ Success(hand[w].radar) \/ Failure(hand[w].radar)
        /\ \E step \in {"release", "bury", "requeue"} : NextStep(w, step)
        /\ \/ UNCHANGED hand
           \/ \E t \in Int : hand' = [hand EXCEPT ![w].notBefore = t]
    BY <1>9, <2>1 DEF Report, Postpone, Outcome
  <2>3. Takers(r)' = Takers(r)
        /\ (hand[w].radar # r => Admitted(r)' = Admitted(r))
    BY <1>a, <2>1, <2>2, RolesChange
  <2>4. CASE hand[w].radar = r
    BY <1>a, <2>1, <2>2, <2>3, <2>4, ReportOwes
  <2>5. CASE hand[w].radar # r
    <3>1. breakers'[r] = breakers[r]
      BY <1>a, <2>2, <2>5 DEF Success, Failure
    <3> QED BY <1>a, <2>2, <2>3, <2>5, <3>1, OwedStays
  <2> QED BY <2>4, <2>5
<1>10. ASSUME NEW w \in Workers, Requeue(w) \/ Bury(w)
       PROVE  OwedAt(r)'
  <2>1. /\ Busy(w) /\ pc[w] \notin {"take", "posting", "report"}
        /\ "release" \in Steps \ {"idle", "take", "posting", "report"}
    BY <1>10 DEF Requeue, Bury, Busy, Steps
  <2> QED BY <1>10, <1>d, <2>1 DEF Requeue, Bury
<1>11. ASSUME NEW w \in Workers, Finish(w)
       PROVE  OwedAt(r)'
  <2>1. /\ \A v \in Workers \ {w} : pc'[v] = pc[v] /\ hand'[v] = hand[v]
        /\ pc[w] = "release" /\ pc'[w] = "idle"
    BY <1>a, <1>11 DEF Finish, Outcome, NextStep, WorkersTypeOK
  <2>2. Takers(r)' = Takers(r) /\ Admitted(r)' = Admitted(r)
    BY <2>1 DEF Takers, Admitted, Lessees, Busy
  <2> QED BY <1>c, <1>11, <2>2 DEF Finish
<1>12. ASSUME Elapse
       PROVE  OwedAt(r)'
  <2> DEFINE D == {j.notBefore : j \in Waiting}
  <2>1. \A w \in Workers :
           Busy(w) => hand'[w].radar = hand[w].radar
    <3>1. \A w \in Workers :
             hand'[w] = IF w \in Requeuing THEN Aged(hand[w], D) ELSE hand[w]
      BY <1>12 DEF Elapse
    <3>2. \A w \in Requeuing : Aged(hand[w], D).radar = hand[w].radar
      BY <1>a, BusyHoldsJob, AgedKeeps DEF Requeuing, Busy
    <3> HIDE DEF D
    <3> QED BY <3>1, <3>2
  <2>2. UNCHANGED pc
    BY <1>12 DEF Elapse
  <2>3. Takers(r)' = Takers(r) /\ Admitted(r)' = Admitted(r)
    BY <2>1, <2>2 DEF Takers, Admitted, Lessees, Busy
  <2>4. /\ breakers'[r] = Cooled(breakers[r])
        /\ tokens'[r] = Refilled(r, tokens[r])
    BY <1>a, <1>12 DEF Elapse, CircuitElapse, RateLimitElapse
  <2>5. breakers[r] \in Breakers /\ tokens[r] \in Nat
    BY <1>a
  <2>6. Enough(r, breakers'[r], tokens'[r], Cardinality(Takers(r)))
    BY <1>a, <2>4, <2>5, EnoughAfterTick, TakersCounted DEF OwedAt
  <2>7. /\ breakers'[r].state = breakers[r].state
        /\ breakers'[r].probesLeft = breakers[r].probesLeft
    BY <2>4, <2>5 DEF Cooled, Breakers
  <2> QED BY <1>a, <2>3, <2>6, <2>7 DEF OwedAt
<1>13. ASSUME UNCHANGED vars
       PROVE  OwedAt(r)'
  BY <1>b, <1>c, <1>13 DEF vars
<1> QED BY <1>1, <1>2, <1>3, <1>4, <1>5, <1>6, <1>7, <1>8, <1>9, <1>10,
           <1>11, <1>12, <1>13 DEF Next, Worker, Handle

(* A well-provisioned radar's half-open breaker that gives out no more     *)
(* probes will hear from a worker it admitted: none of them was turned     *)
(* away by the bucket.                                                     *)
THEOREM ProbesAreOwed == Spec => []ProbeIsOwed
<1>1. Init => TypeInv /\ OwedInv
  BY InitTyped, InitOwed
<1>2. TypeInv /\ OwedInv /\ [Next]_vars => (TypeInv /\ OwedInv)'
  BY NextTyped, NextOwed
<1>3. OwedInv => ProbeIsOwed
  BY DEF OwedInv, OwedAt, ProbeIsOwed
<1> QED BY <1>1, <1>2, <1>3, PTL DEF Spec
=============================================================================
