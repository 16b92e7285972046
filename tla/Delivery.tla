------------------------------ MODULE Delivery ------------------------------
(***************************************************************************)
(* The delivery engine (internal/worker) over the broker, the breakers,    *)
(* the token buckets and the dead-letter queue, together with the end of   *)
(* the accept pipeline that feeds it and the operator's enable switch.     *)
(*                                                                         *)
(* A worker goroutine leases one job per tick of its ticker and takes it   *)
(* through Engine.handle.  Every call it makes locks another component, so *)
(* between two calls any other worker, an HTTP handler or the clock may    *)
(* move: pc[w] names the call w makes next.                                *)
(*                                                                         *)
(*   idle --> lookup --> allow --> take --> posting --> report             *)
(*              |          |        |                  |  |  |             *)
(*              |          +-> requeue <---------------+  |  |             *)
(*              +----------------- | --------> bury <-----+  |             *)
(*                                 v            v            |             *)
(*   idle <----------------------- release <-----------------+             *)
(***************************************************************************)
EXTENDS Circuit, RateLimit, Broker, Dlq

CONSTANTS
    Workers,      \* the worker goroutines
    MaxAttempts,  \* Policy.MaxAttempts
    BackoffBase,  \* Policy.Base, in ticks
    BackoffCap,   \* Policy.Cap, in ticks
    SkipDelay,    \* the 200 ms a job waits when the breaker denies it
    NoJob         \* what an idle worker holds

ASSUME DeliveryAssumption ==
    /\ IsFiniteSet(Workers)
    /\ MaxAttempts \in Nat \ {0}
    /\ BackoffBase \in Nat \ {0}
    /\ BackoffCap \in Nat \ {0}
    /\ SkipDelay \in Nat \ {0}
    /\ NoJob \notin Jobs

VARIABLES
    planned,      \* jobs an accepting handler has built and not yet enqueued
    pc,           \* pc[w]: the call worker w makes next
    hand,         \* hand[w]: its copy of the leased job
    cause,        \* cause[w]: how its handling of that job came out so far
    journaled,    \* journaled[f]: the verdicts the journal has on f
    posts         \* history: posts[f] counts the POSTs made for f

vars == <<enabled, next, breakers, tokens, ready, inFlight, dead, buried,
          planned, pc, hand, cause, journaled, posts>>

Steps == {"idle", "lookup", "allow", "take", "posting", "report",
          "requeue", "bury", "release"}

(* classify.Kind of an answer or an error: an external choice.             *)
Verdicts == {"success", "retryable", "terminal"}

Postponed == {"skipped_open", "rate_delayed"}

Causes == {"none", "unavailable", "exhausted"} \union Verdicts \union Postponed

Busy(w) == pc[w] # "idle"

Note(f, kind) == journaled' = [journaled EXCEPT ![f] = @ \union {kind}]

NextStep(w, step) == pc' = [pc EXCEPT ![w] = step]

Outcome(w, step, why) ==
    /\ NextStep(w, step)
    /\ cause' = [cause EXCEPT ![w] = why]

(* The worker's job is to go back to the queue, due in t ticks.            *)
Postpone(w, why, t) ==
    /\ Outcome(w, "requeue", why)
    /\ hand' = [hand EXCEPT ![w].notBefore = t]

-----------------------------------------------------------------------------
(* Policy.Delay is a random time up to an exponential bound, itself        *)
(* bounded by Cap; Policy.Exhausted ends the retries.                      *)
Delays(attempt) == {t \in 0 .. BackoffCap : t <= BackoffBase * 2^(attempt - 1)}

(* A broken variant, for the runs: one attempt too many.                   *)
ExhaustedLate(attempt) == attempt > MaxAttempts

Exhausted(attempt) == attempt >= MaxAttempts

Init ==
    /\ FleetInit
    /\ CircuitInit
    /\ RateLimitInit
    /\ BrokerInit
    /\ DlqInit
    /\ planned = {}
    /\ pc = [w \in Workers |-> "idle"]
    /\ hand = [w \in Workers |-> NoJob]
    /\ cause = [w \in Workers |-> "none"]
    /\ journaled = [f \in Forwards |-> {}]
    /\ posts = [f \in Forwards |-> 0]

(* Registry.Matching and Fanout: a forward is planned for a radar that is  *)
(* enabled at that moment.  A report that fans out plans several.          *)
PlanForward(r) ==
    /\ enabled[r]
    /\ next <= MaxForwards
    /\ planned' = planned \union {NewJob(next, r)}
    /\ next' = next + 1
    /\ UNCHANGED <<enabled, breakers, tokens, ready, inFlight, dead, buried,
                   pc, hand, cause, journaled, posts>>

(* The same handler reaches Broker.Enqueue, whatever happened since.       *)
EnqueueForward(j) ==
    /\ j \in planned
    /\ planned' = planned \ {j}
    /\ Enqueue(j)
    /\ UNCHANGED <<enabled, next, breakers, tokens, dead, buried,
                   pc, hand, cause, journaled, posts>>

(* The operator's switch.                                                  *)
SwitchRadar(r) ==
    /\ \E on \in BOOLEAN \ {enabled[r]} : SetEnabled(r, on)
    /\ UNCHANGED <<breakers, tokens, ready, inFlight, dead, buried,
                   planned, pc, hand, cause, journaled, posts>>

(* The operator's console, or a save of the store, reads a breaker.        *)
ReadCircuit(r) ==
    /\ Observe(r)
    /\ UNCHANGED <<enabled, next, tokens, ready, inFlight, dead, buried,
                   planned, pc, hand, cause, journaled, posts>>
-----------------------------------------------------------------------------
(* tick: Broker.Lease.                                                     *)
LeaseJob(w) ==
    /\ pc[w] = "idle"
    /\ \E j \in Leasable :
          /\ Lease(j)
          /\ hand' = [hand EXCEPT ![w] = j]
    /\ NextStep(w, "lookup")
    /\ UNCHANGED <<enabled, next, breakers, tokens, dead, buried,
                   planned, cause, journaled, posts>>

(* Radars.Get: a radar switched off since has its job buried unattempted.  *)
(* The registry has no removal, so the radar is always found.              *)
LookUp(w) ==
    /\ pc[w] = "lookup"
    /\ IF enabled[hand[w].radar]
       THEN NextStep(w, "allow") /\ UNCHANGED cause
       ELSE Outcome(w, "bury", "unavailable")
    /\ UNCHANGED <<enabled, next, breakers, tokens, ready, inFlight, dead,
                   buried, planned, hand, journaled, posts>>

(* A broken variant: a denied job keeps the deadline it had.               *)
AskBreakerAtOnce(w) ==
    /\ pc[w] = "allow"
    /\ \/ /\ Admit(hand[w].radar)
          /\ NextStep(w, "take")
          /\ UNCHANGED cause
       \/ /\ Deny(hand[w].radar)
          /\ Outcome(w, "requeue", "skipped_open")
    /\ UNCHANGED <<enabled, next, tokens, ready, inFlight, dead, buried,
                   planned, hand, journaled, posts>>

(* Breaker.Allow, which may have used up a probe when it admits.           *)
AskBreaker(w) ==
    /\ pc[w] = "allow"
    /\ \/ /\ Admit(hand[w].radar)
          /\ NextStep(w, "take")
          /\ UNCHANGED <<hand, cause>>
       \/ /\ Deny(hand[w].radar)
          /\ Postpone(w, "skipped_open", SkipDelay)
    /\ UNCHANGED <<enabled, next, tokens, ready, inFlight, dead, buried,
                   planned, journaled, posts>>

(* A broken variant: a job without a token is not put back.                *)
TakeTokenForgets(w) ==
    LET r == hand[w].radar
        f == hand[w].fwd
    IN  /\ pc[w] = "take"
        /\ \/ /\ Take(r)
              /\ hand' = [hand EXCEPT ![w].attempt = @ + 1]
              /\ posts' = [posts EXCEPT ![f] = @ + 1]
              /\ NextStep(w, "posting")
           \/ /\ Empty(r)
              /\ NextStep(w, "release")
              /\ UNCHANGED <<hand, posts>>
        /\ UNCHANGED <<enabled, next, breakers, ready, inFlight, dead, buried,
                       planned, cause, journaled>>

(* Bucket.Take: either the POST starts, and only now an attempt counts, or *)
(* the job waits for a token.  Nothing is reported to the breaker then.    *)
TakeToken(w) ==
    LET r == hand[w].radar
        f == hand[w].fwd
    IN  /\ pc[w] = "take"
        /\ \/ /\ Take(r)
              /\ hand' = [hand EXCEPT ![w].attempt = @ + 1]
              /\ posts' = [posts EXCEPT ![f] = @ + 1]
              /\ NextStep(w, "posting")
              /\ UNCHANGED cause
           \/ /\ Empty(r)
              /\ Postpone(w, "rate_delayed", Wait(r))
              /\ UNCHANGED posts
        /\ UNCHANGED <<enabled, next, breakers, ready, inFlight, dead, buried,
                       planned, journaled>>

(* feeder.Client.Post returns, at the latest on its own timeout, and the   *)
(* classified result is journaled.                                         *)
PostReturns(w, verdict) ==
    /\ pc[w] = "posting"
    /\ Note(hand[w].fwd, verdict)
    /\ Outcome(w, "report", verdict)
    /\ UNCHANGED <<enabled, next, breakers, tokens, ready, inFlight, dead,
                   buried, planned, hand, posts>>

(* A broken variant: the breaker hears of successes and retries only.      *)
ReportTerminalSilent(w) ==
    LET r == hand[w].radar
    IN  /\ pc[w] = "report"
        /\ \/ /\ cause[w] = "success"
              /\ Success(r)
              /\ NextStep(w, "release")
              /\ UNCHANGED <<hand, cause>>
           \/ /\ cause[w] = "retryable"
              /\ Failure(r)
              /\ IF Exhausted(hand[w].attempt)
                 THEN Outcome(w, "bury", "exhausted") /\ UNCHANGED hand
                 ELSE Postpone(w, "retryable", BackoffCap)
           \/ /\ cause[w] = "terminal"
              /\ NextStep(w, "bury")
              /\ UNCHANGED <<breakers, hand, cause>>
        /\ UNCHANGED <<enabled, next, tokens, ready, inFlight, dead, buried,
                       planned, journaled, posts>>

(* The switch on the kind: what the breaker is told, and what comes of the *)
(* job.                                                                    *)
Report(w) ==
    LET r == hand[w].radar
        n == hand[w].attempt
    IN  /\ pc[w] = "report"
        /\ \/ /\ cause[w] = "success"
              /\ Success(r)
              /\ NextStep(w, "release")
              /\ UNCHANGED <<hand, cause>>
           \/ /\ cause[w] = "retryable"
              /\ Exhausted(n)
              /\ Failure(r)
              /\ Outcome(w, "bury", "exhausted")
              /\ UNCHANGED hand
           \/ /\ cause[w] = "retryable"
              /\ ~ Exhausted(n)
              /\ Failure(r)
              /\ \E t \in Delays(n) : Postpone(w, "retryable", t)
           \/ /\ cause[w] = "terminal"
              /\ Failure(r)
              /\ NextStep(w, "bury")
              /\ UNCHANGED <<hand, cause>>
        /\ UNCHANGED <<enabled, next, tokens, ready, inFlight, dead, buried,
                       planned, journaled, posts>>

(* Broker.Enqueue of a job the worker still holds a lease for: after a     *)
(* retryable answer (worker.go:130), and in the same words for a skipped   *)
(* and a delayed job (worker.go:87, 94).                                   *)
Requeue(w) ==
    /\ pc[w] = "requeue"
    /\ Enqueue(hand[w])
    /\ NextStep(w, "release")
    /\ UNCHANGED <<enabled, next, breakers, tokens, dead, buried,
                   planned, hand, cause, journaled, posts>>

(* Dead.Push: of a terminal answer (worker.go:133), of exhausted attempts  *)
(* (worker.go:124), and for a radar that is off (worker.go:78).            *)
Bury(w) ==
    /\ pc[w] = "bury"
    /\ Push(FromJob(hand[w], cause[w]))
    /\ NextStep(w, "release")
    /\ UNCHANGED <<enabled, next, breakers, tokens, ready, inFlight,
                   planned, hand, cause, journaled, posts>>

(* A broken variant: running out of attempts leaves no entry.              *)
TrailingNoteMissing(why) == IF why = "unavailable" THEN {"terminal"} ELSE {}

(* What handle still does once the job was passed on: the verdict on a     *)
(* forward buried without one is journaled now, and the deferred           *)
(* Broker.Release runs.  (The entries that a job was skipped or delayed    *)
(* carry no verdict and are left out.)                                     *)
TrailingNote(why) ==
    IF why \in {"unavailable", "exhausted"} THEN {"terminal"} ELSE {}

(* A broken variant: no deferred release.                                  *)
FinishKeepsLease(w) ==
    /\ pc[w] = "release"
    /\ journaled' = [journaled EXCEPT ![hand[w].fwd] =
                        @ \union TrailingNote(cause[w])]
    /\ Outcome(w, "idle", "none")
    /\ hand' = [hand EXCEPT ![w] = NoJob]
    /\ UNCHANGED <<enabled, next, breakers, tokens, ready, inFlight, dead,
                   buried, planned, posts>>

Finish(w) ==
    /\ pc[w] = "release"
    /\ journaled' = [journaled EXCEPT ![hand[w].fwd] =
                        @ \union TrailingNote(cause[w])]
    /\ Release(hand[w].radar)
    /\ Outcome(w, "idle", "none")
    /\ hand' = [hand EXCEPT ![w] = NoJob]
    /\ UNCHANGED <<enabled, next, breakers, tokens, dead, buried,
                   planned, posts>>

(* A tick passes for everything that waits for a time.  The deadline of a  *)
(* job in the hand of a worker counts once it is set for the requeue.      *)
Requeuing == {w \in Workers : pc[w] = "requeue"}

Waiting ==
    planned \union UNION {ready[r] : r \in Radars}
            \union {hand[w] : w \in Requeuing}

Elapse ==
    LET deadlines == {j.notBefore : j \in Waiting}
    IN  /\ CircuitElapse
        /\ RateLimitElapse
        /\ BrokerElapse(deadlines)
        /\ planned' = {Aged(j, deadlines) : j \in planned}
        /\ hand' = [w \in Workers |->
                       IF w \in Requeuing THEN Aged(hand[w], deadlines)
                       ELSE hand[w]]
        /\ UNCHANGED <<enabled, next, dead, buried, pc, cause, journaled,
                       posts>>
-----------------------------------------------------------------------------
Handle(w) ==
    \/ LookUp(w)
    \/ AskBreaker(w)
    \/ TakeToken(w)
    \/ \E v \in Verdicts : PostReturns(w, v)
    \/ Report(w)
    \/ Requeue(w)
    \/ Bury(w)
    \/ Finish(w)

Worker(w) == LeaseJob(w) \/ Handle(w)

Next ==
    \/ \E r \in Radars : PlanForward(r) \/ SwitchRadar(r) \/ ReadCircuit(r)
    \/ \E j \in planned : EnqueueForward(j)
    \/ \E w \in Workers : Worker(w)
    \/ Elapse

Spec == Init /\ [][Next]_vars

(* Goroutines are scheduled and their tickers fire, a POST has a timeout,  *)
(* a handler that accepted a report enqueues its forwards, time passes.    *)
(* Nothing makes an operator act or a station post.                        *)
Fairness ==
    /\ \A w \in Workers : WF_vars(LeaseJob(w)) /\ WF_vars(Handle(w))
    /\ WF_vars(\E j \in planned : EnqueueForward(j))
    /\ WF_vars(Elapse)

FairSpec == Spec /\ Fairness
-----------------------------------------------------------------------------
(* Where a forward can be.  A worker holds a forward from its lease until   *)
(* it has put it back, buried it, or journaled its success.                *)
Holding(w) ==
    \/ pc[w] \in {"lookup", "allow", "take", "posting", "requeue", "bury"}
    \/ pc[w] = "report" /\ cause[w] # "success"

Holds(w, f) == Holding(w) /\ hand[w].fwd = f

Queued(f) == \E r \in Radars : \E j \in ready[r] : j.fwd = f

Delivered(f) == "success" \in journaled[f]

Settled(f) == Delivered(f) \/ f \in buried

Places == {"absent", "planned", "queued", "held", "delivered", "buried"}

At(f, place) ==
    CASE place = "absent"    -> f >= next
      [] place = "planned"   -> \E j \in planned : j.fwd = f
      [] place = "queued"    -> Queued(f)
      [] place = "held"      -> \E w \in Workers : Holds(w, f)
      [] place = "delivered" -> Delivered(f)
      [] place = "buried"    -> f \in buried

(* The jobs of a radar that are leased: every worker that works on it.     *)
Lessees(r) == {w \in Workers : Busy(w) /\ hand[w].radar = r}

(* Workers that the breaker admitted and has not heard from since.         *)
Admitted(r) == {w \in Lessees(r) : pc[w] \in {"take", "posting", "report"}}

WorkersTypeOK ==
    /\ pc \in [Workers -> Steps]
    /\ hand \in [Workers -> Jobs \union {NoJob}]
    /\ \A w \in Workers : Busy(w) <=> hand[w] # NoJob
    /\ cause \in [Workers -> Causes]
    /\ \A w \in Workers : pc[w] = "bury" => cause[w] \in Reasons

(* Every variable has its type, a busy worker holds a job and an idle one  *)
(* none, and one that buries a job has a reason.                           *)
TypeOK ==
    /\ FleetTypeOK
    /\ CircuitTypeOK
    /\ RateLimitTypeOK
    /\ BrokerTypeOK
    /\ DlqTypeOK
    /\ WorkersTypeOK
    /\ planned \subseteq Jobs
    /\ journaled \in [Forwards -> SUBSET Verdicts]
    /\ posts \in [Forwards -> Nat]

(* Leases are neither leaked nor released twice, on any path through       *)
(* handle: the broker counts exactly the workers working on the radar, and *)
(* no more than it may have in flight -- one, for an ordered radar, even   *)
(* while the requeue of a job overlaps with its deferred release.          *)
LeasesAreWorkers ==
    \A r \in Radars :
        /\ inFlight[r] = Cardinality(Lessees(r))
        /\ inFlight[r] <= MaxFlight(r)
        /\ r \in Ordered => inFlight[r] <= 1

(* A forward that was accepted is at exactly one place at any time, in one *)
(* copy: no interleaving of workers, requeues, burials and the operator's  *)
(* switch loses it, duplicates it, or has two workers post it.             *)
OnePlace(f) == \E p \in Places : \A q \in Places : At(f, q) <=> q = p

PlannedOnce == \A j, k \in planned : j.fwd = k.fwd => j = k

QueuedOnce ==
    \A q, r \in Radars : \A j \in ready[q], k \in ready[r] :
        j.fwd = k.fwd => j = k

HeldOnce ==
    \A v, w \in Workers : \A f \in Forwards :
        Holds(v, f) /\ Holds(w, f) => v = w

Conservation ==
    /\ \A f \in Forwards : OnePlace(f)
    /\ FiledByRadar
    /\ PlannedOnce
    /\ QueuedOnce
    /\ HeldOnce

(* PROJECT.md 3.5: waiting for a token or for the breaker costs no attempt *)
(* and a POST always costs one.  A queued job has attempts left, no        *)
(* forward is posted more than MaxAttempts times, and one buried as        *)
(* exhausted really had them all.                                          *)
AttemptBudget ==
    /\ \A j \in planned : posts[j.fwd] = j.attempt
    /\ \A r \in Radars : \A j \in ready[r] :
          posts[j.fwd] = j.attempt /\ j.attempt < MaxAttempts
    /\ \A w \in Workers : \A f \in Forwards :
          Holds(w, f) => hand[w].attempt = posts[f]
    /\ \A f \in Forwards : posts[f] <= MaxAttempts
    /\ \A i \in DOMAIN dead :
          /\ dead[i].attempt = posts[dead[i].fwd]
          /\ dead[i].reason = "exhausted" => dead[i].attempt = MaxAttempts
          /\ dead[i].reason = "terminal" => dead[i].attempt > 0

(* The breaker's fields agree with its state although success, failure and *)
(* refresh reach it in any order and late: it never stays closed past the  *)
(* threshold, nor open or half-open with the failures forgotten.           *)
BreakerCoherent == \A r \in Radars : Coherent(breakers[r])

(* An open breaker may end its pause early, but only for a success: a POST *)
(* admitted before the trip came back well.  No failure, no refresh and no *)
(* admission shortens it.                                                  *)
PauseIsKept ==
    \A r \in Radars :
        /\ breakers[r].state = "open"
        /\ breakers[r].cool > 0
        /\ breakers'[r].state # "open"
        => \E w \in Workers :
              /\ pc[w] = "report" /\ cause[w] = "success"
              /\ hand[w].radar = r
              /\ pc'[w] = "release"

OpenPauseIsKept == [][PauseIsKept]_vars

(* A settled forward can be found in the journal under the outcome it had, *)
(* once the worker that settled it is done with it.                        *)
SettledIsJournaled ==
    \A f \in buried :
        \/ "terminal" \in journaled[f]
        \/ \E w \in Workers : pc[w] = "release" /\ hand[w].fwd = f

(* The dead-letter queue forgets nothing but its oldest letter, and that   *)
(* only for a burial that finds it full: the new letter is its last one,   *)
(* and the others keep their order.                                        *)
OldestLetterGoes ==
    /\ Len(dead') <= DlqMax
    /\ \A f \in buried' \ buried : dead' # <<>> /\ dead'[Len(dead')].fwd = f
    /\ \A i \in DOMAIN dead :
          \/ i = 1 /\ Len(dead) = DlqMax /\ buried' # buried
          \/ \E k \in {i - 1, i} \intersect DOMAIN dead' : dead'[k] = dead[i]

DlqForgetsTheOldest == [][OldestLetterGoes]_vars

(* Radars whose bucket has a token for every worker and every probe by the *)
(* time their breaker half-opens.  The seeded radar is one of them.        *)
WellProvisioned ==
    {r \in Radars :
        /\ Burst[r] >= Cardinality(Workers) + Probes
        /\ OpenFor * Rate[r] >= (Cardinality(Workers) + Probes) * Unit}

(* A half-open breaker without probes denies everyone, and only a report   *)
(* moves it on: some admitted worker must still owe it one.  It holds for  *)
(* a radar whose admitted workers always find a token.                     *)
ProbeIsOwed ==
    \A r \in WellProvisioned :
        /\ breakers[r].state = "half_open"
        /\ breakers[r].probesLeft = 0
        => Admitted(r) # {}

(* Every forward accepted for such a radar is eventually delivered or      *)
(* dead-lettered, whatever the feeders answer, whatever becomes of the     *)
(* other radars the workers are shared with.                               *)
ForwardsSettle ==
    \A f \in Forwards :
        (\E j \in planned : j.fwd = f /\ j.radar \in WellProvisioned)
            ~> Settled(f)

(* PROJECT.md 3.5: an empty bucket only delays a forward.                  *)
EmptyBucketOnlyDelays ==
    \A f \in Forwards :
        (\E w \in Workers : cause[w] = "rate_delayed" /\ hand[w].fwd = f)
            ~> Settled(f)
-----------------------------------------------------------------------------
(* Each forward lives the life ForwardLifecycle allows.  A POST the worker *)
(* has not seen the end of is a try; a forward is given up when it is      *)
(* pushed on the dead-letter queue, and delivered when its success is      *)
(* journaled.                                                              *)
Fate(f) ==
    CASE f >= next -> "absent"
      [] f < next /\ Delivered(f) -> "delivered"
      [] f < next /\ ~ Delivered(f) /\ f \in buried -> "dead"
      [] OTHER ->
            IF \E w \in Workers : pc[w] = "posting" /\ hand[w].fwd = f
            THEN "trying" ELSE "waiting"

Lifecycle == INSTANCE ForwardLifecycle
                WITH fate <- [f \in Forwards |-> Fate(f)], tries <- posts

ImplementsLifecycle == Lifecycle!Spec

(* To the snapshots of the store the engine is the hub that Durability     *)
(* starts from: each of its steps moves one forward between the places a   *)
(* snapshot knows, or none.                                                *)
Held == {w \in Workers : Holding(w)}

Letters == {dead[i].fwd : i \in DOMAIN dead}

HubView == INSTANCE Hub
              WITH planned <- {j.fwd : j \in planned},
                   queued <- {f \in Forwards : Queued(f)},
                   leased <- {hand[w].fwd : w \in Held},
                   delivered <- {f \in Forwards : Delivered(f)},
                   letters <- Letters

ImplementsHub == HubView!HubSpec
=============================================================================
