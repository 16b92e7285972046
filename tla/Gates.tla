------------------------------- MODULE Gates -------------------------------
(***************************************************************************)
(* A radar's breaker and bucket together (internal/runtime), as the        *)
(* workers pass them, as a snapshot keeps them, and as a restart brings    *)
(* them back: what the code stores is points in time, and nothing changes  *)
(* with a tick but the clock.  Of a worker only its way past the gates is  *)
(* here:                                                                   *)
(*                                                                         *)
(*   idle --> allow --> take --> posting --> idle                          *)
(*              +--------+-----------------> idle                          *)
(***************************************************************************)
EXTENDS Stamps

CONSTANTS
    Workers,      \* the worker goroutines
    MaxTime,      \* bound: the ticks of the clock
    MaxSpan,      \* bound: the longest time watched, in ticks
    MaxRestarts,  \* bound: the restarts in that time
    NotRead       \* what a snapshot has not read yet

ASSUME GatesAssumption ==
    /\ MaxTime \in Nat
    /\ MaxSpan \in Nat
    /\ MaxRestarts \in Nat
    /\ NotRead \notin Breakers \union Buckets

VARIABLES
    now,          \* clock.Clock
    breakers,     \* Gates.breakers
    buckets,      \* Gates.buckets
    rated,        \* Gates.rates: the radars whose bucket Ensure has built
    pc,           \* pc[w]: the gate worker w comes to next
    radar,        \* radar[w]: the radar of its job, or of its last one
    part,         \* what the running Snapshot has read
    disk,         \* runtime.Snapshot in the file
    span,         \* history: the ticks since the watch began,
    given,        \*   given[r]: the POSTs let through since then,
    restarts,     \*   and the restarts
    swallowed     \* history: half-open radars that a probe was lost for

watchVars == <<span, given, restarts>>
fleetVars == <<enabled, next>>
files == <<part, disk>>
vars == <<fleetVars, now, breakers, buckets, rated, pc, radar, files,
          watchVars, swallowed>>

Nothing == [breakers |-> [r \in Radars |-> NotRead],
            buckets |-> [r \in Radars |-> NotRead]]

Whole(some) == \A r \in Radars : some[r] # NotRead

(* Gates.mu is held from the first read of a snapshot to the last.         *)
Locked == part # Nothing /\ ~ Whole(part.buckets)

Init ==
    /\ enabled = [r \in Radars |-> TRUE]
    /\ next = 1
    /\ now = 0
    /\ breakers = [r \in Radars |-> NewBreaker]
    /\ buckets = [r \in Radars |-> FullBucket(r, 0)]
    /\ rated = {}
    /\ pc = [w \in Workers |-> "idle"]
    /\ radar \in [Workers -> Radars]
    /\ part = Nothing
    /\ disk = [breakers |-> breakers, buckets |-> buckets]
    /\ span = 0
    /\ given = [r \in Radars |-> 0]
    /\ restarts = 0
    /\ swallowed = {}

Goto(w, gate) == pc' = [pc EXCEPT ![w] = gate]

-----------------------------------------------------------------------------
(* A broken variant, for the runs: every call builds a bucket.             *)
EnsureAnew(w, r) ==
    /\ pc[w] = "idle"
    /\ ~ Locked
    /\ Goto(w, "allow")
    /\ radar' = [radar EXCEPT ![w] = r]
    /\ rated' = rated \union {r}
    /\ buckets' = [buckets EXCEPT ![r] = FullBucket(r, now)]
    /\ UNCHANGED <<fleetVars, now, breakers, files, watchVars, swallowed>>

(* Gates.Ensure: a bucket whose rate is not known is replaced by a full    *)
(* one, one that was restored included.                                    *)
Ensure(w, r) ==
    /\ pc[w] = "idle"
    /\ ~ Locked
    /\ Goto(w, "allow")
    /\ radar' = [radar EXCEPT ![w] = r]
    /\ rated' = rated \union {r}
    /\ buckets' = IF r \in rated THEN buckets
                  ELSE [buckets EXCEPT ![r] = FullBucket(r, now)]
    /\ UNCHANGED <<fleetVars, now, breakers, files, watchVars, swallowed>>

(* Breaker.Allow: an admission by a half-open breaker uses up a probe.     *)
AskBreaker(w) ==
    LET r == radar[w]
        b == HalfOpened(breakers[r], now)
    IN  /\ pc[w] = "allow"
        /\ \/ /\ b.state = "closed"
              /\ Goto(w, "take")
              /\ breakers' = [breakers EXCEPT ![r] = b]
           \/ /\ b.state = "half_open" /\ b.probesLeft > 0
              /\ Goto(w, "take")
              /\ breakers' = [breakers EXCEPT ![r] =
                                 [b EXCEPT !.probesLeft = @ - 1]]
           \/ /\ b.state = "open" \/ (b.state = "half_open" /\ b.probesLeft = 0)
              /\ Goto(w, "idle")
              /\ breakers' = [breakers EXCEPT ![r] = b]
        /\ UNCHANGED <<fleetVars, now, buckets, rated, radar, files,
                       watchVars, swallowed>>

(* Bucket.Take.  Without a token the worker leaves, and the breaker is not *)
(* told; the refill is stored all the same.                                *)
TakeToken(w) ==
    LET r == radar[w]
        k == Refilled(r, buckets[r], now)
    IN  /\ pc[w] = "take"
        /\ \/ /\ k.content >= Unit
              /\ Goto(w, "posting")
              /\ buckets' = [buckets EXCEPT ![r] =
                                [k EXCEPT !.content = @ - Unit]]
              /\ given' = [given EXCEPT ![r] = @ + 1]
              /\ UNCHANGED swallowed
           \/ /\ k.content < Unit
              /\ Goto(w, "idle")
              /\ buckets' = [buckets EXCEPT ![r] = k]
              /\ swallowed' = IF breakers[r].state = "half_open"
                              THEN swallowed \union {r} ELSE swallowed
              /\ UNCHANGED given
        /\ UNCHANGED <<fleetVars, now, breakers, rated, radar, files, span,
                       restarts>>

(* The POST's outcome reaches the breaker.                                 *)
Report(w) ==
    LET r == radar[w]
    IN  /\ pc[w] = "posting"
        /\ Goto(w, "idle")
        /\ \E b \in {Succeeded(breakers[r]), Failed(breakers[r], now)} :
              breakers' = [breakers EXCEPT ![r] = b]
        /\ swallowed' = swallowed \ {r}
        /\ UNCHANGED <<fleetVars, now, buckets, rated, radar, files,
                       watchVars>>
-----------------------------------------------------------------------------
(* Gates.Snapshot reads the breakers and then the buckets, each under its  *)
(* own lock while workers go on.  Reading a breaker half-opens it when its *)
(* time is up; a bucket is copied as it was left by the last Take.         *)
ReadBreaker(r) ==
    LET b == HalfOpened(breakers[r], now)
    IN  /\ part.breakers[r] = NotRead
        /\ breakers' = [breakers EXCEPT ![r] = b]
        /\ part' = [part EXCEPT !.breakers[r] = b]
        /\ UNCHANGED <<fleetVars, now, buckets, rated, pc, radar, disk,
                       watchVars, swallowed>>

ReadBucket(r) ==
    /\ Whole(part.breakers)
    /\ part.buckets[r] = NotRead
    /\ part' = [part EXCEPT !.buckets[r] = buckets[r]]
    /\ UNCHANGED <<fleetVars, now, breakers, buckets, rated, pc, radar, disk,
                   watchVars, swallowed>>

(* File.Save, of one snapshot after the other; it may fail.                *)
Save ==
    /\ part # Nothing
    /\ Whole(part.buckets)
    /\ disk' \in {part, disk}
    /\ part' = Nothing
    /\ UNCHANGED <<fleetVars, now, breakers, buckets, rated, pc, radar,
                   watchVars, swallowed>>

(* Gates.Public, for GET /api/v1/circuits, reads breakers too.             *)
Public(r) ==
    /\ ~ Locked
    /\ breakers[r] # HalfOpened(breakers[r], now)
    /\ breakers' = [breakers EXCEPT ![r] = HalfOpened(@, now)]
    /\ UNCHANGED <<fleetVars, now, buckets, rated, pc, radar, files,
                   watchVars, swallowed>>

(* Gates.Restore in a new process: breakers and buckets, but not the rates.*)
Restart ==
    /\ restarts < MaxRestarts
    /\ restarts' = restarts + 1
    /\ breakers' = disk.breakers
    /\ buckets' = disk.buckets
    /\ rated' = {}
    /\ pc' = [w \in Workers |-> "idle"]
    /\ swallowed' = {r \in Radars : disk.breakers[r].state = "half_open"}
    /\ part' = Nothing
    /\ UNCHANGED <<fleetVars, now, radar, disk, span, given>>

Elapse ==
    /\ now < MaxTime
    /\ span < MaxSpan
    /\ now' = now + 1
    /\ span' = span + 1
    /\ UNCHANGED <<fleetVars, breakers, buckets, rated, pc, radar, files,
                   given, restarts, swallowed>>

(* The watch may begin at any time.                                        *)
WatchAnew ==
    /\ span' = 0
    /\ given' = [r \in Radars |-> 0]
    /\ restarts' = 0
    /\ UNCHANGED <<fleetVars, now, breakers, buckets, rated, pc, radar, files,
                   swallowed>>

Next ==
    \/ \E w \in Workers :
          \/ \E r \in Radars : Ensure(w, r)
          \/ AskBreaker(w)
          \/ TakeToken(w)
          \/ Report(w)
    \/ \E r \in Radars : ReadBreaker(r) \/ ReadBucket(r) \/ Public(r)
    \/ Save
    \/ Restart
    \/ Elapse
    \/ WatchAnew

Spec == Init /\ [][Next]_vars
-----------------------------------------------------------------------------
(* By ticks, a breaker has what is left of its pause, and a bucket what it *)
(* holds once refilled.                                                    *)
Ticking(b, t) ==
    IF b = NotRead THEN NotRead
    ELSE [state |-> b.state, failures |-> b.failures,
          cool |-> IF b.state = "open" /\ t - b.openedAt < OpenFor
                   THEN OpenFor - (t - b.openedAt) ELSE 0,
          probesLeft |-> b.probesLeft]

Holding(r, k, t) == IF k = NotRead THEN NotRead ELSE Refilled(r, k, t).content

Pauses(some, t) == [r \in Radars |-> Ticking(some[r], t)]

Contents(some, t) == [r \in Radars |-> Holding(r, some[r], t)]

Ticked(snapshot, t) ==
    [breakers |-> Pauses(snapshot.breakers, t),
     tokens |-> Contents(snapshot.buckets, t)]

TicksView ==
    INSTANCE Ticks WITH
        breakers <- Pauses(breakers, now), tokens <- Contents(buckets, now),
        part <- Ticked(part, now), disk <- Ticked(disk, now)

ASSUME NotReadAssumption == NotRead \notin TicksView!Breakers \union Nat

(* Breakers and buckets that are brought up to date by the method that      *)
(* needs them do what breakers and buckets do that run with the clock, as   *)
(* Delivery has them: no pause ends early or late and no token is lost or   *)
(* gained, whatever is read, saved or restored between two calls.           *)
ImplementsTicks == TicksView!TicksSpec

(* Every variable has its type, no stamp is in the future, no bucket holds  *)
(* more than its burst, and a worker past Ensure finds the bucket of its    *)
(* radar built from the radar's rate.                                       *)
GatesTypeOK ==
    /\ enabled \in [Radars -> BOOLEAN]
    /\ now \in Nat
    /\ breakers \in [Radars -> Breakers]
    /\ buckets \in [Radars -> Buckets]
    /\ part \in [breakers : [Radars -> Breakers \union {NotRead}],
                 buckets : [Radars -> Buckets \union {NotRead}]]
    /\ disk \in [breakers : [Radars -> Breakers],
                 buckets : [Radars -> Buckets]]
    /\ \A r \in Radars :
          /\ \A b \in {breakers[r], disk.breakers[r]} : b.openedAt <= now
          /\ \A k \in {buckets[r], disk.buckets[r]} :
                k.lastTime <= now /\ k.content <= Burst[r] * Unit
    /\ rated \subseteq Radars
    /\ pc \in [Workers -> {"idle", "allow", "take", "posting"}]
    /\ radar \in [Workers -> Radars]
    /\ given \in [Radars -> Nat]
    /\ span \in Nat /\ restarts \in Nat
    /\ \A w \in Workers : pc[w] # "idle" => radar[w] \in rated

(* What the bucket is for: in any time a radar gets no more POSTs than a    *)
(* burst and what its rate brings.  Each restart in that time adds a burst, *)
(* for Restore brings the bucket back and Ensure throws it away.            *)
RateBound ==
    \A r \in Radars :
        given[r] * Unit <= (1 + restarts) * (Burst[r] * Unit) + Rate[r] * span

(* A half-open breaker that has no probe left waits for a worker it let     *)
(* through, or one of its probes was lost: to an empty bucket, or to a      *)
(* process that ended with the POST under way.  No order of late reports,   *)
(* refreshing snapshots and trips strands it in another way.                *)
StrandedByLossOnly ==
    \A r \in Radars :
        /\ breakers[r].state = "half_open"
        /\ breakers[r].probesLeft = 0
        => \/ r \in swallowed
           \/ \E w \in Workers : pc[w] \in {"take", "posting"} /\ radar[w] = r
=============================================================================
