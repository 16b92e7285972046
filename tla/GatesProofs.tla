---------------------------- MODULE GatesProofs ----------------------------
(***************************************************************************)
(* The types of Gates, the bound on the POSTs of a radar, what can strand  *)
(* a breaker, and that stamps do what ticks do, for any radars, workers    *)
(* and settings.                                                           *)
(***************************************************************************)
EXTENDS Gates, TLAPS

(* A breaker in memory, in a running snapshot or in the file: it is closed *)
(* below the threshold and nowhere else, it has probes only while half-    *)
(* open, and it did not trip in the future.                                *)
SoundBreaker(b, t) ==
    /\ b \in Breakers
    /\ b.openedAt <= t
    /\ b.state = "closed" <=> b.failures < FailThreshold
    /\ b.probesLeft > 0 => b.state = "half_open"

(* A bucket at these places.                                               *)
SoundBucket(r, k, t) ==
    /\ k \in Buckets
    /\ k.lastTime <= t
    /\ k.content <= Burst[r] * Unit

RadarSound(r) ==
    /\ SoundBreaker(breakers[r], now)
    /\ SoundBreaker(disk.breakers[r], now)
    /\ SoundBucket(r, buckets[r], now)
    /\ SoundBucket(r, disk.buckets[r], now)
    /\ part.breakers[r] # NotRead => SoundBreaker(part.breakers[r], now)
    /\ part.buckets[r] # NotRead => SoundBucket(r, part.buckets[r], now)

AllSound == \A r \in Radars : RadarSound(r)

(* A snapshot reads every breaker before any bucket.                       *)
ReadInOrder ==
    \A r \in Radars : part.buckets[r] # NotRead => Whole(part.breakers)

TypeInv == GatesTypeOK /\ AllSound /\ ReadInOrder

LEMMA Settings ==
    /\ FailThreshold \in Nat /\ FailThreshold > 0
    /\ OpenFor \in Nat /\ OpenFor > 0
    /\ Probes \in Nat /\ Probes > 0
    /\ Unit \in Nat /\ Unit > 0
    /\ \A r \in Radars : /\ Rate[r] \in Nat
                         /\ Burst[r] * Unit \in Nat
                         /\ Burst[r] * Unit >= Unit
<1>1. \A m \in Nat \ {0}, n \in Nat : m * n \in Nat /\ m * n >= n
  OBVIOUS
<1> QED BY <1>1, StampsAssumption

LEMMA NewBreakerSound == SoundBreaker(NewBreaker, 0)
BY Settings DEF SoundBreaker, NewBreaker, Breakers

LEMMA FullBucketSound ==
    ASSUME NEW r \in Radars, NEW t \in Nat
    PROVE  SoundBucket(r, FullBucket(r, t), t)
BY Settings DEF SoundBucket, FullBucket, Buckets

(* What the operations make of a breaker, field by field.                  *)
Built(s, f, o, p) ==
    [state |-> s, failures |-> f, openedAt |-> o, probesLeft |-> p]

LEMMA BreakerBuilt ==
    ASSUME NEW b \in Breakers, NEW t \in Nat
    PROVE  /\ HalfOpened(b, t) =
                 IF b.state = "open" /\ t - b.openedAt >= OpenFor
                 THEN Built("half_open", b.failures, b.openedAt, Probes)
                 ELSE b
           /\ Succeeded(b) = Built("closed", 0, b.openedAt, 0)
           /\ b.state = "half_open" =>
                 Failed(b, t) = Built("open", b.failures, t, 0)
           /\ b.state = "closed" =>
                 Failed(b, t) =
                    IF b.failures + 1 >= FailThreshold
                    THEN Built("open", b.failures + 1, t, 0)
                    ELSE Built("closed", b.failures + 1, b.openedAt,
                               b.probesLeft)
           /\ b.state = "open" => Failed(b, t) = b
           /\ \A p : [b EXCEPT !.probesLeft = p] =
                       Built(b.state, b.failures, b.openedAt, p)
<1> USE DEF Breakers, Built
<1>1. HalfOpened(b, t) =
          IF b.state = "open" /\ t - b.openedAt >= OpenFor
          THEN Built("half_open", b.failures, b.openedAt, Probes) ELSE b
  BY DEF HalfOpened
<1>2. Succeeded(b) = Built("closed", 0, b.openedAt, 0)
  BY DEF Succeeded
<1>3. /\ b.state = "half_open" =>
            Failed(b, t) = Built("open", b.failures, t, 0)
      /\ b.state = "open" => Failed(b, t) = b
  BY DEF Failed, Tripped
<1>4. ASSUME NEW p
      PROVE  [b EXCEPT !.probesLeft = p] =
                 Built(b.state, b.failures, b.openedAt, p)
  OBVIOUS
<1>5. CASE b.state = "closed"
  <2> DEFINE c == [b EXCEPT !.failures = @ + 1]
  <2>1. c = Built("closed", b.failures + 1, b.openedAt, b.probesLeft)
    BY <1>5
  <2>2. c.failures = b.failures + 1
    OBVIOUS
  <2>3. Failed(b, t) =
            IF c.failures >= FailThreshold THEN Tripped(c, t) ELSE c
    BY <1>5 DEF Failed
  <2> HIDE DEF c
  <2>4. Tripped(c, t) = Built("open", b.failures + 1, t, 0)
    BY <2>2 DEF Tripped
  <2> QED BY <1>1, <1>2, <1>3, <1>4, <1>5, <2>1, <2>2, <2>3, <2>4
<1> QED BY <1>1, <1>2, <1>3, <1>4, <1>5

LEMMA SoundBuilt ==
    ASSUME NEW t \in Nat,
           NEW s \in {"closed", "open", "half_open"},
           NEW f \in 0 .. FailThreshold, NEW o \in 0 .. t,
           NEW p \in 0 .. Probes,
           s = "closed" <=> f < FailThreshold, p > 0 => s = "half_open"
    PROVE  SoundBreaker(Built(s, f, o, p), t)
BY DEF SoundBreaker, Built, Breakers

LEMMA BreakerOps ==
    ASSUME NEW b, NEW t \in Nat, SoundBreaker(b, t)
    PROVE  /\ SoundBreaker(b, t + 1)
           /\ SoundBreaker(HalfOpened(b, t), t)
           /\ SoundBreaker(Succeeded(b), t)
           /\ SoundBreaker(Failed(b, t), t)
<1>a. /\ b \in Breakers
      /\ b.state \in {"closed", "open", "half_open"}
      /\ b.failures \in 0 .. FailThreshold
      /\ b.openedAt \in 0 .. t
      /\ b.probesLeft \in 0 .. Probes
      /\ b.state = "closed" <=> b.failures < FailThreshold
      /\ b.probesLeft > 0 => b.state = "half_open"
  BY DEF SoundBreaker, Breakers
<1>1. SoundBreaker(b, t + 1)
  BY DEF SoundBreaker, Breakers
<1>2. SoundBreaker(HalfOpened(b, t), t)
  BY <1>a, BreakerBuilt, SoundBuilt, Settings
<1>3. SoundBreaker(Succeeded(b), t)
  BY <1>a, BreakerBuilt, SoundBuilt, Settings
<1>4. SoundBreaker(Failed(b, t), t)
  <2>1. CASE b.state = "half_open"
    BY <2>1, <1>a, BreakerBuilt, SoundBuilt, Settings
  <2>2. CASE b.state = "closed"
    <3>1. /\ b.failures + 1 \in 0 .. FailThreshold
          /\ b.probesLeft = 0
          /\ t \in 0 .. t /\ 0 \in 0 .. Probes
      BY <2>2, <1>a, Settings
    <3>2. CASE b.failures + 1 >= FailThreshold
      <4>1. Failed(b, t) = Built("open", b.failures + 1, t, 0)
        BY <2>2, <3>2, <1>a, BreakerBuilt
      <4> QED BY <3>1, <3>2, <4>1, SoundBuilt, Settings
    <3>3. CASE b.failures + 1 < FailThreshold
      <4>1. Failed(b, t) = Built("closed", b.failures + 1, b.openedAt, 0)
        BY <2>2, <3>1, <3>3, <1>a, BreakerBuilt, Settings
      <4> QED BY <3>1, <3>3, <4>1, <1>a, SoundBuilt, Settings
    <3> QED BY <3>2, <3>3, <1>a, Settings
  <2>3. CASE b.state = "open"
    BY <2>3, <1>a, BreakerBuilt
  <2> QED BY <2>1, <2>2, <2>3, <1>a
<1> QED BY <1>1, <1>2, <1>3, <1>4

(* A half-open breaker hands out a probe.                                  *)
LEMMA ProbeUsed ==
    ASSUME NEW b, NEW t \in Nat, SoundBreaker(b, t), b.probesLeft > 0
    PROVE  SoundBreaker([b EXCEPT !.probesLeft = @ - 1], t)
BY Settings DEF SoundBreaker, Breakers

LEMMA BucketWaits ==
    ASSUME NEW r, NEW k, NEW t \in Nat, SoundBucket(r, k, t)
    PROVE  SoundBucket(r, k, t + 1)
BY DEF SoundBucket, Buckets

(* What has flowed in since the last refill.                               *)
Inflow(r, k, t) == (t - k.lastTime) * Rate[r]

LEMMA InflowSum ==
    ASSUME NEW r \in Radars, NEW k, NEW t \in Nat, SoundBucket(r, k, t)
    PROVE  /\ Inflow(r, k, t) \in Nat
           /\ Inflow(r, k, t + 1) = Inflow(r, k, t) + Rate[r]
           /\ k.lastTime = t => Inflow(r, k, t) = 0
           /\ k.content \in Nat
<1> DEFINE d == t - k.lastTime
           e == (t + 1) - k.lastTime
<1>1. /\ d \in Nat /\ e = d + 1 /\ k.content \in Nat
      /\ k.lastTime = t => d = 0
  BY DEF SoundBucket, Buckets
<1>2. \A m, n \in Nat : m * n \in Nat /\ (m + 1) * n = m * n + n /\ 0 * n = 0
  OBVIOUS
<1>3. Inflow(r, k, t) = d * Rate[r]
  BY DEF Inflow
<1>4. Inflow(r, k, t + 1) = e * Rate[r]
  BY DEF Inflow
<1> HIDE DEF d, e
<1>5. e * Rate[r] = d * Rate[r] + Rate[r] /\ d * Rate[r] \in Nat
  BY <1>1, <1>2, Settings
<1>6. k.lastTime = t => d * Rate[r] = 0
  BY <1>1, <1>2, Settings
<1> QED BY <1>1, <1>3, <1>4, <1>5, <1>6

(* Take's refill is the content and the inflow, up to the burst.           *)
LEMMA RefilledIs ==
    ASSUME NEW r \in Radars, NEW k, NEW t \in Nat, SoundBucket(r, k, t)
    PROVE  /\ Refilled(r, k, t).content =
                 IF k.content + Inflow(r, k, t) > Burst[r] * Unit
                 THEN Burst[r] * Unit ELSE k.content + Inflow(r, k, t)
           /\ Refilled(r, k, t).lastTime = t
           /\ DOMAIN Refilled(r, k, t) = {"content", "lastTime"}
<1>1. k.lastTime \in Nat /\ k.lastTime <= t /\ k.content \in Nat
  BY DEF SoundBucket, Buckets
<1>2. ~ t > k.lastTime => Inflow(r, k, t) = 0
  BY <1>1, InflowSum
<1> QED BY <1>1, <1>2, Settings DEF Refilled, Inflow, SoundBucket

LEMMA RefilledSound ==
    ASSUME NEW r \in Radars, NEW k, NEW t \in Nat, SoundBucket(r, k, t)
    PROVE  /\ SoundBucket(r, Refilled(r, k, t), t)
           /\ Refilled(r, k, t).content \in Nat
           /\ Refilled(r, k, t).content <= Burst[r] * Unit
<1>1. Refilled(r, k, t).content \in Nat
      /\ Refilled(r, k, t).content <= Burst[r] * Unit
  BY RefilledIs, InflowSum, Settings
<1>2. Refilled(r, k, t) \in Buckets
  <2>1. Refilled(r, k, t) = [content |-> Refilled(r, k, t).content,
                             lastTime |-> Refilled(r, k, t).lastTime]
    BY DEF Refilled
  <2> QED BY <2>1, <1>1, RefilledIs DEF Buckets
<1> QED BY <1>1, <1>2, RefilledIs DEF SoundBucket

(* A bucket refilled at this moment holds what it holds.                   *)
LEMMA RefilledNow ==
    ASSUME NEW r \in Radars, NEW k, NEW t \in Nat, SoundBucket(r, k, t),
           k.lastTime = t
    PROVE  Refilled(r, k, t).content = k.content
BY RefilledIs, InflowSum, Settings DEF SoundBucket

(* Refilling late is refilling with every tick, whatever the cap.          *)
LEMMA RefilledLater ==
    ASSUME NEW r \in Radars, NEW k, NEW t \in Nat, SoundBucket(r, k, t)
    PROVE  Refilled(r, k, t + 1).content =
              IF Refilled(r, k, t).content + Rate[r] > Burst[r] * Unit
              THEN Burst[r] * Unit ELSE Refilled(r, k, t).content + Rate[r]
<1>1. SoundBucket(r, k, t + 1) /\ t + 1 \in Nat
  BY BucketWaits
<1> QED BY <1>1, RefilledIs, InflowSum, Settings

(* Take with a token to give.                                              *)
LEMMA TokenTaken ==
    ASSUME NEW r \in Radars, NEW k, NEW t \in Nat, SoundBucket(r, k, t),
           Refilled(r, k, t).content >= Unit
    PROVE  LET less == [Refilled(r, k, t) EXCEPT !.content = @ - Unit]
           IN  /\ SoundBucket(r, less, t)
               /\ Refilled(r, less, t).content =
                     Refilled(r, k, t).content - Unit
<1> DEFINE full == Refilled(r, k, t)
           less == [full EXCEPT !.content = @ - Unit]
<1>1. full \in Buckets /\ full.lastTime = t /\ full.content <= Burst[r] * Unit
  BY RefilledSound, RefilledIs DEF SoundBucket
<1>2. full.content >= Unit
  OBVIOUS
<1> HIDE DEF full
<1>3. /\ less \in Buckets /\ less.lastTime = t
      /\ less.content = full.content - Unit
      /\ less.content <= Burst[r] * Unit
  BY <1>1, <1>2, Settings DEF Buckets
<1> HIDE DEF less
<1>4. SoundBucket(r, less, t)
  BY <1>3 DEF SoundBucket, Buckets
<1> QED BY <1>3, <1>4, RefilledNow DEF full, less
-----------------------------------------------------------------------------
LEMMA InitTyped == Init => TypeInv
<1> SUFFICES ASSUME Init PROVE TypeInv
  OBVIOUS
<1>1. /\ now = 0 /\ now \in Nat
      /\ breakers = [r \in Radars |-> NewBreaker]
      /\ buckets = [r \in Radars |-> FullBucket(r, 0)]
      /\ disk = [breakers |-> breakers, buckets |-> buckets]
      /\ part = Nothing
  BY DEF Init
<1>2. ASSUME NEW r \in Radars
      PROVE  /\ SoundBreaker(breakers[r], now) /\ SoundBucket(r, buckets[r], now)
             /\ breakers[r] \in Breakers /\ buckets[r] \in Buckets
  BY <1>1, NewBreakerSound, FullBucketSound DEF SoundBreaker, SoundBucket
<1>3. AllSound
  BY <1>1, <1>2 DEF AllSound, RadarSound, Nothing
<1>4. /\ breakers \in [Radars -> Breakers] /\ buckets \in [Radars -> Buckets]
  BY <1>1, <1>2
<1>5. /\ part \in [breakers : [Radars -> Breakers \union {NotRead}],
                   buckets : [Radars -> Buckets \union {NotRead}]]
      /\ disk \in [breakers : [Radars -> Breakers],
                   buckets : [Radars -> Buckets]]
  BY <1>1, <1>4 DEF Nothing
<1>6. \A r \in Radars :
          /\ \A b \in {breakers[r], disk.breakers[r]} : b.openedAt <= now
          /\ \A k \in {buckets[r], disk.buckets[r]} :
                k.lastTime <= now /\ k.content <= Burst[r] * Unit
  BY <1>3 DEF AllSound, RadarSound, SoundBreaker, SoundBucket
<1>7. ReadInOrder
  BY <1>1 DEF ReadInOrder, Nothing
<1> QED BY <1>1, <1>3, <1>4, <1>5, <1>6, <1>7 DEF Init, TypeInv, GatesTypeOK

(* What of GatesTypeOK is not said radar by radar.                         *)
Shapes ==
    /\ enabled \in [Radars -> BOOLEAN]
    /\ now \in Nat
    /\ breakers \in [Radars -> Breakers]
    /\ buckets \in [Radars -> Buckets]
    /\ part \in [breakers : [Radars -> Breakers \union {NotRead}],
                 buckets : [Radars -> Buckets \union {NotRead}]]
    /\ disk \in [breakers : [Radars -> Breakers],
                 buckets : [Radars -> Buckets]]
    /\ rated \subseteq Radars
    /\ pc \in [Workers -> {"idle", "allow", "take", "posting"}]
    /\ radar \in [Workers -> Radars]
    /\ given \in [Radars -> Nat]
    /\ span \in Nat /\ restarts \in Nat
    /\ \A w \in Workers : pc[w] # "idle" => radar[w] \in rated
    /\ ReadInOrder

LEMMA TypeInvIs == TypeInv <=> Shapes /\ AllSound
<1>1. AllSound => \A r \in Radars :
          /\ \A b \in {breakers[r], disk.breakers[r]} : b.openedAt <= now
          /\ \A k \in {buckets[r], disk.buckets[r]} :
                k.lastTime <= now /\ k.content <= Burst[r] * Unit
  BY DEF AllSound, RadarSound, SoundBreaker, SoundBucket
<1> QED BY <1>1 DEF TypeInv, GatesTypeOK, Shapes

LEMMA TypeInvNext == Shapes' /\ AllSound' => TypeInv'
<1>1. AllSound' => \A r \in Radars :
          /\ \A b \in {breakers'[r], disk'.breakers[r]} : b.openedAt <= now'
          /\ \A k \in {buckets'[r], disk'.buckets[r]} :
                k.lastTime <= now' /\ k.content <= Burst[r] * Unit
  BY DEF AllSound, RadarSound, SoundBreaker, SoundBucket
<1> QED BY <1>1 DEF TypeInv, GatesTypeOK, Shapes

(* With the clock and the file left alone, only what an action replaces is *)
(* to be looked at.                                                        *)
LEMMA SoundReplaced ==
    ASSUME AllSound, Shapes, Shapes', UNCHANGED <<now, disk>>,
           \A r \in Radars :
              /\ breakers'[r] = breakers[r] \/ SoundBreaker(breakers'[r], now)
              /\ buckets'[r] = buckets[r] \/ SoundBucket(r, buckets'[r], now)
              /\ \/ part'.breakers[r] = part.breakers[r]
                 \/ part'.breakers[r] = NotRead
                 \/ SoundBreaker(part'.breakers[r], now)
              /\ \/ part'.buckets[r] = part.buckets[r]
                 \/ part'.buckets[r] = NotRead
                 \/ SoundBucket(r, part'.buckets[r], now)
    PROVE  TypeInv'
<1>1. AllSound'
  BY DEF AllSound, RadarSound
<1> QED BY <1>1, TypeInvNext

LEMMA NextTyped == TypeInv /\ [Next]_vars => TypeInv'
<1> SUFFICES ASSUME TypeInv, [Next]_vars PROVE TypeInv'
  OBVIOUS
<1>a. AllSound /\ Shapes
  BY TypeInvIs
<1>b. \A r \in Radars : /\ SoundBreaker(breakers[r], now)
                        /\ SoundBucket(r, buckets[r], now)
                        /\ now \in Nat
  BY <1>a DEF AllSound, RadarSound, Shapes
<1>c. ReadInOrder /\ (part' = part => ReadInOrder')
  BY <1>a DEF Shapes, ReadInOrder, Whole
<1> USE DEF Goto, vars, fleetVars, files, watchVars
<1>1. ASSUME NEW w \in Workers, NEW r \in Radars, Ensure(w, r)
      PROVE  TypeInv'
  <2>1. FullBucket(r, now) \in Buckets /\ SoundBucket(r, FullBucket(r, now), now)
    BY <1>b, FullBucketSound DEF SoundBucket
  <2>2. Shapes'
    BY <1>c, <1>1, <1>a, <2>1 DEF Ensure, Shapes
  <2>3. \A q \in Radars : buckets'[q] = buckets[q]
                          \/ SoundBucket(q, buckets'[q], now)
    BY <1>1, <1>a, <2>1 DEF Ensure, Shapes
  <2> QED BY <1>1, <1>a, <2>2, <2>3, SoundReplaced DEF Ensure
<1>2. ASSUME NEW w \in Workers, AskBreaker(w)
      PROVE  TypeInv'
  <2> DEFINE r == radar[w]
             b == HalfOpened(breakers[r], now)
  <2>1. r \in Radars /\ SoundBreaker(b, now)
    BY <1>a, <1>b, BreakerOps DEF Shapes
  <2>2. PICK c : /\ SoundBreaker(c, now)
                 /\ breakers' = [breakers EXCEPT ![r] = c]
    <3>1. b.probesLeft > 0 =>
             SoundBreaker([b EXCEPT !.probesLeft = @ - 1], now)
      BY <1>b, <2>1, ProbeUsed
    <3> HIDE DEF b
    <3> QED BY <1>2, <2>1, <3>1 DEF AskBreaker, b
  <2>3. /\ pc[w] = "allow"
        /\ pc' = [pc EXCEPT ![w] = "take"] \/ pc' = [pc EXCEPT ![w] = "idle"]
        /\ UNCHANGED <<enabled, now, buckets, rated, radar, part, disk, given,
                       span, restarts>>
    BY <1>2 DEF AskBreaker
  <2>4. c \in Breakers
    BY <2>2 DEF SoundBreaker
  <2>5. Shapes'
    BY <1>c, <1>a, <2>1, <2>2, <2>3, <2>4 DEF Shapes
  <2>6. \A q \in Radars : breakers'[q] = breakers[q]
                          \/ SoundBreaker(breakers'[q], now)
    BY <1>a, <2>1, <2>2 DEF Shapes
  <2> QED BY <1>a, <2>3, <2>5, <2>6, SoundReplaced
<1>3. ASSUME NEW w \in Workers, TakeToken(w)
      PROVE  TypeInv'
  <2> DEFINE r == radar[w]
             k == Refilled(r, buckets[r], now)
  <2>1. r \in Radars /\ SoundBucket(r, buckets[r], now) /\ now \in Nat
    BY <1>a, <1>b DEF Shapes
  <2>2. PICK c : /\ SoundBucket(r, c, now)
                 /\ buckets' = [buckets EXCEPT ![r] = c]
    <3>1. SoundBucket(r, k, now)
      BY <2>1, RefilledSound
    <3>2. k.content >= Unit =>
             SoundBucket(r, [k EXCEPT !.content = @ - Unit], now)
      BY <2>1, TokenTaken
    <3> HIDE DEF k
    <3> QED BY <1>3, <3>1, <3>2 DEF TakeToken, k
  <2>3. /\ given' \in [Radars -> Nat]
        /\ pc[w] = "take"
        /\ pc' = [pc EXCEPT ![w] = "posting"] \/ pc' = [pc EXCEPT ![w] = "idle"]
    BY <1>3, <1>a DEF TakeToken, Shapes
  <2>4. UNCHANGED <<enabled, now, breakers, rated, radar, part, disk, span,
                    restarts>>
    BY <1>3 DEF TakeToken
  <2>5. c \in Buckets
    BY <2>2 DEF SoundBucket
  <2>6. Shapes'
    BY <1>c, <1>a, <2>1, <2>2, <2>3, <2>4, <2>5 DEF Shapes
  <2>7. \A q \in Radars : buckets'[q] = buckets[q]
                          \/ SoundBucket(q, buckets'[q], now)
    BY <1>a, <2>1, <2>2 DEF Shapes
  <2> QED BY <1>a, <2>4, <2>6, <2>7, SoundReplaced
<1>4. ASSUME NEW w \in Workers, Report(w)
      PROVE  TypeInv'
  <2> DEFINE r == radar[w]
  <2>1. r \in Radars
    BY <1>a DEF Shapes
  <2>2. PICK c : /\ SoundBreaker(c, now)
                 /\ breakers' = [breakers EXCEPT ![r] = c]
    BY <1>4, <1>b, <2>1, BreakerOps DEF Report
  <2>3. /\ pc' = [pc EXCEPT ![w] = "idle"]
        /\ UNCHANGED <<enabled, now, buckets, rated, radar, part, disk, given,
                       span, restarts>>
    BY <1>4 DEF Report
  <2>4. c \in Breakers
    BY <2>2 DEF SoundBreaker
  <2>5. Shapes'
    BY <1>c, <1>a, <2>1, <2>2, <2>3, <2>4 DEF Shapes
  <2>6. \A q \in Radars : breakers'[q] = breakers[q]
                          \/ SoundBreaker(breakers'[q], now)
    BY <1>a, <2>1, <2>2 DEF Shapes
  <2> QED BY <1>a, <2>3, <2>5, <2>6, SoundReplaced
<1>5. ASSUME NEW r \in Radars, ReadBreaker(r)
      PROVE  TypeInv'
  <2> DEFINE b == HalfOpened(breakers[r], now)
  <2>1. SoundBreaker(b, now) /\ b \in Breakers
    BY <1>b, BreakerOps DEF SoundBreaker
  <2>2. /\ breakers' = [breakers EXCEPT ![r] = b]
        /\ part' = [part EXCEPT !.breakers[r] = b]
        /\ UNCHANGED <<enabled, now, buckets, rated, pc, radar, disk, given,
                       span, restarts>>
    BY <1>5 DEF ReadBreaker
  <2> HIDE DEF b
  <2>5. ReadInOrder'
    BY <1>a, <1>c, <2>1, <2>2, GatesAssumption DEF Shapes, ReadInOrder, Whole
  <2>3. Shapes'
    BY <1>a, <2>1, <2>2, <2>5 DEF Shapes
  <2>4. \A q \in Radars :
           /\ breakers'[q] = breakers[q] \/ SoundBreaker(breakers'[q], now)
           /\ \/ part'.breakers[q] = part.breakers[q]
              \/ SoundBreaker(part'.breakers[q], now)
           /\ part'.buckets[q] = part.buckets[q]
    BY <1>a, <2>1, <2>2 DEF Shapes
  <2> QED BY <1>a, <2>2, <2>3, <2>4, SoundReplaced
<1>6. ASSUME NEW r \in Radars, ReadBucket(r)
      PROVE  TypeInv'
  <2>1. /\ part' = [part EXCEPT !.buckets[r] = buckets[r]]
        /\ UNCHANGED <<enabled, now, breakers, buckets, rated, pc, radar, disk,
                       given, span, restarts>>
    BY <1>6 DEF ReadBucket
  <2>4. ReadInOrder'
    BY <1>6, <1>a, <1>c DEF ReadBucket, Shapes, ReadInOrder, Whole
  <2>2. Shapes'
    BY <1>a, <2>1, <2>4 DEF Shapes
  <2>3. \A q \in Radars :
           /\ \/ part'.buckets[q] = part.buckets[q]
              \/ SoundBucket(q, part'.buckets[q], now)
           /\ part'.breakers[q] = part.breakers[q]
    BY <1>a, <1>b, <2>1 DEF Shapes
  <2> QED BY <1>a, <2>1, <2>2, <2>3, SoundReplaced
<1>7. ASSUME Save
      PROVE  TypeInv'
  <2>1. /\ part # Nothing /\ Whole(part.buckets)
        /\ disk' = part \/ disk' = disk
        /\ part' = Nothing
        /\ UNCHANGED <<enabled, now, breakers, buckets, rated, pc, radar,
                       given, span, restarts>>
    BY <1>7 DEF Save
  <2>2. ReadInOrder' /\ Whole(part.breakers)
    BY <2>1, <1>c DEF ReadInOrder, Whole, Nothing
  <2>3. disk' \in [breakers : [Radars -> Breakers],
                   buckets : [Radars -> Buckets]]
    BY <1>a, <2>1, <2>2 DEF Shapes, Whole
  <2>4. Shapes'
    BY <1>a, <2>1, <2>2, <2>3 DEF Shapes, Nothing
  <2>5. AllSound'
    BY <1>a, <2>1, <2>2 DEF AllSound, RadarSound, Whole, Nothing
  <2> QED BY <2>4, <2>5, TypeInvNext
<1>8. ASSUME NEW r \in Radars, Public(r)
      PROVE  TypeInv'
  <2> DEFINE b == HalfOpened(breakers[r], now)
  <2>1. SoundBreaker(b, now) /\ b \in Breakers
    BY <1>b, BreakerOps DEF SoundBreaker
  <2>2. /\ breakers' = [breakers EXCEPT ![r] = b]
        /\ UNCHANGED <<enabled, now, buckets, rated, pc, radar, part, disk,
                       given, span, restarts>>
    BY <1>8, <1>a DEF Public, Shapes
  <2> HIDE DEF b
  <2>3. Shapes'
    BY <1>c, <1>a, <2>1, <2>2 DEF Shapes
  <2>4. \A q \in Radars : breakers'[q] = breakers[q]
                          \/ SoundBreaker(breakers'[q], now)
    BY <1>a, <2>1, <2>2 DEF Shapes
  <2> QED BY <1>a, <2>2, <2>3, <2>4, SoundReplaced
<1>9. ASSUME Restart
      PROVE  TypeInv'
  <2>1. Shapes'
    BY <1>9, <1>a DEF Restart, Shapes, Nothing, ReadInOrder
  <2>2. AllSound'
    BY <1>9, <1>a DEF Restart, AllSound, RadarSound, Nothing
  <2> QED BY <2>1, <2>2, TypeInvNext
<1>10. ASSUME Elapse
      PROVE  TypeInv'
  <2>1. Shapes'
    BY <1>c, <1>10, <1>a DEF Elapse, Shapes
  <2>2. AllSound'
    <3> SUFFICES ASSUME NEW r \in Radars PROVE RadarSound(r)'
      BY DEF AllSound
    <3>1. now' = now + 1 /\ UNCHANGED <<breakers, buckets, part, disk>>
      BY <1>10 DEF Elapse
    <3>2. RadarSound(r) /\ now \in Nat
      BY <1>a DEF AllSound, Shapes
    <3> QED BY <3>1, <3>2, BreakerOps, BucketWaits DEF RadarSound
  <2> QED BY <2>1, <2>2, TypeInvNext
<1>11. ASSUME WatchAnew
      PROVE  TypeInv'
  <2>1. Shapes'
    BY <1>c, <1>11, <1>a DEF WatchAnew, Shapes
  <2> QED BY <1>11, <1>a, <2>1, SoundReplaced DEF WatchAnew
<1>12. CASE UNCHANGED vars
  <2>1. Shapes'
    BY <1>c, <1>12, <1>a DEF Shapes
  <2> QED BY <1>12, <1>a, <2>1, SoundReplaced
<1> QED BY <1>1, <1>2, <1>3, <1>4, <1>5, <1>6, <1>7, <1>8, <1>9, <1>10, <1>11,
           <1>12 DEF Next

(* Every variable keeps its type, no stamp is ever in the future, whatever *)
(* is restored, and no worker gets past Ensure without a bucket.           *)
THEOREM GatesTyped == Spec => []GatesTypeOK
<1>1. TypeInv => GatesTypeOK
  BY DEF TypeInv
<1> QED BY <1>1, InitTyped, NextTyped, PTL DEF Spec
-----------------------------------------------------------------------------
(* The bound, strengthened by what may still be taken: what the bucket     *)
(* holds once refilled, or the burst of one that Ensure has yet to build.  *)
Held(r) == Refilled(r, buckets[r], now).content

Full(r) == Burst[r] * Unit

Paid(r) == given[r] * Unit

Funded(r) ==
    IF r \in rated
    THEN Paid(r) + Held(r) <= (1 + restarts) * Full(r) + Rate[r] * span
    ELSE Paid(r) <= restarts * Full(r) + Rate[r] * span

FundsInv == \A r \in Radars : Funded(r)

(* The few products the steps below need.                                  *)
LEMMA Products ==
    ASSUME NEW m \in Nat, NEW n \in Nat
    PROVE  (m + 1) * n = m * n + n /\ n * (m + 1) = n * m + n /\ m * n \in Nat
OBVIOUS

LEMMA AmountTypes ==
    ASSUME TypeInv, NEW r \in Radars
    PROVE  /\ given[r] \in Nat /\ Held(r) \in Nat /\ Rate[r] \in Nat
           /\ Full(r) \in Nat /\ Paid(r) \in Nat /\ Unit \in Nat
           /\ restarts * Full(r) \in Nat /\ Rate[r] * span \in Nat
           /\ (1 + restarts) * Full(r) = restarts * Full(r) + Full(r)
           /\ Held(r) <= Full(r)
<1>1. /\ SoundBucket(r, buckets[r], now) /\ now \in Nat
      /\ given[r] \in Nat /\ restarts \in Nat /\ span \in Nat
  BY TypeInvIs DEF AllSound, RadarSound, Shapes
<1>2. Held(r) \in Nat /\ Held(r) <= Full(r)
  BY <1>1, RefilledSound DEF Held, Full
<1>3. Full(r) \in Nat /\ Rate[r] \in Nat /\ Unit \in Nat
  BY Settings DEF Full
<1>4. /\ restarts * Full(r) \in Nat /\ Rate[r] * span \in Nat
      /\ given[r] * Unit \in Nat
      /\ (restarts + 1) * Full(r) = restarts * Full(r) + Full(r)
      /\ 1 + restarts = restarts + 1
  BY <1>1, <1>3, Products
<1> QED BY <1>1, <1>2, <1>3, <1>4 DEF Paid

LEMMA FundsInit == Init => FundsInv
<1> SUFFICES ASSUME Init, NEW r \in Radars PROVE Funded(r)
  BY DEF FundsInv
<1>1. r \notin rated /\ given[r] = 0 /\ restarts = 0 /\ span = 0
  BY DEF Init
<1> QED BY <1>1, Settings DEF Funded, Paid, Full

(* What none of a radar's amounts change for, its funds do not.            *)
LEMMA FundsUndisturbed ==
    ASSUME NEW r \in Radars, Funded(r),
           given'[r] = given[r], Held(r)' = Held(r),
           r \in rated' <=> r \in rated, UNCHANGED <<restarts, span>>
    PROVE  Funded(r)'
BY DEF Funded, Paid, Full

LEMMA FundsNext == TypeInv /\ FundsInv /\ [Next]_vars => FundsInv'
<1> SUFFICES ASSUME TypeInv, FundsInv, [Next]_vars, NEW r \in Radars
             PROVE  Funded(r)'
  BY DEF FundsInv
<1> USE DEF FundsInv, watchVars, vars, fleetVars, files
<1>a. /\ AllSound /\ Shapes
      /\ SoundBucket(r, buckets[r], now) /\ now \in Nat
  BY TypeInvIs DEF AllSound, RadarSound, Shapes
<1>b. buckets'[r] = buckets[r] /\ now' = now => Held(r)' = Held(r)
  BY DEF Held
<1>1. ASSUME NEW w \in Workers, NEW q \in Radars, Ensure(w, q)
      PROVE  Funded(r)'
  <2>1. CASE q = r /\ r \notin rated
    <3>1. /\ r \in rated' /\ buckets'[r] = FullBucket(r, now) /\ now' = now
          /\ UNCHANGED <<given, restarts, span>>
      BY <1>1, <1>a, <2>1 DEF Ensure, Shapes
    <3>2. Held(r)' = Full(r)
      BY <3>1, <1>a, FullBucketSound, RefilledNow DEF Held, Full, FullBucket
    <3> QED BY <3>1, <3>2, <2>1, AmountTypes DEF Funded, Paid, Full
  <2>2. CASE q # r \/ r \in rated
    <3>1. buckets'[r] = buckets[r]
      BY <1>1, <1>a, <2>2 DEF Ensure, Shapes
    <3> QED BY <1>1, <1>b, <2>2, <3>1, FundsUndisturbed DEF Ensure
  <2> QED BY <2>1, <2>2
<1>2. ASSUME NEW w \in Workers, AskBreaker(w) \/ Report(w)
      PROVE  Funded(r)'
  BY <1>2, <1>b, FundsUndisturbed DEF AskBreaker, Report
<1>3. ASSUME NEW w \in Workers, TakeToken(w)
      PROVE  Funded(r)'
  <2> DEFINE k == Refilled(r, buckets[r], now)
  <2>0. now' = now /\ UNCHANGED <<rated, restarts, span>>
    BY <1>3 DEF TakeToken
  <2>1. CASE radar[w] = r
    <3>1. r \in rated
      BY <1>3, <1>a, <2>1 DEF TakeToken, Shapes
    <3>2. CASE /\ k.content >= Unit
               /\ buckets' = [buckets EXCEPT ![r] =
                                 [k EXCEPT !.content = @ - Unit]]
               /\ given' = [given EXCEPT ![r] = @ + 1]
      <4>1. buckets'[r] = [k EXCEPT !.content = @ - Unit]
            /\ given'[r] = given[r] + 1
        BY <3>2, <1>a DEF Shapes
      <4>2. Held(r)' = Held(r) - Unit
        BY <4>1, <2>0, <3>2, <1>a, TokenTaken DEF Held
      <4>3. (given[r] + 1) * Unit = given[r] * Unit + Unit
        BY AmountTypes, Products
      <4> HIDE DEF k
      <4> QED BY <3>1, <2>0, <4>1, <4>2, <4>3, AmountTypes
              DEF Funded, Paid, Full
    <3>3. CASE buckets' = [buckets EXCEPT ![r] = k] /\ given' = given
      <4>1. buckets'[r] = k
        BY <3>3, <1>a DEF Shapes
      <4>2. Held(r)' = Held(r)
        BY <4>1, <2>0, <1>a, RefilledSound, RefilledIs, RefilledNow DEF Held
      <4> QED BY <3>3, <2>0, <4>2, FundsUndisturbed
    <3> QED BY <1>3, <2>1, <3>2, <3>3 DEF TakeToken
  <2>2. CASE radar[w] # r
    <3>1. given'[r] = given[r] /\ buckets'[r] = buckets[r]
      BY <1>3, <1>a, <2>2 DEF TakeToken, Shapes
    <3> QED BY <2>0, <3>1, <1>b, FundsUndisturbed
  <2> QED BY <2>1, <2>2
<1>4. ASSUME NEW q \in Radars, ReadBreaker(q) \/ ReadBucket(q) \/ Public(q)
      PROVE  Funded(r)'
  BY <1>4, <1>b, FundsUndisturbed DEF ReadBreaker, ReadBucket, Public
<1>5. ASSUME Save
      PROVE  Funded(r)'
  BY <1>5, <1>b, FundsUndisturbed DEF Save
<1>6. ASSUME Restart
      PROVE  Funded(r)'
  <2>1. /\ restarts' = restarts + 1 /\ r \notin rated'
        /\ UNCHANGED <<given, span>>
    BY <1>6 DEF Restart
  <2>2. (restarts + 1) * Full(r) = restarts * Full(r) + Full(r)
    BY <1>a, AmountTypes, Products DEF Shapes
  <2>3. Paid(r) <= (restarts + 1) * Full(r) + Rate[r] * span
    BY <2>2, AmountTypes DEF Funded
  <2> QED BY <2>1, <2>3 DEF Funded, Paid, Full
<1>7. ASSUME Elapse
      PROVE  Funded(r)'
  <2>1. /\ span' = span + 1 /\ now' = now + 1
        /\ UNCHANGED <<given, restarts, rated, buckets>>
    BY <1>7 DEF Elapse
  <2>2. Held(r)' <= Held(r) + Rate[r] /\ Held(r)' \in Nat
    <3>1. Held(r)' = Refilled(r, buckets[r], now + 1).content
      BY <2>1 DEF Held
    <3>2. Held(r)' = IF Held(r) + Rate[r] > Full(r)
                     THEN Full(r) ELSE Held(r) + Rate[r]
      BY <3>1, <1>a, RefilledLater DEF Held, Full
    <3> QED BY <3>2, AmountTypes
  <2>3. Rate[r] * (span + 1) = Rate[r] * span + Rate[r]
    BY <1>a, AmountTypes, Products DEF Shapes
  <2> QED BY <2>1, <2>2, <2>3, AmountTypes DEF Funded, Paid, Full
<1>8. ASSUME WatchAnew
      PROVE  Funded(r)'
  <2>1. /\ given'[r] = 0 /\ restarts' = 0 /\ span' = 0
        /\ UNCHANGED <<buckets, now, rated>>
    BY <1>8 DEF WatchAnew
  <2>2. Held(r)' = Held(r)
    BY <2>1, <1>b
  <2> QED BY <2>1, <2>2, AmountTypes DEF Funded, Paid, Full
<1>9. CASE UNCHANGED vars
  BY <1>9, <1>b, FundsUndisturbed
<1> QED BY <1>1, <1>2, <1>3, <1>4, <1>5, <1>6, <1>7, <1>8, <1>9 DEF Next

(* In any time a radar gets at most its burst, once more for each restart, *)
(* and what its rate brings, whatever workers, snapshots and restarts do.  *)
THEOREM RatesAreKept == Spec => []RateBound
<1>1. TypeInv /\ FundsInv => RateBound
  <2> SUFFICES ASSUME TypeInv, FundsInv, NEW r \in Radars
               PROVE  Paid(r) <= (1 + restarts) * Full(r) + Rate[r] * span
    BY DEF RateBound, Paid, Full
  <2> QED BY AmountTypes DEF FundsInv, Funded
<1> QED BY <1>1, InitTyped, NextTyped, FundsInit, FundsNext, PTL DEF Spec
-----------------------------------------------------------------------------
(* A worker the breaker let through and has not heard from since.          *)
Owing(w, r) == pc[w] \in {"take", "posting"} /\ radar[w] = r

LEMMA StrandedInit == Init => StrandedByLossOnly
BY DEF Init, NewBreaker, StrandedByLossOnly

LEMMA StrandedNext ==
    TypeInv /\ StrandedByLossOnly /\ [Next]_vars => StrandedByLossOnly'
<1> SUFFICES ASSUME TypeInv, StrandedByLossOnly, [Next]_vars,
                    NEW r \in Radars,
                    breakers'[r].state = "half_open",
                    breakers'[r].probesLeft = 0
             PROVE  r \in swallowed' \/ \E w \in Workers : Owing(w, r)'
  BY DEF StrandedByLossOnly, Owing
<1> USE DEF vars, fleetVars, files, watchVars, Goto
<1> DEFINE Before == r \in swallowed \/ \E w \in Workers : Owing(w, r)
<1>a. breakers'[r] = breakers[r] => Before
  BY DEF StrandedByLossOnly, Owing
<1>b. /\ breakers \in [Radars -> Breakers]
      /\ pc \in [Workers -> {"idle", "allow", "take", "posting"}]
      /\ radar \in [Workers -> Radars]
      /\ now \in Nat
      /\ breakers[r] \in Breakers
  BY DEF TypeInv, GatesTypeOK
<1>c. /\ HalfOpened(breakers[r], now).state = "half_open"
      /\ HalfOpened(breakers[r], now).probesLeft = 0
      => HalfOpened(breakers[r], now) = breakers[r]
  BY <1>b, Settings DEF HalfOpened
<1>1. ASSUME NEW w \in Workers, NEW q \in Radars, Ensure(w, q)
      PROVE  r \in swallowed' \/ \E v \in Workers : Owing(v, r)'
  BY <1>1, <1>a, <1>b DEF Ensure, Owing
<1>2. ASSUME NEW w \in Workers, AskBreaker(w)
      PROVE  r \in swallowed' \/ \E v \in Workers : Owing(v, r)'
  <2>1. \A v \in Workers : Owing(v, r) => Owing(v, r)'
    BY <1>2, <1>b DEF AskBreaker, Owing
  <2>2. CASE breakers'[r] = breakers[r]
    BY <1>2, <2>1, <2>2, <1>a DEF AskBreaker
  <2>3. CASE breakers'[r] # breakers[r]
    <3>1. radar[w] = r
      BY <1>2, <2>3, <1>b DEF AskBreaker
    <3>2. CASE breakers'[r] = HalfOpened(breakers[r], now)
      BY <3>2, <2>3, <1>c
    <3>3. CASE pc' = [pc EXCEPT ![w] = "take"] /\ radar' = radar
      BY <3>1, <3>3, <1>b DEF Owing
    <3> QED BY <1>2, <1>b, <3>1, <3>2, <3>3 DEF AskBreaker
  <2> QED BY <2>2, <2>3
<1>3. ASSUME NEW w \in Workers, TakeToken(w)
      PROVE  r \in swallowed' \/ \E v \in Workers : Owing(v, r)'
  <2>1. Before /\ breakers' = breakers /\ radar' = radar
    BY <1>3, <1>a DEF TakeToken
  <2>2. CASE pc' = [pc EXCEPT ![w] = "posting"] /\ swallowed' = swallowed
    BY <2>1, <2>2, <1>b DEF Owing
  <2>3. CASE /\ pc' = [pc EXCEPT ![w] = "idle"]
             /\ swallowed' = IF breakers[radar[w]].state = "half_open"
                             THEN swallowed \union {radar[w]} ELSE swallowed
    <3>1. CASE radar[w] = r
      BY <2>1, <2>3, <3>1
    <3>2. CASE radar[w] # r
      BY <2>1, <2>3, <3>2, <1>b DEF Owing
    <3> QED BY <3>1, <3>2
  <2> QED BY <1>3, <2>2, <2>3 DEF TakeToken
<1>4. ASSUME NEW w \in Workers, Report(w)
      PROVE  r \in swallowed' \/ \E v \in Workers : Owing(v, r)'
  <2>1. radar[w] # r
    <3>1. SUFFICES ASSUME radar[w] = r PROVE FALSE
      OBVIOUS
    <3>2. /\ Succeeded(breakers[r]).state # "half_open"
          /\ Failed(breakers[r], now).state # "half_open"
      BY <1>b DEF Succeeded, Failed, Tripped, Breakers
    <3>3. breakers'[r].state # "half_open"
      BY <1>4, <3>1, <3>2, <1>b DEF Report
    <3> QED BY <3>3
  <2>2. breakers'[r] = breakers[r]
    BY <1>4, <2>1, <1>b DEF Report
  <2> QED BY <1>4, <2>1, <2>2, <1>a, <1>b DEF Report, Owing
<1>5. ASSUME NEW q \in Radars, ReadBreaker(q) \/ Public(q)
      PROVE  r \in swallowed' \/ \E v \in Workers : Owing(v, r)'
  <2>1. breakers'[r] \in {breakers[r], HalfOpened(breakers[r], now)}
    BY <1>5, <1>b DEF ReadBreaker, Public
  <2>2. breakers'[r] = breakers[r]
    BY <2>1, <1>c
  <2> QED BY <1>5, <2>2, <1>a DEF ReadBreaker, Public, Owing
<1>6. ASSUME NEW q \in Radars, ReadBucket(q)
      PROVE  r \in swallowed' \/ \E v \in Workers : Owing(v, r)'
  BY <1>6, <1>a DEF ReadBucket, Owing
<1>7. ASSUME Save \/ WatchAnew \/ Elapse
      PROVE  r \in swallowed' \/ \E v \in Workers : Owing(v, r)'
  BY <1>7, <1>a DEF Save, WatchAnew, Elapse, Owing
<1>8. ASSUME Restart
      PROVE  r \in swallowed' \/ \E v \in Workers : Owing(v, r)'
  BY <1>8 DEF Restart
<1>9. CASE UNCHANGED vars
  BY <1>9, <1>a DEF Owing
<1> QED BY <1>1, <1>2, <1>3, <1>4, <1>5, <1>6, <1>7, <1>8, <1>9 DEF Next

(* A half-open breaker without probes is owed a report, or it lost a probe *)
(* to an empty bucket or to the end of a process.                          *)
THEOREM OnlyLossStrands == Spec => []StrandedByLossOnly
BY InitTyped, NextTyped, StrandedInit, StrandedNext, PTL DEF Spec
-----------------------------------------------------------------------------
(* Operation by operation, a stamped breaker does what the one by ticks    *)
(* does, and so does a bucket.                                             *)
LEMMA TickingIs ==
    ASSUME NEW b, NEW t \in Nat, SoundBreaker(b, t)
    PROVE  /\ Ticking(b, t) =
                 [state |-> b.state, failures |-> b.failures,
                  cool |-> IF b.state = "open" /\ t - b.openedAt < OpenFor
                           THEN OpenFor - (t - b.openedAt) ELSE 0,
                  probesLeft |-> b.probesLeft]
           /\ Ticking(b, t) \in TicksView!Breakers
           /\ Ticking(b, t) # NotRead
<1>1. b # NotRead
  BY GatesAssumption DEF SoundBreaker
<1>2. Ticking(b, t) \in TicksView!Breakers
  BY <1>1, Settings DEF Ticking, SoundBreaker, Breakers, TicksView!Breakers,
                        TicksView!BreakerStates
<1> QED BY <1>1, <1>2, NotReadAssumption DEF Ticking

LEMMA HalfOpenedTicks ==
    ASSUME NEW b, NEW t \in Nat, SoundBreaker(b, t)
    PROVE  Ticking(HalfOpened(b, t), t) = TicksView!Refreshed(Ticking(b, t))
<1>1. SoundBreaker(HalfOpened(b, t), t) /\ b \in Breakers /\ b.openedAt <= t
  BY BreakerOps DEF SoundBreaker
<1>2. CASE b.state = "open" /\ t - b.openedAt >= OpenFor
  BY <1>1, <1>2, TickingIs, Settings
     DEF HalfOpened, TicksView!Refreshed, Breakers
<1>3. CASE ~ (b.state = "open" /\ t - b.openedAt >= OpenFor)
  BY <1>1, <1>3, TickingIs, Settings
     DEF HalfOpened, TicksView!Refreshed, Breakers
<1> QED BY <1>2, <1>3

LEMMA SucceededTicks ==
    ASSUME NEW b, NEW t \in Nat, SoundBreaker(b, t)
    PROVE  Ticking(Succeeded(b), t) = TicksView!NewBreaker
BY BreakerOps, TickingIs DEF Succeeded, TicksView!NewBreaker

LEMMA TrippedTicks ==
    ASSUME NEW b, NEW t \in Nat, SoundBreaker(Tripped(b, t), t), NEW c,
           c.failures = b.failures
    PROVE  Ticking(Tripped(b, t), t) = TicksView!Tripped(c)
BY TickingIs, Settings DEF Tripped, TicksView!Tripped

LEMMA FailedTicks ==
    ASSUME NEW b, NEW t \in Nat, SoundBreaker(b, t)
    PROVE  Ticking(Failed(b, t), t) = TicksView!AfterFailure(Ticking(b, t))
<1> DEFINE c == Ticking(b, t)
<1>1. /\ SoundBreaker(Failed(b, t), t)
      /\ b \in Breakers
      /\ c.state = b.state /\ c.failures = b.failures
      /\ b.state \in {"closed", "open", "half_open"}
  BY BreakerOps, TickingIs DEF SoundBreaker, Breakers
<1>2. CASE b.state = "half_open"
  <2>1. Failed(b, t) = Tripped(b, t)
        /\ TicksView!AfterFailure(c) = TicksView!Tripped(c)
    BY <1>1, <1>2 DEF Failed, TicksView!AfterFailure
  <2> QED BY <1>1, <2>1, TrippedTicks
<1>3. CASE b.state = "closed"
  <2> DEFINE b1 == [b EXCEPT !.failures = @ + 1]
             c1 == [c EXCEPT !.failures = @ + 1]
  <2>1. /\ Failed(b, t) =
              IF b1.failures >= FailThreshold THEN Tripped(b1, t) ELSE b1
        /\ TicksView!AfterFailure(c) =
              IF c1.failures >= FailThreshold THEN TicksView!Tripped(c1) ELSE c1
    BY <1>1, <1>3 DEF Failed, TicksView!AfterFailure
  <2>2. b1.failures = b.failures + 1 /\ c1.failures = b.failures + 1
    BY <1>1, TickingIs DEF Breakers
  <2>3. CASE b1.failures >= FailThreshold
    <3> HIDE DEF c, c1, b1
    <3>1. /\ Failed(b, t) = Tripped(b1, t)
          /\ TicksView!AfterFailure(c) = TicksView!Tripped(c1)
      BY <2>1, <2>2, <2>3
    <3>2. Ticking(Tripped(b1, t), t) = TicksView!Tripped(c1)
      BY <1>1, <2>2, <3>1, TrippedTicks
    <3> QED BY <3>1, <3>2 DEF c
  <2>4. CASE ~ b1.failures >= FailThreshold
    <3>1. SoundBreaker(b1, t)
      BY <1>1, <2>1, <2>4
    <3>2. b1 = Built("closed", b.failures + 1, b.openedAt, b.probesLeft)
      BY <1>1, <1>3 DEF Breakers, Built
    <3>3. c = [state |-> "closed", failures |-> b.failures, cool |-> 0,
               probesLeft |-> b.probesLeft]
      BY <1>3, TickingIs
    <3>4. c1 = [state |-> "closed", failures |-> b.failures + 1, cool |-> 0,
                probesLeft |-> b.probesLeft]
      BY <3>3
    <3> HIDE DEF c, c1, b1
    <3>5. Ticking(b1, t) = c1
      BY <3>1, <3>2, <3>4, TickingIs DEF Built
    <3> QED BY <2>1, <2>2, <2>4, <3>5 DEF c
  <2> QED BY <2>3, <2>4
<1>4. CASE b.state = "open"
  BY <1>1, <1>4 DEF Failed, TicksView!AfterFailure
<1> QED BY <1>1, <1>2, <1>3, <1>4

LEMMA ProbeTicks ==
    ASSUME NEW b, NEW t \in Nat, SoundBreaker(b, t), b.probesLeft > 0
    PROVE  Ticking([b EXCEPT !.probesLeft = @ - 1], t) =
               [Ticking(b, t) EXCEPT !.probesLeft = @ - 1]
<1> DEFINE c == [b EXCEPT !.probesLeft = @ - 1]
<1>1. SoundBreaker(c, t) /\ b \in Breakers
  BY ProbeUsed DEF SoundBreaker
<1>2. /\ c.state = b.state /\ c.failures = b.failures
      /\ c.openedAt = b.openedAt /\ c.probesLeft = b.probesLeft - 1
  BY <1>1 DEF Breakers
<1> HIDE DEF c
<1>3. Ticking(c, t) = [Ticking(b, t) EXCEPT !.probesLeft = @ - 1]
  BY <1>1, <1>2, TickingIs
<1> QED BY <1>3 DEF c

LEMMA CooledTicks ==
    ASSUME NEW b, NEW t \in Nat, SoundBreaker(b, t)
    PROVE  Ticking(b, t + 1) = TicksView!Cooled(Ticking(b, t))
<1>1. SoundBreaker(b, t + 1) /\ t + 1 \in Nat
  BY BreakerOps
<1>2. /\ b.openedAt \in Nat /\ b.openedAt <= t
      /\ (t + 1) - b.openedAt = (t - b.openedAt) + 1
  BY DEF SoundBreaker, Breakers
<1> QED BY <1>1, <1>2, TickingIs, Settings DEF TicksView!Cooled

LEMMA HoldingIs ==
    ASSUME NEW r \in Radars, NEW k, NEW t \in Nat, SoundBucket(r, k, t)
    PROVE  /\ Holding(r, k, t) = Refilled(r, k, t).content
           /\ Holding(r, k, t) \in Nat
           /\ Holding(r, k, t) # NotRead
BY RefilledSound, GatesAssumption, NotReadAssumption DEF Holding, SoundBucket

LEMMA HoldingLater ==
    ASSUME NEW r \in Radars, NEW k, NEW t \in Nat, SoundBucket(r, k, t)
    PROVE  Holding(r, k, t + 1) = TicksView!Refilled(r, Holding(r, k, t))
<1>1. SoundBucket(r, k, t + 1) /\ t + 1 \in Nat
  BY BucketWaits
<1> QED BY <1>1, HoldingIs, RefilledLater DEF TicksView!Refilled
-----------------------------------------------------------------------------
(* The view of a step that replaces one breaker or one bucket.             *)
LEMMA PauseReplaced ==
    ASSUME NEW some, DOMAIN some = Radars, NEW r \in Radars, NEW c, NEW t
    PROVE  Pauses([some EXCEPT ![r] = c], t) =
               [Pauses(some, t) EXCEPT ![r] = Ticking(c, t)]
BY DEF Pauses

LEMMA ContentReplaced ==
    ASSUME NEW some, DOMAIN some = Radars, NEW r \in Radars, NEW c, NEW t
    PROVE  Contents([some EXCEPT ![r] = c], t) =
               [Contents(some, t) EXCEPT ![r] = Holding(r, c, t)]
BY DEF Contents

LEMMA InitTicks == Init => TicksView!TicksInit
<1> SUFFICES ASSUME Init PROVE TicksView!TicksInit
  OBVIOUS
<1>1. /\ now = 0 /\ now \in Nat /\ rated = {}
      /\ breakers = [r \in Radars |-> NewBreaker]
      /\ buckets = [r \in Radars |-> FullBucket(r, 0)]
      /\ disk = [breakers |-> breakers, buckets |-> buckets]
      /\ part = Nothing
  BY DEF Init
<1>2. Ticking(NewBreaker, 0) = TicksView!NewBreaker
  BY NewBreakerSound, TickingIs DEF NewBreaker, TicksView!NewBreaker
<1>3. Pauses(breakers, now) = [r \in Radars |-> TicksView!NewBreaker]
  BY <1>1, <1>2 DEF Pauses
<1>4. \A r \in Radars : Holding(r, FullBucket(r, 0), 0) = Burst[r] * Unit
  BY FullBucketSound, HoldingIs, RefilledNow DEF FullBucket
<1>5. Contents(buckets, now) = [r \in Radars |-> Burst[r] * Unit]
  BY <1>1, <1>4 DEF Contents
<1>6. Ticked(disk, now) = [breakers |-> Pauses(breakers, now),
                           tokens |-> Contents(buckets, now)]
  BY <1>1 DEF Ticked
<1>7. Ticked(part, now) = TicksView!Nothing
  BY <1>1 DEF Ticked, Nothing, TicksView!Nothing, Pauses, Contents, Ticking,
              Holding
<1> QED BY <1>1, <1>3, <1>5, <1>6, <1>7
        DEF TicksView!TicksInit, TicksView!CircuitInit, TicksView!RateLimitInit

LEMMA NextTicks ==
    TypeInv /\ [Next]_vars => [TicksView!TicksNext]_(TicksView!ticksVars)
<1> SUFFICES ASSUME TypeInv, [Next]_vars
             PROVE  \/ TicksView!TicksNext
                    \/ UNCHANGED TicksView!ticksVars
  OBVIOUS
<1> USE DEF vars, fleetVars, files, watchVars
<1> DEFINE P == Pauses(breakers, now)
           T == Contents(buckets, now)
           Q == Ticked(part, now)
           D == Ticked(disk, now)
<1>a. AllSound /\ Shapes
  BY TypeInvIs
<1>b. /\ DOMAIN breakers = Radars /\ DOMAIN buckets = Radars
      /\ now \in Nat /\ radar \in [Workers -> Radars]
      /\ DOMAIN part.breakers = Radars /\ DOMAIN part.buckets = Radars
  BY <1>a DEF Shapes
<1>c. \A r \in Radars :
         /\ SoundBreaker(breakers[r], now) /\ P[r] = Ticking(breakers[r], now)
         /\ SoundBucket(r, buckets[r], now)
         /\ T[r] = Holding(r, buckets[r], now)
  BY <1>a DEF AllSound, RadarSound, Pauses, Contents
<1>d. /\ now' = now => (breakers' = breakers => P' = P)
      /\ now' = now => (buckets' = buckets => T' = T)
      /\ now' = now => (part' = part => Q' = Q)
      /\ now' = now => (disk' = disk => D' = D)
  OBVIOUS
<1>e. P' = P /\ T' = T /\ rated' = rated /\ Q' = Q /\ D' = D
      => UNCHANGED TicksView!ticksVars
  BY DEF TicksView!ticksVars, TicksView!files
<1>f. ASSUME NEW r \in Radars, NEW x, now' = now,
             breakers' = [breakers EXCEPT ![r] = x]
      PROVE  P' = [P EXCEPT ![r] = Ticking(x, now)]
  BY <1>b, <1>f DEF Pauses
<1>g. ASSUME NEW r \in Radars, NEW x, now' = now,
             buckets' = [buckets EXCEPT ![r] = x]
      PROVE  T' = [T EXCEPT ![r] = Holding(r, x, now)]
  BY <1>b, <1>g DEF Contents
<1>1. ASSUME NEW w \in Workers, NEW r \in Radars, Ensure(w, r)
      PROVE  TicksView!TicksNext \/ UNCHANGED TicksView!ticksVars
  <2>1. P' = P /\ Q' = Q /\ D' = D
    BY <1>1, <1>d DEF Ensure
  <2>2. CASE r \in rated
    <3>1. rated' = rated /\ T' = T
      BY <1>1, <2>2, <1>d DEF Ensure
    <3> QED BY <2>1, <3>1, <1>e
  <2>3. CASE r \notin rated
    <3>1. Holding(r, FullBucket(r, now), now) = Burst[r] * Unit
      BY <1>b, FullBucketSound, HoldingIs, RefilledNow DEF FullBucket
    <3>2. T' = [T EXCEPT ![r] = Burst[r] * Unit]
      BY <1>1, <2>3, <3>1, <1>g DEF Ensure
    <3>3. rated' = rated \union {r}
      BY <1>1 DEF Ensure
    <3> QED BY <2>1, <2>3, <3>2, <3>3
            DEF TicksView!TicksNext, TicksView!Build, TicksView!files
  <2> QED BY <2>2, <2>3
<1>2. ASSUME NEW w \in Workers, AskBreaker(w)
      PROVE  TicksView!TicksNext \/ UNCHANGED TicksView!ticksVars
  <2> DEFINE r == radar[w]
             b == HalfOpened(breakers[r], now)
  <2>1. T' = T /\ Q' = Q /\ D' = D /\ rated' = rated /\ now' = now
    BY <1>2, <1>d DEF AskBreaker
  <2>2. r \in Radars /\ SoundBreaker(b, now)
        /\ TicksView!Refreshed(P[r]) = Ticking(b, now)
    BY <1>b, <1>c, BreakerOps, HalfOpenedTicks
  <2> DEFINE c == Ticking(b, now)
  <2>3. c.state = b.state /\ c.probesLeft = b.probesLeft
    BY <2>2, <1>b, TickingIs
  <2>4. ASSUME NEW x, breakers' = [breakers EXCEPT ![r] = x]
        PROVE  P' = [P EXCEPT ![r] = Ticking(x, now)]
    BY <2>1, <2>2, <2>4, <1>f
  <2>5. b.probesLeft > 0 =>
           Ticking([b EXCEPT !.probesLeft = @ - 1], now) =
               [c EXCEPT !.probesLeft = @ - 1]
    BY <2>2, <1>b, ProbeTicks
  <2> HIDE DEF b, c, P
  <2>6. TicksView!Admit(r) \/ TicksView!Deny(r)
    <3> HIDE DEF r
    <3>1. CASE b.state = "closed" /\ breakers' = [breakers EXCEPT ![r] = b]
      BY <3>1, <2>2, <2>3, <2>4 DEF TicksView!Admit, P, c
    <3>2. CASE /\ b.state = "half_open" /\ b.probesLeft > 0
               /\ breakers' = [breakers EXCEPT ![r] =
                                  [b EXCEPT !.probesLeft = @ - 1]]
      <4>1. P' = [P EXCEPT ![r] = [c EXCEPT !.probesLeft = @ - 1]]
        BY <3>2, <2>4, <2>5
      <4> QED BY <3>2, <4>1, <2>2, <2>3 DEF TicksView!Admit, P, c
    <3>3. CASE /\ b.state = "open" \/ (b.state = "half_open" /\ b.probesLeft = 0)
               /\ breakers' = [breakers EXCEPT ![r] = b]
      BY <3>3, <2>2, <2>3, <2>4 DEF TicksView!Deny, P, c
    <3> QED BY <1>2, <3>1, <3>2, <3>3 DEF AskBreaker, b, r
  <2> QED BY <2>1, <2>2, <2>6
          DEF TicksView!TicksNext, TicksView!CallBreaker, TicksView!files
<1>3. ASSUME NEW w \in Workers, TakeToken(w)
      PROVE  TicksView!TicksNext \/ UNCHANGED TicksView!ticksVars
  <2> DEFINE r == radar[w]
             k == Refilled(r, buckets[r], now)
  <2>1. P' = P /\ Q' = Q /\ D' = D /\ rated' = rated /\ now' = now
    BY <1>3, <1>d DEF TakeToken
  <2>2. r \in Radars /\ SoundBucket(r, buckets[r], now) /\ T[r] = k.content
    BY <1>b, <1>c, HoldingIs
  <2>3. ASSUME NEW x, buckets' = [buckets EXCEPT ![r] = x]
        PROVE  T' = [T EXCEPT ![r] = Holding(r, x, now)]
    BY <2>1, <2>2, <2>3, <1>g
  <2>4. CASE /\ k.content >= Unit
             /\ buckets' = [buckets EXCEPT ![r] = [k EXCEPT !.content = @ - Unit]]
    <3>1. Holding(r, [k EXCEPT !.content = @ - Unit], now) = k.content - Unit
      BY <2>2, <2>4, <1>b, TokenTaken, HoldingIs
    <3>2. T' = [T EXCEPT ![r] = @ - Unit] /\ T[r] >= Unit
      BY <2>2, <2>3, <2>4, <3>1
    <3>3. TicksView!Take(r)
      BY <3>2 DEF TicksView!Take
    <3> QED BY <2>1, <2>2, <3>3
            DEF TicksView!TicksNext, TicksView!TakeOne, TicksView!files
  <2>5. CASE buckets' = [buckets EXCEPT ![r] = k]
    <3>1. Holding(r, k, now) = k.content
      BY <2>2, <1>b, RefilledSound, RefilledIs, RefilledNow, HoldingIs
    <3>2. T' = T
      BY <2>2, <2>3, <2>5, <3>1 DEF Contents
    <3> QED BY <2>1, <3>2, <1>e
  <2> QED BY <1>3, <2>4, <2>5 DEF TakeToken
<1>4. ASSUME NEW w \in Workers, Report(w)
      PROVE  TicksView!TicksNext \/ UNCHANGED TicksView!ticksVars
  <2> DEFINE r == radar[w]
  <2>1. T' = T /\ Q' = Q /\ D' = D /\ rated' = rated /\ now' = now
    BY <1>4, <1>d DEF Report
  <2>2. r \in Radars
    BY <1>b
  <2>3. ASSUME NEW x, breakers' = [breakers EXCEPT ![r] = x]
        PROVE  P' = [P EXCEPT ![r] = Ticking(x, now)]
    BY <2>1, <2>2, <2>3, <1>f
  <2>4. TicksView!Success(r) \/ TicksView!Failure(r)
    <3>1. CASE breakers' = [breakers EXCEPT ![r] = Succeeded(breakers[r])]
      <4>1. P' = [P EXCEPT ![r] = Ticking(Succeeded(breakers[r]), now)]
        BY <3>1, <2>3
      <4>2. Ticking(Succeeded(breakers[r]), now) = TicksView!NewBreaker
        BY <2>2, <1>b, <1>c, SucceededTicks
      <4> HIDE DEF r
      <4> QED BY <4>1, <4>2 DEF TicksView!Success
    <3>2. CASE breakers' = [breakers EXCEPT ![r] = Failed(breakers[r], now)]
      <4>1. P' = [P EXCEPT ![r] = Ticking(Failed(breakers[r], now), now)]
        BY <3>2, <2>3
      <4>2. Ticking(Failed(breakers[r], now), now) =
                TicksView!AfterFailure(P[r])
        BY <2>2, <1>b, <1>c, FailedTicks
      <4> HIDE DEF r
      <4> QED BY <4>1, <4>2 DEF TicksView!Failure
    <3> QED BY <1>4, <3>1, <3>2 DEF Report
  <2> QED BY <2>1, <2>2, <2>4
          DEF TicksView!TicksNext, TicksView!CallBreaker, TicksView!files
<1>5. ASSUME NEW r \in Radars, ReadBreaker(r)
      PROVE  TicksView!TicksNext \/ UNCHANGED TicksView!ticksVars
  <2> DEFINE b == HalfOpened(breakers[r], now)
  <2>1. /\ T' = T /\ D' = D /\ rated' = rated /\ now' = now
        /\ part.breakers[r] = NotRead
        /\ breakers' = [breakers EXCEPT ![r] = b]
        /\ part' = [part EXCEPT !.breakers[r] = b]
    BY <1>5, <1>d DEF ReadBreaker
  <2>2. TicksView!Refreshed(P[r]) = Ticking(b, now)
    BY <1>b, <1>c, HalfOpenedTicks
  <2> HIDE DEF b
  <2>3. P' = [P EXCEPT ![r] = Ticking(b, now)]
    BY <2>1, <1>f
  <2>4. Q.breakers[r] = NotRead
    BY <2>1 DEF Ticked, Pauses, Ticking
  <2>5. Q' = [Q EXCEPT !.breakers[r] = Ticking(b, now)]
    <3>1. /\ part'.breakers = [part.breakers EXCEPT ![r] = b]
          /\ part'.buckets = part.buckets
      BY <2>1, <1>a DEF Shapes
    <3>2. Pauses(part'.breakers, now) =
              [Pauses(part.breakers, now) EXCEPT ![r] = Ticking(b, now)]
      BY <3>1, <1>b, PauseReplaced
    <3> QED BY <2>1, <3>1, <3>2 DEF Ticked
  <2> HIDE DEF P, T, Q, D
  <2>6. TicksView!ReadBreaker(r)
    BY <2>1, <2>2, <2>3, <2>4, <2>5 DEF TicksView!ReadBreaker, P, T, Q, D
  <2> QED BY <2>6 DEF TicksView!TicksNext
<1>6. ASSUME NEW r \in Radars, ReadBucket(r)
      PROVE  TicksView!TicksNext \/ UNCHANGED TicksView!ticksVars
  <2>1. /\ P' = P /\ T' = T /\ D' = D /\ rated' = rated /\ now' = now
        /\ part.buckets[r] = NotRead
        /\ part' = [part EXCEPT !.buckets[r] = buckets[r]]
    BY <1>6, <1>d DEF ReadBucket
  <2>2. Q.tokens[r] = NotRead
    BY <2>1 DEF Ticked, Contents, Holding
  <2>3. Q' = [Q EXCEPT !.tokens[r] = T[r]]
    <3>1. /\ part'.buckets = [part.buckets EXCEPT ![r] = buckets[r]]
          /\ part'.breakers = part.breakers
      BY <2>1, <1>a DEF Shapes
    <3>2. Contents(part'.buckets, now) =
              [Contents(part.buckets, now) EXCEPT ![r] = T[r]]
      BY <3>1, <1>b, <1>c, ContentReplaced
    <3> HIDE DEF T
    <3> QED BY <2>1, <3>1, <3>2 DEF Ticked
  <2> HIDE DEF P, T, Q, D
  <2>4. TicksView!ReadBucket(r)
    BY <2>1, <2>2, <2>3 DEF TicksView!ReadBucket, P, T, Q, D
  <2> QED BY <2>4 DEF TicksView!TicksNext
<1>7. ASSUME Save
      PROVE  TicksView!TicksNext \/ UNCHANGED TicksView!ticksVars
  <2>1. /\ P' = P /\ T' = T /\ rated' = rated /\ now' = now
        /\ part # Nothing /\ Whole(part.buckets)
        /\ disk' = part \/ disk' = disk
        /\ part' = Nothing
    BY <1>7, <1>d DEF Save
  <2>2. D' = Q \/ D' = D
    BY <2>1
  <2>3. Q' = TicksView!Nothing
    BY <2>1 DEF Ticked, Nothing, TicksView!Nothing, Pauses, Contents, Ticking,
                Holding
  <2>4. \A r \in Radars : Q.breakers[r] # NotRead /\ Q.tokens[r] # NotRead
    <3> SUFFICES ASSUME NEW r \in Radars
                 PROVE  Q.breakers[r] # NotRead /\ Q.tokens[r] # NotRead
      OBVIOUS
    <3>1. part.buckets[r] # NotRead /\ part.breakers[r] # NotRead
      BY <2>1, <1>a DEF Shapes, ReadInOrder, Whole
    <3>2. /\ SoundBreaker(part.breakers[r], now)
          /\ SoundBucket(r, part.buckets[r], now)
      BY <3>1, <1>a DEF AllSound, RadarSound
    <3> QED BY <3>2, <1>b, TickingIs, HoldingIs DEF Ticked, Pauses, Contents
  <2> HIDE DEF P, T, Q, D
  <2>5. TicksView!Save
    BY <2>1, <2>2, <2>3, <2>4 DEF TicksView!Save, P, T, Q, D
  <2> QED BY <2>5 DEF TicksView!TicksNext
<1>8. ASSUME NEW r \in Radars, Public(r)
      PROVE  TicksView!TicksNext \/ UNCHANGED TicksView!ticksVars
  <2> DEFINE b == HalfOpened(breakers[r], now)
  <2>1. /\ T' = T /\ Q' = Q /\ D' = D /\ rated' = rated /\ now' = now
        /\ breakers' = [breakers EXCEPT ![r] = b]
    BY <1>8, <1>b, <1>d DEF Public
  <2>2. TicksView!Refreshed(P[r]) = Ticking(b, now)
    BY <1>b, <1>c, HalfOpenedTicks
  <2> HIDE DEF b
  <2>3. P' = [P EXCEPT ![r] = Ticking(b, now)]
    BY <2>1, <1>f
  <2>4. CASE P[r] = TicksView!Refreshed(P[r])
    <3>1. P' = P
      BY <2>2, <2>3, <2>4 DEF Pauses
    <3> QED BY <2>1, <3>1, <1>e
  <2>5. CASE P[r] # TicksView!Refreshed(P[r])
    <3>1. TicksView!Observe(r)
      BY <2>2, <2>3, <2>5 DEF TicksView!Observe
    <3> QED BY <2>1, <3>1
            DEF TicksView!TicksNext, TicksView!CallBreaker, TicksView!files
  <2> QED BY <2>4, <2>5
<1>9. ASSUME Restart
      PROVE  TicksView!TicksNext \/ UNCHANGED TicksView!ticksVars
  <2>1. /\ D' = D /\ rated' = {} /\ now' = now
        /\ breakers' = disk.breakers /\ buckets' = disk.buckets
        /\ part' = Nothing
    BY <1>9, <1>d DEF Restart
  <2>2. P' = D.breakers /\ T' = D.tokens
    BY <2>1 DEF Ticked
  <2>3. Q' = TicksView!Nothing
    BY <2>1 DEF Ticked, Nothing, TicksView!Nothing, Pauses, Contents, Ticking,
                Holding
  <2> HIDE DEF P, T, Q, D
  <2>4. TicksView!Restore
    BY <2>1, <2>2, <2>3 DEF TicksView!Restore, P, T, Q, D
  <2> QED BY <2>4 DEF TicksView!TicksNext
<1>10. ASSUME Elapse
      PROVE  TicksView!TicksNext \/ UNCHANGED TicksView!ticksVars
  <2>1. now' = now + 1 /\ UNCHANGED <<breakers, buckets, part, disk, rated>>
    BY <1>10 DEF Elapse
  <2>2. \A r \in Radars : /\ SoundBreaker(disk.breakers[r], now)
                          /\ SoundBucket(r, disk.buckets[r], now)
    BY <1>a DEF AllSound, RadarSound
  <2>3. P' = [r \in Radars |-> TicksView!Cooled(P[r])]
    BY <2>1, <1>b, <1>c, CooledTicks DEF Pauses
  <2>4. T' = [r \in Radars |-> TicksView!Refilled(r, T[r])]
    BY <2>1, <1>b, <1>c, HoldingLater DEF Contents
  <2>5. D' = [breakers |-> [r \in Radars |-> TicksView!Cooled(D.breakers[r])],
              tokens |-> [r \in Radars |->
                             TicksView!Refilled(r, D.tokens[r])]]
    BY <2>1, <2>2, <1>b, CooledTicks, HoldingLater
       DEF Ticked, Pauses, Contents
  <2>6. \A r \in Radars :
           /\ Ticking(part.breakers[r], now + 1) =
                 IF Q.breakers[r] = NotRead THEN NotRead
                 ELSE TicksView!Cooled(Q.breakers[r])
           /\ Holding(r, part.buckets[r], now + 1) =
                 IF Q.tokens[r] = NotRead THEN NotRead
                 ELSE TicksView!Refilled(r, Q.tokens[r])
    <3> SUFFICES ASSUME NEW r \in Radars
                 PROVE  /\ Ticking(part.breakers[r], now + 1) =
                              IF Q.breakers[r] = NotRead THEN NotRead
                              ELSE TicksView!Cooled(Q.breakers[r])
                        /\ Holding(r, part.buckets[r], now + 1) =
                              IF Q.tokens[r] = NotRead THEN NotRead
                              ELSE TicksView!Refilled(r, Q.tokens[r])
      OBVIOUS
    <3>1. /\ Q.breakers[r] = Ticking(part.breakers[r], now)
          /\ Q.tokens[r] = Holding(r, part.buckets[r], now)
      BY DEF Ticked, Pauses, Contents
    <3>2. \A t : /\ Ticking(NotRead, t) = NotRead
                 /\ Holding(r, NotRead, t) = NotRead
      BY DEF Ticking, Holding
    <3>3. part.breakers[r] # NotRead =>
             /\ Q.breakers[r] # NotRead
             /\ Ticking(part.breakers[r], now + 1) =
                   TicksView!Cooled(Q.breakers[r])
      BY <3>1, <1>a, <1>b, CooledTicks, TickingIs DEF AllSound, RadarSound
    <3>4. part.buckets[r] # NotRead =>
             /\ Q.tokens[r] # NotRead
             /\ Holding(r, part.buckets[r], now + 1) =
                   TicksView!Refilled(r, Q.tokens[r])
      BY <3>1, <1>a, <1>b, HoldingLater, HoldingIs DEF AllSound, RadarSound
    <3> HIDE DEF Q
    <3> QED BY <3>1, <3>2, <3>3, <3>4
  <2>7. Q' = [breakers |-> [r \in Radars |->
                  IF Q.breakers[r] = NotRead THEN NotRead
                  ELSE TicksView!Cooled(Q.breakers[r])],
              tokens |-> [r \in Radars |->
                  IF Q.tokens[r] = NotRead THEN NotRead
                  ELSE TicksView!Refilled(r, Q.tokens[r])]]
    <3>1. Q' = [breakers |-> [r \in Radars |->
                                Ticking(part.breakers[r], now + 1)],
                tokens |-> [r \in Radars |->
                                Holding(r, part.buckets[r], now + 1)]]
      BY <2>1 DEF Ticked, Pauses, Contents
    <3> HIDE DEF Q
    <3> QED BY <3>1, <2>6
  <2> HIDE DEF P, T, Q, D
  <2>8. TicksView!Tick
    BY <2>1, <2>3, <2>4, <2>5, <2>7
       DEF TicksView!Tick, TicksView!CircuitElapse, TicksView!RateLimitElapse,
           P, T, Q, D
  <2> QED BY <2>8 DEF TicksView!TicksNext
<1>11. ASSUME WatchAnew
      PROVE  TicksView!TicksNext \/ UNCHANGED TicksView!ticksVars
  BY <1>11, <1>d, <1>e DEF WatchAnew
<1>12. CASE UNCHANGED vars
  BY <1>12, <1>d, <1>e
<1> QED BY <1>1, <1>2, <1>3, <1>4, <1>5, <1>6, <1>7, <1>8, <1>9, <1>10, <1>11,
           <1>12 DEF Next

(* A gate that stores points in time and is brought up to date when it is  *)
(* passed behaves as one that runs with the clock: every Allow, Take,      *)
(* Success, Failure, snapshot and restart is the same operation of Circuit *)
(* or RateLimit, and a tick is a tick, for any rates, bursts and pauses.   *)
THEOREM GatesTick == Spec => ImplementsTicks
BY InitTyped, NextTyped, InitTicks, NextTicks, PTL
   DEF Spec, ImplementsTicks, TicksView!TicksSpec
=============================================================================
