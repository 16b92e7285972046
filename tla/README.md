# A verification of adsbhub

adsbhub takes signed ADS-B reports from stations and forwards each of them to
the radars (feeders) that match its kind, with retries, a circuit breaker and a
token bucket per radar, a dead-letter queue, and replay.  This directory holds
TLA+ models of that machinery, what TLC checks of them, and what TLAPS proves.

## 1. The system

| Part (package) | State it keeps | Operations | What makes it correct |
|---|---|---|---|
| `radar` registry | radars with URL, secret, prefixes, limits, Enabled | Create, Get, SetEnabled, Matching, Restore | a report goes to the radars enabled and matching when it was accepted |
| `accept`, `route` | none of their own | Handle: signature, nonce, idempotency, match, fan out, enqueue | a report is accepted once per key and per nonce; an accepted report has all its forwards queued |
| `nonce`, `idempotency` | records with an expiry | CheckAndRemember, Remember, gc | no nonce succeeds twice inside its window; same key and body give the first report id |
| `queue` broker | per radar a heap of jobs and a lease count | Ensure, Enqueue, Lease, Release, Snapshot, Restore | jobs neither lost nor doubled; limits on jobs in flight |
| `worker` engine | none; each goroutine one job | tick: Lease, handle, Release | every job it leases is delivered, put back, or buried |
| `circuit` | state, failures, openedAt, probesLeft | Allow, Success, Failure, Snapshot, Restore | it opens at the threshold and recovers |
| `ratelimit` | tokens, lastTime | Take, Snapshot, Restore | at most burst + rate * t POSTs in a time t |
| `runtime` gates | a breaker and a bucket per radar | Ensure, Breaker, Bucket, Snapshot, Restore | one breaker and one bucket per radar |
| `dlq`, `journal` | bounded lists | Push, Get, Remove; Append, Get | what is settled can be found and replayed |
| `replay`, `app.Replay` | none | a new job from a dead letter or an entry | an operator's replay sends a forward again once |
| `store`, `app` | the snapshot file | Capture and Save every 5 s, Apply at start | a restart resumes what was accepted |
| `sign`, `headers`, `station`, `hashutil` | station keys | Verify, ParseInbound | only fresh signed reports pass |
| `report`, `beast`, `altitude`, `squawk`, `icao` | none | parsing | fields are decoded as documented |
| `httpapi`, `main` | none | handlers; start and stop | errors map to codes; stop loses nothing |
| `cpr`, `geo`, `callsign`, `redact`, `sink`, `web`, `config` | recent reports of the sink | conversion, display, demo receiver | not relevant to the state |

Interaction.  HTTP handlers, the worker goroutines (4 by default, each with a
25 ms ticker) and the snapshot loop run concurrently.  They share the
components above, each behind a mutex of its own; no lock spans two
components.  A worker's `handle` is therefore a sequence of atomic calls --
registry, breaker, bucket, HTTP, journal, breaker, queue or dead letters,
journal, queue -- and anything may happen between two of them.

Hard behaviours: reports to a breaker that arrive after it changed state; a
probe that is spent and not reported; requeue before release; radars switched
off with jobs under way; limits at their edge; loops that use up no attempt;
a snapshot that is no consistent cut; crash between an acknowledgement and the
save; two operators replaying one forward; nonce and timestamp windows.
`PROJECT.json` lists each at its line.

## 2. Plan

| Order | Module | Question | State |
|---|---|---|---|
| 1 | `Fleet`, `Circuit`, `RateLimit`, `Broker`, `Dlq` | the components, each with its operations | done |
| 2 | `Delivery` over all of them, `ForwardLifecycle` above it | is any forward lost, doubled, posted too often, stuck | done |
| 3 | `CircuitProofs`, `DeliveryProofs` | types, coherence, pauses, leases, probes | done |
| 4 | `NonceBook`, `Idempotency`, and `Accept` over them | is a message accepted once, whatever the network does | done |
| 5 | `AcceptProofs` | once per message, key and nonce | done |
| 6 | `Journal`, and `Replay` over it and `Dlq` | does a replay add one forward and lose no letter; what remains replayable | done |
| 7 | `Altitude`, `Beast` over it, `BeastProofs` | are altitudes decoded as documented | done |
| 8 | `Stamps`, `Gates` over it, `Ticks` above it | what the gates let through over any time, restarts included; what strands a breaker; is catching up on a call as good as running with the clock | done |
| 9 | `Hub` above `Delivery` and `Replay`; `Classify`, and `Durability` over both | what a save beside a running hub, a crash or a stop loses or doubles | done |
| 10 | `GatesProofs`, `DurabilityProofs` | rate bound, stranding, the refinement of `Ticks`; consistent cuts | done |
| 11 | `LifeProofs`, `ReplayProofs` | conservation, journal, attempts and letters; replays; the refinements of `ForwardLifecycle` and `Hub` | done |

`Delivery` composes the components of 1, `Replay` its letters and journal.
`Durability` is over `Hub`, an abstraction that `Delivery` and `Replay` are shown
to implement, so that the saver's interleavings need not be multiplied with the
workers' and the operators'.  `Ticks` composes `Circuit` and `RateLimit` as
`Delivery` has them; `Gates`, with the records the code stores, is shown to
implement it.  No module uses RECURSIVE.

## 3. The modules

Each component module declares its own variable and constants, and one
operator per method; `Delivery` extends them all, so that one of its actions
is a conjunction of component operators, the worker's program counter and
UNCHANGED.

* `Fleet` -- radars, forwards, jobs, the registry's Enabled flags.  A forward
  is the number of its creation and stands for its id and its CreatedAt.
* `Circuit` -- `internal/circuit`.  `Refreshed` is `maybeHalfOpenLocked`,
  `Admit` and `Deny` the two answers of `Allow`, `Observe` the refresh that
  reading a breaker causes.  `cool` is what is left of OpenFor.
* `RateLimit` -- `internal/ratelimit` in whole units, refilled with every tick.
  That neither this nor `cool` is how the code stores it is the business of
  `Gates`.
* `Broker` -- `internal/queue`.  `Leasable` is the choice `Lease` makes: a due
  head, of a radar with room, due no later than any other.
* `Dlq` -- `internal/dlq`'s Push, Get and Remove.  `buried` is a history
  variable.
* `Delivery` -- `internal/worker`, with the end of `accept.Handle`.  `pc[w]` is
  the call a worker makes next:

  | pc | action | code |
  |---|---|---|
  | idle | `LeaseJob` | worker.go:67 |
  | lookup | `LookUp` | worker.go:76-81 |
  | allow | `AskBreaker` | worker.go:82-90 |
  | take | `TakeToken` | worker.go:91-99 |
  | posting | `PostReturns` | worker.go:100-115, feeder.go:83 |
  | report | `Report` | worker.go:117-136 |
  | requeue | `Requeue` | worker.go:87, 94, 130 |
  | bury | `Bury` | worker.go:78, 124, 133 |
  | release | `Finish` | the entry after a burial, and the deferred Release, worker.go:71 |

  `posts` is a history variable: the POSTs the feeder saw for a forward.
  `planned` holds jobs an HTTP handler has built and not yet enqueued.
* `ForwardLifecycle` -- what the hub promises about a forward: absent,
  waiting, trying, delivered, dead, and how often it may try.
* `NonceBook` -- `internal/nonce`: per nonce the time its record has left.
* `Idempotency` -- `internal/idempotency`: per key the body, the report and the
  time left.
* `Accept` -- `internal/accept`, as many HTTP handlers as there are requests at
  a time.  `pc[h]` is the call a handler makes next:

  | pc | action | code |
  |---|---|---|
  | idle | `Receive` | accept.go:43-71, sign.go:65, headers.go:31 |
  | nonce | `CheckNonce` | accept.go:72-74 |
  | remember | `MakeReport`, `AnswerFromRecord` | accept.go:75-87 |
  | match | `Match` | accept.go:88-89, radar.go:234 |
  | enqueue | `EnqueueFor`, `AnswerAccepted` | accept.go:91-113 |
  | answered | `Return` | httpapi.go:150-155 |

  A message is what a station sent -- body, nonce, timestamp, key -- and the
  network delivers it unchanged, at any time, any number of times, to any
  handler.  `origin`, `age`, `plan` and `filed` are history variables about
  the reports.  `Accept` ends where `Delivery` begins: a filed forward is a job
  in the broker.
* `Journal` -- `internal/journal`'s Append and Get.  Of an entry the forward is
  kept and whether it is a success.
* `Replay` -- `App.Replay` by concurrent operators.  `pc[o]` is the call an
  operator makes next:

  | pc | action | code |
  |---|---|---|
  | idle | `FindLetter` | app.go:157-161, replay.go:30 |
  | journal | `FindEntry` | app.go:171-178, replay.go:13 |
  | enqueue, enqueue_only | `EnqueueReplay` | app.go:167, 184 |
  | remove | `RemoveLetter` | app.go:168 |

  The delivery engine is in it as far as it touches the queue, the letters and
  the journal; in its own steps: handle (`TurnAway`, or `Post` with its journal
  entry), then `Requeue` or `Bury`, then `TrailingNote` where nothing was
  journaled before.  Unlike in `Delivery`, postponed jobs are journaled
  (`skipped_open`, `rate_delayed`): they fill the journal too.
* `Stamps` -- a breaker and a bucket as the code stores them, with `openedAt` and
  `lastTime`: `HalfOpened` is `maybeHalfOpenLocked`, `Failed`, `Succeeded` and
  `Tripped` the reports, `Refilled` the first half of `Take`.
* `Gates` -- `internal/runtime` over `Stamps`: of a worker only its way past the
  gates.  With a tick nothing changes but the clock (`Elapse`).

  | action | code |
  |---|---|
  | `Ensure` | runtime.go:39, worker.go:82 |
  | `AskBreaker` | circuit.go:72, worker.go:84 |
  | `TakeToken` | ratelimit.go:38, worker.go:91 |
  | `Report` | circuit.go:98, 106, worker.go:117-136 |
  | `ReadBreaker`, `ReadBucket` | Snapshot, one lock after the other, runtime.go:87-92 |
  | `Public` | runtime.go:111 |
  | `Save` | store.go:45 |
  | `Restart` | Restore in a new process, runtime.go:96 |

  `Locked` is `Gates.mu`, which a snapshot holds from its first read to its last.
  `span`, `given` and `restarts` are history variables: a watch that may begin
  at any time (`WatchAnew`) and the POSTs and restarts since.  `swallowed` are
  the radars a probe was lost for.
* `Ticks` -- the same gates by ticks: any operation of `Circuit` and `RateLimit` at
  any time, snapshots that age as memory does, restarts.  `Gates!TicksView` is the
  refinement mapping: a breaker's `cool` is what is left of OpenFor since
  `openedAt`, a bucket's content what `Take` would find.
* `Hub` -- the hub as a snapshot sees it: the forwards planned, queued, leased,
  delivered, dead, and those that lists have pushed out.  `Delivery!HubView` and
  `Replay!HubView` are the refinement mappings; in `Replay` a replay that is
  built and not yet enqueued is planned, and `AcceptForward` is `File`.
* `Classify` -- `internal/classify`: statuses and errors, and what is made of
  them.
* `Durability` -- `Hub` with the saver beside it.  `saver` is what
  `App.snapshotLoop` does next:

  | saver | action | code |
  |---|---|---|
  | idle | `StartSave` | app.go:135-147 |
  | journal, letters, queue | `CaptureNext` | store.go:88-97 |
  | write | `WriteFile` | store.go:45-58 |

  and of the process: `Stop` (the signal), `HubGoesOn` with POSTs that may now be
  cancelled, `Restart` (a crash, or the end of `main`, then `app.New` from the
  file).  Restarts happen at any time.  `rest` and `result` are history variables:
  where a forward has stayed since the save began, and what its last POST came to.
* `Altitude`, `Beast` -- the altitude codes as functions of a frame's twelve
  bits, and what of a Beast frame reaches the report (`beast.Parse`,
  `report.fromBeast`).  `GillhamField` is the reference, and not from the
  repository: Gillham's code from ICAO Annex 10, five hundreds of feet as a Gray
  code in D, A and B, the hundreds within them in C.
* `MCDelivery`, `MCAccept`, `MCReplay`, `MCGates`, `MCDurability` -- values for
  TLC.
* `CircuitProofs`, `DeliveryProofs`, `LifeProofs`, `AcceptProofs`,
  `ReplayProofs`, `GatesProofs`, `DurabilityProofs`, `BeastProofs` -- theorems.

Definitions whose comment begins with "A broken variant" are mistakes a
programmer could make, kept beside the definition they deform: each property
of section 4 is violated when the right one replaces its original.

Time.  But for `Gates`, where they are points in time as in the code, deadlines
are relative: `notBefore` is the time until a job is due,
`cool` the rest of an open breaker's pause, and `Elapse` moves all of them by
one tick.  Once jobs are due the code only compares their deadlines with each
other, so a tick keeps the order of due jobs and forgets the distance
(`Fleet!Aged`).  There is no horizon: behaviours are infinite, as liveness
needs.  In `Accept` a tick is a second: timestamps are compared in whole seconds
(sign.go:76), and `stamp` is a message's timestamp less the clock, no longer
told apart once it is older than the window.

Abstractions.  Payloads, URLs, secrets and headers are left out.  A heap is a
set and pop takes a least element.  Gates and queues exist from the start:
`Ensure` creates them on first use from settings that never change, and a
fresh one is as good as an untouched one.  The registry has no removal, so
`Get` always finds the radar.  Journal entries are kept as the set of verdicts
per forward; the entries `skipped_open` and `rate_delayed` are not kept.
Reading the clock to compute a deadline and the call before it are one step; a
deadline may age before its job is enqueued.  The journal entry of a burial and
the deferred release are one step, as no other step reads both.  A body hash is
the body.  Header syntax, HMAC and JSON are one set of messages (`Bad`) that
fail.  The station keys never change while the hub runs (`station.Put` has no
caller).

## 4. What TLC checks

| Run | Instance | Properties | Shows |
|---|---|---|---|
| `delivery` | 1 radar, 2 workers (symmetric), 2 forwards, 2 attempts, breaker trips at once, half a token per tick, dead letters capped at 1 | `TypeOK`, `Conservation`, `AttemptBudget`, `BreakerCoherent`, `SettledIsJournaled`, `DlqForgetsTheOldest`, `OpenPauseIsKept`, `ImplementsLifecycle`, `ImplementsHub` | no interleaving loses or doubles a forward, posts it too often, or leaves the life cycle; no letter goes but the oldest of a full queue |
| `provisioned` | a slow, ordered radar and one with a token for every worker and probe; 2 workers, 2 forwards, 1 attempt | `LeasesAreWorkers`, `ProbeIsOwed`, `ForwardsSettle` | leases are the workers, at most one on the ordered radar; a half-open breaker has someone to hear from; every forward of the well-provisioned radar settles |
| `shared` | 1 worker, a slow radar and a well-provisioned one, 2 attempts | `ForwardsSettle` | a stuck radar does not take the others down, retries included |
| `gates` | 1 radar, 2 workers (symmetric), threshold 2, 2 probes, a pause of 2 ticks, half a token per tick, burst 1; 3 ticks, watches of 2 ticks and 1 restart | `GatesTypeOK`, `RateBound`, `StrandedByLossOnly`, `ImplementsTicks` | a burst and the rate bound what is let through, and a burst more per restart; only a lost probe strands a breaker; stored times do what running clocks do |
| `accept_keys` | 2 handlers (symmetric), a message, another body under its key, another key with its nonce; window 2, lifetime 6 | `AcceptTypeOK`, `SignedOnce`, `AnswersAreTrue`, `OncePerKey`, `NonceHeldAWindow` | one report per message and key, a nonce held for a window, and true answers |
| `accept_replays` | 2 handlers, a message, its retry, one that is not valid; 2 radars that are switched at any time | `AnswersAreTrue`, `ReplaysAreFiled` | a report that a station was told of gets its forwards |
| `replay` | 2 operators and 1 worker, 3 forwards, 1 attempt, 2 letters, 2 journal entries | `ReplayTypeOK`, `ReplaysAreForwards`, `AnsweredLettersAreGone`, `ReplaysStartAfresh`, `FailedCanBeReplayed`, `LettersAreKept`, `ImplementsHub` | a replay is one more forward; no letter is lost, or found after it was answered; what is evicted from the letters is in the journal for its length; a snapshot sees nothing that `Hub` does not do |
| `durability` | 2 forwards; answers 204, 404, 503, a timeout and a cancelled POST | `NeverDoubled`, `RestSurvives` | a snapshot read part by part doubles nothing and keeps what was at rest |
| `shutdown` | the same | `TerminalWasRefused`, violated | the third finding of section 6 |
| `reused_nonce` | 1 handler, a message and another key with its nonce; window 2, lifetime 6 | `NonceOnceInWindow`, violated | the fourth finding of section 6 |
| `gillham` | every twelve-bit field, 3 formats, 4 type codes around the limits, both lengths | `GillhamIsDecoded`, violated | the second finding of section 6 |
| `slow_bucket` | 1 radar with a third of a token per tick, 1 worker, 1 forward | `EmptyBucketOnlyDelays`, violated | the first finding of section 6 |

Bounds.  In `Delivery`, `MaxForwards` is the only bound on a behaviour: forwards
are created at most that often, everything else is bounded by the code.  Two workers and
two forwards on one radar are the least with which reports overtake each
other: one forward's late answer meets the other's probe, one is requeued
while the other is leased, both are buried and one evicted.  A breaker that
opens for one tick and a back-off of at most one tick bring every state of the
breaker together with every step of a worker, since a worker may rest at any
step for any number of ticks.  Dead letters are capped at one (200 in the code)
so that eviction happens.

In `Gates` two probes are the least with which one is given out while another is
lost, and a threshold of two the least that a late report can miss.  `MaxTime`
bounds the clock, which never comes back: three ticks are a pause from a trip at
once, or after one tick, and time to refill half a bucket before and after.  The
watch begins anew at any time, so that `MaxSpan` and `MaxRestarts` bound its
length and not the behaviour before it.

In `Accept`, `MaxHandling` is the time from a handler's window check to its
lookup of the key, and `MaxAhead` how far ahead of the clock a timestamp may be
at the start: in `accept_keys` it is one tick beyond the window, so that a message
must wait to enter it, stays for all of it and may be replayed after its nonce
was forgotten.  `accept_replays` asks about a report's forwards, for which
timestamps do not matter; there they are none ahead.  `MaxReports` is no less than
what the messages of either run can be made into.  The lifetimes are small, but
`RecordsOutliveMessages` holds of them.

`Beast` has every field; it stops once the frame is parsed, so that deadlock is
not checked there.  For `reused_nonce` one handler is enough: two messages dated
ahead are handled one after the other.

In `Replay` three forwards are the least for what can go wrong: two operators on
one letter make two more, and a replay that dies meets the letter of another
forward.  Two letters are the least of which a removal might take the wrong one,
and two journal entries the least of which one can be pushed out by another that
is not the last.

In `Durability` two forwards let one move on between two reads while another
takes its place.  Results are one of each kind that the code tells apart, and
the cancelled POST that it does not.

Fairness (`FairSpec`).  Each worker leases while it can and goes on with its
job: goroutines are scheduled, their tickers fire, and a POST returns by the
client's timeout.  A handler enqueues what it planned.  Time passes.  Nothing
is assumed of operators, stations or of what a feeder answers.  In `Accept` a
handler, once called, goes on until it has answered: it waits for nothing but
mutexes that are held for a moment.  Messages need not arrive nor radars be
switched, and `ReplaysAreFiled` does not need the clock.

`ForwardsSettle` and `ProbeIsOwed` speak of `WellProvisioned` radars: by the
time the breaker half-opens the bucket holds a token for each worker and each
probe.  The default settings (5 tokens, 5 per second, 4 workers, 1 probe, 30 s)
satisfy it.  Without it they fail, see section 6.

## 5. What is proved

From the named assumptions on the constants only, for any sets of radars and
workers and any settings:

* `TypesHold`, `BreakersStayCoherent`: `Spec => []TypeOK`, `[]BreakerCoherent`.
  The type alone is not inductive: `failures` stays within its bound only
  because a closed breaker is below the threshold, which is coherence.
  `TypeInv`, the two together, is (`NextTyped`), one step per action, from the
  lemmas on each component's operators; `CircuitStepKeeps` says it of the
  breaker alone.
* `LeaseSafety`: `Spec => []LeasesAreWorkers`.  The broker counts a lease where
  the job came from and returns it where the job says it belongs; that these
  are one radar is `FiledByRadar`, so that `LeaseInv` is both.  The finite set
  of a radar's workers grows by `LeaseJob`, shrinks by `Finish` and is left
  alone by all else (`WorkerGoesOn`, `LeasesUndisturbed`).
* `ConservationHolds`: `Spec => []Conservation`.  It is inductive with `TypeInv`
  and `LeaseInv`: every step leaves each forward where it is (`AllStay`) or
  moves one of them, to its queue (`JoinsQueue`), to a worker (`LeaseMoves`) or
  from one (`HandsOver`).  That copies do not multiply needs the place to be
  one: a job put back meets no second copy because a held forward is not
  queued.
* `PausesAreKept`: `Spec => OpenPauseIsKept`.  By cases on the step: a pausing
  breaker is a fixed point of refreshing and of counting a failure, admits
  nobody, and cools without leaving its state; only a success is left.

* `ProbesAreOwed`: `Spec => []ProbeIsOwed`.  A radar that refills a token for
  each worker and each probe while its breaker pauses holds, at any time of the
  pause, what is missing but for the refills to come (`Enough`); once the breaker is
  half-open, a token for every worker that was admitted and has not taken one
  (`Takers`) and for every probe left.  An admission turns a probe into a
  taker, a token taken ends one, a tick and a refresh keep the balance, and a
  trip starts it again.  So no admitted worker meets an empty bucket while the
  breaker is half-open, and the last probe's worker stays until it reports.
* `BurialsAreJournaled`, `AttemptsAreCounted`, `LettersAreKept` (`LifeProofs`).
  A buried forward has its entry, or a worker that still owes it one; a terminal
  answer's was written before the burial (`JournalInv`).  Every copy of a forward
  -- planned, queued, held, dead -- knows its POSTs, and a worker knows what its
  step implies of them (`BudgetInv`).  `LettersAreKept` is
  `Spec => DlqForgetsTheOldest`, about steps: a burial appends its letter, and the
  queue was at its cap if another one went, which then was the first
  (`LettersAge`).  It rests on `LettersInv`: the letters are the burials up to the
  cap, each of its own forward, so that counting both gives the same.
* `EngineIsTheHub`: `Spec => ImplementsHub`, and `ForwardsLiveTheirLife`:
  `Spec => ImplementsLifecycle`.  Both refinements by one lemma: a step leaves all
  forwards where they are or moves one of them from one place to another.  What
  the hub shows and the life of a forward are functions of these places, of the
  letters and of whether a POST is under way.

* `AcceptTyped`, `KeysAreKept`, `MessagesOnce`, `NoncesAreKept`: the pipeline
  accepts a message once, for any handlers, messages and settings.  The argument has
  three layers.  `KeyInv`: a report younger than TTL has a live record under
  its key, with as much time left as it has to TTL, so a second report under
  the key finds the first one TTL old (`OncePerKey`).  `MessageInv`: a message
  whose timestamp can still pass, or that a handler has already let pass, was
  made into a report at most `2 * Window + MaxHandling` ago; by
  `RecordsOutliveMessages` that record lives, and the message is answered from
  it (`SignedOnce`).  The nonce book alone does not give this: a nonce lives one
  window, a timestamp dated ahead passes for up to two.  `NonceInv`: while a
  report is younger than the window less a handler's time its nonce is in the
  book, and no other handler is past the book with it (`NonceHeldAWindow`).  That
  is what the book gives; what PROJECT.md:47 says is more, and does not hold
  (`reused_nonce`, section 6).
* `StationsAreToldTheTruth`: `Spec => []AnswersAreTrue`.  Until it is answered
  a report belongs to the one handler that made it, which alone changes what is
  planned and filed for it (`Owns`, `AnswerInv`); an answer from a record tells of
  the report in the record, and that the record is of this key and body is `KeyInv`.

* `GatesTyped`, `RatesAreKept`, `OnlyLossStrands` (`GatesProofs`).  `RateBound` is
  not inductive: what bounds the POSTs is what `Take` would find in the bucket now.
  `FundsInv` is: POSTs paid and content never exceed the bursts and refills; until
  `Ensure` has built the bucket after a restart, the burst of that restart is not
  yet spent, whatever content was restored.  `StrandedByLossOnly` is inductive with
  the types (`TypeInv`): every breaker, in memory, in a running snapshot and in
  the file, is coherent, no stamp is in the future, and a snapshot has read
  every breaker before any bucket.
* `GatesTick`: `Spec => ImplementsTicks`.  Breakers and buckets that are brought up
  to date when they are called do what those do that run with the clock, which is
  what `Delivery` and its theorems have.  Operation by operation the record the
  code stores becomes the record by ticks (`HalfOpenedTicks`, `FailedTicks`, ...).
  The one step in which nothing stored changes, `Elapse`, is the one in which all
  of `Ticks` does: the pause gets shorter (`CooledTicks`), and to refill once,
  with the cap, is to refill at every tick with the cap (`RefilledLater`).
* `NothingIsDoubled`, `WhatRestedSurvives` (`DurabilityProofs`).  `CutInv`: the
  parts read so far are disjoint, from each other and from what can still be
  read.  It is because journal and letters are read before the queue: what was
  read as delivered or dead is settled, nothing brings it back to a queue
  (`Settled`).  `RestInv` adds that a forward at rest for all of the save is, in
  the parts already read, where it rests.
* `ReplaysTyped`, `ReplaysAreNewForwards`, `ReplayedLettersAreGone`,
  `NoLetterIsLost`, `ReplaysHaveAllAttempts`, `FailuresStayInTheJournal`
  (`ReplayProofs`).  Places again: a step moves one forward or none, with
  operators' hands as one more place.  A forward is buried once, so it has one
  letter at most, and what an operator has found is buried, so that once its letter
  is removed none appears again (`LettersInv`).  Copies count their own POSTs
  (`AttemptsInv`).  The last entry of a failed forward is `later[f]` from the end
  of the journal (`NotesInv`).  That `Get` finds the last entry and `Remove` the
  first letter needs a least and a greatest index, from the well-founded order
  of the naturals.

* `ReplaysAreTheHub`: `Replay!Spec => ImplementsHub`.  A step takes something into a
  hand, passes it on or lets go of it (`InHandAt`), and a bounded list gains an entry
  and may drop its oldest; each of these is one step of `Hub`.  With
  `EngineIsTheHub` it is what lets `Durability` speak of a hub with workers,
  handlers and operators while it has none of them.
* `GrayIsUndone`, `TwentyFiveFeetDecode`, `NoTwoReadAlike` (`BeastProofs`), by
  algebra and not by trying the 4096 fields.  A number is its bits
  (`BitsOfNumber`), an exclusive-or of numbers is one of bits, so that the decoder's
  shifts make each bit the parity of those above it (`GrayIsParity`), and that
  undoes Gray's code.  A frame with the Q bit is reported at the altitude whose
  25-ft code it carries.  Of the fields without it the decoder loses no bit: no two
  are read as one altitude.  That each is read as the right one is what `gillham`
  refutes.

The assumptions: `MaxForwardsAssumption`, `CircuitAssumption`,
`RateLimitAssumption`, `BrokerAssumption`, `DlqAssumption`, `DeliveryAssumption`,
`JournalAssumption`, `ReplayAssumption`, `StampsAssumption`, `GatesAssumption`,
`NotReadAssumption`, `HubAssumption` and `DurabilityAssumption` -- thresholds, attempts, delays and caps positive, finitely
many workers, markers that are no values.  They are what config and the
constructors enforce, and each run evaluates those of its modules.  In `Accept`
they are `WindowAssumption`, `IdempotencyAssumption`, `NoRecordAssumption`,
`AcceptAssumption` -- positive times, markers that are no values -- and
`RecordsOutliveMessages`, the one that config does not enforce: the defaults are
24 hours against twice 5 minutes, but both are set independently
(ADSBHUB_IDEM_TTL_SEC, ADSBHUB_WINDOW_SEC).

Every invariant, action property and refinement of the passing runs is proved.
`BeastProofs` stands beside a violated property and proves what is right there.
Out of the prover's reach, and checked by TLC only, is liveness: `ForwardsSettle`,
`ReplaysAreFiled`, and the counterexample of `slow_bucket`.

## 6. Findings

`slow_bucket`: a half-open breaker's probe is lost when the bucket is empty.
`handle` asks the breaker first and the bucket second (worker.go:84-97).  The
admission uses up the probe, the empty bucket sends the job back, and the
breaker is told nothing.  It stays half-open without probes; it leaves that
state on a report only, and admits nobody who could make one.  Every forward of
the radar is then skipped every 200 ms for ever.  It needs a bucket that
has not refilled a token while the breaker was open -- a rate below one per
OpenFor, or other workers taking the tokens first.  PROJECT.md:72 says that an
empty bucket delays.

`gillham`: altitudes in Gillham's code are reported wrong.  altitude.go:1 says
that the package decodes Gillham.  In that code D, A and B make a Gray code of the
500-ft steps and C1 C2 C4 the hundreds within a step, backwards in every other
one.  `Gillham` gives the C bits to the 500-ft group and D2 D4 to the 100-ft group
(altitude.go:32-33).  The run shows -1200 ft, C4 alone, reported as 14500 ft; -1000 ft,
C2 alone, comes out as 62500.  The limits of altitude.go:35 are those of the real
code.  Frames with the Q bit are not touched by it.

`shutdown`: a stop dead-letters what it interrupts.  The end of the context
cancels POSTs under way; `context.Canceled` is no timeout and none of the errno
values that `NetError` knows, so it is terminal (classify.go:75), and the worker
pushes the forward on the dead-letter queue as "terminal http status"
(worker.go:131-133) on its first attempt.  PROJECT.md:66 says that terminal are
other 4xx.  Unlike a crash, which loses such a forward, the stop leaves it to an
operator's replay.

`reused_nonce`: a nonce succeeds twice inside the window.  PROJECT.md:47 says that
it cannot.  The book keeps a nonce for one window from its use (nonce.go:48); a
timestamp that is ahead of the clock passes for up to two (sign.go:76).  Two
messages dated ahead, with one nonce and different keys, make two reports while
both timestamps are strictly inside the window.  The same message sent again does
not: its key is remembered for longer (`SignedOnce`).

## 7. Not modelled

What a restart loses.  `RestSurvives` says what it keeps.  A forward on the move
while the file is made is in no part of it: leased, or built and not yet queued.
A forward that moves between two reads is missed.  What happened after the last
save is undone: a delivered forward that the file has in the queue is posted
again, a letter that was replayed may come back.  The code offers at least once
for what was at rest and nothing for the rest, and no document promises more.

Idempotency, nonces, registry and station keys are saved and restored too, as
copies.  `Accept` has no restart: keys and jobs are read at different times, so
that a retry after a restart may be answered from a record whose forwards
are lost, or accepted once more beside forwards that were kept.

The registry's radars are a constant: `Create` and the reading of settings are
input, `RotateSecret` and `Put` have no caller.  Kind matching is a table of the
bodies a radar is interested in; the JSON form of a report is validation without
state.  `squawk.FromIdentityBits` has no caller.

PROJECT.md:77 says that a Beast frame is decoded into ICAO, altitude and squawk.
`beast.Parse` reads the identity bits and drops them (beast.go:69-70), and
`fromBeast` writes 7000 for the missing squawk (report.go:89-93): every frame
squawks 7000.  `Beast!FromBeast` has it so; no run is spent on it, as reading it
off the code is enough.

An operator may replay a forward that was delivered, or is still queued: the code
allows it and no document forbids it, so `Replay` does too.

Positions, call signs, redaction, the sink, the console and the reading of the
environment are arithmetic on floats, formatting or pure I/O without state that
the rest depends on.
