------------------------------- MODULE Replay -------------------------------
(***************************************************************************)
(* Operators replay forwards (App.Replay, internal/replay) while workers   *)
(* bury and journal others.  A replay reads the dead-letter queue, or else *)
(* the journal, builds a new forward, enqueues it, and removes the letter: *)
(* calls that lock one component each, so that another operator or a       *)
(* worker may move between any two of them.                                *)
(*                                                                         *)
(*   operator:  idle --> enqueue ---------------> remove ------> idle      *)
(*                +----> journal --> enqueue_only -------------> idle      *)
(*                          +----------------------------------> idle      *)
(*                                                                         *)
(*   worker:    idle --> handle --> requeue, bury --> note ----> idle      *)
(*                                                                         *)
(* Of the delivery engine only what touches queue, letters and journal is  *)
(* here; Delivery has the rest.  Without breakers, buckets and time, any   *)
(* waiting job may be leased, and postponed for no reason.                 *)
(***************************************************************************)
EXTENDS Dlq, Journal

CONSTANTS
    Operators,    \* HTTP handlers of POST /api/v1/replay/{id}
    Workers,      \* the worker goroutines
    MaxAttempts,  \* Policy.MaxAttempts
    NoJob         \* what an idle worker or operator holds

ASSUME ReplayAssumption ==
    /\ MaxAttempts \in Nat \ {0}
    /\ NoJob \notin Jobs

VARIABLES
    queued,       \* the jobs in the broker's heaps
    pc,           \* pc[a]: the next call of an operator or a worker
    hand,         \* hand[a]: the job it has leased or built
    cause,        \* cause[w]: how a worker's handling came out so far
    asked,        \* asked[o]: the forward the operator replays, 0 if none
    replayOf,     \* Job.ReplayOf, 0 for a forward of a station's report
    delivered,    \* history: the forwards journaled as a success
    posts,        \* history: posts[f] counts the POSTs made for f
    answered,     \* history: forwards whose letter was replayed to the end
    later         \* history: entries since f's last one, at most JournalMax

Actors == Operators \union Workers

engineVars == <<queued, cause, delivered, posts>>
operatorVars == <<asked, replayOf, answered>>
vars == <<enabled, next, dead, buried, log, queued, pc, hand, cause, asked,
          replayOf, delivered, posts, answered, later>>

Causes == {"none", "postponed", "retryable"} \union Reasons

Init ==
    /\ FleetInit
    /\ DlqInit
    /\ JournalInit
    /\ queued = {}
    /\ pc = [a \in Actors |-> "idle"]
    /\ hand = [a \in Actors |-> NoJob]
    /\ cause = [w \in Workers |-> "none"]
    /\ asked = [o \in Operators |-> 0]
    /\ replayOf = [f \in Forwards |-> 0]
    /\ delivered = {}
    /\ posts = [f \in Forwards |-> 0]
    /\ answered = {}
    /\ later = [f \in Forwards |-> 0]

Goto(a, call) == pc' = [pc EXCEPT ![a] = call]

(* The actor is through with its job.                                      *)
Done(a) ==
    /\ Goto(a, "idle")
    /\ hand' = [hand EXCEPT ![a] = NoJob]

NoteJob(j, success) ==
    /\ AppendFor(j, success)
    /\ later' = [f \in Forwards |->
                    IF f = j.fwd THEN 0
                    ELSE IF later[f] < JournalMax THEN later[f] + 1
                    ELSE JournalMax]

-----------------------------------------------------------------------------
(* The accept pipeline files a forward for a radar that is enabled.        *)
AcceptForward(r) ==
    /\ enabled[r]
    /\ next <= MaxForwards
    /\ queued' = queued \union {NewJob(next, r)}
    /\ next' = next + 1
    /\ UNCHANGED <<enabled, dead, buried, log, pc, hand, cause, operatorVars,
                   delivered, posts, later>>

SwitchRadar(r) ==
    /\ SetEnabled(r, ~ enabled[r])
    /\ UNCHANGED <<dead, buried, log, pc, hand, engineVars, operatorVars,
                   later>>

(* The operator's job is a new forward, for the radar of what it found.    *)
Build(o, f, job, call) ==
    /\ next <= MaxForwards
    /\ next' = next + 1
    /\ hand' = [hand EXCEPT ![o] = job]
    /\ replayOf' = [replayOf EXCEPT ![next] = f]
    /\ Goto(o, call)

(* Broken variants, for the runs: a replay goes on counting the attempts,  *)
(* or keeps the forward id.                                                *)
LetterJobContinues(it) == [NewJob(next, it.radar) EXCEPT !.attempt = it.attempt]

LetterJobSameId(it) == NewJob(it.fwd, it.radar)

(* replay.FromDLQ and FromJournal.                                         *)
LetterJob(it) == NewJob(next, it.radar)

EntryJob(e) == NewJob(next, e.radar)

(* A broken variant: the letter is taken out as it is found.               *)
FindLetterTakes(o, f) ==
    /\ pc[o] = "idle"
    /\ f \in 1 .. next - 1
    /\ asked' = [asked EXCEPT ![o] = f]
    /\ \/ InDead(f) /\ Build(o, f, LetterJob(Letter(f)), "enqueue") /\ Remove(f)
       \/ /\ ~ InDead(f)
          /\ Goto(o, "journal")
          /\ UNCHANGED <<next, hand, replayOf, dead, buried>>
    /\ UNCHANGED <<enabled, log, engineVars, answered, later>>

(* Dead.Get, and FromDLQ for what it found.                                *)
FindLetter(o, f) ==
    /\ pc[o] = "idle"
    /\ f \in 1 .. next - 1
    /\ asked' = [asked EXCEPT ![o] = f]
    /\ \/ InDead(f) /\ Build(o, f, LetterJob(Letter(f)), "enqueue")
       \/ /\ ~ InDead(f)
          /\ Goto(o, "journal")
          /\ UNCHANGED <<next, hand, replayOf>>
    /\ UNCHANGED <<enabled, dead, buried, log, engineVars, answered, later>>

(* Log.Get, and FromJournal; or the forward is not found.                  *)
FindEntry(o) ==
    /\ pc[o] = "journal"
    /\ \/ /\ InLog(asked[o])
          /\ Build(o, asked[o], EntryJob(Entry(asked[o])), "enqueue_only")
          /\ UNCHANGED asked
       \/ /\ ~ InLog(asked[o])
          /\ Done(o)
          /\ asked' = [asked EXCEPT ![o] = 0]
          /\ UNCHANGED <<next, replayOf>>
    /\ UNCHANGED <<enabled, dead, buried, log, engineVars, answered, later>>

(* Broker.Enqueue.                                                         *)
EnqueueReplay(o) ==
    /\ queued' = queued \union {hand[o]}
    /\ \/ /\ pc[o] = "enqueue"
          /\ Goto(o, "remove")
          /\ UNCHANGED <<hand, asked>>
       \/ /\ pc[o] = "enqueue_only"
          /\ Done(o)
          /\ asked' = [asked EXCEPT ![o] = 0]
    /\ UNCHANGED <<enabled, next, dead, buried, log, cause, replayOf,
                   delivered, posts, answered, later>>

(* Dead.Remove: another operator may have taken the letter out before.     *)
RemoveLetter(o) ==
    /\ pc[o] = "remove"
    /\ Remove(asked[o])
    /\ answered' = answered \union {asked[o]}
    /\ asked' = [asked EXCEPT ![o] = 0]
    /\ Done(o)
    /\ UNCHANGED <<enabled, next, log, engineVars, replayOf, later>>
-----------------------------------------------------------------------------
LeaseJob(w) ==
    /\ pc[w] = "idle"
    /\ \E j \in queued :
          /\ queued' = queued \ {j}
          /\ hand' = [hand EXCEPT ![w] = j]
    /\ Goto(w, "handle")
    /\ UNCHANGED <<enabled, next, dead, buried, log, cause, operatorVars,
                   delivered, posts, later>>

(* A radar that was switched off, a breaker that denies, an empty bucket.  *)
TurnAway(w) ==
    /\ pc[w] = "handle"
    /\ \/ /\ ~ enabled[hand[w].radar]
          /\ Goto(w, "bury")
          /\ cause' = [cause EXCEPT ![w] = "unavailable"]
       \/ /\ enabled[hand[w].radar]
          /\ Goto(w, "requeue")
          /\ cause' = [cause EXCEPT ![w] = "postponed"]
    /\ UNCHANGED <<enabled, next, dead, buried, log, queued, hand,
                   operatorVars, delivered, posts, later>>

(* A POST, and the journal entry on its outcome.                           *)
Post(w) ==
    LET j == [hand[w] EXCEPT !.attempt = @ + 1]
    IN  /\ pc[w] = "handle"
        /\ enabled[j.radar]
        /\ posts' = [posts EXCEPT ![j.fwd] = @ + 1]
        /\ \/ /\ NoteJob(j, TRUE)
              /\ Done(w)
              /\ delivered' = delivered \union {j.fwd}
              /\ UNCHANGED cause
           \/ /\ NoteJob(j, FALSE)
              /\ hand' = [hand EXCEPT ![w] = j]
              /\ UNCHANGED delivered
              /\ \/ /\ j.attempt < MaxAttempts
                    /\ Goto(w, "requeue")
                    /\ cause' = [cause EXCEPT ![w] = "retryable"]
                 \/ /\ Goto(w, "bury")
                    /\ cause' = [cause EXCEPT ![w] = "terminal"]
                 \/ /\ j.attempt >= MaxAttempts
                    /\ Goto(w, "bury")
                    /\ cause' = [cause EXCEPT ![w] = "exhausted"]
        /\ UNCHANGED <<enabled, next, dead, buried, queued, operatorVars>>

(* What is journaled before the job is put back or buried is not journaled *)
(* again.                                                                  *)
GoOn(w) ==
    /\ cause' = [cause EXCEPT ![w] = "none"]
    /\ IF cause[w] \in {"retryable", "terminal"} THEN Done(w)
       ELSE Goto(w, "note") /\ UNCHANGED hand

Requeue(w) ==
    /\ pc[w] = "requeue"
    /\ queued' = queued \union {hand[w]}
    /\ GoOn(w)
    /\ UNCHANGED <<enabled, next, dead, buried, log, operatorVars, delivered,
                   posts, later>>

Bury(w) ==
    /\ pc[w] = "bury"
    /\ Push(FromJob(hand[w], cause[w]))
    /\ GoOn(w)
    /\ UNCHANGED <<enabled, next, log, queued, operatorVars, delivered, posts,
                   later>>

TrailingNote(w) ==
    /\ pc[w] = "note"
    /\ NoteJob(hand[w], FALSE)
    /\ Done(w)
    /\ UNCHANGED <<enabled, next, dead, buried, engineVars, operatorVars>>

Operator(o) ==
    \/ \E f \in Forwards : FindLetter(o, f)
    \/ FindEntry(o)
    \/ EnqueueReplay(o)
    \/ RemoveLetter(o)

Worker(w) ==
    \/ LeaseJob(w)
    \/ TurnAway(w)
    \/ Post(w)
    \/ Requeue(w)
    \/ Bury(w)
    \/ TrailingNote(w)

Next ==
    \/ \E r \in Radars : AcceptForward(r) \/ SwitchRadar(r)
    \/ \E o \in Operators : Operator(o)
    \/ \E w \in Workers : Worker(w)

Spec == Init /\ [][Next]_vars
-----------------------------------------------------------------------------
(* Every variable has its type.                                            *)
ReplayTypeOK ==
    /\ FleetTypeOK
    /\ DlqTypeOK
    /\ JournalTypeOK
    /\ queued \subseteq Jobs
    /\ pc \in [Actors -> {"idle", "journal", "enqueue", "enqueue_only",
                          "remove", "handle", "requeue", "bury", "note"}]
    /\ hand \in [Actors -> Jobs \union {NoJob}]
    /\ cause \in [Workers -> Causes]
    /\ asked \in [Operators -> 0 .. MaxForwards]
    /\ replayOf \in [Forwards -> 0 .. MaxForwards]
    /\ delivered \subseteq Forwards
    /\ posts \in [Forwards -> Nat]
    /\ answered \subseteq Forwards
    /\ later \in [Forwards -> 0 .. JournalMax]

(* An operator that built a job holds it until it has enqueued it; a       *)
(* worker until it has put it back, buried it, or journaled its success.   *)
Holding(a) == pc[a] \in {"enqueue", "enqueue_only", "handle", "requeue", "bury"}

Holds(a, f) == Holding(a) /\ hand[a].fwd = f

Places == {"absent", "held", "queued", "buried", "delivered"}

At(f, place) ==
    CASE place = "absent"    -> f >= next
      [] place = "held"      -> \E a \in Actors : Holds(a, f)
      [] place = "queued"    -> \E j \in queued : j.fwd = f
      [] place = "buried"    -> f \in buried
      [] place = "delivered" -> f \in delivered

OnePlace(f) == \E p \in Places : \A q \in Places : At(f, q) <=> q = p

QueuedOnce == \A j, k \in queued : j.fwd = k.fwd => j = k

HeldOnce ==
    \A a, b \in Actors : \A f \in Forwards :
        Holds(a, f) /\ Holds(b, f) => a = b

(* PROJECT.md 3.5: a replay builds a new forward.  It is one more forward, *)
(* at one place like any other.  Replays of the living, of the dead, and   *)
(* of one forward by two operators put nothing at two places, queue        *)
(* nothing twice, and give no forward two holders.                         *)
ReplaysAreForwards ==
    /\ \A f \in Forwards : OnePlace(f)
    /\ QueuedOnce
    /\ HeldOnce

(* A letter leaves the dead-letter queue in two ways only: as the oldest   *)
(* of a full queue, or taken by an operator whose new forward is already   *)
(* in the hands of the engine.  No order of calls loses one.               *)
LetterIsKept ==
    \A f \in Forwards :
        InDead(f) /\ ~ InDead(f)' =>
            \/ /\ dead[1].fwd = f
               /\ Len(dead) = DlqMax /\ Len(dead') = DlqMax
            \/ \E o \in Operators :
                  /\ pc[o] = "remove"
                  /\ asked[o] = f
                  /\ ~ At(hand[o].fwd, "absent")
                  /\ ~ Holds(o, hand[o].fwd)

LettersAreKept == [][LetterIsKept]_vars

(* Two operators may replay one letter at a time, each with a forward of   *)
(* its own.  Once one of them has been answered nobody finds it again.     *)
AnsweredLettersAreGone == \A f \in answered : ~ InDead(f)

(* A replay has all its attempts before it: it counts its own POSTs, and   *)
(* none of the forward it replays.                                         *)
ReplaysStartAfresh ==
    /\ \A j \in queued : j.attempt = posts[j.fwd] /\ j.attempt < MaxAttempts
    /\ \A i \in DOMAIN dead : dead[i].attempt = posts[dead[i].fwd]
    /\ \A f \in Forwards : posts[f] <= MaxAttempts

(* PROJECT.md, introduction: the journal is kept so that operators can     *)
(* replay failed forwards.  A forward that failed can be found, until its  *)
(* letter was replayed, or evicted and then JournalMax entries written     *)
(* after its last one.  The one gap: a letter that is evicted before its   *)
(* worker has written the entry that follows the burial.                   *)
FailedCanBeReplayed ==
    \A f \in buried :
        \/ InDead(f) \/ InLog(f)
        \/ f \in answered
        \/ \E w \in Workers : pc[w] = "note" /\ hand[w].fwd = f
        \/ later[f] = JournalMax

(* What a snapshot sees of it.                                             *)
InHandAt(calls) ==
    {f \in Forwards : \E a \in Actors : pc[a] \in calls /\ hand[a].fwd = f}

HubView == INSTANCE Hub
    WITH planned   <- InHandAt({"enqueue", "enqueue_only"}),
         queued    <- {j.fwd : j \in queued},
         leased    <- InHandAt({"handle", "requeue", "bury"}),
         delivered <- {f \in Forwards :
                          \E i \in DOMAIN log : log[i].fwd = f /\ log[i].success},
         letters   <- {f \in Forwards : InDead(f)}

(* Operators beside workers are no more to a snapshot than the hub it is   *)
(* shown to survive: a letter that is removed, a job that is held before   *)
(* it is queued, a success pushed out of the journal are steps of Hub.     *)
ImplementsHub == HubView!HubSpec
=============================================================================
