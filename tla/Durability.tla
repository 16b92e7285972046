----------------------------- MODULE Durability -----------------------------
(***************************************************************************)
(* The snapshot file (internal/store), the loop that writes it             *)
(* (App.snapshotLoop), the end of the process (cmd/adsbhub/main.go) and    *)
(* the start of the next one from the file (app.New).                      *)
(*                                                                         *)
(* Capture reads one component after the other, each under a lock of its   *)
(* own; handlers, operators and workers go on between two of them:         *)
(*                                                                         *)
(*   idle --> journal --> letters --> queue --> write --> idle, or over    *)
(*                                                                         *)
(* Forwards are in the journal, the letters and the queue.  What else is   *)
(* read before and after -- registry, idempotency and nonce records, keys, *)
(* breakers and buckets -- says nothing of where a forward is.             *)
(***************************************************************************)
EXTENDS Hub, Classify

CONSTANTS
    Results,      \* the outcomes of a POST that a run looks at
    NoResult      \* that of a forward that was never posted

ASSUME DurabilityAssumption ==
    /\ Results \subseteq Outcomes
    /\ NoResult \notin Results

VARIABLES
    stopping,     \* the signal has cancelled the context
    late,         \* the forwards leased after that
    saver,        \* what the snapshot loop does next
    part,         \* the store.Snapshot it is filling
    disk,         \* the one in the file
    rest,         \* history: where a forward has been since the save began
    result        \* history: what a forward's last POST came to

vars == <<hubVars, stopping, late, saver, part, disk, rest, result>>

(* Where a forward is while nobody has it in hand.                         *)
Where(f) ==
    CASE f \in queued -> "queued"
      [] f \in letters -> "letter"
      [] f \in delivered -> "delivered"
      [] OTHER -> "moving"

AllMoving == [f \in Forwards |-> "moving"]

(* The parts of a snapshot that Capture has not read yet are empty, as is  *)
(* the snapshot a hub without a file starts from.                          *)
NoSnapshot ==
    [delivered |-> {}, letters |-> {}, queued |-> {}, rest |-> AllMoving,
     last |-> FALSE]

Init ==
    /\ HubInit
    /\ stopping = FALSE
    /\ late = {}
    /\ saver = "idle"
    /\ part = NoSnapshot
    /\ disk = NoSnapshot
    /\ rest = AllMoving
    /\ result = [f \in Forwards |-> NoResult]

(* A forward that moves once during a save is moving for all of it.        *)
Watch ==
    rest' = [f \in Forwards |->
                IF Where(f)' = rest[f] THEN rest[f] ELSE "moving"]
-----------------------------------------------------------------------------
(* The order of Capture.  A broken variant, for the runs: queue first.     *)
ThenQueueFirst(call) ==
    CASE call = "idle" -> "queue"      [] call = "queue" -> "journal"
      [] call = "journal" -> "letters" [] call = "letters" -> "write"

Then(call) ==
    CASE call = "idle" -> "journal"    [] call = "journal" -> "letters"
      [] call = "letters" -> "queue"   [] call = "queue" -> "write"

(* A tick of the loop, or the end of the context, starts a save; when both *)
(* are ready, either may be chosen.                                        *)
StartSave ==
    /\ saver = "idle"
    /\ saver' = Then(saver)
    /\ \E end \in {FALSE, stopping} :
          part' = [NoSnapshot EXCEPT !.last = end]
    /\ rest' = [f \in Forwards |-> Where(f)]
    /\ UNCHANGED <<hubVars, stopping, late, disk, result>>

(* A broken variant: the letters are not read.                             *)
CapturedNoLetters(call) ==
    CASE call = "journal" -> [part EXCEPT !.delivered = delivered]
      [] call = "letters" -> part
      [] call = "queue" -> [part EXCEPT !.queued = queued]

(* Log.Snapshot, Dead.Snapshot, and Broker.Snapshot: the heaps, without    *)
(* what is leased from them.                                               *)
Captured(call) ==
    CASE call = "journal" -> [part EXCEPT !.delivered = delivered]
      [] call = "letters" -> [part EXCEPT !.letters = letters]
      [] call = "queue" -> [part EXCEPT !.queued = queued]

CaptureNext ==
    /\ saver \in {"journal", "letters", "queue"}
    /\ saver' = Then(saver)
    /\ part' = Captured(saver)
    /\ UNCHANGED <<hubVars, stopping, late, disk, rest, result>>

(* File.Save writes another file and renames it: the snapshot is replaced  *)
(* as a whole, or, on an error that is only logged, not at all.  The save  *)
(* that the end of the context caused is the last.                         *)
WriteFile ==
    /\ saver = "write"
    /\ saver' = IF part.last THEN "over" ELSE "idle"
    /\ disk' \in {disk, [part EXCEPT !.rest = rest]}
    /\ part' = NoSnapshot
    /\ rest' = AllMoving
    /\ UNCHANGED <<hubVars, stopping, late, result>>
-----------------------------------------------------------------------------
(* The signal cancels the context of workers, POSTs and snapshot loop.     *)
Stop ==
    /\ ~ stopping
    /\ stopping' = TRUE
    /\ UNCHANGED <<hubVars, late, saver, part, disk, rest, result>>

(* A worker that finds its ticker and the end of the context both ready    *)
(* may choose the ticker (Engine.loop) and lease one more job.             *)
LeaseAny(f) ==
    /\ Lease(f)
    /\ late' = IF stopping THEN late \union {f} ELSE late
    /\ UNCHANGED result

(* A POST can be cancelled once the context is, and must be if it began    *)
(* after that.                                                             *)
PostEnds(f, res) ==
    /\ f \in leased
    /\ res.err = "canceled" => stopping
    /\ f \in late => res.err = "canceled"
    /\ CASE Combine(res) = "success" -> Deliver(f)
         [] Combine(res) = "retryable" -> PutBack(f) \/ Bury(f)
         [] Combine(res) = "terminal" -> Bury(f)
    /\ result' = [result EXCEPT ![f] = res]
    /\ UNCHANGED late

(* No POST: the radar is switched off, or the job has to wait.             *)
TurnAway(f) == (Bury(f) \/ PutBack(f)) /\ UNCHANGED <<late, result>>

(* HTTP handlers, operators and workers go on, whatever the saver does.    *)
Goes(f) ==
    \/ (Enqueue(f) \/ RemoveLetter(f) \/ Forget(f)) /\ UNCHANGED <<late, result>>
    \/ LeaseAny(f)
    \/ \E res \in Results : PostEnds(f, res)
    \/ TurnAway(f)

HubGoesOn ==
    /\ \/ (Build \/ File) /\ UNCHANGED <<late, result>>
       \/ \E f \in Forwards : Goes(f)
    /\ UNCHANGED <<stopping, saver, part, disk>>
    /\ Watch

(* A crash, or the end of main, which waits for the HTTP server but for    *)
(* neither the workers nor the last save; and app.New, which applies the   *)
(* file.  Ids are unique, so no forward is created twice.                  *)
Restart ==
    /\ queued' = disk.queued
    /\ letters' = disk.letters
    /\ delivered' = disk.delivered
    /\ planned' = {}
    /\ leased' = {}
    /\ stopping' = FALSE
    /\ late' = {}
    /\ saver' = "idle"
    /\ part' = NoSnapshot
    /\ rest' = AllMoving
    /\ UNCHANGED <<next, disk, result>>

Next ==
    \/ StartSave
    \/ CaptureNext
    \/ WriteFile
    \/ Stop
    \/ HubGoesOn
    \/ Restart

Spec == Init /\ [][Next]_vars
-----------------------------------------------------------------------------
(* Each read of a snapshot sees another state of the hub, and yet no       *)
(* forward is at two places after a restart: read in this order, a forward *)
(* that moves on between two reads is missed and never seen twice.         *)
NeverDoubled == \A f \in Forwards : \A p, q \in Places(f) : p = q

(* A restart brings every forward that was not on the move while the file  *)
(* was made back to where it was.                                          *)
RestSurvives ==
    [][Restart => \A f \in Forwards :
          disk.rest[f] # "moving" => Where(f)' = disk.rest[f]]_vars

(* PROJECT.md 3.4, "Terminal: other 4xx including 422", and the reason the *)
(* worker gives such a letter, "terminal http status": it had a status.    *)
TerminalWasRefused ==
    \A f \in letters :
        result[f] # NoResult /\ Combine(result[f]) = "terminal"
            => result[f].err = "none"
=============================================================================
