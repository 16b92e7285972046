------------------------------- MODULE Accept -------------------------------
(***************************************************************************)
(* The accept pipeline (internal/accept, called by POST /api/v1/reports):  *)
(* concurrent HTTP handlers verify a station's message, look its nonce and *)
(* its idempotency key up, and file one forward for every radar that       *)
(* matches.  Nonce book, idempotency store, registry and broker each have  *)
(* a lock of their own; between two of a handler's calls anything happens. *)
(*                                                                         *)
(*   idle --> nonce --> remember --> match --> enqueue --> answered        *)
(*     |        |           |                                 ^            *)
(*     +--------+-----------+---------------------------------+            *)
(*                                                                         *)
(* A message is what a station sent: body, nonce, timestamp and key.  The  *)
(* network may deliver it late, again and again, and to two handlers at    *)
(* once.  Its timestamp is kept as stamp[m], relative to the clock.        *)
(***************************************************************************)
EXTENDS NonceBook, Idempotency

CONSTANTS
    Handlers,     \* HTTP handlers that may run at a time
    Messages,
    KeyOf, BodyOf, NonceOf,  \* [Messages -> Keys], ...
    Bad,          \* messages whose signature or body is not valid
    Radars,
    Interest,     \* Interest[r]: the bodies whose kind r's prefixes match
    MaxAhead,     \* bound: how far ahead of the clock a timestamp is
    MaxHandling,  \* ticks from a handler's window check to its key lookup
    NoMessage,    \* what an idle handler works on
    NoReport      \* ... and the report it has

ASSUME AcceptAssumption ==
    /\ KeyOf \in [Messages -> Keys]
    /\ BodyOf \in [Messages -> Bodies]
    /\ NonceOf \in [Messages -> Nonces]
    /\ Interest \in [Radars -> SUBSET Bodies]
    /\ MaxAhead \in Nat
    /\ MaxHandling \in Nat
    /\ NoMessage \notin Messages
    /\ NoReport \notin Reports

(* Records must outlive the messages they answer.  The defaults: 24 hours  *)
(* against twice five minutes and the time a handler takes.                *)
ASSUME RecordsOutliveMessages == TTL > 2 * Window + MaxHandling

VARIABLES
    enabled,      \* enabled[r]: the radar's Enabled flag
    stamp,        \* stamp[m]: m's timestamp less the current time
    pc,           \* pc[h]: the call handler h makes next
    msg,          \* msg[h]: the message it works on
    report,       \* report[h]: the report it made, or answers with
    todo,         \* todo[h]: matching radars it has not enqueued for yet
    answer,       \* answer[h]: what it is about to respond
    spent,        \* spent[h]: ticks since its window check
    nextReport,   \* the next report id
    origin,       \* history: origin[p] is the message report p was made of
    age,          \* history: age[p] is the time since, at most TTL
    plan,         \* history: plan[p], the radars that matched
    filed         \* history: filed[p], the radars a forward was enqueued for

handlerVars == <<pc, msg, report, todo, answer, spent>>
reportVars == <<nextReport, origin, age, plan, filed>>
vars == <<enabled, stamp, nonceLeft, byKey, handlerVars, reportVars>>

Calls == {"idle", "nonce", "remember", "match", "enqueue", "answered"}

Answers == {"none", "refused", "used_nonce", "conflict", "replay", "accepted"}

TooOld == -Window - 1

Stamps == TooOld .. MaxAhead

InWindow(m) == -Window <= stamp[m] /\ stamp[m] <= Window

Made(p) == origin[p] # NoMessage

(* Handlers that have passed the window check and not yet looked their key *)
(* up.                                                                     *)
Checking == {h \in Handlers : pc[h] \in {"nonce", "remember"}}

Goto(h, call) == pc' = [pc EXCEPT ![h] = call]

Respond(h, ans) ==
    /\ Goto(h, "answered")
    /\ answer' = [answer EXCEPT ![h] = ans]
    /\ spent' = [spent EXCEPT ![h] = 0]

Init ==
    /\ enabled \in [Radars -> BOOLEAN]
    /\ stamp \in [Messages -> Stamps]
    /\ NonceInit
    /\ IdempotencyInit
    /\ pc = [h \in Handlers |-> "idle"]
    /\ msg = [h \in Handlers |-> NoMessage]
    /\ report = [h \in Handlers |-> NoReport]
    /\ todo = [h \in Handlers |-> {}]
    /\ answer = [h \in Handlers |-> "none"]
    /\ spent = [h \in Handlers |-> 0]
    /\ nextReport = 1
    /\ origin = [p \in Reports |-> NoMessage]
    /\ age = [p \in Reports |-> 0]
    /\ plan = [p \in Reports |-> {}]
    /\ filed = [p \in Reports |-> {}]
-----------------------------------------------------------------------------
(* ParseInbound, Verify and report.Parse read nothing but the message, the *)
(* clock and the station's secret, which never changes.                    *)
Receive(h, m) ==
    /\ pc[h] = "idle"
    /\ msg' = [msg EXCEPT ![h] = m]
    /\ \/ /\ m \notin Bad
          /\ InWindow(m)
          /\ Goto(h, "nonce")
          /\ UNCHANGED <<answer, spent>>
       \/ /\ m \in Bad \/ ~ InWindow(m)
          /\ Respond(h, "refused")
    /\ UNCHANGED <<enabled, stamp, nonceLeft, byKey, report, todo,
                   reportVars>>

(* Nonces.CheckAndRemember.                                                *)
CheckNonce(h) ==
    LET n == NonceOf[msg[h]]
    IN  /\ pc[h] = "nonce"
        /\ \/ /\ RememberNonce(n)
              /\ Goto(h, "remember")
              /\ UNCHANGED <<answer, spent>>
           \/ /\ RefuseNonce(n)
              /\ Respond(h, "used_nonce")
        /\ UNCHANGED <<enabled, stamp, byKey, msg, report, todo, reportVars>>

(* Idem.Remember, with the report id drawn for it.  MaxReports bounds      *)
(* nothing when it is no less than the number of messages, see SignedOnce. *)
MakeReport(h) ==
    LET m == msg[h]
    IN  /\ pc[h] = "remember"
        /\ nextReport <= MaxReports
        /\ RememberKey(KeyOf[m], BodyOf[m], nextReport)
        /\ Goto(h, "match")
        /\ report' = [report EXCEPT ![h] = nextReport]
        /\ spent' = [spent EXCEPT ![h] = 0]
        /\ nextReport' = nextReport + 1
        /\ origin' = [origin EXCEPT ![nextReport] = m]
        /\ UNCHANGED <<enabled, stamp, nonceLeft, msg, todo, answer,
                       age, plan, filed>>

AnswerFromRecord(h) ==
    LET k == KeyOf[msg[h]]
        b == BodyOf[msg[h]]
    IN  /\ pc[h] = "remember"
        /\ \/ /\ ReplaysKey(k, b)
              /\ Respond(h, "replay")
              /\ report' = [report EXCEPT ![h] = byKey[k].report]
           \/ /\ ConflictsOnKey(k, b)
              /\ Respond(h, "conflict")
              /\ UNCHANGED report
        /\ UNCHANGED <<enabled, stamp, nonceLeft, msg, todo, reportVars>>

(* Registry.Matching, under the registry's lock, and Fanout.               *)
Match(h) ==
    LET matching == {r \in Radars : enabled[r] /\ BodyOf[msg[h]] \in Interest[r]}
    IN  /\ pc[h] = "match"
        /\ Goto(h, "enqueue")
        /\ todo' = [todo EXCEPT ![h] = matching]
        /\ plan' = [plan EXCEPT ![report[h]] = matching]
        /\ UNCHANGED <<enabled, stamp, nonceLeft, byKey, msg, report, answer,
                       spent, nextReport, origin, age, filed>>

(* A broken variant, for the runs: a radar switched off since ends the     *)
(* loop.                                                                   *)
EnqueueBreaks(h, r) ==
    /\ pc[h] = "enqueue"
    /\ r \in todo[h]
    /\ todo' = [todo EXCEPT ![h] = IF enabled[r] THEN @ \ {r} ELSE {}]
    /\ filed' = [filed EXCEPT ![report[h]] =
                    IF enabled[r] THEN @ \union {r} ELSE @]
    /\ UNCHANGED <<enabled, stamp, nonceLeft, byKey, pc, msg, report, answer,
                   spent, nextReport, origin, age, plan>>

(* One turn of the loop: Radars.Get finds the radar, switched off or not,  *)
(* Ensure makes its queue, and Enqueue files a forward.  The registry is a *)
(* map, so the radars come in any order.                                   *)
EnqueueFor(h, r) ==
    /\ pc[h] = "enqueue"
    /\ r \in todo[h]
    /\ todo' = [todo EXCEPT ![h] = @ \ {r}]
    /\ filed' = [filed EXCEPT ![report[h]] = @ \union {r}]
    /\ UNCHANGED <<enabled, stamp, nonceLeft, byKey, pc, msg, report, answer,
                   spent, nextReport, origin, age, plan>>

AnswerAccepted(h) ==
    /\ pc[h] = "enqueue"
    /\ todo[h] = {}
    /\ Respond(h, "accepted")
    /\ UNCHANGED <<enabled, stamp, nonceLeft, byKey, msg, report, todo,
                   reportVars>>

(* The response is written and the handler is free for another request.    *)
Return(h) ==
    /\ pc[h] = "answered"
    /\ Goto(h, "idle")
    /\ msg' = [msg EXCEPT ![h] = NoMessage]
    /\ report' = [report EXCEPT ![h] = NoReport]
    /\ answer' = [answer EXCEPT ![h] = "none"]
    /\ UNCHANGED <<enabled, stamp, nonceLeft, byKey, todo, spent, reportVars>>

SwitchRadar(r) ==
    /\ enabled' = [enabled EXCEPT ![r] = ~ @]
    /\ UNCHANGED <<stamp, nonceLeft, byKey, handlerVars, reportVars>>

(* A tick.  No handler takes more than MaxHandling of them from its window *)
(* check to its key lookup.                                                *)
Elapse ==
    /\ \A h \in Checking : spent[h] < MaxHandling
    /\ stamp' = [m \in Messages |->
                    IF stamp[m] > TooOld THEN stamp[m] - 1 ELSE TooOld]
    /\ NonceElapse
    /\ IdempotencyElapse
    /\ spent' = [h \in Handlers |->
                    IF h \in Checking THEN spent[h] + 1 ELSE spent[h]]
    /\ age' = [p \in Reports |->
                    IF Made(p) /\ age[p] < TTL THEN age[p] + 1 ELSE age[p]]
    /\ UNCHANGED <<enabled, pc, msg, report, todo, answer, nextReport, origin,
                   plan, filed>>

Handle(h) ==
    \/ CheckNonce(h)
    \/ MakeReport(h)
    \/ AnswerFromRecord(h)
    \/ Match(h)
    \/ \E r \in Radars : EnqueueFor(h, r)
    \/ AnswerAccepted(h)
    \/ Return(h)

Next ==
    \/ \E h \in Handlers, m \in Messages : Receive(h, m)
    \/ \E h \in Handlers : Handle(h)
    \/ \E r \in Radars : SwitchRadar(r)
    \/ Elapse

Spec == Init /\ [][Next]_vars

(* A handler's goroutine is scheduled until it has answered.               *)
FairSpec == Spec /\ \A h \in Handlers : WF_vars(Handle(h))
-----------------------------------------------------------------------------
(* Every variable has its type; a handler has a message unless it is idle, *)
(* and a report once it made or found one.                                 *)
AcceptTypeOK ==
    /\ NonceTypeOK
    /\ IdempotencyTypeOK
    /\ enabled \in [Radars -> BOOLEAN]
    /\ stamp \in [Messages -> Stamps]
    /\ pc \in [Handlers -> Calls]
    /\ msg \in [Handlers -> Messages \union {NoMessage}]
    /\ report \in [Handlers -> Reports \union {NoReport}]
    /\ todo \in [Handlers -> SUBSET Radars]
    /\ answer \in [Handlers -> Answers]
    /\ spent \in [Handlers -> 0 .. MaxHandling]
    /\ nextReport \in 1 .. MaxReports + 1
    /\ origin \in [Reports -> Messages \union {NoMessage}]
    /\ age \in [Reports -> 0 .. TTL]
    /\ plan \in [Reports -> SUBSET Radars]
    /\ filed \in [Reports -> SUBSET Radars]
    /\ \A h \in Handlers :
          /\ msg[h] = NoMessage <=> pc[h] = "idle"
          /\ pc[h] \in {"match", "enqueue"} => report[h] # NoReport

(* However late and often a message arrives, and however its handlers      *)
(* overlap, it is made into one report.  Its nonce is forgotten before its *)
(* timestamp leaves the window if that was ahead of the clock; the record  *)
(* of its key is not.                                                      *)
SignedOnce ==
    \A p, q \in Reports :
        Made(p) /\ Made(q) /\ origin[p] = origin[q] => p = q

(* PROJECT.md 3.2: no second enqueue under a key while its record lives,   *)
(* whatever the order in which lookups, ticks and expiry come.             *)
FirstUnderItsKey ==
    \A p, q \in Reports :
        /\ Made(p)
        /\ ~ Made(q) /\ Made(q)'
        /\ KeyOf[origin[p]] = KeyOf[origin'[q]]
        => age[p] = TTL

OncePerKey == [][FirstUnderItsKey]_vars

(* What the nonce book gives (nonce.go:48): from its acceptance a nonce is *)
(* held for a window.  Two reports whose messages share one are made a     *)
(* window apart, less what the first handler took from its look into the   *)
(* book to its report.                                                     *)
HeldSinceItsReport ==
    \A p, q \in Reports :
        /\ Made(p)
        /\ ~ Made(q) /\ Made(q)'
        /\ NonceOf[origin[p]] = NonceOf[origin'[q]]
        => age[p] >= Window - MaxHandling

NonceHeldAWindow == [][HeldSinceItsReport]_vars

(* What PROJECT.md 3.1 says: "Window +-300s. Same nonce cannot succeed     *)
(* twice inside the window."  When a nonce has succeeded twice, one of the *)
(* two timestamps is out of the window, or on its edge, where it expires.  *)
(* A timestamp ahead of the clock stays inside for longer than its nonce   *)
(* is in the book, so that this fails.                                     *)
Inside(m) == -Window < stamp[m] /\ stamp[m] < Window

NonceOnceInWindow ==
    \A p, q \in Reports :
        /\ Made(p) /\ Made(q) /\ p # q
        /\ NonceOf[origin[p]] = NonceOf[origin[q]]
        => ~ (Inside(origin[p]) /\ Inside(origin[q]))

(* A station is told the truth: an accepted message has its own report, a  *)
(* replayed one the report made from the same body under its key, and a    *)
(* conflict means that another body was first.                             *)
AnswersAreTrue ==
    \A h \in Handlers :
        LET m == msg[h]
            p == report[h]
        IN  /\ answer[h] = "accepted" => origin[p] = m /\ filed[p] = plan[p]
            /\ answer[h] = "replay" =>
                  /\ Made(p)
                  /\ KeyOf[origin[p]] = KeyOf[m]
                  /\ BodyOf[origin[p]] = BodyOf[m]
            /\ answer[h] = "conflict" =>
                  \E q \in Reports :
                      /\ Made(q)
                      /\ KeyOf[origin[q]] = KeyOf[m]
                      /\ BodyOf[origin[q]] # BodyOf[m]

(* A replay is answered with a report that may not be enqueued yet; it     *)
(* will be, for every radar that matches when the first handler gets there.*)
Filed(p) ==
    /\ filed[p] = plan[p]
    /\ ~ \E h \in Handlers : pc[h] = "match" /\ report[h] = p

ReplaysAreFiled ==
    \A p \in Reports :
        (\E h \in Handlers : answer[h] = "replay" /\ report[h] = p) ~> Filed(p)
=============================================================================
