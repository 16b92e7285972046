---------------------------- MODULE AcceptProofs ----------------------------
(***************************************************************************)
(* What holds of the accept pipeline for any handlers, messages and radars *)
(* and any window and lifetime that fit together.                          *)
(***************************************************************************)
EXTENDS Accept, TLAPS

-----------------------------------------------------------------------------
(* Types, with reports numbered in the order they are made.                *)

InOrder ==
    \A p \in Reports :
        /\ Made(p) <=> p < nextReport
        /\ ~ Made(p) => age[p] = 0

TypeInv == AcceptTypeOK /\ InOrder

LEMMA LaterKeeps ==
    ASSUME NEW rec \in Records \union {NoRecord}
    PROVE  Later(rec) \in Records \union {NoRecord}
BY IdempotencyAssumption, NoRecordAssumption DEF Later, Records

LEMMA CarriesMessage ==
    ASSUME AcceptTypeOK, NEW h \in Handlers, pc[h] # "idle"
    PROVE  /\ msg[h] \in Messages
           /\ KeyOf[msg[h]] \in Keys
           /\ BodyOf[msg[h]] \in Bodies
           /\ NonceOf[msg[h]] \in Nonces
BY AcceptAssumption DEF AcceptTypeOK

LEMMA InitTyped == Init => TypeInv
<1> SUFFICES ASSUME Init PROVE TypeInv
  OBVIOUS
<1>1. NonceTypeOK /\ IdempotencyTypeOK
  BY WindowAssumption
     DEF Init, NonceInit, NonceTypeOK, IdempotencyInit, IdempotencyTypeOK
<1>2. AcceptTypeOK
  BY <1>1, AcceptAssumption, IdempotencyAssumption
     DEF Init, AcceptTypeOK, Calls, Answers
<1>3. InOrder
  BY IdempotencyAssumption DEF Init, InOrder, Made, Reports
<1> QED BY <1>2, <1>3 DEF TypeInv

LEMMA NextTyped == TypeInv /\ [Next]_vars => TypeInv'
<1> SUFFICES ASSUME TypeInv, [Next]_vars PROVE TypeInv'
  OBVIOUS
<1> USE DEF TypeInv
<1>a. UNCHANGED <<nextReport, origin, age>> => InOrder'
  BY DEF InOrder, Made
<1>b. UNCHANGED nonceLeft => NonceTypeOK'
  BY DEF AcceptTypeOK, NonceTypeOK
<1>c. UNCHANGED byKey => IdempotencyTypeOK'
  BY DEF AcceptTypeOK, IdempotencyTypeOK
<1>1. ASSUME NEW h \in Handlers, NEW m \in Messages, Receive(h, m)
      PROVE  TypeInv'
  <2>1. AcceptTypeOK'
    BY <1>b, <1>c, <1>1, AcceptAssumption
       DEF AcceptTypeOK, Receive, Respond, Goto, Calls, Answers, reportVars
  <2> QED BY <1>a, <1>1, <2>1 DEF Receive, reportVars
<1>2. ASSUME NEW h \in Handlers, CheckNonce(h)
      PROVE  TypeInv'
  <2>1. NonceTypeOK'
    BY <1>2, WindowAssumption
       DEF CheckNonce, RememberNonce, RefuseNonce, AcceptTypeOK, NonceTypeOK
  <2>2. AcceptTypeOK'
    BY <1>c, <1>2, <2>1, AcceptAssumption
       DEF AcceptTypeOK, CheckNonce, Respond, Goto, Calls, Answers, reportVars
  <2> QED BY <1>a, <1>2, <2>2 DEF CheckNonce, reportVars
<1>3. ASSUME NEW h \in Handlers, MakeReport(h)
      PROVE  TypeInv'
  <2>1. /\ msg[h] \in Messages
        /\ KeyOf[msg[h]] \in Keys /\ BodyOf[msg[h]] \in Bodies
        /\ nextReport \in Reports
    <3>1. nextReport \in 1 .. MaxReports + 1 /\ nextReport <= MaxReports
      BY <1>3 DEF MakeReport, AcceptTypeOK
    <3>2. nextReport \in Reports
      BY <3>1, IdempotencyAssumption DEF Reports
    <3> QED BY <1>3, <3>2, CarriesMessage DEF MakeReport
  <2>2. IdempotencyTypeOK'
    <3>1. NewRecord(BodyOf[msg[h]], nextReport) \in Records
      BY <2>1, IdempotencyAssumption DEF NewRecord, Records
    <3> QED BY <1>3, <2>1, <3>1
            DEF MakeReport, RememberKey, AcceptTypeOK, IdempotencyTypeOK
  <2>3. AcceptTypeOK'
    <3>1. /\ nextReport' \in 1 .. MaxReports + 1
          /\ spent' \in [Handlers -> 0 .. MaxHandling]
      BY <1>3, <2>1, AcceptAssumption, IdempotencyAssumption
         DEF AcceptTypeOK, MakeReport, Reports
    <3>2. /\ origin' \in [Reports -> Messages \union {NoMessage}]
          /\ report' \in [Handlers -> Reports \union {NoReport}]
      BY <1>3, <2>1 DEF AcceptTypeOK, MakeReport
    <3>3. /\ pc' \in [Handlers -> Calls]
          /\ \A g \in Handlers :
                /\ msg'[g] = NoMessage <=> pc'[g] = "idle"
                /\ pc'[g] \in {"match", "enqueue"} => report'[g] # NoReport
      BY <1>3, <2>1, AcceptAssumption DEF AcceptTypeOK, MakeReport, Goto, Calls
    <3> QED BY <1>b, <1>3, <2>2, <3>1, <3>2, <3>3 DEF AcceptTypeOK, MakeReport
  <2>4. InOrder'
    BY <1>3, <2>1, AcceptAssumption, IdempotencyAssumption
       DEF MakeReport, InOrder, Made, AcceptTypeOK, Reports
  <2> QED BY <2>3, <2>4
<1>4. ASSUME NEW h \in Handlers, AnswerFromRecord(h)
      PROVE  TypeInv'
  <2>1. KeyOf[msg[h]] \in Keys
    BY <1>4, CarriesMessage DEF AnswerFromRecord
  <2>2. SameBody(KeyOf[msg[h]], BodyOf[msg[h]])
           => byKey[KeyOf[msg[h]]].report \in Reports
    BY <2>1 DEF SameBody, Known, AcceptTypeOK, IdempotencyTypeOK, Records
  <2>3. UNCHANGED byKey
    BY <1>4 DEF AnswerFromRecord, ReplaysKey, ConflictsOnKey
  <2>4. AcceptTypeOK'
    BY <1>b, <1>c, <1>4, <2>2, <2>3, AcceptAssumption
       DEF AcceptTypeOK, AnswerFromRecord, ReplaysKey, ConflictsOnKey,
           Respond, Goto, Calls, Answers, reportVars
  <2> QED BY <1>a, <1>4, <2>4 DEF AnswerFromRecord, reportVars
<1>5. ASSUME NEW h \in Handlers, Match(h)
      PROVE  TypeInv'
  <2>1. AcceptTypeOK'
    BY <1>b, <1>c, <1>5 DEF AcceptTypeOK, Match, Goto, Calls
  <2> QED BY <1>a, <1>5, <2>1 DEF Match
<1>6. ASSUME NEW h \in Handlers, NEW r \in Radars, EnqueueFor(h, r)
      PROVE  TypeInv'
  <2>1. AcceptTypeOK'
    BY <1>b, <1>c, <1>6 DEF AcceptTypeOK, EnqueueFor
  <2> QED BY <1>a, <1>6, <2>1 DEF EnqueueFor
<1>7. ASSUME NEW h \in Handlers, AnswerAccepted(h)
      PROVE  TypeInv'
  <2>1. AcceptTypeOK'
    BY <1>b, <1>c, <1>7, AcceptAssumption
       DEF AcceptTypeOK, AnswerAccepted, Respond, Goto, Calls, Answers,
           reportVars
  <2> QED BY <1>a, <1>7, <2>1 DEF AnswerAccepted, reportVars
<1>8. ASSUME NEW h \in Handlers, Return(h)
      PROVE  TypeInv'
  <2>1. AcceptTypeOK'
    BY <1>b, <1>c, <1>8
       DEF AcceptTypeOK, Return, Goto, Calls, Answers, reportVars
  <2> QED BY <1>a, <1>8, <2>1 DEF Return, reportVars
<1>9. ASSUME NEW r \in Radars, SwitchRadar(r)
      PROVE  TypeInv'
  <2>1. AcceptTypeOK'
    BY <1>b, <1>c, <1>9
       DEF AcceptTypeOK, SwitchRadar, handlerVars, reportVars
  <2> QED BY <1>a, <1>9, <2>1 DEF SwitchRadar, reportVars
<1>10. ASSUME Elapse
       PROVE  TypeInv'
  <2>1. NonceTypeOK'
    BY <1>10, WindowAssumption
       DEF Elapse, NonceElapse, AcceptTypeOK, NonceTypeOK
  <2>2. IdempotencyTypeOK'
    BY <1>10, LaterKeeps
       DEF Elapse, IdempotencyElapse, AcceptTypeOK, IdempotencyTypeOK
  <2>3. stamp' \in [Messages -> Stamps]
    BY <1>10, WindowAssumption, AcceptAssumption
       DEF Elapse, AcceptTypeOK, Stamps, TooOld
  <2>4. spent' \in [Handlers -> 0 .. MaxHandling]
    BY <1>10, AcceptAssumption DEF Elapse, AcceptTypeOK, Checking
  <2>5. age' \in [Reports -> 0 .. TTL]
    BY <1>10, IdempotencyAssumption DEF Elapse, AcceptTypeOK
  <2>6. AcceptTypeOK'
    BY <1>10, <2>1, <2>2, <2>3, <2>4, <2>5 DEF Elapse, AcceptTypeOK
  <2>7. InOrder'
    BY <1>10 DEF Elapse, InOrder, Made, AcceptTypeOK
  <2> QED BY <2>6, <2>7
<1>11. ASSUME UNCHANGED vars
       PROVE  TypeInv'
  BY <1>a, <1>b, <1>c, <1>11 DEF vars, AcceptTypeOK, handlerVars, reportVars
<1> QED BY <1>1, <1>2, <1>3, <1>4, <1>5, <1>6, <1>7, <1>8, <1>9, <1>10, <1>11
        DEF Next, Handle

(* The pipeline keeps its types.                                           *)
THEOREM AcceptTyped == Spec => []AcceptTypeOK
<1>1. Init => TypeInv
  BY InitTyped
<1>2. TypeInv /\ [Next]_vars => TypeInv'
  BY NextTyped
<1>3. TypeInv => AcceptTypeOK
  BY DEF TypeInv
<1> QED BY <1>1, <1>2, <1>3, PTL DEF Spec

-----------------------------------------------------------------------------
(* Once per key.  The record of a key answers with the report that was     *)
(* made last under it, and lasts until that report has the age TTL.        *)

RecordTrue(k) ==
    Known(k) =>
        LET p == byKey[k].report
        IN  /\ Made(p)
            /\ KeyOf[origin[p]] = k
            /\ BodyOf[origin[p]] = byKey[k].body
            /\ byKey[k].left + age[p] = TTL

Recorded(p) ==
    Made(p) => \/ age[p] = TTL
               \/ /\ Known(KeyOf[origin[p]])
                  /\ byKey[KeyOf[origin[p]]].report = p

KeyInv == /\ \A k \in Keys : RecordTrue(k)
          /\ \A p \in Reports : Recorded(p)

LEMMA InitKeys == Init => KeyInv
BY AcceptAssumption DEF Init, IdempotencyInit, KeyInv, RecordTrue, Recorded,
                        Known, Made

LEMMA MakesOne ==
    ASSUME TypeInv, NEW h \in Handlers, MakeReport(h)
    PROVE  /\ msg[h] \in Messages
           /\ nextReport \in Reports
           /\ ~ Made(nextReport)
           /\ ~ Known(KeyOf[msg[h]])
           /\ origin' = [origin EXCEPT ![nextReport] = msg[h]]
           /\ \A p \in Reports : Made(p)' <=> Made(p) \/ p = nextReport
           /\ \A p \in Reports : p # nextReport => origin'[p] = origin[p]
           /\ origin'[nextReport] = msg[h]
<1>1. nextReport \in 1 .. MaxReports + 1 /\ nextReport <= MaxReports
  BY DEF MakeReport, AcceptTypeOK, TypeInv
<1>2. nextReport \in Reports
  BY <1>1, IdempotencyAssumption DEF Reports
<1>3. msg[h] \in Messages /\ msg[h] # NoMessage
  BY CarriesMessage, AcceptAssumption DEF MakeReport, TypeInv
<1>4. ~ Made(nextReport)
  BY <1>1, <1>2, IdempotencyAssumption DEF TypeInv, InOrder
<1>5. /\ origin' = [origin EXCEPT ![nextReport] = msg[h]]
      /\ ~ Known(KeyOf[msg[h]])
  BY DEF MakeReport, RememberKey
<1>6. origin \in [Reports -> Messages \union {NoMessage}]
  BY DEF TypeInv, AcceptTypeOK
<1>7. /\ \A p \in Reports : p # nextReport => origin'[p] = origin[p]
      /\ origin'[nextReport] = msg[h]
  BY <1>2, <1>5, <1>6
<1>8. \A p \in Reports : Made(p)' <=> Made(p) \/ p = nextReport
  BY <1>3, <1>7 DEF Made
<1> QED BY <1>2, <1>3, <1>4, <1>5, <1>7, <1>8

(* Reports are made by MakeReport only.                                    *)
LEMMA MadeByHandler ==
    ASSUME [Next]_vars, ~ \E h \in Handlers : MakeReport(h)
    PROVE  UNCHANGED origin
BY DEF Next, Handle, Receive, CheckNonce, AnswerFromRecord, Match, EnqueueFor,
       AnswerAccepted, Return, SwitchRadar, Elapse, vars, reportVars

LEMMA NextKeys == TypeInv /\ KeyInv /\ [Next]_vars => KeyInv'
<1> SUFFICES ASSUME TypeInv, KeyInv, [Next]_vars PROVE KeyInv'
  OBVIOUS
<1>1. ASSUME UNCHANGED <<byKey, origin, age>>
      PROVE  KeyInv'
  BY <1>1 DEF KeyInv, RecordTrue, Recorded, Known, Made
<1>2. ASSUME NEW h \in Handlers, MakeReport(h)
      PROVE  KeyInv'
  <2> DEFINE m == msg[h]
             q == nextReport
             rec == NewRecord(BodyOf[m], q)
  <2>1. /\ m \in Messages /\ KeyOf[m] \in Keys
        /\ q \in Reports /\ ~ Made(q) /\ ~ Known(KeyOf[m])
        /\ \A p \in Reports : Made(p)' <=> Made(p) \/ p = q
        /\ \A p \in Reports : p # q => origin'[p] = origin[p]
        /\ origin'[q] = m
    BY <1>2, MakesOne, AcceptAssumption
  <2>2. /\ byKey' = [byKey EXCEPT ![KeyOf[m]] = rec]
        /\ UNCHANGED age
    BY <1>2 DEF MakeReport, RememberKey
  <2>3. /\ rec \in Records
        /\ rec.body = BodyOf[m] /\ rec.report = q /\ rec.left = TTL
    BY <2>1, AcceptAssumption, IdempotencyAssumption DEF NewRecord, Records
  <2>4. byKey'[KeyOf[m]] = rec /\ rec # NoRecord
    BY <2>1, <2>2, <2>3, NoRecordAssumption
       DEF TypeInv, AcceptTypeOK, IdempotencyTypeOK
  <2>5. \A k \in Keys : k # KeyOf[m] => byKey'[k] = byKey[k]
    BY <2>2 DEF TypeInv, AcceptTypeOK, IdempotencyTypeOK
  <2>6. age[q] = 0
    BY <2>1 DEF TypeInv, InOrder
  <2> HIDE DEF m, q, rec
  <2>7. ASSUME NEW k \in Keys
        PROVE  RecordTrue(k)'
    <3>1. CASE k = KeyOf[m]
      <4>1. /\ byKey'[k].report = q /\ byKey'[k].body = BodyOf[m]
            /\ byKey'[k].left = TTL
        BY <2>3, <2>4, <3>1
      <4>2. origin'[q] # NoMessage
        BY <2>1, AcceptAssumption
      <4>3. TTL + age'[q] = TTL
        BY <2>2, <2>6, IdempotencyAssumption
      <4> QED BY <2>1, <3>1, <4>1, <4>2, <4>3 DEF RecordTrue, Made
    <3>2. CASE k # KeyOf[m]
      <4>1. byKey'[k] = byKey[k] /\ RecordTrue(k)
        BY <2>5, <3>2 DEF KeyInv
      <4>2. CASE Known(k)
        <5>1. byKey[k].report \in Reports /\ Made(byKey[k].report)
          BY <4>1, <4>2 DEF RecordTrue, Known, TypeInv, AcceptTypeOK,
                            IdempotencyTypeOK, Records
        <5>2. origin'[byKey[k].report] = origin[byKey[k].report]
          BY <2>1, <5>1
        <5> QED BY <2>2, <4>1, <5>2 DEF RecordTrue, Known, Made
      <4>3. CASE ~ Known(k)
        BY <4>1, <4>3 DEF RecordTrue, Known
      <4> QED BY <4>2, <4>3
    <3> QED BY <3>1, <3>2
  <2>8. ASSUME NEW p \in Reports
        PROVE  Recorded(p)'
    <3>1. CASE p = q
      BY <2>1, <2>3, <2>4, <3>1 DEF Recorded, Known
    <3>2. CASE p # q
      <4>1. origin'[p] = origin[p] /\ age'[p] = age[p] /\ Recorded(p)
        BY <2>1, <2>2, <3>2 DEF KeyInv
      <4>2. CASE ~ Made(p) \/ age[p] = TTL
        BY <4>1, <4>2 DEF Recorded, Made
      <4>3. CASE /\ Made(p)
                 /\ Known(KeyOf[origin[p]])
                 /\ byKey[KeyOf[origin[p]]].report = p
        <5>1. KeyOf[origin[p]] \in Keys /\ KeyOf[origin[p]] # KeyOf[m]
          BY <2>1, <4>3, AcceptAssumption DEF Made, TypeInv, AcceptTypeOK
        <5>2. byKey'[KeyOf[origin[p]]] = byKey[KeyOf[origin[p]]]
          BY <2>5, <5>1
        <5> QED BY <4>1, <4>3, <5>2 DEF Recorded, Known
      <4> QED BY <4>1, <4>2, <4>3 DEF Recorded
    <3> QED BY <3>1, <3>2
  <2> QED BY <2>7, <2>8 DEF KeyInv
<1>3. ASSUME Elapse
      PROVE  KeyInv'
  <2>1. /\ \A k \in Keys : byKey'[k] = Later(byKey[k])
        /\ UNCHANGED origin
        /\ \A p \in Reports :
              age'[p] = IF Made(p) /\ age[p] < TTL THEN age[p] + 1 ELSE age[p]
    BY <1>3 DEF Elapse, IdempotencyElapse
  <2>2. ASSUME NEW k \in Keys, Known(k)
        PROVE  /\ byKey[k] \in Records
               /\ byKey[k].report \in Reports
               /\ byKey[k].left \in 1 .. TTL
               /\ age[byKey[k].report] \in 0 .. TTL
    BY <2>2 DEF Known, TypeInv, AcceptTypeOK, IdempotencyTypeOK, Records
  <2>3. ASSUME NEW k \in Keys
        PROVE  /\ Known(k)' <=> Known(k) /\ byKey[k].left # 1
               /\ Known(k)' => /\ byKey'[k].left = byKey[k].left - 1
                               /\ byKey'[k].report = byKey[k].report
                               /\ byKey'[k].body = byKey[k].body
    <3>1. CASE Known(k) /\ byKey[k].left # 1
      <4> DEFINE rec == [byKey[k] EXCEPT !.left = @ - 1]
      <4>1. byKey'[k] = rec
        BY <2>1, <3>1 DEF Later, Known
      <4>2. /\ rec \in Records
            /\ rec.left = byKey[k].left - 1
            /\ rec.report = byKey[k].report
            /\ rec.body = byKey[k].body
        BY <2>2, <3>1, IdempotencyAssumption DEF Records
      <4> HIDE DEF rec
      <4> QED BY <3>1, <4>1, <4>2, NoRecordAssumption DEF Known
    <3>2. CASE ~ Known(k) \/ byKey[k].left = 1
      BY <2>1, <3>2 DEF Later, Known
    <3> QED BY <3>1, <3>2
  <2>4. ASSUME NEW k \in Keys
        PROVE  RecordTrue(k)'
    <3> SUFFICES ASSUME Known(k)'
                 PROVE  RecordTrue(k)'
      BY DEF RecordTrue
    <3>1. /\ Known(k) /\ byKey'[k].left = byKey[k].left - 1
          /\ byKey'[k].report = byKey[k].report
          /\ byKey'[k].body = byKey[k].body
      BY <2>3
    <3>2. /\ Made(byKey[k].report) /\ RecordTrue(k)
          /\ byKey[k].left + age[byKey[k].report] = TTL
      BY <3>1 DEF KeyInv, RecordTrue
    <3>3. age'[byKey[k].report] = age[byKey[k].report] + 1
      BY <2>1, <2>2, <3>1, <3>2, IdempotencyAssumption
    <3>4. byKey'[k].left + age'[byKey[k].report] = TTL
      BY <2>2, <3>1, <3>2, <3>3, IdempotencyAssumption
    <3> QED BY <2>1, <3>1, <3>2, <3>4 DEF RecordTrue, Made
  <2>5. ASSUME NEW p \in Reports
        PROVE  Recorded(p)'
    <3> SUFFICES ASSUME Made(p)
                 PROVE  Recorded(p)'
      BY <2>1 DEF Recorded, Made
    <3>1. origin'[p] = origin[p] /\ KeyOf[origin[p]] \in Keys
      BY <2>1, AcceptAssumption DEF Made, TypeInv, AcceptTypeOK
    <3>2. CASE age[p] = TTL
      BY <2>1, <3>2, IdempotencyAssumption DEF Recorded
    <3>3. CASE /\ Known(KeyOf[origin[p]])
               /\ byKey[KeyOf[origin[p]]].report = p
      <4> PICK k \in Keys : k = KeyOf[origin[p]]
        BY <3>1
      <4>1. RecordTrue(k) /\ byKey[k].report = p /\ Known(k)
        BY <3>3 DEF KeyInv
      <4>2. byKey[k].left + age[p] = TTL /\ byKey[k].left \in 1 .. TTL
        BY <2>2, <4>1 DEF RecordTrue
      <4>3. age[p] \in Int /\ age[p] < TTL
        BY <2>2, <4>1, <4>2, IdempotencyAssumption
      <4>4. age'[p] = age[p] + 1
        BY <2>1, <4>3
      <4>5. CASE byKey[k].left = 1
        <5>1. age'[p] = TTL
          BY <4>2, <4>3, <4>4, <4>5, IdempotencyAssumption
        <5> QED BY <5>1 DEF Recorded
      <4>6. CASE byKey[k].left # 1
        <5>1. Known(k)' /\ byKey'[k].report = p
          BY <2>3, <4>1, <4>6
        <5>2. KeyOf[origin'[p]] = k
          BY <3>1
        <5> QED BY <5>1, <5>2 DEF Recorded, Known
      <4> QED BY <4>5, <4>6
    <3> QED BY <3>2, <3>3 DEF KeyInv, Recorded
  <2> QED BY <2>4, <2>5 DEF KeyInv
<1>4. CASE \E h \in Handlers : MakeReport(h)
  BY <1>2, <1>4
<1>5. CASE ~ \E h \in Handlers : MakeReport(h)
  <2>1. Elapse \/ UNCHANGED <<byKey, origin, age>>
    BY <1>5 DEF Next, Handle, Receive, CheckNonce, AnswerFromRecord,
            ReplaysKey, ConflictsOnKey, Match, EnqueueFor, AnswerAccepted,
            Return, SwitchRadar, vars, reportVars
  <2> QED BY <1>1, <1>3, <2>1
<1> QED BY <1>4, <1>5

(* Under one key, reports are a lifetime apart.                            *)
LEMMA MakesFirst == TypeInv /\ KeyInv /\ [Next]_vars => FirstUnderItsKey
<1> SUFFICES ASSUME TypeInv, KeyInv, [Next]_vars,
                    NEW p \in Reports, NEW q \in Reports,
                    Made(p), ~ Made(q), Made(q)',
                    KeyOf[origin[p]] = KeyOf[origin'[q]]
             PROVE  age[p] = TTL
  BY DEF FirstUnderItsKey
<1>1. PICK h \in Handlers : MakeReport(h)
  BY MadeByHandler DEF Made
<1>2. ~ Known(KeyOf[origin'[q]])
  BY <1>1, MakesOne
<1> QED BY <1>2 DEF KeyInv, Recorded

THEOREM KeysAreKept == Spec => OncePerKey
<1>1. Init => TypeInv /\ KeyInv
  BY InitTyped, InitKeys
<1>2. TypeInv /\ KeyInv /\ [Next]_vars => (TypeInv /\ KeyInv)'
  BY NextTyped, NextKeys
<1>3. TypeInv /\ KeyInv /\ [Next]_vars => FirstUnderItsKey
  BY MakesFirst
<1> QED BY <1>1, <1>2, <1>3, PTL DEF Spec, OncePerKey

-----------------------------------------------------------------------------
(* Once per message.  While a message can still get through to the lookup  *)
(* of its key, the report made of it is so young that its record lives.    *)

Young(p) ==
    Made(p) =>
        /\ stamp[origin[p]] >= -Window => age[p] + stamp[origin[p]] <= Window
        /\ \A h \in Checking :
              msg[h] = origin[p] => age[p] <= 2 * Window + spent[h]

MessageInv ==
    /\ \A p \in Reports : Young(p)
    /\ \A h \in Checking : stamp[msg[h]] <= Window
    /\ SignedOnce

LEMMA InitMessages == Init => MessageInv
BY DEF Init, MessageInv, Young, Made, Checking, SignedOnce

(* What the counters are.                                                  *)
LEMMA Numbers ==
    ASSUME AcceptTypeOK
    PROVE  /\ Window \in Nat \ {0} /\ MaxHandling \in Nat /\ TTL \in Nat
           /\ \A m \in Messages : stamp[m] \in Int
           /\ \A p \in Reports : age[p] \in 0 .. TTL
           /\ \A p \in Reports : Made(p) => origin[p] \in Messages
           /\ \A h \in Handlers : spent[h] \in 0 .. MaxHandling
           /\ \A n \in Nonces : nonceLeft[n] \in 0 .. Window
           /\ \A h \in Checking : msg[h] \in Messages
BY WindowAssumption, AcceptAssumption, IdempotencyAssumption
   DEF AcceptTypeOK, NonceTypeOK, Stamps, TooOld, Made, Checking

(* A message whose report was made cannot be made into another one.        *)
LEMMA MakesNew ==
    ASSUME TypeInv, KeyInv, MessageInv, NEW h \in Handlers, MakeReport(h),
           NEW p \in Reports, Made(p)
    PROVE  origin[p] # msg[h]
<1> SUFFICES ASSUME origin[p] = msg[h] PROVE FALSE
  OBVIOUS
<1>1. h \in Checking
  BY DEF MakeReport, Checking
<1>2. age[p] <= 2 * Window + spent[h]
  BY <1>1 DEF MessageInv, Young
<1>3. age[p] < TTL
  BY <1>2, Numbers, RecordsOutliveMessages DEF TypeInv
<1>4. Known(KeyOf[msg[h]])
  BY <1>3, Numbers DEF KeyInv, Recorded, TypeInv
<1> QED BY <1>4, MakesOne

LEMMA NextMessages ==
    TypeInv /\ KeyInv /\ MessageInv /\ [Next]_vars => MessageInv'
<1> SUFFICES ASSUME TypeInv, KeyInv, MessageInv, [Next]_vars
             PROVE  MessageInv'
  OBVIOUS
<1> USE Numbers DEF TypeInv
<1>1. ASSUME NEW h \in Handlers, NEW m \in Messages, Receive(h, m)
      PROVE  MessageInv'
  <2>1. CASE pc'[h] = "nonce" /\ InWindow(m)
    <3>1. /\ msg' = [msg EXCEPT ![h] = m]
          /\ UNCHANGED <<stamp, spent, origin, age>>
          /\ Checking' = Checking \union {h}
      BY <1>1, <2>1
         DEF Receive, Goto, Respond, Checking, reportVars, AcceptTypeOK
    <3>2. /\ msg'[h] = m
          /\ \A g \in Handlers \ {h} : msg'[g] = msg[g]
      BY <3>1 DEF AcceptTypeOK
    <3>3. ASSUME NEW p \in Reports
          PROVE  Young(p)'
      <4>1. Made(p) /\ origin[p] = m => age[p] <= 2 * Window
        BY <2>1 DEF MessageInv, Young, InWindow
      <4> QED BY <3>1, <3>2, <4>1 DEF MessageInv, Young, Made
    <3>4. \A g \in Checking' : stamp'[msg'[g]] <= Window
      BY <2>1, <3>1, <3>2 DEF MessageInv, InWindow, Checking
    <3> QED BY <3>1, <3>3, <3>4 DEF MessageInv, SignedOnce, Made
  <2>2. CASE Respond(h, "refused")
    <3>1. /\ UNCHANGED <<stamp, origin, age>>
          /\ Checking' \subseteq Checking
          /\ \A g \in Checking' : msg'[g] = msg[g] /\ spent'[g] = spent[g]
      BY <1>1, <2>2
         DEF Receive, Goto, Respond, Checking, reportVars, AcceptTypeOK
    <3> QED BY <3>1 DEF MessageInv, Young, SignedOnce, Made
  <2> QED BY <1>1, <2>1, <2>2 DEF Receive, Goto, AcceptTypeOK
<1>2. ASSUME NEW h \in Handlers, MakeReport(h)
      PROVE  MessageInv'
  <2> PICK q \in Reports : q = nextReport
    BY <1>2, MakesOne
  <2>1. /\ ~ Made(q)
        /\ \A p \in Reports : Made(p)' <=> Made(p) \/ p = q
        /\ \A p \in Reports : p # q => origin'[p] = origin[p]
        /\ origin'[q] = msg[h]
    BY <1>2, MakesOne
  <2>2. /\ UNCHANGED <<stamp, msg, age>>
        /\ h \in Checking /\ Checking' = Checking \ {h}
        /\ \A g \in Handlers \ {h} : spent'[g] = spent[g]
    BY <1>2 DEF MakeReport, Goto, Checking, AcceptTypeOK
  <2>3. age[q] = 0
    BY <2>1 DEF InOrder
  <2>4. \A g \in Handlers \ {h} : 2 * Window + spent[g] >= 0
    OBVIOUS
  <2>5. ASSUME NEW p \in Reports
        PROVE  Young(p)'
    <3>1. CASE p = q
      BY <2>1, <2>2, <2>3, <2>4, <3>1 DEF MessageInv, Young, Checking
    <3>2. CASE p # q
      BY <2>1, <2>2, <3>2 DEF MessageInv, Young, Checking
    <3> QED BY <3>1, <3>2
  <2>6. SignedOnce'
    BY <1>2, <2>1, MakesNew DEF MessageInv, SignedOnce
  <2>7. \A g \in Checking' : stamp'[msg'[g]] <= Window
    BY <2>2 DEF MessageInv
  <2> QED BY <2>5, <2>6, <2>7 DEF MessageInv
<1>3. ASSUME Elapse
      PROVE  MessageInv'
  <2>1. /\ UNCHANGED <<pc, msg, origin>>
        /\ \A m \in Messages :
              stamp'[m] = IF stamp[m] > TooOld THEN stamp[m] - 1 ELSE TooOld
        /\ \A h \in Checking : spent'[h] = spent[h] + 1
        /\ \A p \in Reports :
              Made(p) => age'[p] = IF age[p] < TTL THEN age[p] + 1 ELSE age[p]
    BY <1>3 DEF Elapse, Checking
  <2>2. Checking' = Checking
    BY <2>1 DEF Checking
  <2>3. ASSUME NEW p \in Reports, Made(p)
        PROVE  Young(p)'
    <3>1. age'[p] <= age[p] + 1 /\ age'[p] \in Int
      BY <2>1, <2>3
    <3>2. stamp'[origin[p]] >= -Window => stamp[origin[p]] = stamp'[origin[p]] + 1
      BY <2>1, <2>3 DEF TooOld
    <3>3. stamp'[origin[p]] \in Int
      BY <2>1, <2>3 DEF TooOld
    <3>4. stamp'[origin[p]] >= -Window
             => age'[p] + stamp'[origin[p]] <= Window
      BY <2>3, <3>1, <3>2, <3>3 DEF MessageInv, Young
    <3>5. ASSUME NEW h \in Checking, msg[h] = origin[p]
          PROVE  age'[p] <= 2 * Window + spent'[h]
      <4>1. spent'[h] = spent[h] + 1 /\ spent[h] \in Nat
        BY <2>1 DEF Checking
      <4> QED BY <2>3, <3>1, <3>5, <4>1 DEF MessageInv, Young
    <3> QED BY <2>1, <2>2, <3>4, <3>5 DEF Young
  <2>4. ASSUME NEW h \in Checking
        PROVE  stamp'[msg[h]] <= Window
    <3>1. stamp[msg[h]] <= Window
      BY DEF MessageInv
    <3> QED BY <2>1, <3>1 DEF TooOld
  <2> QED BY <2>1, <2>2, <2>3, <2>4 DEF MessageInv, Young, SignedOnce, Made
<1>4. ASSUME UNCHANGED <<stamp, origin, age>>,
             Checking' \subseteq Checking,
             \A g \in Checking' : msg'[g] = msg[g] /\ spent'[g] = spent[g]
      PROVE  MessageInv'
  BY <1>4 DEF MessageInv, Young, SignedOnce, Made
<1>5. ASSUME NEW h \in Handlers,
             CheckNonce(h) \/ AnswerFromRecord(h) \/ Match(h)
             \/ (\E r \in Radars : EnqueueFor(h, r)) \/ AnswerAccepted(h)
             \/ Return(h)
      PROVE  MessageInv'
  <2>1. UNCHANGED <<stamp, origin, age>>
    BY <1>5 DEF CheckNonce, AnswerFromRecord, Match, EnqueueFor,
                AnswerAccepted, Return, reportVars
  <2>2. Checking' \subseteq Checking
    BY <1>5 DEF CheckNonce, AnswerFromRecord, Match, EnqueueFor,
                AnswerAccepted, Return, Respond, Goto, Checking, AcceptTypeOK
  <2>3. \A g \in Checking' : msg'[g] = msg[g] /\ spent'[g] = spent[g]
    BY <1>5 DEF CheckNonce, AnswerFromRecord, Match, EnqueueFor,
                AnswerAccepted, Return, Respond, Goto, Checking, AcceptTypeOK
  <2> QED BY <1>4, <2>1, <2>2, <2>3
<1>6. ASSUME (\E r \in Radars : SwitchRadar(r)) \/ UNCHANGED vars
      PROVE  MessageInv'
  <2>1. UNCHANGED <<stamp, origin, age, pc, msg, spent>>
    BY <1>6 DEF SwitchRadar, vars, handlerVars, reportVars
  <2> QED BY <1>4, <2>1 DEF Checking
<1> QED BY <1>1, <1>2, <1>3, <1>5, <1>6 DEF Next, Handle

(* A message is made into one report, for every window and lifetime with   *)
(* TTL > 2 * Window + MaxHandling.                                         *)
THEOREM MessagesOnce == Spec => []SignedOnce
<1>1. Init => TypeInv /\ KeyInv /\ MessageInv
  BY InitTyped, InitKeys, InitMessages
<1>2. TypeInv /\ KeyInv /\ MessageInv /\ [Next]_vars
         => (TypeInv /\ KeyInv /\ MessageInv)'
  BY NextTyped, NextKeys, NextMessages
<1>3. MessageInv => SignedOnce
  BY DEF MessageInv
<1> QED BY <1>1, <1>2, <1>3, PTL DEF Spec

-----------------------------------------------------------------------------
(* Once per nonce.  From its look into the book to its report a handler    *)
(* uses up at most MaxHandling of the window the book holds its nonce for. *)

NonceInv ==
    /\ \A h \in Handlers : pc[h] = "remember" =>
          nonceLeft[NonceOf[msg[h]]] >= Window - spent[h]
    /\ \A p \in Reports : Made(p) =>
          age[p] + nonceLeft[NonceOf[origin[p]]] >= Window - MaxHandling
    /\ \A h \in Handlers, p \in Reports :
          /\ pc[h] = "remember" /\ Made(p)
          /\ NonceOf[origin[p]] = NonceOf[msg[h]]
          => age[p] >= Window - MaxHandling
    /\ \A g, h \in Handlers :
          /\ g # h /\ pc[g] = "remember" /\ pc[h] = "remember"
          /\ NonceOf[msg[g]] = NonceOf[msg[h]]
          => Window <= MaxHandling

LEMMA InitNonces == Init => NonceInv
BY DEF Init, NonceInv, Made

LEMMA NonceTypes ==
    ASSUME AcceptTypeOK
    PROVE  /\ \A p \in Reports : Made(p) => NonceOf[origin[p]] \in Nonces
           /\ \A h \in Handlers :
                 pc[h] # "idle" => NonceOf[msg[h]] \in Nonces
BY AcceptAssumption DEF AcceptTypeOK, Made

LEMMA PassesNonce ==
    ASSUME TypeInv, NonceInv, NEW h \in Handlers, CheckNonce(h),
           RememberNonce(NonceOf[msg[h]]), Goto(h, "remember")
    PROVE  NonceInv'
<1> USE Numbers, NonceTypes DEF TypeInv
<1> PICK n \in Nonces : n = NonceOf[msg[h]]
  BY DEF CheckNonce
<1>1. /\ nonceLeft[n] = 0
      /\ nonceLeft'[n] = Window
      /\ \A k \in Nonces : nonceLeft'[k] >= nonceLeft[k]
  BY DEF RememberNonce, Unused, AcceptTypeOK, NonceTypeOK
<1>2. /\ UNCHANGED <<msg, origin, age>>
      /\ \A g \in Handlers \ {h} : pc'[g] = pc[g] /\ spent'[g] = spent[g]
      /\ spent'[h] \in Nat
  BY NextTyped DEF CheckNonce, Goto, Respond, reportVars, AcceptTypeOK
<1>3. pc[h] = "nonce"
  BY DEF CheckNonce
<1>4. ASSUME NEW g \in Handlers, pc'[g] = "remember"
      PROVE  nonceLeft'[NonceOf[msg[g]]] >= Window - spent'[g]
  <2>1. CASE g = h
    BY <1>1, <1>2, <2>1
  <2>2. CASE g # h
    <3>1. nonceLeft[NonceOf[msg[g]]] >= Window - spent[g]
      BY <1>2, <1>4, <2>2 DEF NonceInv
    <3>2. /\ NonceOf[msg[g]] \in Nonces
          /\ nonceLeft'[NonceOf[msg[g]]] \in Int
      BY <1>1, <1>2, <1>4, <2>2
         DEF RememberNonce, AcceptTypeOK, NonceTypeOK
    <3> QED BY <1>1, <1>2, <2>2, <3>1, <3>2
  <2> QED BY <2>1, <2>2
<1>5. ASSUME NEW p \in Reports, Made(p)
      PROVE  age[p] + nonceLeft'[NonceOf[origin[p]]] >= Window - MaxHandling
  <2>1. age[p] + nonceLeft[NonceOf[origin[p]]] >= Window - MaxHandling
    BY <1>5 DEF NonceInv
  <2>2. nonceLeft'[NonceOf[origin[p]]] \in Int
    BY <1>5 DEF RememberNonce, AcceptTypeOK, NonceTypeOK
  <2> QED BY <1>1, <1>5, <2>1, <2>2
<1>6. ASSUME NEW g \in Handlers, NEW p \in Reports,
             pc'[g] = "remember", Made(p),
             NonceOf[origin[p]] = NonceOf[msg[g]]
      PROVE  age[p] >= Window - MaxHandling
  <2>1. CASE g = h
    <3>1. age[p] + nonceLeft[n] >= Window - MaxHandling
      BY <1>6, <2>1 DEF NonceInv
    <3> QED BY <1>1, <3>1
  <2>2. CASE g # h
    BY <1>2, <1>6, <2>2 DEF NonceInv
  <2> QED BY <2>1, <2>2
<1>7. ASSUME NEW g \in Handlers, g # h, pc[g] = "remember",
             NonceOf[msg[g]] = n
      PROVE  Window <= MaxHandling
  <2>1. nonceLeft[n] >= Window - spent[g]
    BY <1>7 DEF NonceInv
  <2> QED BY <1>1, <2>1
<1>8. ASSUME NEW f \in Handlers, NEW g \in Handlers, f # g,
             pc'[f] = "remember", pc'[g] = "remember",
             NonceOf[msg[f]] = NonceOf[msg[g]]
      PROVE  Window <= MaxHandling
  <2>1. CASE f # h /\ g # h
    BY <1>2, <1>8, <2>1 DEF NonceInv
  <2>2. CASE f = h
    BY <1>2, <1>7, <1>8, <2>2
  <2>3. CASE g = h
    BY <1>2, <1>7, <1>8, <2>3
  <2> QED BY <2>1, <2>2, <2>3
<1> QED BY <1>2, <1>4, <1>5, <1>6, <1>8 DEF NonceInv, Made

LEMMA MakesApart ==
    ASSUME TypeInv, NonceInv, NEW h \in Handlers, MakeReport(h)
    PROVE  NonceInv'
<1> USE Numbers, NonceTypes DEF TypeInv
<1> PICK q \in Reports : q = nextReport
  BY MakesOne
<1>1. /\ ~ Made(q)
      /\ \A p \in Reports : Made(p)' <=> Made(p) \/ p = q
      /\ \A p \in Reports : p # q => origin'[p] = origin[p]
      /\ origin'[q] = msg[h]
  BY MakesOne
<1>2. /\ UNCHANGED <<nonceLeft, msg, age>>
      /\ pc[h] = "remember" /\ pc'[h] = "match"
      /\ \A g \in Handlers \ {h} : pc'[g] = pc[g] /\ spent'[g] = spent[g]
  BY DEF MakeReport, Goto, AcceptTypeOK
<1>3. age[q] = 0
  BY <1>1 DEF InOrder
<1>4. nonceLeft[NonceOf[msg[h]]] >= Window - MaxHandling
  <2>1. nonceLeft[NonceOf[msg[h]]] >= Window - spent[h]
    BY <1>2 DEF NonceInv
  <2> QED BY <1>2, <2>1
<1>5. ASSUME NEW p \in Reports, Made(p)'
      PROVE  age'[p] + nonceLeft'[NonceOf[origin'[p]]] >= Window - MaxHandling
  BY <1>1, <1>2, <1>3, <1>4, <1>5 DEF NonceInv
<1>6. ASSUME NEW g \in Handlers, NEW p \in Reports,
             pc'[g] = "remember", Made(p)',
             NonceOf[origin'[p]] = NonceOf[msg'[g]]
      PROVE  age'[p] >= Window - MaxHandling
  <2>1. g # h
    BY <1>2, <1>6
  <2>2. CASE p = q
    <3>1. Window <= MaxHandling
      BY <1>1, <1>2, <1>6, <2>1, <2>2 DEF NonceInv
    <3> QED BY <1>2, <1>3, <2>2, <3>1
  <2>3. CASE p # q
    BY <1>1, <1>2, <1>6, <2>1, <2>3 DEF NonceInv
  <2> QED BY <2>2, <2>3
<1>7. ASSUME NEW g \in Handlers, pc'[g] = "remember"
      PROVE  /\ g # h /\ pc[g] = "remember"
             /\ spent'[g] = spent[g] /\ msg'[g] = msg[g]
  BY <1>2, <1>7
<1> QED BY <1>2, <1>5, <1>6, <1>7 DEF NonceInv

LEMMA NextNonces == TypeInv /\ NonceInv /\ [Next]_vars => NonceInv'
<1> SUFFICES ASSUME TypeInv, NonceInv, [Next]_vars PROVE NonceInv'
  OBVIOUS
<1> USE Numbers, NonceTypes DEF TypeInv
<1>1. ASSUME UNCHANGED <<nonceLeft, origin, age>>,
             \A g \in Handlers : pc'[g] = "remember" =>
                /\ pc[g] = "remember"
                /\ msg'[g] = msg[g] /\ spent'[g] = spent[g]
      PROVE  NonceInv'
  BY <1>1 DEF NonceInv, Made
<1>2. ASSUME NEW h \in Handlers,
             \/ \E m \in Messages : Receive(h, m)
             \/ CheckNonce(h) /\ Respond(h, "used_nonce")
                   /\ RefuseNonce(NonceOf[msg[h]])
             \/ AnswerFromRecord(h) \/ Match(h)
             \/ \E r \in Radars : EnqueueFor(h, r)
             \/ AnswerAccepted(h) \/ Return(h)
      PROVE  NonceInv'
  <2>1. UNCHANGED <<nonceLeft, origin, age>>
    BY <1>2 DEF Receive, CheckNonce, RefuseNonce, AnswerFromRecord, Match,
                EnqueueFor, AnswerAccepted, Return, reportVars
  <2>2. \A g \in Handlers : pc'[g] = "remember" =>
           /\ pc[g] = "remember"
           /\ msg'[g] = msg[g] /\ spent'[g] = spent[g]
    BY <1>2 DEF Receive, CheckNonce, AnswerFromRecord, Match, EnqueueFor,
                AnswerAccepted, Return, Respond, Goto, AcceptTypeOK
  <2> QED BY <1>1, <2>1, <2>2
<1>3. ASSUME NEW h \in Handlers, CheckNonce(h)
      PROVE  NonceInv'
  BY <1>2, <1>3, PassesNonce DEF CheckNonce
<1>4. ASSUME NEW h \in Handlers, MakeReport(h)
      PROVE  NonceInv'
  BY <1>4, MakesApart
<1>5. ASSUME Elapse
      PROVE  NonceInv'
  <2>1. /\ UNCHANGED <<pc, msg, origin>>
        /\ \A n \in Nonces :
              nonceLeft'[n] = IF nonceLeft[n] > 0 THEN nonceLeft[n] - 1 ELSE 0
        /\ \A h \in Handlers : pc[h] = "remember" => spent'[h] = spent[h] + 1
        /\ \A p \in Reports :
              Made(p) => age'[p] = IF age[p] < TTL THEN age[p] + 1 ELSE age[p]
    BY <1>5 DEF Elapse, NonceElapse, Checking
  <2>2. ASSUME NEW h \in Handlers, pc[h] = "remember"
        PROVE  nonceLeft'[NonceOf[msg[h]]] >= Window - spent'[h]
    <3>1. nonceLeft[NonceOf[msg[h]]] >= Window - spent[h]
      BY <2>2 DEF NonceInv
    <3>2. NonceOf[msg[h]] \in Nonces
      BY <2>2
    <3> QED BY <2>1, <2>2, <3>1, <3>2
  <2>3. ASSUME NEW p \in Reports, Made(p)
        PROVE  /\ age'[p] \in Int /\ age'[p] >= age[p]
               /\ age'[p] + nonceLeft'[NonceOf[origin[p]]]
                     >= Window - MaxHandling
    <3>1. age[p] + nonceLeft[NonceOf[origin[p]]] >= Window - MaxHandling
      BY <2>3 DEF NonceInv
    <3>2. NonceOf[origin[p]] \in Nonces
      BY <2>3
    <3> QED BY <2>1, <2>3, <3>1, <3>2, RecordsOutliveMessages
  <2>4. ASSUME NEW h \in Handlers, NEW p \in Reports,
               pc[h] = "remember", Made(p),
               NonceOf[origin[p]] = NonceOf[msg[h]]
        PROVE  age'[p] >= Window - MaxHandling
    <3>1. age[p] >= Window - MaxHandling
      BY <2>4 DEF NonceInv
    <3> QED BY <2>3, <2>4, <3>1
  <2> QED BY <2>1, <2>2, <2>3, <2>4 DEF NonceInv, Made
<1>6. ASSUME (\E r \in Radars : SwitchRadar(r)) \/ UNCHANGED vars
      PROVE  NonceInv'
  <2>1. UNCHANGED <<nonceLeft, origin, age, pc, msg, spent>>
    BY <1>6 DEF SwitchRadar, vars, handlerVars, reportVars
  <2> QED BY <1>1, <2>1
<1> QED BY <1>2, <1>3, <1>4, <1>5, <1>6 DEF Next, Handle

LEMMA MakesLate == TypeInv /\ NonceInv /\ [Next]_vars => HeldSinceItsReport
<1> SUFFICES ASSUME TypeInv, NonceInv, [Next]_vars,
                    NEW p \in Reports, NEW q \in Reports,
                    Made(p), ~ Made(q), Made(q)',
                    NonceOf[origin[p]] = NonceOf[origin'[q]]
             PROVE  age[p] >= Window - MaxHandling
  BY DEF HeldSinceItsReport
<1>1. PICK h \in Handlers : MakeReport(h)
  BY MadeByHandler DEF Made
<1>2. origin'[q] = msg[h] /\ pc[h] = "remember"
  BY <1>1, MakesOne DEF MakeReport
<1> QED BY <1>2 DEF NonceInv

(* Reports that share a nonce are a window apart, less the time a handler  *)
(* takes.                                                                  *)
THEOREM NoncesAreKept == Spec => NonceHeldAWindow
<1>1. Init => TypeInv /\ NonceInv
  BY InitTyped, InitNonces
<1>2. TypeInv /\ NonceInv /\ [Next]_vars => (TypeInv /\ NonceInv)'
  BY NextTyped, NextNonces
<1>3. TypeInv /\ NonceInv /\ [Next]_vars => HeldSinceItsReport
  BY MakesLate
<1> QED BY <1>1, <1>2, <1>3, PTL DEF Spec, NonceHeldAWindow

-----------------------------------------------------------------------------
(* True answers.  From the making of a report to the answer, a report has  *)
(* one handler, which files it for the radars that matched; what another   *)
(* is answered about it was true when the record was read and stays so.    *)

Owns(h) == pc[h] \in {"match", "enqueue"} \/ answer[h] = "accepted"

OwnReport(h) ==
    Owns(h) =>
        /\ report[h] \in Reports
        /\ Made(report[h])
        /\ origin[report[h]] = msg[h]
        /\ pc[h] = "match" => filed[report[h]] = {}
        /\ pc[h] = "enqueue" => plan[report[h]] = filed[report[h]] \union todo[h]
        /\ answer[h] = "accepted" => filed[report[h]] = plan[report[h]]

ToldOfOthers(h) ==
    /\ answer[h] = "replay" =>
          /\ report[h] \in Reports
          /\ Made(report[h])
          /\ KeyOf[origin[report[h]]] = KeyOf[msg[h]]
          /\ BodyOf[origin[report[h]]] = BodyOf[msg[h]]
    /\ answer[h] = "conflict" =>
          \E q \in Reports :
              /\ Made(q)
              /\ KeyOf[origin[q]] = KeyOf[msg[h]]
              /\ BodyOf[origin[q]] # BodyOf[msg[h]]

HandlerTrue(h) ==
    /\ answer[h] # "none" => pc[h] = "answered"
    /\ OwnReport(h)
    /\ ToldOfOthers(h)

AnswerInv ==
    /\ \A h \in Handlers : HandlerTrue(h)
    /\ \A g, h \in Handlers :
          Owns(g) /\ Owns(h) /\ report[g] = report[h] => g = h
    /\ \A p \in Reports : ~ Made(p) => filed[p] = {}

(* Handler h moves and touches no report but mine.                         *)
LEMMA AnswersGoOn ==
    ASSUME AnswerInv, NEW h \in Handlers, NEW mine,
           \A g \in Handlers \ {h} :
              /\ pc'[g] = pc[g] /\ msg'[g] = msg[g] /\ todo'[g] = todo[g]
              /\ report'[g] = report[g] /\ answer'[g] = answer[g]
              /\ Owns(g) => report[g] # mine,
           \A p \in Reports : Made(p) => origin'[p] = origin[p],
           \A p \in Reports : p # mine =>
              plan'[p] = plan[p] /\ filed'[p] = filed[p],
           HandlerTrue(h)',
           Owns(h)' => report'[h] = mine,
           \A p \in Reports : ~ Made(p)' => filed'[p] = {}
    PROVE  AnswerInv'
<1>1. \A p \in Reports : Made(p) => Made(p)' /\ origin'[p] = origin[p]
  BY DEF Made
<1>2. ASSUME NEW g \in Handlers \ {h}
      PROVE  HandlerTrue(g)'
  <2>1. HandlerTrue(g)
    BY DEF AnswerInv
  <2>2. Owns(g)' <=> Owns(g)
    BY DEF Owns
  <2>3. OwnReport(g)'
    BY <1>1, <2>1, <2>2 DEF HandlerTrue, OwnReport
  <2>4. ToldOfOthers(g)'
    BY <1>1, <2>1 DEF HandlerTrue, ToldOfOthers
  <2> QED BY <2>1, <2>3, <2>4 DEF HandlerTrue
<1>3. \A g, k \in Handlers :
         Owns(g)' /\ Owns(k)' /\ report'[g] = report'[k] => g = k
  BY DEF AnswerInv, Owns
<1> QED BY <1>2, <1>3 DEF AnswerInv

LEMMA NextAnswers == TypeInv /\ KeyInv /\ AnswerInv /\ [Next]_vars => AnswerInv'
<1> SUFFICES ASSUME TypeInv, KeyInv, AnswerInv, [Next]_vars
             PROVE  AnswerInv'
  OBVIOUS
<1>a. AcceptTypeOK
  BY DEF TypeInv
<1>1. ASSUME UNCHANGED <<pc, msg, report, todo, answer, origin, plan, filed>>
      PROVE  AnswerInv'
  BY <1>1 DEF AnswerInv, HandlerTrue, OwnReport, ToldOfOthers, Owns, Made
<1>2. CASE Elapse \/ UNCHANGED vars \/ \E r \in Radars : SwitchRadar(r)
  BY <1>1, <1>2 DEF Elapse, SwitchRadar, vars, handlerVars, reportVars
<1>3. ASSUME NEW h \in Handlers,
             \/ \E m \in Messages : Receive(h, m)
             \/ CheckNonce(h) \/ AnswerFromRecord(h) \/ Return(h)
      PROVE  AnswerInv'
  <2>1. /\ UNCHANGED <<origin, plan, filed>>
        /\ \A g \in Handlers \ {h} :
              /\ pc'[g] = pc[g] /\ msg'[g] = msg[g] /\ todo'[g] = todo[g]
              /\ report'[g] = report[g] /\ answer'[g] = answer[g]
    BY <1>a, <1>3
       DEF Receive, CheckNonce, AnswerFromRecord, Return, Respond, Goto,
           AcceptTypeOK, reportVars
  <2>2. /\ answer'[h] # "none" => pc'[h] = "answered"
        /\ ~ Owns(h)'
    <3>1. CASE Return(h)
      BY <1>a, <3>1 DEF Return, Goto, Owns, AcceptTypeOK
    <3>2. CASE ~ Return(h)
      <4>1. pc[h] # "answered" /\ answer[h] = "none"
        BY <1>3, <3>2
           DEF Receive, CheckNonce, AnswerFromRecord, AnswerInv, HandlerTrue
      <4> QED BY <1>a, <1>3, <3>2, <4>1
              DEF Receive, CheckNonce, AnswerFromRecord, Respond, Goto, Owns,
                  AcceptTypeOK
    <3> QED BY <3>1, <3>2
  <2>3. ToldOfOthers(h)'
    <3>1. CASE AnswerFromRecord(h)
      <4>1. /\ pc[h] = "remember" /\ msg'[h] = msg[h] /\ KeyOf[msg[h]] \in Keys
            /\ answer'[h] \in {"replay", "conflict"}
            /\ answer'[h] = "replay" =>
                  /\ SameBody(KeyOf[msg[h]], BodyOf[msg[h]])
                  /\ report'[h] = byKey[KeyOf[msg[h]]].report
            /\ answer'[h] = "conflict" =>
                  /\ Known(KeyOf[msg[h]])
                  /\ ~ SameBody(KeyOf[msg[h]], BodyOf[msg[h]])
        BY <1>a, <3>1, CarriesMessage
           DEF AnswerFromRecord, ReplaysKey, ConflictsOnKey, Respond, Goto,
               AcceptTypeOK
      <4>2. PICK k \in Keys : k = KeyOf[msg[h]]
        BY <4>1
      <4>3. Known(k) /\ RecordTrue(k) /\ byKey[k].report \in Reports
        BY <1>a, <4>1, <4>2
           DEF SameBody, Known, KeyInv, AcceptTypeOK, IdempotencyTypeOK,
               Records
      <4> QED BY <2>1, <4>1, <4>2, <4>3
              DEF ToldOfOthers, RecordTrue, SameBody, Made
    <3>2. CASE ~ AnswerFromRecord(h)
      <4>1. answer[h] = "none" \/ Return(h)
        BY <1>3, <3>2 DEF Receive, CheckNonce, AnswerInv, HandlerTrue
      <4>2. answer'[h] \notin {"replay", "conflict"}
        BY <1>a, <1>3, <3>2, <4>1
           DEF Receive, CheckNonce, Return, Respond, Goto, AcceptTypeOK
      <4> QED BY <4>2 DEF ToldOfOthers
    <3> QED BY <3>1, <3>2
  <2>4. HandlerTrue(h)'
    BY <2>2, <2>3 DEF HandlerTrue, OwnReport
  <2>5. \A g \in Handlers : Owns(g) => report[g] # NoReport
    BY AcceptAssumption DEF AnswerInv, HandlerTrue, OwnReport
  <2>6. \A p \in Reports : ~ Made(p)' => filed'[p] = {}
    BY <2>1 DEF AnswerInv, Made
  <2>7. \A p \in Reports : /\ Made(p) => origin'[p] = origin[p]
                          /\ plan'[p] = plan[p] /\ filed'[p] = filed[p]
    BY <2>1
  <2> QED BY <2>1, <2>2, <2>4, <2>5, <2>6, <2>7, AnswersGoOn
<1>4. ASSUME NEW h \in Handlers, MakeReport(h)
      PROVE  AnswerInv'
  <2>1. PICK mine \in Reports : mine = nextReport
    BY <1>4, MakesOne
  <2>2. /\ ~ Made(mine) /\ msg[h] \in Messages
        /\ \A p \in Reports : Made(p)' <=> Made(p) \/ p = mine
        /\ \A p \in Reports : p # mine => origin'[p] = origin[p]
        /\ origin'[mine] = msg[h]
    BY <1>4, <2>1, MakesOne
  <2>3. /\ UNCHANGED <<plan, filed, msg, todo, answer>>
        /\ pc[h] = "remember" /\ pc'[h] = "match" /\ report'[h] = mine
        /\ \A g \in Handlers \ {h} : pc'[g] = pc[g] /\ report'[g] = report[g]
    BY <1>a, <1>4, <2>1 DEF MakeReport, Goto, AcceptTypeOK
  <2>4. answer[h] = "none" /\ filed[mine] = {}
    BY <2>2, <2>3 DEF AnswerInv, HandlerTrue
  <2>5. HandlerTrue(h)'
    BY <2>2, <2>3, <2>4 DEF HandlerTrue, OwnReport, ToldOfOthers
  <2>6. \A g \in Handlers : Owns(g) => report[g] # mine
    BY <2>2 DEF AnswerInv, HandlerTrue, OwnReport
  <2>7. \A p \in Reports : Made(p) => origin'[p] = origin[p]
    BY <2>2
  <2>8. \A p \in Reports : ~ Made(p)' => filed'[p] = {}
    BY <2>2, <2>3 DEF AnswerInv
  <2> QED BY <2>3, <2>5, <2>6, <2>7, <2>8, AnswersGoOn
<1>5. ASSUME NEW h \in Handlers,
             Match(h) \/ AnswerAccepted(h) \/ \E r \in Radars : EnqueueFor(h, r)
      PROVE  AnswerInv'
  <2>0. pc[h] \in {"match", "enqueue"} /\ Owns(h)
    BY <1>5 DEF Match, AnswerAccepted, EnqueueFor, Owns
  <2>1. PICK mine \in Reports : mine = report[h]
    BY <2>0 DEF AnswerInv, HandlerTrue, OwnReport
  <2>2. /\ Made(mine) /\ origin[mine] = msg[h] /\ answer[h] = "none"
        /\ pc[h] = "match" => filed[mine] = {}
        /\ pc[h] = "enqueue" => plan[mine] = filed[mine] \union todo[h]
    BY <2>0, <2>1 DEF AnswerInv, HandlerTrue, OwnReport
  <2>3. /\ UNCHANGED <<origin, msg, report>>
        /\ \A g \in Handlers \ {h} :
              pc'[g] = pc[g] /\ todo'[g] = todo[g] /\ answer'[g] = answer[g]
        /\ \A p \in Reports \ {mine} : plan'[p] = plan[p] /\ filed'[p] = filed[p]
    BY <1>a, <1>5, <2>1
       DEF Match, AnswerAccepted, EnqueueFor, Respond, Goto, AcceptTypeOK,
           reportVars
  <2>4. HandlerTrue(h)'
    <3>1. CASE Match(h)
      <4>1. /\ pc[h] = "match" /\ pc'[h] = "enqueue" /\ answer' = answer
            /\ filed' = filed /\ plan'[mine] = todo'[h]
        BY <1>a, <2>1, <3>1 DEF Match, Goto, AcceptTypeOK
      <4> QED BY <2>1, <2>2, <2>3, <4>1
              DEF HandlerTrue, OwnReport, ToldOfOthers, Made
    <3>2. ASSUME NEW r \in Radars, EnqueueFor(h, r)
          PROVE  HandlerTrue(h)'
      <4>1. /\ pc[h] = "enqueue" /\ pc' = pc /\ answer' = answer
            /\ r \in todo[h] /\ todo'[h] = todo[h] \ {r}
            /\ filed'[mine] = filed[mine] \union {r} /\ plan' = plan
        BY <1>a, <2>1, <3>2 DEF EnqueueFor, AcceptTypeOK
      <4>2. plan'[mine] = filed'[mine] \union todo'[h]
        BY <2>2, <4>1
      <4> QED BY <2>1, <2>2, <2>3, <4>1, <4>2
              DEF HandlerTrue, OwnReport, ToldOfOthers, Made
    <3>3. CASE AnswerAccepted(h)
      <4>1. /\ pc[h] = "enqueue" /\ pc'[h] = "answered" /\ todo[h] = {}
            /\ answer'[h] = "accepted" /\ UNCHANGED <<plan, filed>>
        BY <1>a, <3>3 DEF AnswerAccepted, Respond, Goto, AcceptTypeOK,
                          reportVars
      <4> QED BY <2>1, <2>2, <2>3, <4>1
              DEF HandlerTrue, OwnReport, ToldOfOthers, Made
    <3> QED BY <1>5, <3>1, <3>2, <3>3
  <2>5. \A g \in Handlers \ {h} : Owns(g) => report[g] # mine
    BY <2>0, <2>1 DEF AnswerInv
  <2>6. \A p \in Reports : ~ Made(p)' => filed'[p] = {}
    BY <2>2, <2>3 DEF AnswerInv, Made
  <2> QED BY <2>1, <2>3, <2>4, <2>5, <2>6, AnswersGoOn
<1> QED BY <1>1, <1>2, <1>3, <1>4, <1>5 DEF Next, Handle

(* No station is told what is not so: accepted means that its report was   *)
(* filed for every radar that matched, replayed that the body was the same,*)
(* a conflict that it was not.                                             *)
THEOREM StationsAreToldTheTruth == Spec => []AnswersAreTrue
<1>1. Init => AnswerInv
  BY DEF Init, AnswerInv, HandlerTrue, OwnReport, ToldOfOthers, Owns
<1>2. AnswerInv => AnswersAreTrue
  BY DEF AnswerInv, HandlerTrue, OwnReport, ToldOfOthers, Owns, AnswersAreTrue
<1> QED BY <1>1, <1>2, InitTyped, NextTyped, InitKeys, NextKeys, NextAnswers,
           PTL DEF Spec
=============================================================================
