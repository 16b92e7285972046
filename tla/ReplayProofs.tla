---------------------------- MODULE ReplayProofs ----------------------------
(***************************************************************************)
(* What replays do to letters, entries and forwards, for any operators and *)
(* workers, any bounds of the two lists, and any order of their calls.     *)
(*                                                                         *)
(* Of the two lists only this is needed: what the find and the remove of a *)
(* list pick out is there, a push drops the oldest of a full list and no   *)
(* other, and an entry that is n from the end is n + 1 from it afterwards. *)
(***************************************************************************)
EXTENDS Replay, SequenceTheorems, WellFoundedInduction, TLAPS

USE MaxForwardsAssumption DEF Forwards

(* The code looks a list through from its end, or from its start.          *)
LEMMA Least ==
    ASSUME NEW T \in SUBSET Nat, T # {}
    PROVE  \E n \in T : \A m \in T : n <= m
<1>1. PICK n \in T : \A m \in T : ~ (<<m, n>> \in OpToRel(<, Nat))
  BY NatLessThanWellFounded, WFMin
<1>2. \A m \in T : ~ (m < n)
  BY <1>1 DEF OpToRel
<1> QED BY <1>2

LEMMA Greatest ==
    ASSUME NEW n \in Nat, NEW T \in SUBSET (1 .. n), T # {}
    PROVE  \E i \in T : \A k \in T : k <= i
<1> DEFINE Below == {m \in Nat : n - m \in T}
<1>1. PICK t \in T : TRUE
  OBVIOUS
<1>2. n - t \in Nat /\ n - (n - t) \in T
  OBVIOUS
<1>3. Below # {}
  BY <1>2
<1>4. PICK m \in Below : \A l \in Below : m <= l
  BY <1>3, Least
<1>5. ASSUME NEW k \in T
      PROVE  k <= n - m
  <2>1. n - k \in Nat /\ n - (n - k) \in T
    OBVIOUS
  <2> QED BY <1>4, <2>1
<1> QED BY <1>4, <1>5

LEMMA EntryFound ==
    ASSUME NEW f \in Forwards, JournalTypeOK, InLog(f)
    PROVE  Entry(f) \in Entries /\ Entry(f).fwd = f
<1> DEFINE T == {i \in 1 .. Len(log) : log[i].fwd = f}
<1>1. Len(log) \in Nat /\ DOMAIN log = 1 .. Len(log)
  BY DEF JournalTypeOK
<1>2. PICK n \in T : \A k \in T : k <= n
  BY <1>1, Greatest DEF InLog
<1>3. PICK i \in DOMAIN log : Entry(f) = log[i] /\ log[i].fwd = f
  BY <1>1, <1>2 DEF Entry
<1> QED BY <1>3 DEF JournalTypeOK

LEMMA LetterFound ==
    ASSUME NEW f \in Forwards, DlqTypeOK, InDead(f)
    PROVE  Letter(f) \in Items /\ Letter(f).fwd = f
<1> DEFINE T == {i \in 1 .. Len(dead) : dead[i].fwd = f}
<1>1. Len(dead) \in Nat /\ DOMAIN dead = 1 .. Len(dead)
  BY DEF DlqTypeOK
<1>2. PICK n \in T : \A k \in T : k <= n
  BY <1>1, Greatest DEF InDead
<1>3. PICK i \in DOMAIN dead : Letter(f) = dead[i] /\ dead[i].fwd = f
  BY <1>1, <1>2 DEF Letter
<1> QED BY <1>3 DEF DlqTypeOK

(* Remove takes out one letter, of the forward that was asked for.         *)
LEMMA RemoveTakesOne ==
    ASSUME NEW f \in Forwards, DlqTypeOK, InDead(f)
    PROVE  \E at \in 1 .. Len(dead) :
              /\ dead[at].fwd = f
              /\ Without(dead, f) \in Seq(Items)
              /\ Len(Without(dead, f)) = Len(dead) - 1
              /\ \A i \in 1 .. Len(dead) - 1 :
                    Without(dead, f)[i] = dead[IF i < at THEN i ELSE i + 1]
<1> DEFINE T == {i \in 1 .. Len(dead) : dead[i].fwd = f}
<1> DEFINE First(i) == dead[i].fwd = f /\ \A k \in 1 .. i - 1 : dead[k].fwd # f
<1> DEFINE at == CHOOSE i \in DOMAIN dead : First(i)
<1>1. Len(dead) \in Nat /\ DOMAIN dead = 1 .. Len(dead) /\ dead \in Seq(Items)
  BY DEF DlqTypeOK
<1>2. PICK i \in T : \A k \in T : i <= k
  <2>1. T \in SUBSET Nat
    BY <1>1
  <2>2. T # {}
    BY <1>1 DEF InDead
  <2> HIDE DEF T
  <2> QED BY <2>1, <2>2, Least
<1>3. i \in DOMAIN dead /\ First(i)
  BY <1>1, <1>2
<1>4. at \in DOMAIN dead /\ First(at)
  BY <1>3
<1>5. Without(dead, f) = SubSeq(dead, 1, at - 1) \o SubSeq(dead, at + 1, Len(dead))
  BY DEF Without
<1> HIDE DEF at
<1>6. /\ SubSeq(dead, 1, at - 1) \in Seq(Items)
      /\ Len(SubSeq(dead, 1, at - 1)) = at - 1
      /\ \A k \in 1 .. at - 1 : SubSeq(dead, 1, at - 1)[k] = dead[k]
  BY <1>1, <1>4
<1>7. /\ SubSeq(dead, at + 1, Len(dead)) \in Seq(Items)
      /\ Len(SubSeq(dead, at + 1, Len(dead))) = Len(dead) - at
      /\ \A k \in 1 .. Len(dead) - at :
            SubSeq(dead, at + 1, Len(dead))[k] = dead[at + k]
  BY <1>1, <1>4
<1> DEFINE pre == SubSeq(dead, 1, at - 1)
           post == SubSeq(dead, at + 1, Len(dead))
<1> HIDE DEF pre, post
<1>8. /\ pre \o post \in Seq(Items)
      /\ Len(pre \o post) = Len(dead) - 1
      /\ \A k \in 1 .. Len(dead) - 1 :
            (pre \o post)[k] = dead[IF k < at THEN k ELSE k + 1]
  <2>1. /\ pre \in Seq(Items) /\ post \in Seq(Items)
        /\ Len(pre) = at - 1 /\ Len(post) = Len(dead) - at
    BY <1>6, <1>7 DEF pre, post
  <2>2. /\ pre \o post \in Seq(Items)
        /\ Len(pre \o post) = Len(dead) - 1
    <3>1. pre \o post \in Seq(Items)
      BY <2>1
    <3>2. Len(pre \o post) = Len(pre) + Len(post)
      BY <2>1
    <3>3. at \in Nat
      BY <1>1, <1>4
    <3>4. (at - 1) + (Len(dead) - at) = Len(dead) - 1
      BY <1>1, <3>3
    <3> QED BY <2>1, <3>1, <3>2, <3>4
  <2>3. ASSUME NEW k \in 1 .. Len(dead) - 1
        PROVE  (pre \o post)[k] = dead[IF k < at THEN k ELSE k + 1]
    <3>1. CASE k < at
      <4>1. k \in 1 .. at - 1
        BY <1>1, <1>4, <3>1
      <4>2. (pre \o post)[k] = pre[k]
        BY <1>1, <1>4, <2>1, <4>1
      <4>3. pre[k] = dead[k]
        BY <1>6, <4>1 DEF pre
      <4> QED BY <3>1, <4>2, <4>3
    <3>2. CASE ~ (k < at)
      <4>1. (pre \o post)[k] = post[k - Len(pre)]
        <5>1. k \in 1 .. Len(pre) + Len(post) /\ ~ (k <= Len(pre))
          BY <1>1, <1>4, <2>1, <3>2
        <5> QED BY <2>1, <5>1
      <4>2. /\ k - (at - 1) \in 1 .. Len(dead) - at
            /\ at + (k - (at - 1)) = k + 1
        BY <1>1, <1>4, <3>2
      <4>3. post[k - (at - 1)] = dead[at + (k - (at - 1))]
        BY <1>7, <4>2 DEF post
      <4> QED BY <2>1, <3>2, <4>1, <4>2, <4>3
    <3> QED BY <3>1, <3>2
  <2> QED BY <2>2, <2>3
<1>9. Without(dead, f) = pre \o post
  BY <1>5 DEF pre, post
<1> QED BY <1>1, <1>4, <1>8, <1>9

(* Push appends to a list that has room, and drops the oldest of a full    *)
(* one.                                                                    *)
LEMMA PushDropsOldest ==
    ASSUME dead \in Seq(Items), Len(dead) <= DlqMax, NEW it \in Items
    PROVE  LET q == Capped(Append(dead, it))
           IN  /\ q \in Seq(Items) /\ Len(q) <= DlqMax /\ Len(q) > 0
               /\ q[Len(q)] = it
               /\ \/ /\ Len(dead) < DlqMax /\ Len(q) = Len(dead) + 1
                     /\ \A i \in 1 .. Len(dead) : q[i] = dead[i]
                  \/ /\ Len(dead) = DlqMax /\ Len(q) = DlqMax
                     /\ \A i \in 1 .. DlqMax - 1 : q[i] = dead[i + 1]
<1>1. /\ Append(dead, it) \in Seq(Items) /\ Len(Append(dead, it)) = Len(dead) + 1
      /\ Append(dead, it)[Len(dead) + 1] = it
      /\ \A i \in 1 .. Len(dead) : Append(dead, it)[i] = dead[i]
  OBVIOUS
<1>2. CASE Len(dead) < DlqMax
  <2>1. Capped(Append(dead, it)) = Append(dead, it)
    BY <1>1, <1>2, DlqAssumption DEF Capped
  <2> QED BY <1>1, <1>2, <2>1, DlqAssumption
<1>3. CASE Len(dead) = DlqMax
  <2> DEFINE a == Append(dead, it)
  <2> HIDE DEF a
  <2>1. a \in Seq(Items) /\ Len(a) = DlqMax + 1
    BY <1>1, <1>3 DEF a
  <2>2. Capped(a) = SubSeq(a, 2, DlqMax + 1)
    BY <2>1, DlqAssumption DEF Capped
  <2>3. /\ Capped(a) \in Seq(Items) /\ Len(Capped(a)) = DlqMax
        /\ \A i \in 1 .. DlqMax : Capped(a)[i] = a[i + 1]
    BY <2>1, <2>2, DlqAssumption
  <2> QED BY <1>1, <1>3, <2>3, DlqAssumption DEF a
<1> QED BY <1>2, <1>3, DlqAssumption

LEMMA AppendDropsOldest ==
    ASSUME log \in Seq(Entries), Len(log) <= JournalMax, NEW e \in Entries
    PROVE  LET l == Recent(Append(log, e))
           IN  /\ l \in Seq(Entries) /\ Len(l) <= JournalMax /\ Len(l) > 0
               /\ l[Len(l)] = e
               /\ \/ /\ Len(log) < JournalMax /\ Len(l) = Len(log) + 1
                     /\ \A i \in 1 .. Len(log) : l[i] = log[i]
                  \/ /\ Len(log) = JournalMax /\ Len(l) = JournalMax
                     /\ \A i \in 1 .. JournalMax - 1 : l[i] = log[i + 1]
               /\ \A n \in Nat : n < Len(log) /\ n + 1 < JournalMax =>
                     /\ n + 1 < Len(l)
                     /\ l[Len(l) - (n + 1)] = log[Len(log) - n]
<1>1. /\ Append(log, e) \in Seq(Entries) /\ Len(Append(log, e)) = Len(log) + 1
      /\ Append(log, e)[Len(log) + 1] = e
      /\ \A i \in 1 .. Len(log) : Append(log, e)[i] = log[i]
  OBVIOUS
<1>2. CASE Len(log) < JournalMax
  <2>1. Recent(Append(log, e)) = Append(log, e)
    BY <1>1, <1>2, JournalAssumption DEF Recent
  <2> QED BY <1>1, <1>2, <2>1, JournalAssumption
<1>3. CASE Len(log) = JournalMax
  <2> DEFINE a == Append(log, e)
  <2> HIDE DEF a
  <2>1. a \in Seq(Entries) /\ Len(a) = JournalMax + 1
    BY <1>1, <1>3 DEF a
  <2>2. Recent(a) = SubSeq(a, 2, JournalMax + 1)
    BY <2>1, JournalAssumption DEF Recent
  <2>3. /\ Recent(a) \in Seq(Entries) /\ Len(Recent(a)) = JournalMax
        /\ \A i \in 1 .. JournalMax : Recent(a)[i] = a[i + 1]
    BY <2>1, <2>2, JournalAssumption
  <2>4. ASSUME NEW n \in Nat, n < Len(log), n + 1 < JournalMax
        PROVE  Recent(a)[JournalMax - (n + 1)] = log[Len(log) - n]
    <3>1. /\ JournalMax - (n + 1) \in 1 .. JournalMax
          /\ JournalMax - (n + 1) + 1 = Len(log) - n
          /\ Len(log) - n \in 1 .. Len(log)
      BY <1>3, <2>4, JournalAssumption
    <3> QED BY <1>1, <2>3, <3>1 DEF a
  <2> QED BY <1>1, <1>3, <2>3, <2>4, JournalAssumption DEF a
<1> QED BY <1>2, <1>3, JournalAssumption

-----------------------------------------------------------------------------
(* Types.  Who is at a call that needs a job, a forward to look for, or a  *)
(* reason to bury has one.                                                 *)
Carrying ==
    {"enqueue", "enqueue_only", "remove", "handle", "requeue", "bury", "note"}

ActorsTypeOK ==
    /\ pc \in [Actors -> Carrying \union {"idle", "journal"}]
    /\ hand \in [Actors -> Jobs \union {NoJob}]
    /\ cause \in [Workers -> Causes]
    /\ asked \in [Operators -> 0 .. MaxForwards]
    /\ \A a \in Actors : pc[a] \in Carrying => hand[a] \in Jobs
    /\ \A o \in Operators :
          pc[o] \in {"journal", "enqueue", "enqueue_only", "remove"}
             => asked[o] \in Forwards
    /\ \A w \in Workers : pc[w] = "bury" => cause[w] \in Reasons

ListsTypeOK ==
    /\ DlqTypeOK /\ Len(dead) <= DlqMax
    /\ JournalTypeOK
    /\ later \in [Forwards -> 0 .. JournalMax]

HistoryTypeOK ==
    /\ replayOf \in [Forwards -> 0 .. MaxForwards]
    /\ delivered \subseteq Forwards
    /\ posts \in [Forwards -> Nat]
    /\ answered \subseteq Forwards

TypeInv ==
    /\ FleetTypeOK
    /\ queued \subseteq Jobs
    /\ ActorsTypeOK
    /\ ListsTypeOK
    /\ HistoryTypeOK

LEMMA TypeInvTypes == TypeInv => ReplayTypeOK
BY DEF TypeInv, ReplayTypeOK, ActorsTypeOK, ListsTypeOK, HistoryTypeOK, Carrying

LEMMA InitTyped == Init => TypeInv
<1> SUFFICES ASSUME Init PROVE TypeInv
  OBVIOUS
<1>1. FleetTypeOK
  BY DEF Init, FleetInit, FleetTypeOK
<1>2. ActorsTypeOK
  BY DEF Init, ActorsTypeOK, Actors, Causes, Carrying
<1>3. ListsTypeOK
  BY DlqAssumption, JournalAssumption
     DEF Init, ListsTypeOK, DlqInit, JournalInit, DlqTypeOK, JournalTypeOK
<1>4. HistoryTypeOK
  BY DEF Init, HistoryTypeOK
<1> QED BY <1>1, <1>2, <1>3, <1>4 DEF TypeInv, Init

LEMMA NewJobType ==
    ASSUME NEW f \in Forwards, NEW r \in Radars
    PROVE  NewJob(f, r) \in Jobs /\ NewJob(f, r).fwd = f
BY DEF NewJob, Jobs

LEMMA NoteKeeps ==
    ASSUME ListsTypeOK, UNCHANGED <<dead, buried>>, NEW j \in Jobs,
           NEW success \in BOOLEAN, NoteJob(j, success)
    PROVE  ListsTypeOK'
<1>1. [fwd |-> j.fwd, radar |-> j.radar, success |-> success] \in Entries
  BY DEF Jobs, Entries
<1>2. log' \in Seq(Entries) /\ Len(log') <= JournalMax
  BY <1>1, AppendDropsOldest
     DEF NoteJob, AppendFor, ListsTypeOK, JournalTypeOK
<1>3. later' \in [Forwards -> 0 .. JournalMax]
  BY JournalAssumption DEF NoteJob, ListsTypeOK
<1> QED BY <1>2, <1>3 DEF ListsTypeOK, DlqTypeOK, JournalTypeOK

LEMMA PushKeeps ==
    ASSUME ListsTypeOK, UNCHANGED <<log, later>>, NEW it \in Items, Push(it)
    PROVE  ListsTypeOK'
<1>1. dead' \in Seq(Items) /\ Len(dead') <= DlqMax
  BY PushDropsOldest DEF Push, ListsTypeOK, DlqTypeOK
<1>2. buried' \subseteq Forwards
  BY DEF Push, ListsTypeOK, DlqTypeOK, Items
<1> QED BY <1>1, <1>2 DEF ListsTypeOK, DlqTypeOK, JournalTypeOK

LEMMA RemoveKeeps ==
    ASSUME ListsTypeOK, UNCHANGED <<log, later>>, NEW f \in Forwards, Remove(f)
    PROVE  ListsTypeOK'
<1>1. dead' \in Seq(Items) /\ Len(dead') <= DlqMax
  <2>1. CASE InDead(f)
    <3>1. Without(dead, f) \in Seq(Items) /\ Len(Without(dead, f)) = Len(dead) - 1
      BY <2>1, RemoveTakesOne DEF ListsTypeOK
    <3>2. Len(dead) \in Nat
      BY DEF ListsTypeOK, DlqTypeOK
    <3> QED BY <2>1, <3>1, <3>2, DlqAssumption DEF Remove, ListsTypeOK
  <2>2. CASE ~ InDead(f)
    BY <2>2 DEF Remove, ListsTypeOK, DlqTypeOK
  <2> QED BY <2>1, <2>2
<1> QED BY <1>1 DEF Remove, ListsTypeOK, DlqTypeOK, JournalTypeOK

LEMMA ListsStay ==
    ASSUME ListsTypeOK, UNCHANGED <<dead, buried, log, later>>
    PROVE  ListsTypeOK'
BY DEF ListsTypeOK, DlqTypeOK, JournalTypeOK

(* The step of an operator that found what it looked for.                  *)
LEMMA BuildKeeps ==
    ASSUME FleetTypeOK, ActorsTypeOK, HistoryTypeOK,
           UNCHANGED <<enabled, cause, delivered, posts, answered>>,
           NEW o \in Operators, NEW f \in Forwards, NEW r \in Radars,
           NEW call \in {"enqueue", "enqueue_only"},
           Build(o, f, NewJob(next, r), call),
           asked' = [asked EXCEPT ![o] = f]
    PROVE  FleetTypeOK' /\ ActorsTypeOK' /\ HistoryTypeOK'
<1>1. next \in Forwards
  BY DEF Build, FleetTypeOK
<1>2. NewJob(next, r) \in Jobs
  BY <1>1, NewJobType
<1>3. ActorsTypeOK'
  BY <1>2 DEF Build, Goto, ActorsTypeOK, Actors, Carrying
<1>4. FleetTypeOK'
  BY <1>1 DEF Build, FleetTypeOK
<1>5. HistoryTypeOK'
  BY <1>1 DEF Build, HistoryTypeOK
<1> QED BY <1>3, <1>4, <1>5

LEMMA NextTyped == TypeInv /\ [Next]_vars => TypeInv'
<1> SUFFICES ASSUME TypeInv, [Next]_vars PROVE TypeInv'
  OBVIOUS
<1> USE DEF TypeInv
<1>1. CASE UNCHANGED vars
  BY <1>1, ListsStay
     DEF vars, FleetTypeOK, ActorsTypeOK, HistoryTypeOK
<1>2. ASSUME NEW r \in Radars, AcceptForward(r)
      PROVE  TypeInv'
  <2>1. next \in Forwards
    BY <1>2 DEF AcceptForward, FleetTypeOK
  <2>2. NewJob(next, r) \in Jobs
    BY <2>1, NewJobType
  <2>3. FleetTypeOK' /\ (queued \subseteq Jobs)'
    BY <1>2, <2>1, <2>2 DEF AcceptForward, FleetTypeOK
  <2>4. ActorsTypeOK' /\ HistoryTypeOK'
    BY <1>2 DEF AcceptForward, operatorVars, ActorsTypeOK, HistoryTypeOK
  <2> QED BY <1>2, <2>3, <2>4, ListsStay DEF AcceptForward
<1>3. ASSUME NEW r \in Radars, SwitchRadar(r)
      PROVE  TypeInv'
  <2>1. FleetTypeOK'
    BY <1>3 DEF SwitchRadar, SetEnabled, FleetTypeOK
  <2>2. (queued \subseteq Jobs)' /\ ActorsTypeOK' /\ HistoryTypeOK'
    BY <1>3 DEF SwitchRadar, SetEnabled, engineVars, operatorVars,
                ActorsTypeOK, HistoryTypeOK
  <2> QED BY <1>3, <2>1, <2>2, ListsStay DEF SwitchRadar
<1>4. ASSUME NEW o \in Operators, NEW f \in Forwards, FindLetter(o, f)
      PROVE  TypeInv'
  <2>1. CASE InDead(f) /\ Build(o, f, LetterJob(Letter(f)), "enqueue")
    <3>1. Letter(f).radar \in Radars
      BY <2>1, LetterFound DEF ListsTypeOK, Items
    <3>2. Build(o, f, NewJob(next, Letter(f).radar), "enqueue")
      BY <2>1 DEF LetterJob
    <3>3. FleetTypeOK' /\ ActorsTypeOK' /\ HistoryTypeOK'
      BY <1>4, <3>1, <3>2, BuildKeeps DEF FindLetter, engineVars
    <3> QED BY <1>4, <3>3, ListsStay DEF FindLetter, engineVars
  <2>2. CASE Goto(o, "journal") /\ UNCHANGED <<next, hand, replayOf>>
    <3>1. ActorsTypeOK'
      BY <1>4, <2>2
         DEF FindLetter, Goto, engineVars, ActorsTypeOK, Actors, Carrying
    <3>2. FleetTypeOK' /\ HistoryTypeOK' /\ (queued \subseteq Jobs)'
      BY <1>4, <2>2 DEF FindLetter, engineVars, FleetTypeOK, HistoryTypeOK
    <3> QED BY <1>4, <3>1, <3>2, ListsStay DEF FindLetter
  <2> QED BY <1>4, <2>1, <2>2 DEF FindLetter
<1>5. ASSUME NEW o \in Operators, FindEntry(o)
      PROVE  TypeInv'
  <2>1. asked[o] \in Forwards
    BY <1>5 DEF FindEntry, ActorsTypeOK
  <2>2. CASE /\ InLog(asked[o])
             /\ Build(o, asked[o], EntryJob(Entry(asked[o])), "enqueue_only")
             /\ UNCHANGED asked
    <3>1. Entry(asked[o]).radar \in Radars
      BY <2>1, <2>2, EntryFound DEF ListsTypeOK, Entries
    <3>2. Build(o, asked[o], NewJob(next, Entry(asked[o]).radar), "enqueue_only")
      BY <2>2 DEF EntryJob
    <3>3. asked' = [asked EXCEPT ![o] = asked[o]]
      BY <2>2 DEF ActorsTypeOK
    <3>4. FleetTypeOK' /\ ActorsTypeOK' /\ HistoryTypeOK'
      BY <1>5, <2>1, <3>1, <3>2, <3>3, BuildKeeps DEF FindEntry, engineVars
    <3> QED BY <1>5, <3>4, ListsStay DEF FindEntry, engineVars
  <2>3. CASE /\ Done(o)
             /\ asked' = [asked EXCEPT ![o] = 0]
             /\ UNCHANGED <<next, replayOf>>
    <3>1. ActorsTypeOK'
      BY <1>5, <2>3
         DEF FindEntry, Done, Goto, engineVars, ActorsTypeOK, Actors, Carrying
    <3>2. FleetTypeOK' /\ HistoryTypeOK' /\ (queued \subseteq Jobs)'
      BY <1>5, <2>3 DEF FindEntry, engineVars, FleetTypeOK, HistoryTypeOK
    <3> QED BY <1>5, <3>1, <3>2, ListsStay DEF FindEntry
  <2> QED BY <1>5, <2>2, <2>3 DEF FindEntry
<1>6. ASSUME NEW o \in Operators, EnqueueReplay(o)
      PROVE  TypeInv'
  <2>1. hand[o] \in Jobs
    BY <1>6 DEF EnqueueReplay, ActorsTypeOK, Actors, Carrying
  <2>2. ActorsTypeOK'
    BY <1>6
       DEF EnqueueReplay, Done, Goto, ActorsTypeOK, Actors, Carrying
  <2>3. FleetTypeOK' /\ HistoryTypeOK' /\ (queued \subseteq Jobs)'
    BY <1>6, <2>1 DEF EnqueueReplay, FleetTypeOK, HistoryTypeOK
  <2> QED BY <1>6, <2>2, <2>3, ListsStay DEF EnqueueReplay
<1>7. ASSUME NEW o \in Operators, RemoveLetter(o)
      PROVE  TypeInv'
  <2>1. asked[o] \in Forwards
    BY <1>7 DEF RemoveLetter, ActorsTypeOK
  <2>2. ActorsTypeOK'
    BY <1>7 DEF RemoveLetter, Done, Goto, engineVars, ActorsTypeOK, Actors,
                Carrying
  <2>3. FleetTypeOK' /\ HistoryTypeOK' /\ (queued \subseteq Jobs)'
    BY <1>7, <2>1 DEF RemoveLetter, engineVars, FleetTypeOK, HistoryTypeOK
  <2> QED BY <1>7, <2>1, <2>2, <2>3, RemoveKeeps DEF RemoveLetter
<1>8. ASSUME NEW w \in Workers, LeaseJob(w)
      PROVE  TypeInv'
  <2>1. ActorsTypeOK'
    BY <1>8 DEF LeaseJob, Goto, operatorVars, ActorsTypeOK, Actors, Carrying
  <2>2. FleetTypeOK' /\ HistoryTypeOK' /\ (queued \subseteq Jobs)'
    BY <1>8 DEF LeaseJob, operatorVars, FleetTypeOK, HistoryTypeOK
  <2> QED BY <1>8, <2>1, <2>2, ListsStay DEF LeaseJob
<1>9. ASSUME NEW w \in Workers, TurnAway(w)
      PROVE  TypeInv'
  <2>1. ActorsTypeOK'
    BY <1>9 DEF TurnAway, Goto, operatorVars, ActorsTypeOK, Actors, Carrying,
                Causes, Reasons
  <2>2. FleetTypeOK' /\ HistoryTypeOK' /\ (queued \subseteq Jobs)'
    BY <1>9 DEF TurnAway, operatorVars, FleetTypeOK, HistoryTypeOK
  <2> QED BY <1>9, <2>1, <2>2, ListsStay DEF TurnAway
<1>10. ASSUME NEW w \in Workers, Post(w)
       PROVE  TypeInv'
  <2> DEFINE j == [hand[w] EXCEPT !.attempt = @ + 1]
  <2>1. j \in Jobs
    BY <1>10 DEF Post, ActorsTypeOK, Actors, Carrying, Jobs
  <2>2. \E success \in BOOLEAN : NoteJob(j, success)
    BY <1>10 DEF Post
  <2>3. ListsTypeOK'
    BY <1>10, <2>1, <2>2, NoteKeeps DEF Post
  <2>4. FleetTypeOK' /\ HistoryTypeOK' /\ (queued \subseteq Jobs)'
    <3>1. /\ posts' = [posts EXCEPT ![j.fwd] = @ + 1]
          /\ \/ delivered' = delivered \union {j.fwd} \/ UNCHANGED delivered
          /\ UNCHANGED <<enabled, next, queued, replayOf, answered>>
      BY <1>10 DEF Post, operatorVars
    <3>2. j.fwd \in Forwards
      BY <2>1 DEF Jobs
    <3> HIDE DEF j
    <3>3. FleetTypeOK' /\ (queued \subseteq Jobs)'
      BY <3>1 DEF FleetTypeOK
    <3>4. posts' \in [Forwards -> Nat]
      BY <3>1, <3>2 DEF HistoryTypeOK
    <3>5. delivered' \subseteq Forwards
      BY <3>1, <3>2 DEF HistoryTypeOK
    <3> QED BY <3>1, <3>3, <3>4, <3>5 DEF HistoryTypeOK
  <2>5. \/ Done(w) /\ UNCHANGED cause
        \/ /\ hand' = [hand EXCEPT ![w] = j]
           /\ \/ /\ Goto(w, "requeue")
                 /\ cause' = [cause EXCEPT ![w] = "retryable"]
              \/ /\ Goto(w, "bury")
                 /\ \E why \in {"terminal", "exhausted"} :
                       cause' = [cause EXCEPT ![w] = why]
    BY <1>10 DEF Post
  <2>6. UNCHANGED asked
    BY <1>10 DEF Post, operatorVars
  <2> HIDE DEF j
  <2>7. ActorsTypeOK'
    BY <2>1, <2>5, <2>6 DEF Done, Goto, ActorsTypeOK, Actors, Carrying,
                            Causes, Reasons
  <2> QED BY <2>3, <2>4, <2>7
<1>11. ASSUME NEW w \in Workers, Requeue(w)
       PROVE  TypeInv'
  <2>1. hand[w] \in Jobs
    BY <1>11 DEF Requeue, ActorsTypeOK, Actors, Carrying
  <2>2. ActorsTypeOK'
    BY <1>11 DEF Requeue, GoOn, Done, Goto, operatorVars, ActorsTypeOK, Actors,
                 Carrying, Causes
  <2>3. FleetTypeOK' /\ HistoryTypeOK' /\ (queued \subseteq Jobs)'
    BY <1>11, <2>1 DEF Requeue, operatorVars, FleetTypeOK, HistoryTypeOK
  <2> QED BY <1>11, <2>2, <2>3, ListsStay DEF Requeue
<1>12. ASSUME NEW w \in Workers, Bury(w)
       PROVE  TypeInv'
  <2>1. FromJob(hand[w], cause[w]) \in Items
    BY <1>12
       DEF Bury, ActorsTypeOK, Actors, Carrying, FromJob, Jobs, Items
  <2>2. ActorsTypeOK'
    BY <1>12 DEF Bury, GoOn, Done, Goto, operatorVars, ActorsTypeOK, Actors,
                 Carrying, Causes
  <2>3. FleetTypeOK' /\ HistoryTypeOK' /\ (queued \subseteq Jobs)'
    BY <1>12 DEF Bury, operatorVars, FleetTypeOK, HistoryTypeOK
  <2> QED BY <1>12, <2>1, <2>2, <2>3, PushKeeps DEF Bury
<1>13. ASSUME NEW w \in Workers, TrailingNote(w)
       PROVE  TypeInv'
  <2>1. hand[w] \in Jobs
    BY <1>13 DEF TrailingNote, ActorsTypeOK, Actors, Carrying
  <2>2. ActorsTypeOK'
    BY <1>13 DEF TrailingNote, Done, Goto, engineVars, operatorVars,
                 ActorsTypeOK, Actors, Carrying
  <2>3. FleetTypeOK' /\ HistoryTypeOK' /\ (queued \subseteq Jobs)'
    BY <1>13 DEF TrailingNote, engineVars, operatorVars, FleetTypeOK,
                 HistoryTypeOK
  <2> QED BY <1>13, <2>1, <2>2, <2>3, NoteKeeps DEF TrailingNote
<1> QED BY <1>1, <1>2, <1>3, <1>4, <1>5, <1>6, <1>7, <1>8, <1>9, <1>10, <1>11,
           <1>12, <1>13 DEF Next, Operator, Worker

(* Every variable has its type: jobs in hand are jobs, what is looked for  *)
(* is a forward, and what is found in a list is of the list.               *)
THEOREM ReplaysTyped == Spec => []ReplayTypeOK
<1>1. Spec => []TypeInv
  BY InitTyped, NextTyped, PTL DEF Spec
<1> QED BY <1>1, TypeInvTypes, PTL

-----------------------------------------------------------------------------
(* Every step leaves all forwards at their place, or moves one of them.    *)
Held(f) == \E a \in Actors : Holds(a, f)

InQueue(f) == \E j \in queued : j.fwd = f

PlacesSpelledOut ==
    \A f \in Forwards :
        /\ At(f, "absent") <=> f >= next
        /\ At(f, "held") <=> Held(f)
        /\ At(f, "queued") <=> InQueue(f)
        /\ At(f, "buried") <=> f \in buried
        /\ At(f, "delivered") <=> f \in delivered

LEMMA AtPlaces == PlacesSpelledOut
BY DEF PlacesSpelledOut, At, Held, InQueue

LEMMA AtPlacesNext == PlacesSpelledOut'
BY DEF PlacesSpelledOut, At, Held, InQueue

LEMMA OnlyThere ==
    ASSUME NEW f \in Forwards, OnePlace(f),
           NEW p \in Places, NEW q \in Places, At(f, p), At(f, q)
    PROVE  p = q
BY DEF OnePlace

LEMMA AllStay ==
    ASSUME ReplaysAreForwards, UNCHANGED <<next, queued, buried, delivered>>,
           \A a \in Actors : \A f \in Forwards : Holds(a, f)' <=> Holds(a, f)
    PROVE  ReplaysAreForwards'
<1>1. ASSUME NEW f \in Forwards
      PROVE  OnePlace(f)'
  <2>1. Held(f)' <=> Held(f)
    BY DEF Held
  <2>2. InQueue(f)' <=> InQueue(f)
    BY DEF InQueue
  <2>3. \A q \in Places : At(f, q)' <=> At(f, q)
    BY <2>1, <2>2, AtPlaces, AtPlacesNext DEF PlacesSpelledOut, Places
  <2> QED BY <2>3 DEF ReplaysAreForwards, OnePlace
<1>2. QueuedOnce' /\ HeldOnce'
  BY DEF ReplaysAreForwards, QueuedOnce, HeldOnce
<1> QED BY <1>1, <1>2 DEF ReplaysAreForwards

(* Forward n goes from one place to another, and no other place changes.   *)
LEMMA OneMoves ==
    ASSUME ReplaysAreForwards, QueuedOnce', HeldOnce',
           NEW n \in Forwards, NEW from \in Places, NEW to \in Places,
           from # to, At(n, from),
           \A f \in Forwards : \A q \in Places :
              At(f, q)' <=> IF f = n /\ q \in {from, to} THEN q = to
                            ELSE At(f, q)
    PROVE  ReplaysAreForwards'
<1>1. ASSUME NEW f \in Forwards
      PROVE  OnePlace(f)'
  <2>1. PICK p \in Places : \A q \in Places : At(f, q) <=> q = p
    BY DEF ReplaysAreForwards, OnePlace
  <2>2. CASE f = n
    <3>1. p = from
      BY <2>1, <2>2
    <3>2. \A q \in Places : At(f, q)' <=> q = to
      BY <2>1, <2>2, <3>1
    <3> QED BY <3>2 DEF OnePlace
  <2>3. CASE f # n
    <3>1. \A q \in Places : At(f, q)' <=> q = p
      BY <2>1, <2>3
    <3> QED BY <3>1 DEF OnePlace
  <2> QED BY <2>2, <2>3
<1> QED BY <1>1 DEF ReplaysAreForwards

(* An actor takes up a forward, goes on with it, or lets it go.            *)
OthersStay(a) ==
    \A b \in Actors \ {a} : pc'[b] = pc[b] /\ hand'[b] = hand[b]

LEMMA TakesUp ==
    ASSUME HeldOnce, NEW a \in Actors, OthersStay(a),
           ~ Holding(a), Holding(a)', ~ Held(hand'[a].fwd)
    PROVE  /\ HeldOnce'
           /\ \A f \in Forwards : Held(f)' <=> Held(f) \/ f = hand'[a].fwd
<1>1. \A b \in Actors \ {a} : \A f \in Forwards : Holds(b, f)' <=> Holds(b, f)
  BY DEF OthersStay, Holds, Holding
<1>2. \A f \in Forwards : ~ Holds(a, f) /\ (Holds(a, f)' <=> f = hand'[a].fwd)
  BY DEF Holds
<1>3. \A f \in Forwards : Held(f)' <=> Held(f) \/ f = hand'[a].fwd
  BY <1>1, <1>2 DEF Held
<1>4. HeldOnce'
  BY <1>1, <1>2 DEF HeldOnce, Held
<1> QED BY <1>3, <1>4

LEMMA LetsGo ==
    ASSUME HeldOnce, NEW a \in Actors, OthersStay(a),
           Holding(a), ~ Holding(a)'
    PROVE  /\ HeldOnce'
           /\ \A f \in Forwards : Held(f)' <=> Held(f) /\ f # hand[a].fwd
<1>1. \A b \in Actors \ {a} : \A f \in Forwards : Holds(b, f)' <=> Holds(b, f)
  BY DEF OthersStay, Holds, Holding
<1>2. \A f \in Forwards : ~ Holds(a, f)' /\ (Holds(a, f) <=> f = hand[a].fwd)
  BY DEF Holds
<1>3. \A f \in Forwards : Held(f)' <=> Held(f) /\ f # hand[a].fwd
  BY <1>1, <1>2 DEF Held, HeldOnce
<1>4. HeldOnce'
  BY <1>1, <1>2 DEF HeldOnce
<1> QED BY <1>3, <1>4

LEMMA GoesOn ==
    ASSUME NEW a \in Actors, OthersStay(a), Holding(a)' <=> Holding(a),
           Holding(a) => hand'[a].fwd = hand[a].fwd
    PROVE  \A b \in Actors : \A f \in Forwards : Holds(b, f)' <=> Holds(b, f)
BY DEF OthersStay, Holds, Holding

LEMMA HoldsForward ==
    ASSUME ActorsTypeOK, NEW a \in Actors, Holding(a)
    PROVE  hand[a] \in Jobs /\ hand[a].fwd \in Forwards /\ Held(hand[a].fwd)
<1>1. hand[a] \in Jobs
  BY DEF ActorsTypeOK, Holding, Carrying
<1> QED BY <1>1 DEF Jobs, Held, Holds

(* A new job joins the queue, or a job leaves it.                          *)
LEMMA Joins ==
    ASSUME QueuedOnce, NEW j \in Jobs, ~ InQueue(j.fwd),
           queued' = queued \union {j}
    PROVE  /\ QueuedOnce'
           /\ \A f \in Forwards : InQueue(f)' <=> InQueue(f) \/ f = j.fwd
BY DEF QueuedOnce, InQueue

LEMMA Leaves ==
    ASSUME QueuedOnce, NEW j \in queued, queued' = queued \ {j}
    PROVE  /\ QueuedOnce'
           /\ \A f \in Forwards : InQueue(f)' <=> InQueue(f) /\ f # j.fwd
BY DEF QueuedOnce, InQueue

LEMMA Unborn ==
    ASSUME ReplaysAreForwards, FleetTypeOK, next <= MaxForwards
    PROVE  /\ next \in Forwards /\ At(next, "absent")
           /\ ~ Held(next) /\ ~ InQueue(next)
           /\ next \notin buried /\ next \notin delivered
<1>1. next \in Forwards
  BY DEF FleetTypeOK
<1>2. At(next, "absent")
  BY <1>1, AtPlaces DEF PlacesSpelledOut
<1>3. \A q \in Places : At(next, q) => q = "absent"
  BY <1>1, <1>2, OnlyThere DEF ReplaysAreForwards, Places
<1> QED BY <1>1, <1>2, <1>3, AtPlaces DEF PlacesSpelledOut, Places

LEMMA HeldOnly ==
    ASSUME ReplaysAreForwards, NEW f \in Forwards, Held(f)
    PROVE  /\ At(f, "held") /\ ~ (f >= next)
           /\ ~ InQueue(f) /\ f \notin buried /\ f \notin delivered
<1>1. At(f, "held")
  BY AtPlaces DEF PlacesSpelledOut
<1>2. \A q \in Places : At(f, q) => q = "held"
  BY <1>1, OnlyThere DEF ReplaysAreForwards, Places
<1> QED BY <1>1, <1>2, AtPlaces DEF PlacesSpelledOut, Places

LEMMA QueuedOnly ==
    ASSUME ReplaysAreForwards, NEW f \in Forwards, InQueue(f)
    PROVE  /\ At(f, "queued") /\ ~ (f >= next)
           /\ ~ Held(f) /\ f \notin buried /\ f \notin delivered
<1>1. At(f, "queued")
  BY AtPlaces DEF PlacesSpelledOut
<1>2. \A q \in Places : At(f, q) => q = "queued"
  BY <1>1, OnlyThere DEF ReplaysAreForwards, Places
<1> QED BY <1>1, <1>2, AtPlaces DEF PlacesSpelledOut, Places

LEMMA AcceptMoves ==
    ASSUME TypeInv, ReplaysAreForwards, NEW r \in Radars, AcceptForward(r)
    PROVE  ReplaysAreForwards'
<1> DEFINE j == NewJob(next, r)
<1>1. /\ next \in Forwards /\ At(next, "absent") /\ ~ InQueue(next)
  BY Unborn DEF AcceptForward, TypeInv
<1>2. j \in Jobs /\ j.fwd = next
  BY <1>1, NewJobType
<1>3. /\ next' = next + 1 /\ queued' = queued \union {j}
      /\ UNCHANGED <<pc, hand, buried, delivered>>
  BY DEF AcceptForward
<1> HIDE DEF j
<1>4. QueuedOnce' /\ \A f \in Forwards : InQueue(f)' <=> InQueue(f) \/ f = next
  BY <1>1, <1>2, <1>3, Joins DEF ReplaysAreForwards
<1>5. HeldOnce' /\ \A f \in Forwards : Held(f)' <=> Held(f)
  BY <1>3 DEF ReplaysAreForwards, HeldOnce, Held, Holds, Holding
<1>6. \A f \in Forwards : f >= next' <=> f >= next /\ f # next
  BY <1>1, <1>3
<1>7. \A f \in Forwards : \A q \in Places :
         At(f, q)' <=> IF f = next /\ q \in {"absent", "queued"}
                       THEN q = "queued" ELSE At(f, q)
  BY <1>3, <1>4, <1>5, <1>6, AtPlaces, AtPlacesNext DEF PlacesSpelledOut, Places
<1> QED BY <1>1, <1>4, <1>5, <1>7, OneMoves DEF Places

(* An operator builds the job of a new forward.                            *)
LEMMA BuildMoves ==
    ASSUME TypeInv, ReplaysAreForwards,
           UNCHANGED <<queued, buried, delivered>>,
           NEW o \in Operators, ~ Holding(o), NEW f \in Forwards,
           NEW r \in Radars, NEW call \in {"enqueue", "enqueue_only"},
           Build(o, f, NewJob(next, r), call)
    PROVE  ReplaysAreForwards'
<1>1. next \in Forwards /\ At(next, "absent") /\ ~ Held(next)
  BY Unborn DEF Build, TypeInv
<1>2. o \in Actors /\ OthersStay(o)
  BY DEF Build, Goto, Actors, OthersStay, TypeInv, ActorsTypeOK
<1>3. pc'[o] = call /\ hand'[o].fwd = next /\ next' = next + 1
  BY <1>1, <1>2, NewJobType DEF Build, Goto, TypeInv, ActorsTypeOK
<1>4. HeldOnce' /\ \A g \in Forwards : Held(g)' <=> Held(g) \/ g = next
  BY <1>1, <1>2, <1>3, TakesUp DEF Holding, ReplaysAreForwards
<1>5. QueuedOnce' /\ \A g \in Forwards : InQueue(g)' <=> InQueue(g)
  BY DEF ReplaysAreForwards, QueuedOnce, InQueue
<1>6. \A g \in Forwards : g >= next' <=> g >= next /\ g # next
  BY <1>1, <1>3
<1>7. \A g \in Forwards : \A q \in Places :
         At(g, q)' <=> IF g = next /\ q \in {"absent", "held"}
                       THEN q = "held" ELSE At(g, q)
  BY <1>4, <1>5, <1>6, AtPlaces, AtPlacesNext DEF PlacesSpelledOut, Places
<1> QED BY <1>1, <1>4, <1>5, <1>7, OneMoves DEF Places

(* A job in hand is put in the queue, by an operator or a worker.          *)
LEMMA PutMoves ==
    ASSUME TypeInv, ReplaysAreForwards, UNCHANGED <<next, buried, delivered>>,
           NEW a \in Actors, OthersStay(a), Holding(a), ~ Holding(a)',
           queued' = queued \union {hand[a]}
    PROVE  ReplaysAreForwards'
<1>1. PICK n \in Forwards : n = hand[a].fwd /\ hand[a] \in Jobs /\ Held(n)
  BY HoldsForward DEF TypeInv
<1>2. At(n, "held") /\ ~ InQueue(n)
  BY <1>1, HeldOnly
<1>3. QueuedOnce' /\ \A f \in Forwards : InQueue(f)' <=> InQueue(f) \/ f = n
  BY <1>1, <1>2, Joins DEF ReplaysAreForwards
<1>4. HeldOnce' /\ \A f \in Forwards : Held(f)' <=> Held(f) /\ f # n
  BY <1>1, LetsGo DEF ReplaysAreForwards
<1>5. \A f \in Forwards : \A q \in Places :
         At(f, q)' <=> IF f = n /\ q \in {"held", "queued"}
                       THEN q = "queued" ELSE At(f, q)
  BY <1>3, <1>4, AtPlaces, AtPlacesNext DEF PlacesSpelledOut, Places
<1> QED BY <1>2, <1>3, <1>4, <1>5, OneMoves DEF Places

(* A job in hand is buried, or was delivered.                              *)
LEMMA EndMoves ==
    ASSUME TypeInv, ReplaysAreForwards, UNCHANGED <<next, queued>>,
           NEW w \in Workers, OthersStay(w), Holding(w), ~ Holding(w)',
           \/ buried' = buried \union {hand[w].fwd} /\ UNCHANGED delivered
           \/ delivered' = delivered \union {hand[w].fwd} /\ UNCHANGED buried
    PROVE  ReplaysAreForwards'
<1>1. w \in Actors
  BY DEF Actors
<1>2. PICK n \in Forwards : n = hand[w].fwd /\ Held(n)
  BY <1>1, HoldsForward DEF TypeInv
<1>3. At(n, "held") /\ n \notin buried /\ n \notin delivered
  BY <1>2, HeldOnly
<1>4. HeldOnce' /\ \A f \in Forwards : Held(f)' <=> Held(f) /\ f # n
  BY <1>1, <1>2, LetsGo DEF ReplaysAreForwards
<1>5. QueuedOnce' /\ \A f \in Forwards : InQueue(f)' <=> InQueue(f)
  BY DEF ReplaysAreForwards, QueuedOnce, InQueue
<1>6. CASE buried' = buried \union {n} /\ UNCHANGED delivered
  <2>1. \A f \in Forwards : \A q \in Places :
           At(f, q)' <=> IF f = n /\ q \in {"held", "buried"}
                         THEN q = "buried" ELSE At(f, q)
    BY <1>4, <1>5, <1>6, AtPlaces, AtPlacesNext DEF PlacesSpelledOut, Places
  <2> QED BY <1>3, <1>4, <1>5, <2>1, OneMoves DEF Places
<1>7. CASE delivered' = delivered \union {n} /\ UNCHANGED buried
  <2>1. \A f \in Forwards : \A q \in Places :
           At(f, q)' <=> IF f = n /\ q \in {"held", "delivered"}
                         THEN q = "delivered" ELSE At(f, q)
    BY <1>4, <1>5, <1>7, AtPlaces, AtPlacesNext DEF PlacesSpelledOut, Places
  <2> QED BY <1>3, <1>4, <1>5, <2>1, OneMoves DEF Places
<1> QED BY <1>2, <1>6, <1>7

LEMMA LeaseMoves ==
    ASSUME TypeInv, ReplaysAreForwards, NEW w \in Workers, LeaseJob(w)
    PROVE  ReplaysAreForwards'
<1>1. PICK j \in queued : queued' = queued \ {j} /\ hand' = [hand EXCEPT ![w] = j]
  BY DEF LeaseJob
<1>2. PICK n \in Forwards : n = j.fwd /\ InQueue(n)
  BY DEF TypeInv, Jobs, InQueue
<1>3. At(n, "queued") /\ ~ Held(n)
  BY <1>2, QueuedOnly
<1>4. w \in Actors /\ OthersStay(w) /\ ~ Holding(w) /\ Holding(w)' /\ hand'[w] = j
  BY <1>1 DEF LeaseJob, Goto, Actors, OthersStay, Holding, TypeInv, ActorsTypeOK
<1>5. HeldOnce' /\ \A f \in Forwards : Held(f)' <=> Held(f) \/ f = n
  BY <1>2, <1>3, <1>4, TakesUp DEF ReplaysAreForwards
<1>6. QueuedOnce' /\ \A f \in Forwards : InQueue(f)' <=> InQueue(f) /\ f # n
  BY <1>1, <1>2, Leaves DEF ReplaysAreForwards
<1>7. \A f \in Forwards : \A q \in Places :
         At(f, q)' <=> IF f = n /\ q \in {"queued", "held"}
                       THEN q = "held" ELSE At(f, q)
  BY <1>5, <1>6, AtPlaces, AtPlacesNext DEF PlacesSpelledOut, Places, LeaseJob
<1> QED BY <1>3, <1>5, <1>6, <1>7, OneMoves DEF Places

LEMMA InitPlaces == Init => ReplaysAreForwards
<1> SUFFICES ASSUME Init PROVE ReplaysAreForwards
  OBVIOUS
<1>1. QueuedOnce /\ HeldOnce
  BY DEF Init, QueuedOnce, HeldOnce, Holds, Holding
<1>2. \A f \in Forwards : \A q \in Places : At(f, q) <=> q = "absent"
  BY AtPlaces DEF Init, FleetInit, DlqInit, PlacesSpelledOut, Places, Held,
                  InQueue, Holds, Holding
<1>3. \A f \in Forwards : OnePlace(f)
  BY <1>2 DEF OnePlace, Places
<1> QED BY <1>1, <1>3 DEF ReplaysAreForwards

LEMMA NextPlaces ==
    TypeInv /\ ReplaysAreForwards /\ [Next]_vars => ReplaysAreForwards'
<1> SUFFICES ASSUME TypeInv, ReplaysAreForwards, [Next]_vars
             PROVE  ReplaysAreForwards'
  OBVIOUS
<1> USE DEF Actors
<1>1. CASE UNCHANGED vars
  BY <1>1, AllStay DEF vars, Holds, Holding
<1>2. ASSUME NEW r \in Radars, AcceptForward(r)
      PROVE  ReplaysAreForwards'
  BY <1>2, AcceptMoves
<1>3. ASSUME NEW r \in Radars, SwitchRadar(r)
      PROVE  ReplaysAreForwards'
  BY <1>3, AllStay DEF SwitchRadar, SetEnabled, engineVars, Holds, Holding
<1>4. ASSUME NEW o \in Operators, NEW f \in Forwards, FindLetter(o, f)
      PROVE  ReplaysAreForwards'
  <2>1. CASE InDead(f) /\ Build(o, f, LetterJob(Letter(f)), "enqueue")
    <3>1. Letter(f).radar \in Radars
      BY <2>1, LetterFound DEF TypeInv, ListsTypeOK, Items
    <3>2. Build(o, f, NewJob(next, Letter(f).radar), "enqueue")
      BY <2>1 DEF LetterJob
    <3> QED BY <1>4, <3>1, <3>2, BuildMoves DEF FindLetter, engineVars, Holding
  <2>2. CASE Goto(o, "journal") /\ UNCHANGED <<next, hand, replayOf>>
    <3>1. \A a \in Actors : \A g \in Forwards : Holds(a, g)' <=> Holds(a, g)
      BY <1>4, <2>2, GoesOn
         DEF FindLetter, Goto, OthersStay, Holding, TypeInv, ActorsTypeOK
    <3> QED BY <1>4, <2>2, <3>1, AllStay DEF FindLetter, engineVars
  <2> QED BY <1>4, <2>1, <2>2 DEF FindLetter
<1>5. ASSUME NEW o \in Operators, FindEntry(o)
      PROVE  ReplaysAreForwards'
  <2>1. asked[o] \in Forwards
    BY <1>5 DEF FindEntry, TypeInv, ActorsTypeOK
  <2>2. CASE /\ InLog(asked[o])
             /\ Build(o, asked[o], EntryJob(Entry(asked[o])), "enqueue_only")
    <3>1. Entry(asked[o]).radar \in Radars
      BY <2>1, <2>2, EntryFound DEF TypeInv, ListsTypeOK, Entries
    <3>2. Build(o, asked[o], NewJob(next, Entry(asked[o]).radar), "enqueue_only")
      BY <2>2 DEF EntryJob
    <3> QED BY <1>5, <2>1, <3>1, <3>2, BuildMoves
            DEF FindEntry, engineVars, Holding
  <2>3. CASE Done(o) /\ UNCHANGED next
    <3>1. \A a \in Actors : \A g \in Forwards : Holds(a, g)' <=> Holds(a, g)
      BY <1>5, <2>3, GoesOn
         DEF FindEntry, Done, Goto, OthersStay, Holding, TypeInv, ActorsTypeOK
    <3> QED BY <1>5, <2>3, <3>1, AllStay DEF FindEntry, engineVars
  <2> QED BY <1>5, <2>2, <2>3 DEF FindEntry
<1>6. ASSUME NEW o \in Operators, EnqueueReplay(o)
      PROVE  ReplaysAreForwards'
  <2>1. OthersStay(o) /\ Holding(o) /\ ~ Holding(o)'
    BY <1>6 DEF EnqueueReplay, Done, Goto, OthersStay, Holding, TypeInv,
                ActorsTypeOK
  <2> QED BY <1>6, <2>1, PutMoves DEF EnqueueReplay
<1>7. ASSUME NEW o \in Operators, RemoveLetter(o)
      PROVE  ReplaysAreForwards'
  <2>1. \A a \in Actors : \A g \in Forwards : Holds(a, g)' <=> Holds(a, g)
    BY <1>7, GoesOn DEF RemoveLetter, Done, Goto, OthersStay, Holding, TypeInv,
                        ActorsTypeOK
  <2> QED BY <1>7, <2>1, AllStay DEF RemoveLetter, Remove, engineVars
<1>8. ASSUME NEW w \in Workers, LeaseJob(w)
      PROVE  ReplaysAreForwards'
  BY <1>8, LeaseMoves
<1>9. ASSUME NEW w \in Workers, TurnAway(w)
      PROVE  ReplaysAreForwards'
  <2>1. \A a \in Actors : \A g \in Forwards : Holds(a, g)' <=> Holds(a, g)
    BY <1>9, GoesOn DEF TurnAway, Goto, OthersStay, Holding, TypeInv,
                        ActorsTypeOK
  <2> QED BY <1>9, <2>1, AllStay DEF TurnAway
<1>10. ASSUME NEW w \in Workers, Post(w)
       PROVE  ReplaysAreForwards'
  <2> DEFINE j == [hand[w] EXCEPT !.attempt = @ + 1]
  <2>1. hand[w] \in Jobs /\ j.fwd = hand[w].fwd
    BY <1>10 DEF Post, TypeInv, ActorsTypeOK, Carrying, Jobs
  <2>2. UNCHANGED <<next, queued, buried>>
    BY <1>10 DEF Post
  <2>3. CASE Done(w) /\ delivered' = delivered \union {j.fwd}
    <3>1. OthersStay(w) /\ Holding(w) /\ ~ Holding(w)'
      BY <1>10, <2>3 DEF Post, Done, Goto, OthersStay, Holding, TypeInv,
                         ActorsTypeOK
    <3> QED BY <2>1, <2>2, <2>3, <3>1, EndMoves
  <2>4. CASE /\ hand' = [hand EXCEPT ![w] = j] /\ UNCHANGED delivered
             /\ \E call \in {"requeue", "bury"} : Goto(w, call)
    <3> HIDE DEF j
    <3>1. OthersStay(w) /\ (Holding(w)' <=> Holding(w)) /\ hand'[w] = j
      BY <1>10, <2>4 DEF Post, Goto, OthersStay, Holding, TypeInv, ActorsTypeOK
    <3>2. \A a \in Actors : \A g \in Forwards : Holds(a, g)' <=> Holds(a, g)
      BY <2>1, <3>1, GoesOn
    <3> QED BY <2>2, <2>4, <3>2, AllStay
  <2> QED BY <1>10, <2>3, <2>4 DEF Post
<1>11. ASSUME NEW w \in Workers, Requeue(w)
       PROVE  ReplaysAreForwards'
  <2>1. OthersStay(w) /\ Holding(w) /\ ~ Holding(w)'
    BY <1>11 DEF Requeue, GoOn, Done, Goto, OthersStay, Holding, TypeInv,
                 ActorsTypeOK
  <2> QED BY <1>11, <2>1, PutMoves DEF Requeue
<1>12. ASSUME NEW w \in Workers, Bury(w)
       PROVE  ReplaysAreForwards'
  <2>1. OthersStay(w) /\ Holding(w) /\ ~ Holding(w)'
    BY <1>12 DEF Bury, GoOn, Done, Goto, OthersStay, Holding, TypeInv,
                 ActorsTypeOK
  <2>2. buried' = buried \union {hand[w].fwd}
    BY <1>12 DEF Bury, Push, FromJob
  <2> QED BY <1>12, <2>1, <2>2, EndMoves DEF Bury
<1>13. ASSUME NEW w \in Workers, TrailingNote(w)
       PROVE  ReplaysAreForwards'
  <2>1. \A a \in Actors : \A g \in Forwards : Holds(a, g)' <=> Holds(a, g)
    BY <1>13, GoesOn DEF TrailingNote, Done, Goto, OthersStay, Holding, TypeInv,
                         ActorsTypeOK
  <2> QED BY <1>13, <2>1, AllStay DEF TrailingNote, engineVars
<1> QED BY <1>1, <1>2, <1>3, <1>4, <1>5, <1>6, <1>7, <1>8, <1>9, <1>10, <1>11,
           <1>12, <1>13 DEF Next, Operator, Worker

Sound == TypeInv /\ ReplaysAreForwards

LEMMA SoundAlways == Spec => []Sound
<1>1. Init => Sound
  BY InitTyped, InitPlaces DEF Sound
<1>2. Sound /\ [Next]_vars => Sound'
  BY NextTyped, NextPlaces DEF Sound
<1> QED BY <1>1, <1>2, PTL DEF Spec

(* PROJECT.md 3.5: a replay builds a new forward, at one place like any    *)
(* other, whatever is done meanwhile to the forward it replays.            *)
THEOREM ReplaysAreNewForwards == Spec => []ReplaysAreForwards
BY SoundAlways, PTL DEF Sound

-----------------------------------------------------------------------------
(* Letters.  A forward has one letter at most, as it is buried once; what  *)
(* an operator has found a letter of is buried, so that no worker will     *)
(* bury it once more after the letter was taken out.                       *)
LettersInv ==
    /\ \A i \in DOMAIN dead : dead[i].fwd \in buried
    /\ \A i, k \in DOMAIN dead : dead[i].fwd = dead[k].fwd => i = k
    /\ \A o \in Operators :
          pc[o] \in {"enqueue", "remove"} => asked[o] \in buried
    /\ answered \subseteq buried
    /\ AnsweredLettersAreGone

(* A job in hand is of a forward that was created.                         *)
BornInHand ==
    \A a \in Actors : pc[a] \in Carrying => ~ At(hand[a].fwd, "absent")

LEMMA PushedLetters ==
    ASSUME TypeInv, LettersInv, NEW it \in Items, it.fwd \notin buried, Push(it)
    PROVE  /\ \A i \in DOMAIN dead' : dead'[i].fwd \in buried'
           /\ \A i, k \in DOMAIN dead' : dead'[i].fwd = dead'[k].fwd => i = k
           /\ \A f \in Forwards :
                 InDead(f)' => InDead(f) \/ f = it.fwd
<1>1. /\ dead \in Seq(Items) /\ Len(dead) <= DlqMax
      /\ Len(dead) \in Nat /\ DOMAIN dead = 1 .. Len(dead)
  BY DEF TypeInv, ListsTypeOK, DlqTypeOK
<1>2. dead' = Capped(Append(dead, it)) /\ buried' = buried \union {it.fwd}
  BY DEF Push
<1>3. /\ dead' \in Seq(Items) /\ Len(dead') > 0 /\ dead'[Len(dead')] = it
      /\ \/ /\ Len(dead') = Len(dead) + 1
            /\ \A i \in 1 .. Len(dead) : dead'[i] = dead[i]
         \/ /\ Len(dead) = DlqMax /\ Len(dead') = DlqMax
            /\ \A i \in 1 .. DlqMax - 1 : dead'[i] = dead[i + 1]
  BY <1>1, <1>2, PushDropsOldest
<1>4. Len(dead') \in Nat /\ DOMAIN dead' = 1 .. Len(dead')
  BY <1>3
<1>5. PICK d \in {0, 1} :
         /\ \A i \in 1 .. Len(dead') - 1 :
               i + d \in DOMAIN dead /\ dead'[i] = dead[i + d]
  <2>1. CASE /\ Len(dead') = Len(dead) + 1
             /\ \A i \in 1 .. Len(dead) : dead'[i] = dead[i]
    <3>1. \A i \in 1 .. Len(dead') - 1 :
             i + 0 \in DOMAIN dead /\ dead'[i] = dead[i + 0]
      BY <1>1, <2>1
    <3> QED BY <3>1
  <2>2. CASE /\ Len(dead) = DlqMax /\ Len(dead') = DlqMax
             /\ \A i \in 1 .. DlqMax - 1 : dead'[i] = dead[i + 1]
    <3>1. \A i \in 1 .. Len(dead') - 1 :
             i + 1 \in DOMAIN dead /\ dead'[i] = dead[i + 1]
      BY <1>1, <2>2
    <3> QED BY <3>1
  <2> QED BY <1>3, <2>1, <2>2
<1>6. \A i \in DOMAIN dead' :
         \/ i = Len(dead')
         \/ i \in 1 .. Len(dead') - 1
  BY <1>4
<1>7. \A i \in DOMAIN dead' : dead'[i].fwd \in buried'
  BY <1>2, <1>3, <1>5, <1>6 DEF LettersInv
<1>8. \A i \in 1 .. Len(dead') - 1 : dead'[i].fwd # it.fwd
  BY <1>5 DEF LettersInv
<1>9. \A i, k \in 1 .. Len(dead') - 1 : dead'[i].fwd = dead'[k].fwd => i = k
  <2>1. TAKE i, k \in 1 .. Len(dead') - 1
  <2>2. HAVE dead'[i].fwd = dead'[k].fwd
  <2>3. i + d = k + d
    BY <1>5, <2>2 DEF LettersInv
  <2> QED BY <1>4, <2>3
<1>10. \A i, k \in DOMAIN dead' : dead'[i].fwd = dead'[k].fwd => i = k
  BY <1>3, <1>6, <1>8, <1>9
<1>11. \A f \in Forwards : InDead(f)' => InDead(f) \/ f = it.fwd
  BY <1>3, <1>5, <1>6 DEF InDead
<1> QED BY <1>7, <1>10, <1>11

LEMMA RemovedLetters ==
    ASSUME TypeInv, LettersInv, NEW f \in Forwards, Remove(f)
    PROVE  /\ \A i \in DOMAIN dead' : dead'[i].fwd \in buried'
           /\ \A i, k \in DOMAIN dead' : dead'[i].fwd = dead'[k].fwd => i = k
           /\ \A g \in Forwards : InDead(g)' <=> InDead(g) /\ g # f
<1>1. CASE ~ InDead(f)
  BY <1>1 DEF Remove, LettersInv, InDead
<1>2. CASE InDead(f)
  <2>1. DlqTypeOK /\ Len(dead) \in Nat /\ DOMAIN dead = 1 .. Len(dead)
    BY DEF TypeInv, ListsTypeOK, DlqTypeOK
  <2>2. dead' = Without(dead, f) /\ buried' = buried
    BY <1>2 DEF Remove
  <2>3. PICK at \in 1 .. Len(dead) :
           /\ dead[at].fwd = f
           /\ dead' \in Seq(Items)
           /\ Len(dead') = Len(dead) - 1
           /\ \A i \in 1 .. Len(dead) - 1 :
                 dead'[i] = dead[IF i < at THEN i ELSE i + 1]
    BY <1>2, <2>1, <2>2, RemoveTakesOne
  <2>4. DOMAIN dead' = 1 .. Len(dead) - 1
    BY <2>1, <2>3
  <2>5. \A i \in DOMAIN dead :
           i # at => \E k \in DOMAIN dead' : dead'[k] = dead[i]
    <3>1. TAKE i \in DOMAIN dead
    <3>2. HAVE i # at
    <3>3. CASE i < at
      <4>1. i \in 1 .. Len(dead) - 1
        BY <2>1, <3>3
      <4>2. dead'[i] = dead[i]
        BY <2>3, <3>3, <4>1
      <4> QED BY <2>4, <4>1, <4>2
    <3>4. CASE i > at
      <4>1. i - 1 \in 1 .. Len(dead) - 1 /\ ~ (i - 1 < at) /\ i - 1 + 1 = i
        BY <2>1, <3>4
      <4>2. dead'[i - 1] = dead[i]
        BY <2>3, <4>1
      <4> QED BY <2>4, <4>1, <4>2
    <3> QED BY <2>1, <3>2, <3>3, <3>4
  <2>6. \A i \in DOMAIN dead' :
           LET k == IF i < at THEN i ELSE i + 1
           IN  k \in DOMAIN dead /\ k # at /\ dead'[i] = dead[k]
    BY <2>1, <2>3, <2>4
  <2>7. \A i \in DOMAIN dead' : dead'[i].fwd \in buried'
    BY <2>2, <2>6 DEF LettersInv
  <2>8. \A i, k \in DOMAIN dead' : dead'[i].fwd = dead'[k].fwd => i = k
    <3>1. TAKE i, k \in DOMAIN dead'
    <3>2. HAVE dead'[i].fwd = dead'[k].fwd
    <3>3. (IF i < at THEN i ELSE i + 1) = (IF k < at THEN k ELSE k + 1)
      BY <2>6, <3>2 DEF LettersInv
    <3> QED BY <2>1, <2>4, <3>3
  <2>9. \A g \in Forwards : InDead(g)' <=> InDead(g) /\ g # f
    <3>1. \A i \in DOMAIN dead' : dead'[i].fwd # f
      BY <2>3, <2>6 DEF LettersInv
    <3>2. \A g \in Forwards : InDead(g)' => InDead(g) /\ g # f
      BY <2>6, <3>1 DEF InDead
    <3>3. \A g \in Forwards : InDead(g) /\ g # f => InDead(g)'
      BY <2>3, <2>5 DEF InDead
    <3> QED BY <3>2, <3>3
  <2> QED BY <2>7, <2>8, <2>9
<1> QED BY <1>1, <1>2

(* No step but a burial and a removal changes the letters; an operator     *)
(* that finds one goes on with a forward that is buried.                   *)
LEMMA LettersStay ==
    ASSUME LettersInv, UNCHANGED <<dead, buried, answered>>,
           \A o \in Operators :
              pc'[o] \in {"enqueue", "remove"} =>
                 \/ pc[o] \in {"enqueue", "remove"} /\ asked'[o] = asked[o]
                 \/ asked'[o] \in buried
    PROVE  LettersInv'
<1>1. \A o \in Operators :
         pc'[o] \in {"enqueue", "remove"} => asked'[o] \in buried'
  BY DEF LettersInv
<1>2. AnsweredLettersAreGone'
  BY DEF LettersInv, AnsweredLettersAreGone, InDead
<1>3. /\ \A i \in DOMAIN dead' : dead'[i].fwd \in buried'
      /\ \A i, k \in DOMAIN dead' : dead'[i].fwd = dead'[k].fwd => i = k
      /\ answered' \subseteq buried'
  BY DEF LettersInv
<1> QED BY <1>1, <1>2, <1>3 DEF LettersInv

LEMMA NextLetters == Sound /\ LettersInv /\ [Next]_vars => LettersInv'
<1> SUFFICES ASSUME TypeInv, ReplaysAreForwards, LettersInv, [Next]_vars
             PROVE  LettersInv'
  BY DEF Sound
<1> USE DEF Actors, TypeInv, ActorsTypeOK
<1>1. CASE UNCHANGED vars
  BY <1>1, LettersStay DEF vars
<1>2. ASSUME NEW r \in Radars, AcceptForward(r)
      PROVE  LettersInv'
  BY <1>2, LettersStay DEF AcceptForward, operatorVars
<1>3. ASSUME NEW r \in Radars, SwitchRadar(r)
      PROVE  LettersInv'
  BY <1>3, LettersStay DEF SwitchRadar, operatorVars
<1>4. ASSUME NEW o \in Operators, NEW f \in Forwards, FindLetter(o, f)
      PROVE  LettersInv'
  <2>1. UNCHANGED <<dead, buried, answered>> /\ asked' = [asked EXCEPT ![o] = f]
    BY <1>4 DEF FindLetter
  <2>2. CASE InDead(f) /\ Goto(o, "enqueue")
    <3>1. f \in buried
      BY <2>2 DEF InDead, LettersInv
    <3> QED BY <2>1, <2>2, <3>1, LettersStay DEF Goto
  <2>3. CASE Goto(o, "journal")
    BY <2>1, <2>3, LettersStay DEF Goto
  <2> QED BY <1>4, <2>2, <2>3 DEF FindLetter, Build
<1>5. ASSUME NEW o \in Operators, FindEntry(o)
      PROVE  LettersInv'
  <2>1. /\ UNCHANGED <<dead, buried, answered>>
        /\ \A p \in Operators \ {o} : asked'[p] = asked[p] /\ pc'[p] = pc[p]
        /\ pc'[o] \in {"enqueue_only", "idle"}
    BY <1>5 DEF FindEntry, Build, Done, Goto
  <2> QED BY <2>1, LettersStay
<1>6. ASSUME NEW o \in Operators, EnqueueReplay(o)
      PROVE  LettersInv'
  <2>1. /\ UNCHANGED <<dead, buried, answered>>
        /\ \A p \in Operators \ {o} : asked'[p] = asked[p] /\ pc'[p] = pc[p]
        /\ \/ pc[o] = "enqueue" /\ asked'[o] = asked[o]
           \/ pc'[o] = "idle"
    BY <1>6 DEF EnqueueReplay, Done, Goto
  <2> QED BY <2>1, LettersStay
<1>7. ASSUME NEW o \in Operators, RemoveLetter(o)
      PROVE  LettersInv'
  <2>1. asked[o] \in Forwards /\ asked[o] \in buried /\ Remove(asked[o])
    BY <1>7 DEF RemoveLetter, LettersInv
  <2>2. /\ \A i \in DOMAIN dead' : dead'[i].fwd \in buried'
        /\ \A i, k \in DOMAIN dead' : dead'[i].fwd = dead'[k].fwd => i = k
        /\ \A g \in Forwards : InDead(g)' <=> InDead(g) /\ g # asked[o]
    BY <2>1, RemovedLetters
  <2>3. answered' = answered \union {asked[o]} /\ UNCHANGED buried
    BY <1>7 DEF RemoveLetter, Remove
  <2>4. \A p \in Operators :
           pc'[p] \in {"enqueue", "remove"} => asked'[p] \in buried'
    BY <1>7, <2>3 DEF RemoveLetter, Done, Goto, LettersInv
  <2>5. AnsweredLettersAreGone'
    <3>1. answered \subseteq Forwards
      BY DEF HistoryTypeOK
    <3> QED BY <2>1, <2>2, <2>3, <3>1 DEF AnsweredLettersAreGone, LettersInv
  <2>6. answered' \subseteq buried'
    BY <2>1, <2>3 DEF LettersInv
  <2> QED BY <2>2, <2>4, <2>5, <2>6 DEF LettersInv
<1>8. ASSUME NEW w \in Workers, LeaseJob(w) \/ TurnAway(w) \/ Post(w)
                                \/ Requeue(w) \/ TrailingNote(w)
      PROVE  LettersInv'
  <2>1. /\ UNCHANGED <<dead, buried, answered, asked>>
        /\ \A a \in Actors \ {w} : pc'[a] = pc[a]
        /\ pc'[w] \in {"idle", "handle", "requeue", "bury", "note"}
    BY <1>8 DEF LeaseJob, TurnAway, Post, Requeue, TrailingNote, GoOn, Done,
                Goto, operatorVars, engineVars
  <2> QED BY <2>1, LettersStay
<1>9. ASSUME NEW w \in Workers, Bury(w)
      PROVE  LettersInv'
  <2> DEFINE it == FromJob(hand[w], cause[w])
  <2>1. hand[w] \in Jobs /\ hand[w].fwd \in Forwards /\ Held(hand[w].fwd)
    BY <1>9, HoldsForward DEF Bury, Holding
  <2>2. it \in Items /\ it.fwd = hand[w].fwd
    BY <1>9, <2>1 DEF Bury, FromJob, Jobs, Items
  <2>3. it.fwd \notin buried
    BY <2>1, <2>2, HeldOnly
  <2>4. Push(it)
    BY <1>9 DEF Bury
  <2>5. UNCHANGED <<asked, answered>> /\ buried' = buried \union {it.fwd}
    BY <1>9 DEF Bury, Push, operatorVars
  <2> HIDE DEF it
  <2>6. /\ \A i \in DOMAIN dead' : dead'[i].fwd \in buried'
        /\ \A i, k \in DOMAIN dead' : dead'[i].fwd = dead'[k].fwd => i = k
        /\ \A f \in Forwards : InDead(f)' => InDead(f) \/ f = it.fwd
    BY <2>2, <2>3, <2>4, PushedLetters
  <2>7. /\ \A a \in Actors \ {w} : pc'[a] = pc[a]
        /\ pc'[w] \in {"idle", "note"}
    BY <1>9 DEF Bury, GoOn, Done, Goto
  <2>8. \A o \in Operators :
           pc'[o] \in {"enqueue", "remove"} => asked'[o] \in buried'
    BY <2>5, <2>7 DEF LettersInv
  <2>9. AnsweredLettersAreGone'
    <3>1. \A f \in answered : f \in Forwards /\ f # it.fwd /\ ~ InDead(f)
      BY <2>3 DEF HistoryTypeOK, LettersInv, AnsweredLettersAreGone
    <3> QED BY <2>5, <2>6, <3>1 DEF AnsweredLettersAreGone
  <2>10. answered' \subseteq buried'
    BY <2>5 DEF LettersInv
  <2> QED BY <2>6, <2>8, <2>9, <2>10 DEF LettersInv
<1> QED BY <1>1, <1>2, <1>3, <1>4, <1>5, <1>6, <1>7, <1>8, <1>9
        DEF Next, Operator, Worker

LEMMA InitLetters == Init => LettersInv
BY DEF Init, DlqInit, LettersInv, AnsweredLettersAreGone, Actors

LEMMA LettersAlways == Spec => [](Sound /\ LettersInv)
<1>1. Spec => []Sound
  BY SoundAlways
<1> QED BY <1>1, InitLetters, NextLetters, PTL DEF Spec

(* Once an operator was answered, the letter it replayed is not found      *)
(* again: it was the only one, and its forward is not buried once more.    *)
THEOREM ReplayedLettersAreGone == Spec => []AnsweredLettersAreGone
BY LettersAlways, PTL DEF LettersInv

LEMMA BornStays ==
    ASSUME TypeInv, BornInHand, next' \in Nat, next <= next',
           \A a \in Actors : pc'[a] \in Carrying =>
              \/ pc[a] \in Carrying /\ hand'[a].fwd = hand[a].fwd
              \/ hand'[a].fwd \in Forwards /\ hand'[a].fwd < next'
    PROVE  BornInHand'
<1>1. \A a \in Actors : pc[a] \in Carrying =>
         hand[a].fwd \in Forwards /\ ~ (hand[a].fwd >= next)
  BY AtPlaces DEF BornInHand, PlacesSpelledOut, TypeInv, ActorsTypeOK, Jobs
<1>2. next \in Nat
  BY DEF TypeInv, FleetTypeOK
<1>3. \A a \in Actors : pc'[a] \in Carrying =>
         hand'[a].fwd \in Forwards /\ ~ (hand'[a].fwd >= next')
  BY <1>1, <1>2
<1> QED BY <1>3, AtPlacesNext DEF BornInHand, PlacesSpelledOut

LEMMA NextBorn == Sound /\ BornInHand /\ [Next]_vars => BornInHand'
<1> SUFFICES ASSUME TypeInv, ReplaysAreForwards, BornInHand, [Next]_vars
             PROVE  BornInHand'
  BY DEF Sound
<1>0. next \in Nat
  BY DEF TypeInv, FleetTypeOK
<1>1. CASE UNCHANGED vars
  BY <1>0, <1>1, BornStays DEF vars
<1>2. ASSUME NEW r \in Radars, AcceptForward(r) \/ SwitchRadar(r)
      PROVE  BornInHand'
  <2>1. next' \in Nat /\ next <= next' /\ UNCHANGED <<pc, hand>>
    BY <1>0, <1>2 DEF AcceptForward, SwitchRadar, SetEnabled
  <2> QED BY <2>1, BornStays
<1>3. ASSUME NEW o \in Operators, Operator(o)
      PROVE  BornInHand'
  <2>1. /\ o \in Actors
        /\ pc \in [Actors -> Carrying \union {"idle", "journal"}]
        /\ hand \in [Actors -> Jobs \union {NoJob}]
    BY DEF Actors, TypeInv, ActorsTypeOK
  <2>2. ASSUME NEW f, NEW r, NEW call, Build(o, f, NewJob(next, r), call)
        PROVE  BornInHand'
    <3>1. next \in Forwards /\ next' = next + 1
      BY <2>2 DEF Build, TypeInv, FleetTypeOK
    <3>2. /\ hand'[o].fwd = next
          /\ \A a \in Actors \ {o} : pc'[a] = pc[a] /\ hand'[a] = hand[a]
      BY <2>1, <2>2 DEF Build, Goto, NewJob
    <3> QED BY <3>1, <3>2, BornStays
  <2>3. ASSUME UNCHANGED next,
               \A a \in Actors \ {o} : pc'[a] = pc[a] /\ hand'[a] = hand[a],
               \/ pc'[o] \notin Carrying
               \/ pc[o] \in Carrying /\ hand'[o] = hand[o]
        PROVE  BornInHand'
    BY <1>0, <2>3, BornStays
  <2>4. ASSUME NEW f \in Forwards, FindLetter(o, f)
        PROVE  BornInHand'
    <3>1. CASE Build(o, f, LetterJob(Letter(f)), "enqueue")
      BY <2>2, <3>1 DEF LetterJob
    <3>2. CASE Goto(o, "journal") /\ UNCHANGED <<next, hand>>
      BY <2>1, <2>3, <3>2 DEF Goto, Carrying
    <3> QED BY <2>4, <3>1, <3>2 DEF FindLetter
  <2>5. ASSUME FindEntry(o)
        PROVE  BornInHand'
    <3>1. CASE Build(o, asked[o], EntryJob(Entry(asked[o])), "enqueue_only")
      BY <2>2, <3>1 DEF EntryJob
    <3>2. CASE Done(o) /\ UNCHANGED next
      BY <2>1, <2>3, <3>2 DEF Done, Goto, Carrying
    <3> QED BY <2>5, <3>1, <3>2 DEF FindEntry
  <2>6. ASSUME EnqueueReplay(o)
        PROVE  BornInHand'
    BY <2>1, <2>3, <2>6 DEF EnqueueReplay, Done, Goto, Carrying
  <2>7. ASSUME RemoveLetter(o)
        PROVE  BornInHand'
    BY <2>1, <2>3, <2>7 DEF RemoveLetter, Done, Goto, Carrying
  <2> QED BY <1>3, <2>4, <2>5, <2>6, <2>7 DEF Operator
<1>4. ASSUME NEW w \in Workers, Worker(w)
      PROVE  BornInHand'
  <2>1. /\ w \in Actors
        /\ pc \in [Actors -> Carrying \union {"idle", "journal"}]
        /\ hand \in [Actors -> Jobs \union {NoJob}]
    BY DEF Actors, TypeInv, ActorsTypeOK
  <2>2. ASSUME UNCHANGED next,
               \A a \in Actors \ {w} : pc'[a] = pc[a] /\ hand'[a] = hand[a],
               \/ pc'[w] \notin Carrying
               \/ pc[w] \in Carrying /\ hand'[w].fwd = hand[w].fwd
        PROVE  BornInHand'
    BY <1>0, <2>2, BornStays
  <2>3. ASSUME LeaseJob(w)
        PROVE  BornInHand'
    <3>1. PICK j \in queued : hand' = [hand EXCEPT ![w] = j]
      BY <2>3 DEF LeaseJob
    <3>2. j.fwd \in Forwards /\ InQueue(j.fwd)
      BY DEF TypeInv, Jobs, InQueue
    <3>3. j.fwd < next
      BY <1>0, <3>2, QueuedOnly
    <3>4. /\ \A a \in Actors \ {w} : pc'[a] = pc[a] /\ hand'[a] = hand[a]
          /\ hand'[w].fwd = j.fwd /\ next' = next
      BY <2>1, <2>3, <3>1 DEF LeaseJob, Goto
    <3> QED BY <1>0, <3>2, <3>3, <3>4, BornStays
  <2>4. ASSUME TurnAway(w)
        PROVE  BornInHand'
    BY <2>1, <2>2, <2>4 DEF TurnAway, Goto, Carrying
  <2>5. ASSUME Post(w)
        PROVE  BornInHand'
    <3>1. hand[w] \in Jobs
      BY <2>1, <2>5 DEF Post, TypeInv, ActorsTypeOK, Carrying
    <3>2. CASE Done(w)
      BY <2>1, <2>2, <2>5, <3>2 DEF Post, Done, Goto, Carrying
    <3>3. CASE /\ hand' = [hand EXCEPT ![w] = [hand[w] EXCEPT !.attempt = @ + 1]]
               /\ \E call \in {"requeue", "bury"} : Goto(w, call)
      <4>1. hand'[w].fwd = hand[w].fwd
        BY <2>1, <3>1, <3>3 DEF Jobs
      <4> QED BY <2>1, <2>2, <2>5, <3>3, <4>1 DEF Post, Goto, Carrying
    <3> QED BY <2>5, <3>2, <3>3 DEF Post
  <2>6. ASSUME Requeue(w)
        PROVE  BornInHand'
    BY <2>1, <2>2, <2>6 DEF Requeue, GoOn, Done, Goto, Carrying
  <2>7. ASSUME Bury(w)
        PROVE  BornInHand'
    BY <2>1, <2>2, <2>7 DEF Bury, GoOn, Done, Goto, Carrying
  <2>8. ASSUME TrailingNote(w)
        PROVE  BornInHand'
    BY <2>1, <2>2, <2>8 DEF TrailingNote, Done, Goto, Carrying
  <2> QED BY <1>4, <2>3, <2>4, <2>5, <2>6, <2>7, <2>8 DEF Worker
<1> QED BY <1>1, <1>2, <1>3, <1>4 DEF Next

LEMMA NextKeepsLetters ==
    Sound /\ LettersInv /\ BornInHand /\ [Next]_vars => LetterIsKept
<1> SUFFICES ASSUME TypeInv, ReplaysAreForwards, LettersInv, BornInHand,
                    [Next]_vars,
                    NEW f \in Forwards, InDead(f), ~ InDead(f)'
             PROVE  \/ /\ dead[1].fwd = f
                       /\ Len(dead) = DlqMax /\ Len(dead') = DlqMax
                    \/ \E o \in Operators :
                          /\ pc[o] = "remove"
                          /\ asked[o] = f
                          /\ ~ At(hand[o].fwd, "absent")
                          /\ ~ Holds(o, hand[o].fwd)
  BY DEF LetterIsKept, Sound
<1>1. dead' # dead
  BY DEF InDead
<1>2. ASSUME NEW o \in Operators, RemoveLetter(o)
      PROVE  /\ pc[o] = "remove"
             /\ asked[o] = f
             /\ ~ At(hand[o].fwd, "absent")
             /\ ~ Holds(o, hand[o].fwd)
  <2>1. pc[o] = "remove" /\ Remove(asked[o]) /\ asked[o] \in Forwards
    BY <1>2 DEF RemoveLetter, TypeInv, ActorsTypeOK
  <2>2. asked[o] = f
    BY <2>1, RemovedLetters
  <2> QED BY <2>1, <2>2 DEF BornInHand, Actors, Carrying, Holds, Holding
<1>3. ASSUME NEW w \in Workers, Bury(w)
      PROVE  dead[1].fwd = f /\ Len(dead) = DlqMax /\ Len(dead') = DlqMax
  <2> DEFINE it == FromJob(hand[w], cause[w])
  <2>1. it \in Items
    BY <1>3 DEF Bury, TypeInv, ActorsTypeOK, Actors, Carrying, FromJob, Jobs,
                Items
  <2>2. dead' = Capped(Append(dead, it))
    BY <1>3 DEF Bury, Push
  <2> HIDE DEF it
  <2>3. /\ dead \in Seq(Items) /\ Len(dead) <= DlqMax
        /\ Len(dead) \in Nat /\ DOMAIN dead = 1 .. Len(dead)
    BY DEF TypeInv, ListsTypeOK, DlqTypeOK
  <2>4. /\ dead' \in Seq(Items)
        /\ \/ /\ Len(dead') = Len(dead) + 1
              /\ \A i \in 1 .. Len(dead) : dead'[i] = dead[i]
           \/ /\ Len(dead) = DlqMax /\ Len(dead') = DlqMax
              /\ \A i \in 1 .. DlqMax - 1 : dead'[i] = dead[i + 1]
    BY <2>1, <2>2, <2>3, PushDropsOldest
  <2>5. Len(dead') \in Nat /\ DOMAIN dead' = 1 .. Len(dead')
    BY <2>4
  <2>6. PICK i \in 1 .. Len(dead) : dead[i].fwd = f
    BY <2>3 DEF InDead
  <2>7. CASE /\ Len(dead') = Len(dead) + 1
             /\ \A k \in 1 .. Len(dead) : dead'[k] = dead[k]
    <3>1. i \in DOMAIN dead' /\ dead'[i].fwd = f
      BY <2>3, <2>5, <2>6, <2>7
    <3> QED BY <3>1 DEF InDead
  <2>8. CASE /\ Len(dead) = DlqMax /\ Len(dead') = DlqMax
             /\ \A k \in 1 .. DlqMax - 1 : dead'[k] = dead[k + 1]
    <3>1. CASE i = 1
      BY <2>6, <2>8, <3>1
    <3>2. CASE i # 1
      <4>1. i - 1 \in 1 .. DlqMax - 1 /\ i - 1 + 1 = i /\ i - 1 \in DOMAIN dead'
        BY <2>3, <2>5, <2>6, <2>8, <3>2
      <4>2. dead'[i - 1].fwd = f
        BY <2>6, <2>8, <4>1
      <4> QED BY <4>1, <4>2 DEF InDead
    <3> QED BY <3>1, <3>2
  <2> QED BY <2>4, <2>7, <2>8
<1>4. ASSUME NEW r \in Radars, AcceptForward(r) \/ SwitchRadar(r)
      PROVE  FALSE
  BY <1>1, <1>4 DEF AcceptForward, SwitchRadar
<1>5. ASSUME NEW o \in Operators,
             \/ \E g \in Forwards : FindLetter(o, g)
             \/ FindEntry(o) \/ EnqueueReplay(o)
      PROVE  FALSE
  BY <1>1, <1>5 DEF FindLetter, FindEntry, EnqueueReplay
<1>6. ASSUME NEW w \in Workers,
             \/ LeaseJob(w) \/ TurnAway(w) \/ Post(w) \/ Requeue(w)
             \/ TrailingNote(w)
      PROVE  FALSE
  BY <1>1, <1>6 DEF LeaseJob, TurnAway, Post, Requeue, TrailingNote
<1>7. ~ UNCHANGED vars
  BY <1>1 DEF vars
<1> QED BY <1>2, <1>3, <1>4, <1>5, <1>6, <1>7 DEF Next, Operator, Worker

LEMMA InitBorn == Init => BornInHand
BY DEF Init, BornInHand, Carrying

(* No order of finds, enqueues, removals and burials loses a letter: it    *)
(* is evicted as the oldest of a full queue, or taken out by an operator   *)
(* whose new forward was enqueued before.                                  *)
THEOREM NoLetterIsLost == Spec => LettersAreKept
<1>1. Spec => [](Sound /\ LettersInv)
  BY LettersAlways
<1> QED BY <1>1, InitBorn, NextBorn, NextKeepsLetters, PTL
        DEF Spec, LettersAreKept

-----------------------------------------------------------------------------
(* Attempts.  A job counts the POSTs of its own forward wherever it is, in *)
(* a queue, in a hand, or as a letter; a new forward has had none.         *)
Counts(j) == j.attempt = posts[j.fwd]

AttemptsInv ==
    /\ \A f \in Forwards : posts[f] <= MaxAttempts
    /\ \A f \in Forwards : f >= next => posts[f] = 0
    /\ \A j \in queued : Counts(j) /\ j.attempt < MaxAttempts
    /\ \A a \in Actors : Holding(a) => Counts(hand[a])
    /\ \A a \in Actors :
          Holding(a) /\ pc[a] # "bury" => hand[a].attempt < MaxAttempts
    /\ \A i \in DOMAIN dead : Counts(dead[i])

LEMMA PushElements ==
    ASSUME TypeInv, NEW it \in Items, dead' = Capped(Append(dead, it))
    PROVE  \A i \in DOMAIN dead' :
              dead'[i] = it \/ \E k \in DOMAIN dead : dead'[i] = dead[k]
<1>1. /\ dead \in Seq(Items) /\ Len(dead) <= DlqMax
      /\ Len(dead) \in Nat /\ DOMAIN dead = 1 .. Len(dead)
  BY DEF TypeInv, ListsTypeOK, DlqTypeOK
<1>2. /\ dead' \in Seq(Items) /\ dead'[Len(dead')] = it
      /\ \/ /\ Len(dead') = Len(dead) + 1
            /\ \A i \in 1 .. Len(dead) : dead'[i] = dead[i]
         \/ /\ Len(dead) = DlqMax /\ Len(dead') = DlqMax
            /\ \A i \in 1 .. DlqMax - 1 : dead'[i] = dead[i + 1]
  BY <1>1, PushDropsOldest
<1>3. Len(dead') \in Nat /\ DOMAIN dead' = 1 .. Len(dead')
  BY <1>2
<1> SUFFICES ASSUME NEW i \in DOMAIN dead', i # Len(dead')
             PROVE  \E k \in DOMAIN dead : dead'[i] = dead[k]
  BY <1>2
<1>4. CASE /\ Len(dead') = Len(dead) + 1
           /\ \A k \in 1 .. Len(dead) : dead'[k] = dead[k]
  <2>1. i \in 1 .. Len(dead)
    BY <1>1, <1>3, <1>4
  <2> QED BY <1>1, <1>4, <2>1
<1>5. CASE /\ Len(dead) = DlqMax /\ Len(dead') = DlqMax
           /\ \A k \in 1 .. DlqMax - 1 : dead'[k] = dead[k + 1]
  <2>1. i \in 1 .. DlqMax - 1 /\ i + 1 \in 1 .. Len(dead)
    BY <1>1, <1>3, <1>5
  <2> QED BY <1>1, <1>5, <2>1
<1> QED BY <1>2, <1>4, <1>5

LEMMA RemoveElements ==
    ASSUME TypeInv, NEW f \in Forwards, Remove(f)
    PROVE  \A i \in DOMAIN dead' : \E k \in DOMAIN dead : dead'[i] = dead[k]
<1>1. CASE ~ InDead(f)
  BY <1>1 DEF Remove
<1>2. CASE InDead(f)
  <2>1. DlqTypeOK /\ Len(dead) \in Nat /\ DOMAIN dead = 1 .. Len(dead)
    BY DEF TypeInv, ListsTypeOK, DlqTypeOK
  <2>2. PICK at \in 1 .. Len(dead) :
           /\ dead' \in Seq(Items)
           /\ Len(dead') = Len(dead) - 1
           /\ \A i \in 1 .. Len(dead) - 1 :
                 dead'[i] = dead[IF i < at THEN i ELSE i + 1]
    BY <1>2, <2>1, RemoveTakesOne DEF Remove
  <2>3. DOMAIN dead' = 1 .. Len(dead) - 1
    BY <2>1, <2>2
  <2>4. \A i \in DOMAIN dead' : (IF i < at THEN i ELSE i + 1) \in DOMAIN dead
    BY <2>1, <2>3
  <2> QED BY <2>2, <2>3, <2>4
<1> QED BY <1>1, <1>2

(* Steps without a POST: what is held afterwards was held, or queued, or is*)
(* new; likewise what is queued; no letter appears but of a job in hand.   *)
LEMMA AttemptsStay ==
    ASSUME AttemptsInv, UNCHANGED posts, next \in Nat, next' \in Nat,
           next <= next',
           \A j \in queued' : j \in queued \/ (Counts(j) /\ j.attempt < MaxAttempts),
           \A a \in Actors : Holding(a)' =>
              \/ /\ Holding(a) /\ hand'[a] = hand[a]
                 /\ pc'[a] = "bury" \/ pc[a] # "bury"
              \/ Counts(hand'[a]) /\ hand'[a].attempt < MaxAttempts,
           \A i \in DOMAIN dead' :
              Counts(dead'[i]) \/ \E k \in DOMAIN dead : dead'[i] = dead[k]
    PROVE  AttemptsInv'
<1>1. \A f \in Forwards : posts'[f] <= MaxAttempts
  BY DEF AttemptsInv
<1>2. \A f \in Forwards : f >= next' => posts'[f] = 0
  BY DEF AttemptsInv
<1>3. \A j \in queued' : Counts(j)' /\ j.attempt < MaxAttempts
  BY DEF AttemptsInv, Counts
<1>4. \A a \in Actors : Holding(a)' => Counts(hand[a])'
  BY DEF AttemptsInv, Counts
<1>5. \A a \in Actors :
         Holding(a)' /\ pc'[a] # "bury" => hand'[a].attempt < MaxAttempts
  BY DEF AttemptsInv
<1>6. \A i \in DOMAIN dead' : Counts(dead[i])'
  BY DEF AttemptsInv, Counts
<1> QED BY <1>1, <1>2, <1>3, <1>4, <1>5, <1>6 DEF AttemptsInv

LEMMA NewJobCounts ==
    ASSUME AttemptsInv, FleetTypeOK, next <= MaxForwards, NEW r
    PROVE  Counts(NewJob(next, r)) /\ NewJob(next, r).attempt < MaxAttempts
<1>1. next \in Forwards /\ posts[next] = 0
  BY DEF AttemptsInv, FleetTypeOK
<1> QED BY <1>1, ReplayAssumption DEF Counts, NewJob

LEMMA NextAttempts ==
    Sound /\ LettersInv /\ AttemptsInv /\ [Next]_vars => AttemptsInv'
<1> SUFFICES ASSUME TypeInv, ReplaysAreForwards, LettersInv, AttemptsInv,
                    [Next]_vars
             PROVE  AttemptsInv'
  BY DEF Sound
<1>0. /\ next \in Nat
      /\ pc \in [Actors -> Carrying \union {"idle", "journal"}]
      /\ hand \in [Actors -> Jobs \union {NoJob}]
  BY DEF TypeInv, FleetTypeOK, ActorsTypeOK
<1>1. CASE UNCHANGED vars
  BY <1>0, <1>1, AttemptsStay DEF vars, Holding
<1>2. ASSUME NEW r \in Radars, AcceptForward(r)
      PROVE  AttemptsInv'
  <2>1. Counts(NewJob(next, r)) /\ NewJob(next, r).attempt < MaxAttempts
    BY <1>2, NewJobCounts DEF AcceptForward, TypeInv
  <2>2. \A j \in queued' :
           j \in queued \/ (Counts(j) /\ j.attempt < MaxAttempts)
    BY <1>2, <2>1 DEF AcceptForward
  <2> QED BY <1>0, <1>2, <2>2, AttemptsStay DEF AcceptForward, Holding
<1>3. ASSUME NEW r \in Radars, SwitchRadar(r)
      PROVE  AttemptsInv'
  BY <1>0, <1>3, AttemptsStay DEF SwitchRadar, SetEnabled, engineVars, Holding
<1>4. ASSUME NEW o \in Operators, Operator(o)
      PROVE  AttemptsInv'
  <2>1. o \in Actors
    BY DEF Actors
  <2>2. ASSUME NEW f, NEW r, NEW call, Build(o, f, NewJob(next, r), call),
               UNCHANGED <<queued, posts, dead>>
        PROVE  AttemptsInv'
    <3>1. Counts(NewJob(next, r)) /\ NewJob(next, r).attempt < MaxAttempts
      BY <2>2, NewJobCounts DEF Build, TypeInv
    <3>2. /\ hand'[o] = NewJob(next, r) /\ next' = next + 1
          /\ \A a \in Actors \ {o} : pc'[a] = pc[a] /\ hand'[a] = hand[a]
      BY <1>0, <2>1, <2>2 DEF Build, Goto
    <3> QED BY <1>0, <2>2, <3>1, <3>2, AttemptsStay DEF Holding
  <2>3. ASSUME NEW f \in Forwards, FindLetter(o, f)
        PROVE  AttemptsInv'
    <3>1. UNCHANGED <<queued, posts, dead>>
      BY <2>3 DEF FindLetter, engineVars
    <3>2. CASE Build(o, f, LetterJob(Letter(f)), "enqueue")
      BY <2>2, <3>1, <3>2 DEF LetterJob
    <3>3. CASE Goto(o, "journal") /\ UNCHANGED <<next, hand>>
      BY <1>0, <2>1, <3>1, <3>3, AttemptsStay DEF Goto, Holding
    <3> QED BY <2>3, <3>2, <3>3 DEF FindLetter
  <2>4. ASSUME FindEntry(o)
        PROVE  AttemptsInv'
    <3>1. UNCHANGED <<queued, posts, dead>>
      BY <2>4 DEF FindEntry, engineVars
    <3>2. CASE Build(o, asked[o], EntryJob(Entry(asked[o])), "enqueue_only")
      BY <2>2, <3>1, <3>2 DEF EntryJob
    <3>3. CASE Done(o) /\ UNCHANGED next
      BY <1>0, <2>1, <3>1, <3>3, AttemptsStay DEF Done, Goto, Holding
    <3> QED BY <2>4, <3>2, <3>3 DEF FindEntry
  <2>5. ASSUME EnqueueReplay(o)
        PROVE  AttemptsInv'
    <3>1. Counts(hand[o]) /\ hand[o].attempt < MaxAttempts
      BY <2>1, <2>5 DEF EnqueueReplay, AttemptsInv, Holding
    <3>2. \A j \in queued' :
             j \in queued \/ (Counts(j) /\ j.attempt < MaxAttempts)
      BY <2>5, <3>1 DEF EnqueueReplay
    <3>3. \A a \in Actors : Holding(a)' =>
             Holding(a) /\ hand'[a] = hand[a] /\ pc'[a] = pc[a]
      BY <1>0, <2>1, <2>5 DEF EnqueueReplay, Done, Goto, Holding
    <3> QED BY <1>0, <2>5, <3>2, <3>3, AttemptsStay DEF EnqueueReplay
  <2>6. ASSUME RemoveLetter(o)
        PROVE  AttemptsInv'
    <3>1. asked[o] \in Forwards /\ Remove(asked[o])
      BY <2>6 DEF RemoveLetter, TypeInv, ActorsTypeOK
    <3>2. \A i \in DOMAIN dead' : \E k \in DOMAIN dead : dead'[i] = dead[k]
      BY <3>1, RemoveElements
    <3>3. \A a \in Actors : Holding(a)' =>
             Holding(a) /\ hand'[a] = hand[a] /\ pc'[a] = pc[a]
      BY <1>0, <2>1, <2>6 DEF RemoveLetter, Done, Goto, Holding
    <3> QED BY <1>0, <2>6, <3>2, <3>3, AttemptsStay DEF RemoveLetter, engineVars
  <2> QED BY <1>4, <2>3, <2>4, <2>5, <2>6 DEF Operator
<1>5. ASSUME NEW w \in Workers, LeaseJob(w)
      PROVE  AttemptsInv'
  <2>1. PICK j \in queued : queued' = queued \ {j} /\ hand' = [hand EXCEPT ![w] = j]
    BY <1>5 DEF LeaseJob
  <2>2. Counts(j) /\ j.attempt < MaxAttempts
    BY DEF AttemptsInv
  <2>3. \A a \in Actors : Holding(a)' =>
           \/ Holding(a) /\ hand'[a] = hand[a] /\ pc'[a] = pc[a]
           \/ hand'[a] = j
    BY <1>0, <1>5, <2>1 DEF LeaseJob, Goto, Holding, Actors
  <2> QED BY <1>0, <1>5, <2>1, <2>2, <2>3, AttemptsStay DEF LeaseJob
<1>6. ASSUME NEW w \in Workers, TurnAway(w)
      PROVE  AttemptsInv'
  <2>1. \A a \in Actors : Holding(a)' =>
           /\ Holding(a) /\ hand'[a] = hand[a]
           /\ pc'[a] = "bury" \/ pc[a] # "bury"
    BY <1>0, <1>6 DEF TurnAway, Goto, Holding, Actors
  <2> QED BY <1>0, <1>6, <2>1, AttemptsStay DEF TurnAway
<1>7. ASSUME NEW w \in Workers, Post(w)
      PROVE  AttemptsInv'
  <2> DEFINE j == [hand[w] EXCEPT !.attempt = @ + 1]
  <2>1. /\ w \in Actors /\ Holding(w) /\ pc[w] = "handle"
    BY <1>7 DEF Post, Actors, Holding
  <2>2. hand[w] \in Jobs /\ Held(hand[w].fwd)
    BY <2>1, HoldsForward DEF TypeInv
  <2>3. PICK n \in Forwards : n = hand[w].fwd
    BY <2>2 DEF Jobs
  <2>4. j.fwd = n /\ j.attempt = hand[w].attempt + 1 /\ hand[w].attempt \in Nat
    BY <2>2, <2>3 DEF Jobs
  <2>5. /\ posts' = [posts EXCEPT ![n] = @ + 1]
        /\ UNCHANGED <<next, dead, buried, queued>>
    BY <1>7, <2>4 DEF Post
  <2>6. hand[w].attempt = posts[n] /\ hand[w].attempt < MaxAttempts
    BY <2>1, <2>3 DEF AttemptsInv, Counts
  <2>7. posts'[n] = j.attempt /\ j.attempt <= MaxAttempts
    BY <2>4, <2>5, <2>6, ReplayAssumption DEF TypeInv, HistoryTypeOK
  <2>8. \A f \in Forwards \ {n} : posts'[f] = posts[f]
    BY <2>5 DEF TypeInv, HistoryTypeOK
  <2>9. ~ (n >= next) /\ ~ InQueue(n) /\ n \notin buried
    BY <2>2, <2>3, HeldOnly
  <2>10. \/ Done(w)
         \/ /\ hand' = [hand EXCEPT ![w] = j]
            /\ Goto(w, "requeue") /\ j.attempt < MaxAttempts
         \/ /\ hand' = [hand EXCEPT ![w] = j]
            /\ Goto(w, "bury")
    BY <1>7 DEF Post
  <2>11. \A f \in Forwards : posts'[f] <= MaxAttempts
    BY <2>7, <2>8 DEF AttemptsInv
  <2>12. \A f \in Forwards : f >= next' => posts'[f] = 0
    BY <2>5, <2>8, <2>9 DEF AttemptsInv
  <2>13. \A k \in queued' : Counts(k)' /\ k.attempt < MaxAttempts
    <3>1. \A k \in queued : k.fwd \in Forwards /\ k.fwd # n
      BY <2>9 DEF InQueue, TypeInv, Jobs
    <3> QED BY <2>5, <2>8, <3>1 DEF AttemptsInv, Counts
  <2> HIDE DEF j
  <2>14. \A a \in Actors \ {w} : pc'[a] = pc[a] /\ hand'[a] = hand[a]
    BY <1>0, <2>10 DEF Done, Goto
  <2>15. \A a \in Actors \ {w} :
            Holding(a) => hand[a].fwd \in Forwards /\ hand[a].fwd # n
    <3>1. TAKE a \in Actors \ {w}
    <3>2. HAVE Holding(a)
    <3>3. hand[a].fwd \in Forwards
      BY <3>2, HoldsForward DEF TypeInv
    <3> QED BY <2>1, <2>3, <3>2, <3>3
            DEF ReplaysAreForwards, HeldOnce, Holds
  <2>16. \/ ~ Holding(w)'
         \/ /\ hand'[w] = j
            /\ pc'[w] = "bury" \/ j.attempt < MaxAttempts
    BY <1>0, <2>1, <2>10 DEF Done, Goto, Holding
  <2>17. \A a \in Actors : Holding(a)' => Counts(hand[a])'
    BY <2>4, <2>7, <2>8, <2>14, <2>15, <2>16 DEF AttemptsInv, Counts, Holding
  <2>18. \A a \in Actors :
            Holding(a)' /\ pc'[a] # "bury" => hand'[a].attempt < MaxAttempts
    BY <2>14, <2>16 DEF AttemptsInv, Holding
  <2>19. \A i \in DOMAIN dead' : Counts(dead[i])'
    <3>1. \A i \in DOMAIN dead : dead[i].fwd \in Forwards /\ dead[i].fwd # n
      BY <2>9 DEF LettersInv, TypeInv, ListsTypeOK, DlqTypeOK, Items
    <3> QED BY <2>5, <2>8, <3>1 DEF AttemptsInv, Counts
  <2> QED BY <2>11, <2>12, <2>13, <2>17, <2>18, <2>19 DEF AttemptsInv
<1>8. ASSUME NEW w \in Workers, Requeue(w)
      PROVE  AttemptsInv'
  <2>1. Counts(hand[w]) /\ hand[w].attempt < MaxAttempts
    BY <1>8 DEF Requeue, AttemptsInv, Holding, Actors
  <2>2. \A j \in queued' :
           j \in queued \/ (Counts(j) /\ j.attempt < MaxAttempts)
    BY <1>8, <2>1 DEF Requeue
  <2>3. \A a \in Actors : Holding(a)' =>
           Holding(a) /\ hand'[a] = hand[a] /\ pc'[a] = pc[a]
    BY <1>0, <1>8 DEF Requeue, GoOn, Done, Goto, Holding, Actors
  <2> QED BY <1>0, <1>8, <2>2, <2>3, AttemptsStay DEF Requeue
<1>9. ASSUME NEW w \in Workers, Bury(w)
      PROVE  AttemptsInv'
  <2> DEFINE it == FromJob(hand[w], cause[w])
  <2>1. it \in Items /\ it.fwd = hand[w].fwd /\ it.attempt = hand[w].attempt
    BY <1>9 DEF Bury, TypeInv, ActorsTypeOK, Actors, Carrying, FromJob, Jobs,
                Items
  <2>2. Counts(it)
    BY <1>9, <2>1 DEF Bury, AttemptsInv, Holding, Actors, Counts
  <2>3. dead' = Capped(Append(dead, it))
    BY <1>9 DEF Bury, Push
  <2> HIDE DEF it
  <2>4. \A i \in DOMAIN dead' :
           Counts(dead'[i]) \/ \E k \in DOMAIN dead : dead'[i] = dead[k]
    BY <2>1, <2>2, <2>3, PushElements
  <2>5. \A a \in Actors : Holding(a)' =>
           Holding(a) /\ hand'[a] = hand[a] /\ pc'[a] = pc[a]
    BY <1>0, <1>9 DEF Bury, GoOn, Done, Goto, Holding, Actors
  <2> QED BY <1>0, <1>9, <2>4, <2>5, AttemptsStay DEF Bury
<1>10. ASSUME NEW w \in Workers, TrailingNote(w)
       PROVE  AttemptsInv'
  <2>1. \A a \in Actors : Holding(a)' =>
           Holding(a) /\ hand'[a] = hand[a] /\ pc'[a] = pc[a]
    BY <1>0, <1>10 DEF TrailingNote, Done, Goto, Holding, Actors
  <2> QED BY <1>0, <1>10, <2>1, AttemptsStay DEF TrailingNote, engineVars
<1> QED BY <1>1, <1>2, <1>3, <1>4, <1>5, <1>6, <1>7, <1>8, <1>9, <1>10
        DEF Next, Worker

LEMMA InitAttempts == Init => AttemptsInv
BY ReplayAssumption DEF Init, FleetInit, DlqInit, AttemptsInv, Holding

(* A replay has all of its attempts before it, and no forward is posted    *)
(* more often than the policy allows.                                      *)
THEOREM ReplaysHaveAllAttempts == Spec => []ReplaysStartAfresh
<1>1. Spec => [](Sound /\ LettersInv)
  BY LettersAlways
<1>2. AttemptsInv => ReplaysStartAfresh
  BY DEF AttemptsInv, Counts, ReplaysStartAfresh
<1> QED BY <1>1, <1>2, InitAttempts, NextAttempts, PTL DEF Spec

-----------------------------------------------------------------------------
(* Entries.  The last entry of a forward is as far from the end of the     *)
(* journal as entries were written after it, until it falls off.           *)
Noted(f) ==
    \/ later[f] = JournalMax
    \/ later[f] < Len(log) /\ log[Len(log) - later[f]].fwd = f

NotesInv ==
    /\ \A f \in buried :
          Noted(f) \/ \E w \in Workers : pc[w] = "note" /\ hand[w].fwd = f
    /\ \A w \in Workers :
          pc[w] = "bury" /\ cause[w] = "terminal" => Noted(hand[w].fwd)

LEMMA NotedIsFound ==
    ASSUME TypeInv, NEW f \in Forwards, Noted(f)
    PROVE  later[f] = JournalMax \/ InLog(f)
<1>1. /\ log \in Seq(Entries) /\ Len(log) \in Nat
      /\ DOMAIN log = 1 .. Len(log) /\ later[f] \in Nat
  BY DEF TypeInv, ListsTypeOK, JournalTypeOK
<1>2. CASE later[f] < Len(log) /\ log[Len(log) - later[f]].fwd = f
  <2>1. Len(log) - later[f] \in DOMAIN log
    BY <1>1, <1>2
  <2> QED BY <1>2, <2>1 DEF InLog
<1> QED BY <1>2 DEF Noted

(* An entry keeps what was noted, and notes its own forward.               *)
LEMMA NoteNotes ==
    ASSUME TypeInv, NEW j \in Jobs, NEW success \in BOOLEAN, NoteJob(j, success)
    PROVE  \A f \in Forwards : Noted(f) \/ f = j.fwd => Noted(f)'
<1> DEFINE e == [fwd |-> j.fwd, radar |-> j.radar, success |-> success]
<1>1. /\ log \in Seq(Entries) /\ Len(log) <= JournalMax /\ Len(log) \in Nat
      /\ later \in [Forwards -> 0 .. JournalMax]
  BY DEF TypeInv, ListsTypeOK, JournalTypeOK
<1>2. e \in Entries /\ e.fwd = j.fwd /\ j.fwd \in Forwards
  BY DEF Jobs, Entries
<1>3. log' = Recent(Append(log, e))
  BY DEF NoteJob, AppendFor
<1>4. /\ later'[j.fwd] = 0
      /\ \A f \in Forwards \ {j.fwd} :
            later'[f] = IF later[f] < JournalMax THEN later[f] + 1 ELSE JournalMax
  BY <1>2 DEF NoteJob
<1> HIDE DEF e
<1>5. /\ log' \in Seq(Entries) /\ Len(log') > 0 /\ log'[Len(log')] = e
      /\ \A n \in Nat : n < Len(log) /\ n + 1 < JournalMax =>
            /\ n + 1 < Len(log')
            /\ log'[Len(log') - (n + 1)] = log[Len(log) - n]
  BY <1>1, <1>2, <1>3, AppendDropsOldest
<1>6. Len(log') \in Nat
  BY <1>5
<1>7. Noted(j.fwd)'
  BY <1>2, <1>4, <1>5, <1>6 DEF Noted
<1>8. ASSUME NEW f \in Forwards, f # j.fwd, Noted(f)
      PROVE  Noted(f)'
  <2>1. CASE later[f] >= JournalMax - 1
    <3>1. later'[f] = JournalMax
      BY <1>1, <1>4, <1>8, <2>1, JournalAssumption
    <3> QED BY <3>1 DEF Noted
  <2>2. CASE ~ (later[f] >= JournalMax - 1)
    <3>1. /\ later[f] \in Nat /\ later[f] + 1 < JournalMax
          /\ later'[f] = later[f] + 1 /\ later[f] # JournalMax
      BY <1>1, <1>4, <1>8, <2>2, JournalAssumption
    <3>2. later[f] < Len(log) /\ log[Len(log) - later[f]].fwd = f
      BY <1>8, <3>1 DEF Noted
    <3>3. /\ later[f] + 1 < Len(log')
          /\ log'[Len(log') - (later[f] + 1)] = log[Len(log) - later[f]]
      BY <1>5, <3>1, <3>2
    <3> QED BY <3>1, <3>2, <3>3 DEF Noted
  <2> QED BY <2>1, <2>2
<1> QED BY <1>7, <1>8

(* Steps that bury nothing: what was noted still is, and who was about to  *)
(* write an entry still is or has written it.                              *)
LEMMA NotesStay ==
    ASSUME TypeInv, NotesInv, UNCHANGED buried,
           \A f \in Forwards : Noted(f) => Noted(f)',
           \A w \in Workers :
              /\ pc[w] = "note" =>
                    \/ pc'[w] = "note" /\ hand'[w] = hand[w]
                    \/ \A f \in Forwards : f = hand[w].fwd => Noted(f)'
              /\ pc'[w] = "bury" /\ cause'[w] = "terminal" =>
                    \/ /\ pc[w] = "bury" /\ cause[w] = "terminal"
                       /\ hand'[w] = hand[w]
                    \/ \E f \in Forwards : f = hand'[w].fwd /\ Noted(f)'
    PROVE  NotesInv'
<1>1. \A f \in buried' :
         Noted(f)' \/ \E w \in Workers : pc'[w] = "note" /\ hand'[w].fwd = f
  <2>1. TAKE f \in buried'
  <2>2. f \in buried /\ f \in Forwards
    BY DEF TypeInv, ListsTypeOK, DlqTypeOK
  <2>3. CASE Noted(f)
    BY <2>2, <2>3
  <2>4. CASE \E w \in Workers : pc[w] = "note" /\ hand[w].fwd = f
    <3>1. PICK w \in Workers : pc[w] = "note" /\ hand[w].fwd = f
      BY <2>4
    <3>2. \/ pc'[w] = "note" /\ hand'[w] = hand[w]
          \/ \A g \in Forwards : g = hand[w].fwd => Noted(g)'
      BY <3>1
    <3>3. CASE pc'[w] = "note" /\ hand'[w] = hand[w]
      BY <3>1, <3>3
    <3>4. CASE \A g \in Forwards : g = hand[w].fwd => Noted(g)'
      BY <2>2, <3>1, <3>4
    <3> QED BY <3>2, <3>3, <3>4
  <2> QED BY <2>2, <2>3, <2>4 DEF NotesInv
<1>2. ASSUME NEW w \in Workers, pc'[w] = "bury", cause'[w] = "terminal"
      PROVE  Noted(hand[w].fwd)'
  <2>1. CASE /\ pc[w] = "bury" /\ cause[w] = "terminal" /\ hand'[w] = hand[w]
    <3>1. PICK f \in Forwards : f = hand[w].fwd /\ Noted(f)
      BY <2>1 DEF NotesInv, TypeInv, ActorsTypeOK, Actors, Carrying, Jobs
    <3> QED BY <2>1, <3>1 DEF Noted
  <2>2. CASE \E f \in Forwards : f = hand'[w].fwd /\ Noted(f)'
    BY <2>2 DEF Noted
  <2> QED BY <1>2, <2>1, <2>2
<1> QED BY <1>1, <1>2 DEF NotesInv

LEMMA NextNotes == TypeInv /\ NotesInv /\ [Next]_vars => NotesInv'
<1> SUFFICES ASSUME TypeInv, NotesInv, [Next]_vars
             PROVE  NotesInv'
  OBVIOUS
<1>0. /\ pc \in [Actors -> Carrying \union {"idle", "journal"}]
      /\ hand \in [Actors -> Jobs \union {NoJob}]
      /\ cause \in [Workers -> Causes]
  BY DEF TypeInv, ActorsTypeOK
<1>1. UNCHANGED <<log, later>> => \A f \in Forwards : Noted(f) => Noted(f)'
  BY DEF Noted
<1>2. CASE UNCHANGED vars
  BY <1>1, <1>2, NotesStay DEF vars
<1>3. ASSUME NEW r \in Radars, AcceptForward(r) \/ SwitchRadar(r)
      PROVE  NotesInv'
  <2>1. UNCHANGED <<buried, log, later, pc, hand, cause>>
    BY <1>3 DEF AcceptForward, SwitchRadar, engineVars
  <2> QED BY <1>1, <2>1, NotesStay
<1>4. ASSUME NEW o \in Operators, Operator(o)
      PROVE  NotesInv'
  <2>1. UNCHANGED <<buried, log, later, cause>>
    BY <1>4 DEF Operator, FindLetter, FindEntry, EnqueueReplay, RemoveLetter,
                Remove, engineVars
  <2>2. /\ pc[o] \in {"idle", "journal", "enqueue", "enqueue_only", "remove"}
        /\ pc'[o] \in {"idle", "journal", "enqueue", "enqueue_only", "remove"}
        /\ \A a \in Actors \ {o} : pc'[a] = pc[a] /\ hand'[a] = hand[a]
    BY <1>0, <1>4 DEF Operator, FindLetter, FindEntry, EnqueueReplay,
                      RemoveLetter, Build, Done, Goto, Actors
  <2>3. \A w \in Workers :
           /\ pc[w] = "note" => pc'[w] = "note" /\ hand'[w] = hand[w]
           /\ pc'[w] = "bury" => pc[w] = "bury" /\ hand'[w] = hand[w]
    BY <2>2 DEF Actors
  <2> QED BY <1>1, <2>1, <2>3, NotesStay
<1>5. ASSUME NEW w \in Workers, LeaseJob(w) \/ TurnAway(w) \/ Requeue(w)
      PROVE  NotesInv'
  <2>1. UNCHANGED <<buried, log, later>>
    BY <1>5 DEF LeaseJob, TurnAway, Requeue
  <2>2. /\ pc[w] # "note"
        /\ pc'[w] = "bury" => cause'[w] # "terminal"
        /\ \A v \in Workers \ {w} :
              pc'[v] = pc[v] /\ hand'[v] = hand[v] /\ cause'[v] = cause[v]
    BY <1>0, <1>5 DEF LeaseJob, TurnAway, Requeue, GoOn, Done, Goto, Actors
  <2> QED BY <1>1, <2>1, <2>2, NotesStay
<1>6. ASSUME NEW w \in Workers, Post(w)
      PROVE  NotesInv'
  <2> DEFINE j == [hand[w] EXCEPT !.attempt = @ + 1]
  <2>0. /\ UNCHANGED buried
        /\ \E success \in BOOLEAN : NoteJob(j, success)
    BY <1>6 DEF Post
  <2>1. j \in Jobs
    BY <1>6 DEF Post, TypeInv, ActorsTypeOK, Actors, Carrying, Jobs
  <2>2. /\ pc[w] # "note"
        /\ pc'[w] = "bury" => hand'[w] = j
        /\ \A v \in Workers \ {w} :
              pc'[v] = pc[v] /\ hand'[v] = hand[v] /\ cause'[v] = cause[v]
    <3> HIDE DEF j
    <3>1. /\ pc[w] = "handle"
          /\ \/ Done(w) /\ UNCHANGED cause
             \/ /\ hand' = [hand EXCEPT ![w] = j]
                /\ \E call \in {"requeue", "bury"} : Goto(w, call)
                /\ \E why \in Causes : cause' = [cause EXCEPT ![w] = why]
      BY <1>6 DEF Post, Causes, Reasons, j
    <3> QED BY <1>0, <3>1 DEF Done, Goto, Actors
  <2> HIDE DEF j
  <2>3. \A f \in Forwards : Noted(f) \/ f = j.fwd => Noted(f)'
    BY <2>0, <2>1, NoteNotes
  <2>4. j.fwd \in Forwards
    BY <2>1 DEF Jobs
  <2> QED BY <2>0, <2>2, <2>3, <2>4, NotesStay
<1>7. ASSUME NEW w \in Workers, TrailingNote(w)
      PROVE  NotesInv'
  <2>1. /\ hand[w] \in Jobs /\ hand[w].fwd \in Forwards
        /\ NoteJob(hand[w], FALSE) /\ UNCHANGED <<buried, cause>>
    BY <1>7 DEF TrailingNote, TypeInv, ActorsTypeOK, Actors, Carrying, Jobs,
                engineVars
  <2>2. \A f \in Forwards : Noted(f) \/ f = hand[w].fwd => Noted(f)'
    BY <2>1, NoteNotes
  <2>3. /\ pc'[w] = "idle"
        /\ \A v \in Workers \ {w} : pc'[v] = pc[v] /\ hand'[v] = hand[v]
    BY <1>0, <1>7 DEF TrailingNote, Done, Goto, Actors
  <2> QED BY <2>1, <2>2, <2>3, NotesStay
<1>8. ASSUME NEW w \in Workers, Bury(w)
      PROVE  NotesInv'
  <2>1. /\ buried' = buried \union {hand[w].fwd}
        /\ UNCHANGED <<log, later>>
    BY <1>8 DEF Bury, Push, FromJob
  <2>2. \A f \in Forwards : Noted(f) => Noted(f)'
    BY <1>1, <2>1
  <2>3. hand[w].fwd \in Forwards
    BY <1>8 DEF Bury, TypeInv, ActorsTypeOK, Actors, Carrying, Jobs
  <2>4. \A v \in Workers \ {w} :
           pc'[v] = pc[v] /\ hand'[v] = hand[v] /\ cause'[v] = cause[v]
    BY <1>0, <1>8 DEF Bury, GoOn, Done, Goto, Actors
  <2>5. /\ pc[w] = "bury"
        /\ \/ cause[w] = "terminal" /\ pc'[w] = "idle"
           \/ pc'[w] = "note" /\ hand'[w] = hand[w]
    <3>1. cause[w] # "retryable"
      BY <1>8 DEF Bury, TypeInv, ActorsTypeOK, Reasons
    <3> QED BY <1>0, <1>8, <3>1 DEF Bury, GoOn, Done, Goto, Actors
  <2>6. PICK n \in Forwards :
           /\ n = hand[w].fwd
           /\ Noted(n)' \/ (pc'[w] = "note" /\ hand'[w].fwd = n)
    BY <2>2, <2>3, <2>5 DEF NotesInv
  <2>7. ASSUME NEW f \in buried'
        PROVE  Noted(f)' \/ \E v \in Workers : pc'[v] = "note" /\ hand'[v].fwd = f
    <3>1. CASE f = hand[w].fwd
      BY <2>6, <3>1
    <3>2. CASE f \in buried
      <4>1. f \in Forwards
        BY <3>2 DEF TypeInv, ListsTypeOK, DlqTypeOK
      <4>2. CASE Noted(f)
        BY <2>2, <4>1, <4>2
      <4>3. CASE \E v \in Workers : pc[v] = "note" /\ hand[v].fwd = f
        BY <2>4, <2>5, <4>3
      <4> QED BY <3>2, <4>2, <4>3 DEF NotesInv
    <3> QED BY <2>1, <3>1, <3>2
  <2>8. ASSUME NEW v \in Workers, pc'[v] = "bury", cause'[v] = "terminal"
        PROVE  Noted(hand[v].fwd)'
    <3>1. v # w
      BY <2>5, <2>8
    <3>2. pc[v] = "bury" /\ cause[v] = "terminal" /\ hand'[v] = hand[v]
      BY <2>4, <2>8, <3>1
    <3>3. PICK f \in Forwards : f = hand[v].fwd /\ Noted(f)
      BY <3>2 DEF NotesInv, TypeInv, ActorsTypeOK, Actors, Carrying, Jobs
    <3>4. Noted(f)'
      BY <2>2, <3>3
    <3> QED BY <3>2, <3>3, <3>4 DEF Noted
  <2> QED BY <2>7, <2>8 DEF NotesInv
<1> QED BY <1>2, <1>3, <1>4, <1>5, <1>6, <1>7, <1>8 DEF Next, Worker

LEMMA InitNotes == Init => NotesInv
BY DEF Init, DlqInit, NotesInv, Actors

(* A forward that failed is in the journal until JournalMax entries were   *)
(* written after its last one, but for the moment between its burial and   *)
(* the entry that follows it: however long ago its letter was evicted, an  *)
(* operator can replay it.                                                 *)
THEOREM FailuresStayInTheJournal == Spec => []FailedCanBeReplayed
<1>1. Spec => []TypeInv
  BY InitTyped, NextTyped, PTL DEF Spec
<1>2. TypeInv /\ NotesInv => FailedCanBeReplayed
  <2>1. TypeInv => buried \subseteq Forwards
    BY DEF TypeInv, ListsTypeOK, DlqTypeOK
  <2> QED BY <2>1, NotedIsFound DEF NotesInv, FailedCanBeReplayed
<1> QED BY <1>1, <1>2, InitNotes, NextNotes, PTL DEF Spec

-----------------------------------------------------------------------------
(* The hub.  What a snapshot sees of a step is one step of Hub or none: an *)
(* actor takes up a forward or lets it go, a list gets an entry more and   *)
(* may drop its oldest.                                                    *)
Building == {"enqueue", "enqueue_only"}

Working == {"handle", "requeue", "bury"}

Queue == {j.fwd : j \in queued}

Successes ==
    {f \in Forwards : \E i \in DOMAIN log : log[i].fwd = f /\ log[i].success}

Letters == {f \in Forwards : InDead(f)}

LEMMA HubForwards == HubView!Forwards = Forwards
BY DEF HubView!Forwards

LEMMA HandTakes ==
    ASSUME NEW calls, NEW a \in Actors, OthersStay(a),
           pc[a] \notin calls, pc'[a] \in calls,
           NEW n \in Forwards, hand'[a].fwd = n
    PROVE  InHandAt(calls)' = InHandAt(calls) \union {n}
BY DEF InHandAt, OthersStay

LEMMA HandLeaves ==
    ASSUME HeldOnce, NEW calls \in {Building, Working},
           NEW a \in Actors, OthersStay(a),
           pc[a] \in calls, pc'[a] \notin calls
    PROVE  InHandAt(calls)' = InHandAt(calls) \ {hand[a].fwd}
<1>1. \A b \in Actors : pc[b] \in calls => Holding(b)
  BY DEF Building, Working, Holding
<1>2. \A b \in Actors \ {a} : \A f \in Forwards :
         pc[b] \in calls /\ hand[b].fwd = f => f # hand[a].fwd
  BY <1>1 DEF HeldOnce, Holds
<1> QED BY <1>2 DEF InHandAt, OthersStay

LEMMA HandStays ==
    ASSUME NEW calls, NEW a \in Actors, OthersStay(a),
           pc'[a] \in calls <=> pc[a] \in calls,
           pc[a] \in calls => hand'[a].fwd = hand[a].fwd
    PROVE  InHandAt(calls)' = InHandAt(calls)
BY DEF InHandAt, OthersStay

LEMMA HandsRest ==
    ASSUME UNCHANGED <<pc, hand>>, NEW calls
    PROVE  InHandAt(calls)' = InHandAt(calls)
BY DEF InHandAt

LEMMA ListsRest ==
    /\ UNCHANGED queued => Queue' = Queue
    /\ UNCHANGED log => Successes' = Successes
    /\ UNCHANGED dead => Letters' = Letters
BY DEF Queue, Successes, Letters, InDead

LEMMA QueueJoins ==
    ASSUME NEW j, queued' = queued \union {j}
    PROVE  Queue' = Queue \union {j.fwd}
BY DEF Queue

LEMMA QueueLeaves ==
    ASSUME QueuedOnce, NEW j \in queued, queued' = queued \ {j}
    PROVE  Queue' = Queue \ {j.fwd} /\ j.fwd \in Queue
<1>1. \A k \in queued : k # j <=> k.fwd # j.fwd
  BY DEF QueuedOnce
<1> QED BY <1>1 DEF Queue

(* What is in a bounded list after an entry more.                          *)
Elements(q) == {q[i] : i \in DOMAIN q}

LEMMA InSeq ==
    ASSUME NEW S, NEW q \in Seq(S)
    PROVE  \A i \in DOMAIN q : q[i] \in S
<1>1. DOMAIN q = 1 .. Len(q)
  OBVIOUS
<1> QED BY <1>1

LEMMA ListStep ==
    ASSUME NEW S, NEW q \in Seq(S), NEW l \in Seq(S), NEW e \in S,
           NEW max \in Nat \ {0}, Len(l) > 0, l[Len(l)] = e,
           \/ /\ Len(q) < max /\ Len(l) = Len(q) + 1
              /\ \A i \in 1 .. Len(q) : l[i] = q[i]
           \/ /\ Len(q) = max /\ Len(l) = max
              /\ \A i \in 1 .. max - 1 : l[i] = q[i + 1]
    PROVE  \/ Elements(l) = Elements(q) \union {e}
           \/ /\ 1 \in DOMAIN q
              /\ Elements(l) = {q[i] : i \in DOMAIN q \ {1}} \union {e}
<1>1. /\ Len(q) \in Nat /\ DOMAIN q = 1 .. Len(q)
      /\ Len(l) \in Nat /\ DOMAIN l = 1 .. Len(l)
  OBVIOUS
<1>2. CASE /\ Len(l) = Len(q) + 1
           /\ \A i \in 1 .. Len(q) : l[i] = q[i]
  <2>1. /\ \A i \in DOMAIN l : i \in DOMAIN q \/ i = Len(l)
        /\ \A i \in DOMAIN q : i \in DOMAIN l /\ l[i] = q[i]
        /\ Len(l) \in DOMAIN l
    <3>1. PICK n \in Nat : n = Len(q)
      BY <1>1
    <3>2. DOMAIN q = 1 .. n /\ DOMAIN l = 1 .. n + 1 /\ Len(l) = n + 1
      BY <1>1, <1>2, <3>1
    <3>3. \A i \in 1 .. n + 1 : i \in 1 .. n \/ i = n + 1
      OBVIOUS
    <3>4. \A i \in 1 .. n : i \in 1 .. n + 1
      OBVIOUS
    <3>5. n + 1 \in 1 .. n + 1
      OBVIOUS
    <3> QED BY <1>2, <3>1, <3>2, <3>3, <3>4, <3>5
  <2>2. ASSUME NEW x \in Elements(l)
        PROVE  x \in Elements(q) \union {e}
    BY <2>1, <2>2 DEF Elements
  <2>3. ASSUME NEW x \in Elements(q)
        PROVE  x \in Elements(l)
    BY <2>1, <2>3 DEF Elements
  <2>4. e \in Elements(l)
    BY <2>1 DEF Elements
  <2> QED BY <2>2, <2>3, <2>4
<1>3. CASE /\ Len(q) = max /\ Len(l) = max
           /\ \A i \in 1 .. max - 1 : l[i] = q[i + 1]
  <2>1. /\ DOMAIN q = 1 .. max /\ DOMAIN l = 1 .. max
        /\ 1 \in DOMAIN q /\ max \in DOMAIN l
    BY <1>1, <1>3
  <2>2. ASSUME NEW x \in Elements(l)
        PROVE  x \in {q[i] : i \in DOMAIN q \ {1}} \union {e}
    <3>1. PICK i \in 1 .. max : x = l[i]
      BY <2>1, <2>2 DEF Elements
    <3>2. CASE i = max
      BY <1>3, <3>1, <3>2
    <3>3. CASE i # max
      <4>1. i \in 1 .. max - 1 /\ i + 1 \in DOMAIN q \ {1}
        BY <2>1, <3>3
      <4> QED BY <1>3, <3>1, <4>1
    <3> QED BY <3>2, <3>3
  <2>3. ASSUME NEW i \in DOMAIN q \ {1}
        PROVE  q[i] \in Elements(l)
    <3>1. i - 1 \in 1 .. max - 1 /\ i - 1 + 1 = i /\ i - 1 \in DOMAIN l
      BY <2>1
    <3>2. l[i - 1] = q[i]
      BY <1>3, <3>1
    <3> QED BY <3>1, <3>2 DEF Elements
  <2>4. e \in Elements(l)
    BY <1>3, <2>1 DEF Elements
  <2> QED BY <2>1, <2>2, <2>3, <2>4
<1> QED BY <1>2, <1>3

LEMMA LettersOfBurial ==
    ASSUME TypeInv, LettersInv, NEW it \in Items, Push(it)
    PROVE  \/ Letters' = Letters \union {it.fwd}
           \/ \E oldest \in Letters :
                 Letters' = (Letters \ {oldest}) \union {it.fwd}
<1>1. dead \in Seq(Items) /\ Len(dead) <= DlqMax
  BY DEF TypeInv, ListsTypeOK, DlqTypeOK
<1>2. dead' = Capped(Append(dead, it))
  BY DEF Push
<1>3. /\ dead' \in Seq(Items)
      /\ \/ Elements(dead') = Elements(dead) \union {it}
         \/ /\ 1 \in DOMAIN dead
            /\ Elements(dead') = {dead[i] : i \in DOMAIN dead \ {1}} \union {it}
  <2>1. /\ dead' \in Seq(Items) /\ Len(dead') > 0 /\ dead'[Len(dead')] = it
        /\ \/ /\ Len(dead) < DlqMax /\ Len(dead') = Len(dead) + 1
              /\ \A i \in 1 .. Len(dead) : dead'[i] = dead[i]
           \/ /\ Len(dead) = DlqMax /\ Len(dead') = DlqMax
              /\ \A i \in 1 .. DlqMax - 1 : dead'[i] = dead[i + 1]
    BY <1>1, <1>2, PushDropsOldest
  <2> QED BY <1>1, <2>1, ListStep, DlqAssumption
<1>4. \A i \in DOMAIN dead : dead[i].fwd \in Forwards
  <2>1. \A i \in DOMAIN dead : dead[i] \in Items
    BY <1>1, InSeq
  <2> QED BY <2>1 DEF Items
<1>5. /\ Letters = {x.fwd : x \in Elements(dead)}
      /\ it.fwd \in Forwards
  BY <1>4 DEF Letters, InDead, Elements, Items
<1>6. Letters' = {x.fwd : x \in Elements(dead')}
  <2>1. \A i \in DOMAIN dead' : dead'[i].fwd \in Forwards
    <3>1. \A i \in DOMAIN dead' : dead'[i] \in Items
      BY <1>3, InSeq
    <3> QED BY <3>1 DEF Items
  <2> QED BY <2>1 DEF Letters, InDead, Elements
<1>7. CASE Elements(dead') = Elements(dead) \union {it}
  BY <1>5, <1>6, <1>7
<1>8. CASE /\ 1 \in DOMAIN dead
           /\ Elements(dead') = {dead[i] : i \in DOMAIN dead \ {1}} \union {it}
  <2>1. dead[1].fwd \in Letters
    BY <1>5, <1>8 DEF Elements
  <2>2. \A i \in DOMAIN dead : i # 1 <=> dead[i].fwd # dead[1].fwd
    BY <1>8 DEF LettersInv
  <2>3. Letters' = (Letters \ {dead[1].fwd}) \union {it.fwd}
    BY <1>5, <1>6, <1>8, <2>2 DEF Elements
  <2> QED BY <2>1, <2>3
<1> QED BY <1>3, <1>7, <1>8

(* An entry on a success adds its forward; any may cost the oldest one.    *)
LEMMA SuccessesOfNote ==
    ASSUME TypeInv, NEW j \in Jobs, NEW success \in BOOLEAN, NoteJob(j, success),
           NEW new, new = IF success THEN {j.fwd} ELSE {}
    PROVE  \/ Successes' = Successes \union new
           \/ \E oldest \in Successes :
                 Successes' = (Successes \ {oldest}) \union new
<1> DEFINE e == [fwd |-> j.fwd, radar |-> j.radar, success |-> success]
           Good(E) == {x.fwd : x \in {y \in E : y.success}}
<1>1. log \in Seq(Entries) /\ Len(log) <= JournalMax
  BY DEF TypeInv, ListsTypeOK, JournalTypeOK
<1>2. /\ e \in Entries /\ e.fwd = j.fwd /\ e.success = success
      /\ j.fwd \in Forwards
  BY DEF Jobs, Entries
<1>3. log' = Recent(Append(log, e))
  BY DEF NoteJob, AppendFor
<1> HIDE DEF e
<1>4. /\ log' \in Seq(Entries)
      /\ \/ Elements(log') = Elements(log) \union {e}
         \/ /\ 1 \in DOMAIN log
            /\ Elements(log') = {log[i] : i \in DOMAIN log \ {1}} \union {e}
  <2>1. /\ log' \in Seq(Entries) /\ Len(log') > 0 /\ log'[Len(log')] = e
        /\ \/ /\ Len(log) < JournalMax /\ Len(log') = Len(log) + 1
              /\ \A i \in 1 .. Len(log) : log'[i] = log[i]
           \/ /\ Len(log) = JournalMax /\ Len(log') = JournalMax
              /\ \A i \in 1 .. JournalMax - 1 : log'[i] = log[i + 1]
    BY <1>1, <1>2, <1>3, AppendDropsOldest
  <2> QED BY <1>1, <1>2, <2>1, ListStep, JournalAssumption
<1>5. Successes = Good(Elements(log))
  <2>1. \A i \in DOMAIN log : log[i].fwd \in Forwards
    <3>1. \A i \in DOMAIN log : log[i] \in Entries
      BY <1>1, InSeq
    <3> QED BY <3>1 DEF Entries
  <2> QED BY <2>1 DEF Successes, Elements
<1>6. Successes' = Good(Elements(log'))
  <2>1. \A i \in DOMAIN log' : log'[i].fwd \in Forwards
    <3>1. \A i \in DOMAIN log' : log'[i] \in Entries
      BY <1>4, InSeq
    <3> QED BY <3>1 DEF Entries
  <2> QED BY <2>1 DEF Successes, Elements
<1>7. \A E : Good(E \union {e}) = Good(E) \union new
  BY <1>2
<1>8. CASE Elements(log') = Elements(log) \union {e}
  BY <1>5, <1>6, <1>7, <1>8
<1>9. CASE /\ 1 \in DOMAIN log
           /\ Elements(log') = {log[i] : i \in DOMAIN log \ {1}} \union {e}
  <2> DEFINE Rest == {log[i] : i \in DOMAIN log \ {1}}
  <2>1. Elements(log) = Rest \union {log[1]}
    BY <1>9 DEF Elements
  <2>2. Successes' = Good(Rest) \union new
    BY <1>6, <1>7, <1>9
  <2> HIDE DEF Rest
  <2>3. CASE log[1].success /\ log[1].fwd \notin Good(Rest)
    <3>1. /\ log[1].fwd \in Successes
          /\ Good(Rest) = Successes \ {log[1].fwd}
      BY <1>5, <2>1, <2>3
    <3> QED BY <2>2, <3>1
  <2>4. CASE ~ (log[1].success /\ log[1].fwd \notin Good(Rest))
    <3>1. Good(Rest) = Successes
      BY <1>5, <2>1, <2>4
    <3> QED BY <2>2, <3>1
  <2> QED BY <2>3, <2>4
<1> QED BY <1>4, <1>8, <1>9

(* A step of the hub, by what it changes of the five sets.                 *)
OtherThan(places) ==
    /\ "planned" \notin places =>
          InHandAt(Building)' = InHandAt(Building)
    /\ "queued" \notin places => Queue' = Queue
    /\ "leased" \notin places => InHandAt(Working)' = InHandAt(Working)
    /\ "delivered" \notin places => Successes' = Successes
    /\ "dead" \notin places => Letters' = Letters

LEMMA HubStutters ==
    ASSUME UNCHANGED next, OtherThan({})
    PROVE  UNCHANGED HubView!hubVars
BY DEF OtherThan, HubView!hubVars, Building, Working, Queue, Successes, Letters

LEMMA HubBuilds ==
    ASSUME next <= MaxForwards, next' = next + 1, OtherThan({"planned"}),
           InHandAt(Building)' = InHandAt(Building) \union {next}
    PROVE  HubView!Build
BY DEF OtherThan, HubView!Build, Building, Working, Queue, Successes, Letters

LEMMA HubFiles ==
    ASSUME next <= MaxForwards, next' = next + 1, OtherThan({"queued"}),
           Queue' = Queue \union {next}
    PROVE  HubView!File
BY DEF OtherThan, HubView!File, Building, Working, Queue, Successes, Letters

LEMMA HubEnqueues ==
    ASSUME UNCHANGED next, OtherThan({"planned", "queued"}),
           NEW f \in InHandAt(Building),
           InHandAt(Building)' = InHandAt(Building) \ {f},
           Queue' = Queue \union {f}
    PROVE  HubView!Enqueue(f)
BY DEF OtherThan, HubView!Enqueue, Building, Working, Queue, Successes, Letters

LEMMA HubRemoves ==
    ASSUME UNCHANGED next, OtherThan({"dead"}), NEW f, Letters' = Letters \ {f}
    PROVE  HubView!RemoveLetter(f)
BY DEF OtherThan, HubView!RemoveLetter, Building, Working, Queue, Successes,
       Letters

LEMMA HubLeases ==
    ASSUME UNCHANGED next, OtherThan({"queued", "leased"}), NEW f \in Queue,
           Queue' = Queue \ {f},
           InHandAt(Working)' = InHandAt(Working) \union {f}
    PROVE  HubView!Lease(f)
BY DEF OtherThan, HubView!Lease, Building, Working, Queue, Successes, Letters

LEMMA HubPutsBack ==
    ASSUME UNCHANGED next, OtherThan({"queued", "leased"}),
           NEW f \in InHandAt(Working),
           InHandAt(Working)' = InHandAt(Working) \ {f},
           Queue' = Queue \union {f}
    PROVE  HubView!PutBack(f)
BY DEF OtherThan, HubView!PutBack, Building, Working, Queue, Successes, Letters

LEMMA HubDelivers ==
    ASSUME UNCHANGED next, OtherThan({"leased", "delivered"}),
           NEW f \in InHandAt(Working),
           InHandAt(Working)' = InHandAt(Working) \ {f},
           \/ Successes' = Successes \union {f}
           \/ \E oldest \in Successes :
                 Successes' = (Successes \ {oldest}) \union {f}
    PROVE  HubView!Deliver(f)
BY DEF OtherThan, HubView!Deliver, Building, Working, Queue, Successes, Letters

LEMMA HubForgets ==
    ASSUME UNCHANGED next, OtherThan({"delivered"}), NEW f,
           Successes' = Successes \ {f}
    PROVE  HubView!Forget(f)
BY DEF OtherThan, HubView!Forget, Building, Working, Queue, Successes, Letters

LEMMA HubBuries ==
    ASSUME UNCHANGED next, OtherThan({"leased", "dead"}),
           NEW f \in InHandAt(Working),
           InHandAt(Working)' = InHandAt(Working) \ {f},
           \/ Letters' = Letters \union {f}
           \/ \E oldest \in Letters : Letters' = (Letters \ {oldest}) \union {f}
    PROVE  HubView!Bury(f)
BY DEF OtherThan, HubView!Bury, Building, Working, Queue, Successes, Letters

HubSteps == [HubView!HubNext]_HubView!hubVars

(* Neither what failed nor what is noted last is a success.                *)
LEMMA NoteOfHub ==
    ASSUME TypeInv, UNCHANGED next, OtherThan({"delivered"}),
           NEW j \in Jobs, NoteJob(j, FALSE)
    PROVE  HubSteps
<1>1. \/ Successes' = Successes
      \/ \E oldest \in Successes : Successes' = Successes \ {oldest}
  <2>1. PICK new : new = {} /\ new = IF FALSE THEN {j.fwd} ELSE {}
    OBVIOUS
  <2>2. \/ Successes' = Successes \union new
        \/ \E oldest \in Successes :
              Successes' = (Successes \ {oldest}) \union new
    BY <2>1, SuccessesOfNote
  <2> QED BY <2>1, <2>2
<1>2. CASE Successes' = Successes
  <2>1. OtherThan({})
    BY <1>2 DEF OtherThan
  <2> QED BY <2>1, HubStutters DEF HubSteps
<1>3. ASSUME NEW f \in Successes, Successes' = Successes \ {f}
      PROVE  HubSteps
  <2>1. HubView!Forget(f) /\ f \in Forwards
    BY <1>3, HubForgets DEF Successes
  <2> QED BY <2>1, HubForwards DEF HubSteps, HubView!HubNext
<1> QED BY <1>1, <1>2, <1>3

LEMMA BuildOfHub ==
    ASSUME TypeInv, UNCHANGED <<queued, log, dead>>,
           NEW o \in Operators, pc[o] \in {"idle", "journal"},
           NEW f, NEW r \in Radars, NEW call \in Building,
           Build(o, f, NewJob(next, r), call)
    PROVE  HubSteps
<1>1. /\ o \in Actors /\ next <= MaxForwards /\ next' = next + 1
      /\ next \in Forwards
  BY DEF Actors, Build, TypeInv, FleetTypeOK
<1>2. OthersStay(o) /\ pc'[o] = call /\ hand'[o].fwd = next
  BY <1>1, NewJobType
     DEF Build, Goto, OthersStay, TypeInv, ActorsTypeOK
<1>3. InHandAt(Building)' = InHandAt(Building) \union {next}
  BY <1>1, <1>2, HandTakes DEF Building
<1>4. InHandAt(Working)' = InHandAt(Working)
  BY <1>1, <1>2, HandStays DEF Building, Working
<1> QED BY <1>1, <1>3, <1>4, HubBuilds, ListsRest
        DEF HubSteps, HubView!HubNext, OtherThan

LEMMA OperatorOfHub ==
    ASSUME Sound, LettersInv, NEW o \in Operators, Operator(o)
    PROVE  HubSteps
<1>0. /\ o \in Actors /\ HeldOnce
      /\ pc \in [Actors -> Carrying \union {"idle", "journal"}]
      /\ hand \in [Actors -> Jobs \union {NoJob}]
  BY DEF Actors, Sound, TypeInv, ActorsTypeOK, ReplaysAreForwards
<1>1. ASSUME UNCHANGED <<next, queued, log, dead>>, OthersStay(o),
             pc[o] \notin Building, pc'[o] \notin Building,
             pc[o] \notin Working, pc'[o] \notin Working
      PROVE  HubSteps
  <2>1. OtherThan({})
    BY <1>0, <1>1, HandStays, ListsRest DEF OtherThan
  <2> QED BY <1>1, <2>1, HubStutters DEF HubSteps
<1>2. ASSUME NEW f \in Forwards, FindLetter(o, f)
      PROVE  HubSteps
  <2>1. pc[o] = "idle" /\ UNCHANGED <<queued, log, dead>>
    BY <1>2 DEF FindLetter, engineVars
  <2>2. CASE InDead(f) /\ Build(o, f, LetterJob(Letter(f)), "enqueue")
    <3>1. Letter(f).radar \in Radars
      BY <2>2, LetterFound DEF Sound, TypeInv, ListsTypeOK, Items
    <3>2. Build(o, f, NewJob(next, Letter(f).radar), "enqueue")
      BY <2>2 DEF LetterJob
    <3> QED BY <2>1, <3>1, <3>2, BuildOfHub DEF Sound, Building
  <2>3. CASE Goto(o, "journal") /\ UNCHANGED <<next, hand>>
    <3>1. OthersStay(o) /\ pc'[o] = "journal"
      BY <1>0, <2>3 DEF Goto, OthersStay
    <3> QED BY <1>1, <2>1, <2>3, <3>1 DEF Building, Working
  <2> QED BY <1>2, <2>2, <2>3 DEF FindLetter
<1>3. ASSUME FindEntry(o)
      PROVE  HubSteps
  <2>1. /\ pc[o] = "journal" /\ asked[o] \in Forwards
        /\ UNCHANGED <<queued, log, dead>>
    BY <1>3 DEF FindEntry, engineVars, Sound, TypeInv, ActorsTypeOK
  <2>2. CASE /\ InLog(asked[o])
             /\ Build(o, asked[o], EntryJob(Entry(asked[o])), "enqueue_only")
    <3>1. Entry(asked[o]).radar \in Radars
      BY <2>1, <2>2, EntryFound DEF Sound, TypeInv, ListsTypeOK, Entries
    <3>2. Build(o, asked[o], NewJob(next, Entry(asked[o]).radar), "enqueue_only")
      BY <2>2 DEF EntryJob
    <3> QED BY <2>1, <3>1, <3>2, BuildOfHub DEF Sound, Building
  <2>3. CASE Done(o) /\ UNCHANGED next
    <3>1. OthersStay(o) /\ pc'[o] = "idle"
      BY <1>0, <2>3 DEF Done, Goto, OthersStay
    <3> QED BY <1>1, <2>1, <2>3, <3>1 DEF Building, Working
  <2> QED BY <1>3, <2>2, <2>3 DEF FindEntry
<1>4. ASSUME EnqueueReplay(o)
      PROVE  HubSteps
  <2>1. /\ pc[o] \in Building /\ pc'[o] \in {"remove", "idle"}
        /\ OthersStay(o) /\ queued' = queued \union {hand[o]}
        /\ UNCHANGED <<next, log, dead>>
    BY <1>0, <1>4 DEF EnqueueReplay, Done, Goto, OthersStay, Building
  <2>2. PICK f \in Forwards : f = hand[o].fwd
    BY <1>0, <2>1, HoldsForward DEF Building, Holding, Sound, TypeInv
  <2>3. f \in InHandAt(Building)
    BY <1>0, <2>1, <2>2 DEF InHandAt
  <2>4. InHandAt(Building)' = InHandAt(Building) \ {f}
    BY <1>0, <2>1, <2>2, HandLeaves DEF Building
  <2>5. InHandAt(Working)' = InHandAt(Working)
    BY <1>0, <2>1, HandStays DEF Building, Working
  <2>6. Queue' = Queue \union {f}
    BY <2>1, <2>2, QueueJoins
  <2>7. HubView!Enqueue(f)
    BY <2>1, <2>3, <2>4, <2>5, <2>6, HubEnqueues, ListsRest DEF OtherThan
  <2> QED BY <2>7, HubForwards DEF HubSteps, HubView!HubNext
<1>5. ASSUME RemoveLetter(o)
      PROVE  HubSteps
  <2>1. /\ pc[o] = "remove" /\ pc'[o] = "idle" /\ OthersStay(o)
        /\ asked[o] \in Forwards /\ Remove(asked[o])
        /\ UNCHANGED <<next, queued, log>>
    BY <1>0, <1>5 DEF RemoveLetter, Done, Goto, OthersStay, engineVars, Sound,
                      TypeInv, ActorsTypeOK
  <2>2. PICK f \in Forwards : f = asked[o]
    BY <2>1
  <2>3. Letters' = Letters \ {f}
    <3>1. \A g \in Forwards : InDead(g)' <=> InDead(g) /\ g # f
      BY <2>1, <2>2, RemovedLetters DEF Sound
    <3> QED BY <3>1 DEF Letters
  <2>4. /\ InHandAt(Building)' = InHandAt(Building)
        /\ InHandAt(Working)' = InHandAt(Working)
    BY <1>0, <2>1, HandStays DEF Building, Working
  <2>5. HubView!RemoveLetter(f)
    BY <2>1, <2>3, <2>4, HubRemoves, ListsRest DEF OtherThan
  <2> QED BY <2>5, HubForwards DEF HubSteps, HubView!HubNext
<1> QED BY <1>2, <1>3, <1>4, <1>5 DEF Operator

LEMMA WorkerOfHub ==
    ASSUME Sound, LettersInv, NEW w \in Workers, Worker(w)
    PROVE  HubSteps
<1>0. /\ w \in Actors /\ HeldOnce /\ QueuedOnce /\ TypeInv
      /\ pc \in [Actors -> Carrying \union {"idle", "journal"}]
      /\ hand \in [Actors -> Jobs \union {NoJob}]
      /\ cause \in [Workers -> Causes]
  BY DEF Actors, Sound, TypeInv, ActorsTypeOK, ReplaysAreForwards
<1>1. ASSUME OthersStay(w), pc[w] \notin Building, pc'[w] \notin Building
      PROVE  InHandAt(Building)' = InHandAt(Building)
  BY <1>0, <1>1, HandStays
<1>2. ASSUME pc[w] \in Working
      PROVE  /\ hand[w] \in Jobs /\ hand[w].fwd \in Forwards
             /\ hand[w].fwd \in InHandAt(Working)
  <2>1. Holding(w)
    BY <1>2 DEF Working, Holding
  <2> QED BY <1>0, <1>2, <2>1, HoldsForward DEF TypeInv, InHandAt
<1>3. ASSUME OthersStay(w), pc[w] \in Working, pc'[w] \notin Working
      PROVE  InHandAt(Working)' = InHandAt(Working) \ {hand[w].fwd}
  BY <1>0, <1>3, HandLeaves
<1>4. ASSUME LeaseJob(w)
      PROVE  HubSteps
  <2>1. PICK j \in queued : queued' = queued \ {j} /\ hand' = [hand EXCEPT ![w] = j]
    BY <1>4 DEF LeaseJob
  <2>2. PICK f \in Forwards : f = j.fwd
    BY <1>0 DEF TypeInv, Jobs
  <2>3. /\ OthersStay(w) /\ pc[w] = "idle" /\ pc'[w] = "handle"
        /\ hand'[w].fwd = f /\ UNCHANGED <<next, log, dead>>
    BY <1>0, <1>4, <2>1, <2>2 DEF LeaseJob, Goto, OthersStay
  <2>4. Queue' = Queue \ {f} /\ f \in Queue
    BY <1>0, <2>1, <2>2, QueueLeaves
  <2>5. InHandAt(Working)' = InHandAt(Working) \union {f}
    BY <1>0, <2>3, HandTakes DEF Working
  <2>6. InHandAt(Building)' = InHandAt(Building)
    BY <1>1, <2>3 DEF Building
  <2>7. HubView!Lease(f)
    BY <2>3, <2>4, <2>5, <2>6, HubLeases, ListsRest DEF OtherThan
  <2> QED BY <2>7, HubForwards DEF HubSteps, HubView!HubNext
<1>5. ASSUME TurnAway(w)
      PROVE  HubSteps
  <2>1. /\ OthersStay(w) /\ pc[w] = "handle" /\ pc'[w] \in {"bury", "requeue"}
        /\ hand' = hand /\ UNCHANGED <<next, queued, log, dead>>
    BY <1>0, <1>5 DEF TurnAway, Goto, OthersStay
  <2>2. OtherThan({})
    BY <1>0, <2>1, HandStays, ListsRest DEF OtherThan, Building, Working
  <2> QED BY <2>1, <2>2, HubStutters DEF HubSteps
<1>6. ASSUME Post(w)
      PROVE  HubSteps
  <2> DEFINE j == [hand[w] EXCEPT !.attempt = @ + 1]
  <2>1. pc[w] = "handle" /\ UNCHANGED <<next, queued, dead>>
    BY <1>6 DEF Post
  <2>2. PICK f \in Forwards : f = hand[w].fwd /\ f \in InHandAt(Working)
    BY <1>2, <2>1 DEF Working
  <2>3. j \in Jobs /\ j.fwd = f
    BY <1>2, <2>1, <2>2 DEF Working, Jobs
  <2>4. \/ NoteJob(j, TRUE) /\ Done(w)
        \/ /\ NoteJob(j, FALSE) /\ hand' = [hand EXCEPT ![w] = j]
           /\ \E call \in {"requeue", "bury"} : Goto(w, call)
    BY <1>6 DEF Post
  <2> HIDE DEF j
  <2>5. CASE NoteJob(j, TRUE) /\ Done(w)
    <3>1. OthersStay(w) /\ pc'[w] = "idle"
      BY <1>0, <2>5 DEF Done, Goto, OthersStay
    <3>2. InHandAt(Working)' = InHandAt(Working) \ {f}
      BY <1>3, <2>1, <2>2, <3>1 DEF Working
    <3>3. InHandAt(Building)' = InHandAt(Building)
      BY <1>1, <2>1, <3>1 DEF Building
    <3>4. \/ Successes' = Successes \union {f}
          \/ \E oldest \in Successes :
                Successes' = (Successes \ {oldest}) \union {f}
      BY <1>0, <2>3, <2>5, SuccessesOfNote
    <3>5. HubView!Deliver(f)
      BY <2>1, <2>2, <3>2, <3>3, <3>4, HubDelivers, ListsRest DEF OtherThan
    <3> QED BY <3>5, HubForwards DEF HubSteps, HubView!HubNext
  <2>6. CASE /\ NoteJob(j, FALSE) /\ hand' = [hand EXCEPT ![w] = j]
             /\ \E call \in {"requeue", "bury"} : Goto(w, call)
    <3>1. /\ OthersStay(w) /\ pc'[w] \in {"requeue", "bury"}
          /\ hand'[w].fwd = hand[w].fwd
      BY <1>0, <2>2, <2>3, <2>6 DEF Goto, OthersStay
    <3>2. OtherThan({"delivered"})
      BY <1>0, <2>1, <3>1, HandStays, ListsRest DEF OtherThan, Building, Working
    <3> QED BY <1>0, <2>1, <2>3, <2>6, <3>2, NoteOfHub
  <2> QED BY <2>4, <2>5, <2>6
<1>7. ASSUME Requeue(w)
      PROVE  HubSteps
  <2>1. /\ pc[w] = "requeue" /\ pc'[w] \in {"idle", "note"} /\ OthersStay(w)
        /\ queued' = queued \union {hand[w]} /\ UNCHANGED <<next, log, dead>>
    BY <1>0, <1>7 DEF Requeue, GoOn, Done, Goto, OthersStay
  <2>2. PICK f \in Forwards : f = hand[w].fwd /\ f \in InHandAt(Working)
    BY <1>2, <2>1 DEF Working
  <2>3. InHandAt(Working)' = InHandAt(Working) \ {f}
    BY <1>3, <2>1, <2>2 DEF Working
  <2>4. InHandAt(Building)' = InHandAt(Building)
    BY <1>1, <2>1 DEF Building
  <2>5. Queue' = Queue \union {f}
    BY <2>1, <2>2, QueueJoins
  <2>6. HubView!PutBack(f)
    BY <2>1, <2>2, <2>3, <2>4, <2>5, HubPutsBack, ListsRest DEF OtherThan
  <2> QED BY <2>6, HubForwards DEF HubSteps, HubView!HubNext
<1>8. ASSUME Bury(w)
      PROVE  HubSteps
  <2>1. /\ pc[w] = "bury" /\ pc'[w] \in {"idle", "note"} /\ OthersStay(w)
        /\ Push(FromJob(hand[w], cause[w])) /\ UNCHANGED <<next, queued, log>>
    BY <1>0, <1>8 DEF Bury, GoOn, Done, Goto, OthersStay
  <2>2. PICK f \in Forwards : f = hand[w].fwd /\ f \in InHandAt(Working)
    BY <1>2, <2>1 DEF Working
  <2>3. /\ FromJob(hand[w], cause[w]) \in Items
        /\ FromJob(hand[w], cause[w]).fwd = f
    <3>1. hand[w] \in Jobs /\ cause[w] \in Reasons
      BY <1>0, <1>2, <2>1 DEF Working, TypeInv, ActorsTypeOK
    <3> QED BY <2>2, <3>1 DEF FromJob, Jobs, Items
  <2>4. InHandAt(Working)' = InHandAt(Working) \ {f}
    BY <1>3, <2>1, <2>2 DEF Working
  <2>5. InHandAt(Building)' = InHandAt(Building)
    BY <1>1, <2>1 DEF Building
  <2>6. \/ Letters' = Letters \union {f}
        \/ \E oldest \in Letters : Letters' = (Letters \ {oldest}) \union {f}
    BY <1>0, <2>1, <2>3, LettersOfBurial
  <2>7. HubView!Bury(f)
    BY <2>1, <2>2, <2>4, <2>5, <2>6, HubBuries, ListsRest DEF OtherThan
  <2> QED BY <2>7, HubForwards DEF HubSteps, HubView!HubNext
<1>9. ASSUME TrailingNote(w)
      PROVE  HubSteps
  <2>1. /\ pc[w] = "note" /\ pc'[w] = "idle" /\ OthersStay(w)
        /\ NoteJob(hand[w], FALSE) /\ UNCHANGED <<next, queued, dead>>
    BY <1>0, <1>9 DEF TrailingNote, Done, Goto, OthersStay, engineVars
  <2>2. hand[w] \in Jobs
    BY <1>0, <2>1 DEF TypeInv, ActorsTypeOK, Carrying
  <2>3. OtherThan({"delivered"})
    BY <1>0, <2>1, HandStays, ListsRest DEF OtherThan, Building, Working
  <2> QED BY <1>0, <2>1, <2>2, <2>3, NoteOfHub
<1> QED BY <1>4, <1>5, <1>6, <1>7, <1>8, <1>9 DEF Worker

LEMMA NextOfHub == Sound /\ LettersInv /\ [Next]_vars => HubSteps
<1> SUFFICES ASSUME Sound, LettersInv, [Next]_vars PROVE HubSteps
  OBVIOUS
<1>1. ASSUME UNCHANGED <<next, pc, hand, queued, log, dead>>
      PROVE  HubSteps
  <2>1. OtherThan({})
    BY <1>1, HandsRest, ListsRest DEF OtherThan
  <2> QED BY <1>1, <2>1, HubStutters DEF HubSteps
<1>2. CASE UNCHANGED vars
  BY <1>1, <1>2 DEF vars
<1>3. ASSUME NEW r \in Radars, SwitchRadar(r)
      PROVE  HubSteps
  BY <1>1, <1>3 DEF SwitchRadar, SetEnabled, engineVars
<1>4. ASSUME NEW r \in Radars, AcceptForward(r)
      PROVE  HubSteps
  <2>1. /\ next <= MaxForwards /\ next' = next + 1
        /\ queued' = queued \union {NewJob(next, r)}
        /\ UNCHANGED <<pc, hand, log, dead>>
    BY <1>4 DEF AcceptForward
  <2>2. Queue' = Queue \union {next}
    <3> DEFINE j == NewJob(next, r)
    <3>1. j.fwd = next
      BY DEF NewJob
    <3> HIDE DEF j
    <3>2. queued' = queued \union {j}
      BY <2>1 DEF j
    <3> QED BY <3>1, <3>2, QueueJoins
  <2>3. HubView!File
    BY <2>1, <2>2, HubFiles, HandsRest, ListsRest DEF OtherThan
  <2> QED BY <2>3 DEF HubSteps, HubView!HubNext
<1> QED BY <1>2, <1>3, <1>4, OperatorOfHub, WorkerOfHub DEF Next

LEMMA InitOfHub == Init => HubView!HubInit
<1> SUFFICES ASSUME Init PROVE HubView!HubInit
  OBVIOUS
<1>1. next = 1 /\ {j.fwd : j \in queued} = {}
  BY DEF Init, FleetInit
<1>2. /\ InHandAt({"enqueue", "enqueue_only"}) = {}
      /\ InHandAt({"handle", "requeue", "bury"}) = {}
  BY DEF Init, InHandAt
<1>3. {f \in Forwards : \E i \in DOMAIN log : log[i].fwd = f /\ log[i].success} = {}
  BY DEF Init, JournalInit
<1>4. {f \in Forwards : InDead(f)} = {}
  BY DEF Init, DlqInit, InDead
<1> QED BY <1>1, <1>2, <1>3, <1>4 DEF HubView!HubInit

(* With any operators replaying beside any workers the hub's snapshots see *)
(* what they see without them: every step is a step of Hub or none.        *)
THEOREM ReplaysAreTheHub == Spec => ImplementsHub
<1>1. Spec => [](Sound /\ LettersInv)
  BY LettersAlways
<1> QED BY <1>1, InitOfHub, NextOfHub, PTL
        DEF Spec, HubSteps, ImplementsHub, HubView!HubSpec
=============================================================================
