-------------------------- MODULE DurabilityProofs --------------------------
(***************************************************************************)
(* What a snapshot is worth, for any number of forwards: no forward is     *)
(* doubled by it, and none that was at rest while it was taken is lost.    *)
(***************************************************************************)
EXTENDS Durability, Integers, TLAPS

(* The places of the hub have no forward in common.                        *)
HubInv ==
    /\ next \in 1 .. MaxForwards + 1
    /\ planned \subseteq 1 .. next - 1
    /\ queued \subseteq 1 .. next - 1 /\ queued \cap planned = {}
    /\ leased \subseteq 1 .. next - 1
    /\ leased \cap (planned \union queued) = {}
    /\ delivered \subseteq 1 .. next - 1
    /\ delivered \cap (planned \union queued \union leased) = {}
    /\ letters \subseteq 1 .. next - 1
    /\ letters \cap (planned \union queued \union leased \union delivered) = {}

(* What has been settled stays out of the engine's hands: it is at rest or *)
(* forgotten, and no new forward has its number.                           *)
Settled(done, buried) ==
    /\ done \subseteq 1 .. next - 1
    /\ done \cap (planned \union queued \union leased \union letters) = {}
    /\ buried \subseteq 1 .. next - 1
    /\ buried \cap (planned \union queued \union leased \union delivered) = {}

(* A hub that restarts from s has no forward twice.                        *)
Cut(s) ==
    /\ s.delivered \subseteq 1 .. next - 1
    /\ s.letters \subseteq 1 .. next - 1
    /\ s.queued \subseteq 1 .. next - 1
    /\ s.letters \cap s.delivered = {}
    /\ s.queued \cap (s.delivered \union s.letters) = {}

(* The parts not yet read are empty, those read are settled.               *)
PartInv ==
    /\ saver \in {"idle", "journal", "letters", "queue", "write", "over"}
    /\ Cut(part)
    /\ Settled(part.delivered, part.letters)
    /\ saver \in {"idle", "journal", "letters", "queue"} => part.queued = {}
    /\ saver \in {"idle", "journal", "letters"} => part.letters = {}

(* Each step of the hub keeps its places apart, and what is settled so.    *)
LEMMA HubStep ==
    ASSUME HubInv, NEW done, NEW dead, Settled(done, dead), HubNext
    PROVE  /\ HubInv' /\ next <= next'
           /\ Settled(done, dead)'
<1> USE HubAssumption DEF HubInv, Settled, Forwards
<1>1. ASSUME Build
      PROVE  HubInv' /\ next <= next' /\ Settled(done, dead)'
  BY <1>1 DEF Build
<1>2. ASSUME NEW f \in Forwards, Enqueue(f)
      PROVE  HubInv' /\ next <= next' /\ Settled(done, dead)'
  BY <1>2 DEF Enqueue
<1>3. ASSUME NEW f \in Forwards, RemoveLetter(f)
      PROVE  HubInv' /\ next <= next' /\ Settled(done, dead)'
  BY <1>3 DEF RemoveLetter
<1>4. ASSUME NEW f \in Forwards, Lease(f)
      PROVE  HubInv' /\ next <= next' /\ Settled(done, dead)'
  BY <1>4 DEF Lease
<1>5. ASSUME NEW f \in Forwards, PutBack(f)
      PROVE  HubInv' /\ next <= next' /\ Settled(done, dead)'
  BY <1>5 DEF PutBack
<1>6. ASSUME NEW f \in Forwards, Deliver(f)
      PROVE  HubInv' /\ next <= next' /\ Settled(done, dead)'
  <2>1. delivered' \subseteq delivered \union {f}
    BY <1>6 DEF Deliver
  <2>2. /\ f \in leased /\ leased' = leased \ {f}
        /\ UNCHANGED <<next, planned, queued, letters>>
    BY <1>6 DEF Deliver
  <2> QED BY <2>1, <2>2
<1>7. ASSUME NEW f \in Forwards, Forget(f)
      PROVE  HubInv' /\ next <= next' /\ Settled(done, dead)'
  BY <1>7 DEF Forget
<1>8. ASSUME NEW f \in Forwards, Bury(f)
      PROVE  HubInv' /\ next <= next' /\ Settled(done, dead)'
  <2>1. letters' \subseteq letters \union {f}
    BY <1>8 DEF Bury
  <2>2. /\ f \in leased /\ leased' = leased \ {f}
        /\ UNCHANGED <<next, planned, queued, delivered>>
    BY <1>8 DEF Bury
  <2> QED BY <2>1, <2>2
<1>9. ASSUME File
      PROVE  HubInv' /\ next <= next' /\ Settled(done, dead)'
  BY <1>9 DEF File
<1> QED BY <1>1, <1>2, <1>3, <1>4, <1>5, <1>6, <1>7, <1>8, <1>9 DEF HubNext

LEMMA CombineKinds ==
    ASSUME NEW res
    PROVE  Combine(res) \in {"success", "retryable", "terminal"}
BY DEF Combine, NetError, HTTPStatus

LEMMA HubGoesOnSteps ==
    ASSUME HubGoesOn
    PROVE  HubNext /\ UNCHANGED <<stopping, saver, part, disk>> /\ Watch
<1>1. ASSUME NEW f \in Forwards, NEW res \in Results, PostEnds(f, res)
      PROVE  Deliver(f) \/ PutBack(f) \/ Bury(f)
  BY <1>1, CombineKinds DEF PostEnds
<1>2. ASSUME NEW f \in Forwards, Goes(f)
      PROVE  HubNext
  BY <1>1, <1>2 DEF Goes, LeaseAny, TurnAway, HubNext
<1> QED BY <1>2 DEF HubGoesOn, HubNext

-----------------------------------------------------------------------------
(* Snapshots: with the sets of forwards they list, and what the forwards   *)
(* did while they were taken.                                              *)
Rests == {"queued", "letter", "delivered", "moving"}

Snapshots ==
    [delivered : SUBSET Forwards, letters : SUBSET Forwards,
     queued : SUBSET Forwards, rest : [Forwards -> Rests], last : BOOLEAN]

SnapshotTypes ==
    /\ part \in Snapshots /\ disk \in Snapshots
    /\ rest \in [Forwards -> Rests]
    /\ stopping \in BOOLEAN

LEMMA NoSnapshotType ==
    /\ NoSnapshot \in Snapshots
    /\ AllMoving \in [Forwards -> Rests]
    /\ \A on \in BOOLEAN : [NoSnapshot EXCEPT !.last = on] \in Snapshots
BY DEF NoSnapshot, AllMoving, Snapshots, Rests

LEMMA WhereType == \A f \in Forwards : Where(f) \in Rests
BY DEF Where, Rests

LEMMA RestKeeps ==
    ASSUME rest \in [Forwards -> Rests], Watch
    PROVE  rest' \in [Forwards -> Rests]
BY DEF Watch, Rests

CutInv == SnapshotTypes /\ HubInv /\ PartInv /\ Cut(disk)

LEMMA CutInit == Init => CutInv
<1> SUFFICES ASSUME Init PROVE CutInv
  OBVIOUS
<1>1. SnapshotTypes
  BY NoSnapshotType DEF Init, SnapshotTypes
<1>2. HubInv
  BY HubAssumption DEF Init, HubInit, HubInv
<1>3. /\ NoSnapshot.delivered = {} /\ NoSnapshot.letters = {}
      /\ NoSnapshot.queued = {}
  BY DEF NoSnapshot
<1>4. part = NoSnapshot /\ disk = NoSnapshot /\ saver = "idle"
  BY DEF Init
<1> QED BY <1>1, <1>2, <1>3, <1>4 DEF CutInv, PartInv, Cut, Settled

LEMMA CutHub == CutInv /\ HubGoesOn => CutInv'
<1> SUFFICES ASSUME CutInv, HubGoesOn PROVE CutInv'
  OBVIOUS
<1>1. HubNext /\ UNCHANGED <<stopping, saver, part, disk>> /\ Watch
  BY HubGoesOnSteps
<1>2. HubInv' /\ next <= next' /\ Settled(part.delivered, part.letters)'
  BY <1>1, HubStep DEF CutInv, PartInv
<1>3. next \in Int /\ next' \in Int
  BY <1>2, HubAssumption DEF CutInv, HubInv
<1>4. Cut(part)' /\ Cut(disk)'
  BY <1>1, <1>2, <1>3 DEF CutInv, PartInv, Cut
<1> QED BY <1>1, <1>2, <1>4, RestKeeps DEF CutInv, PartInv, SnapshotTypes

(* What a step of the saver reads is apart from what it read before.       *)
LEMMA CutCapture == CutInv /\ CaptureNext => CutInv'
<1> SUFFICES ASSUME CutInv, CaptureNext PROVE CutInv'
  OBVIOUS
<1> USE DEF CutInv, PartInv
<1>0. UNCHANGED <<hubVars, disk, stopping, rest>> /\ part' = Captured(saver)
  BY DEF CaptureNext
<1>1. HubInv' /\ Cut(disk)'
  BY <1>0 DEF hubVars, HubInv, Cut
<1>2. part \in Snapshots /\ next \in 1 .. MaxForwards + 1
  BY DEF SnapshotTypes, HubInv
<1>3. CASE saver = "journal"
  <2>1. saver' = "letters" /\ part' = [part EXCEPT !.delivered = delivered]
    BY <1>0, <1>3 DEF CaptureNext, Then, Captured
  <2>2. /\ part'.delivered = delivered /\ part'.letters = {}
        /\ part'.queued = {} /\ part' \in Snapshots
    BY <1>2, <1>3, <2>1, HubAssumption DEF Snapshots, HubInv, Forwards
  <2> QED BY <1>0, <1>1, <2>1, <2>2
          DEF Cut, Settled, HubInv, hubVars, SnapshotTypes
<1>4. CASE saver = "letters"
  <2>1. saver' = "queue" /\ part' = [part EXCEPT !.letters = letters]
    BY <1>0, <1>4 DEF CaptureNext, Then, Captured
  <2>2. /\ part'.letters = letters /\ part'.delivered = part.delivered
        /\ part'.queued = {} /\ part' \in Snapshots
    BY <1>2, <1>4, <2>1, HubAssumption DEF Snapshots, HubInv, Forwards
  <2> QED BY <1>0, <1>1, <2>1, <2>2
          DEF Cut, Settled, HubInv, hubVars, SnapshotTypes
<1>5. CASE saver = "queue"
  <2>1. saver' = "write" /\ part' = [part EXCEPT !.queued = queued]
    BY <1>0, <1>5 DEF CaptureNext, Then, Captured
  <2>2. /\ part'.queued = queued /\ part'.delivered = part.delivered
        /\ part'.letters = part.letters /\ part' \in Snapshots
    BY <1>2, <2>1, HubAssumption DEF Snapshots, HubInv, Forwards
  <2> QED BY <1>0, <1>1, <2>1, <2>2
          DEF Cut, Settled, HubInv, hubVars, SnapshotTypes
<1> QED BY <1>3, <1>4, <1>5 DEF CaptureNext

LEMMA CutNext == CutInv /\ [Next]_vars => CutInv'
<1> SUFFICES ASSUME CutInv, [Next]_vars PROVE CutInv'
  OBVIOUS
<1> USE DEF CutInv, PartInv, SnapshotTypes
<1>1. CASE StartSave
  <2>1. /\ UNCHANGED <<hubVars, stopping, disk>> /\ saver' = "journal"
        /\ \E end \in BOOLEAN : part' = [NoSnapshot EXCEPT !.last = end]
    BY <1>1 DEF StartSave, Then
  <2>2. part' \in Snapshots /\ rest' \in [Forwards -> Rests]
    BY <1>1, <2>1, NoSnapshotType, WhereType DEF StartSave
  <2>3. part'.delivered = {} /\ part'.letters = {} /\ part'.queued = {}
    BY <2>1 DEF NoSnapshot
  <2> QED BY <2>1, <2>2, <2>3 DEF hubVars, HubInv, Cut, Settled
<1>2. CASE CaptureNext
  BY <1>2, CutCapture
<1>3. CASE WriteFile
  <2>1. /\ UNCHANGED <<hubVars, stopping>> /\ saver' \in {"over", "idle"}
        /\ part' = NoSnapshot /\ rest' = AllMoving
        /\ disk' = disk \/ disk' = [part EXCEPT !.rest = rest]
    BY <1>3 DEF WriteFile
  <2>2. part' \in Snapshots /\ rest' \in [Forwards -> Rests]
    BY <2>1, NoSnapshotType
  <2>3. part'.delivered = {} /\ part'.letters = {} /\ part'.queued = {}
    BY <2>1 DEF NoSnapshot
  <2>4. Cut(disk)' /\ disk' \in Snapshots
    BY <2>1 DEF Snapshots, Cut, hubVars
  <2> QED BY <2>1, <2>2, <2>3, <2>4 DEF hubVars, HubInv, Cut, Settled
<1>4. CASE Stop
  BY <1>4 DEF Stop, hubVars, HubInv, Cut, Settled
<1>5. CASE HubGoesOn
  BY <1>5, CutHub
<1>6. CASE Restart
  <2>1. part'.delivered = {} /\ part'.letters = {} /\ part'.queued = {}
    BY <1>6 DEF Restart, NoSnapshot
  <2>2. part' \in Snapshots /\ rest' \in [Forwards -> Rests]
    BY <1>6, NoSnapshotType DEF Restart
  <2>3. HubInv'
    BY <1>6 DEF Restart, HubInv, Cut
  <2> QED BY <1>6, <2>1, <2>2, <2>3 DEF Restart, Cut, Settled
<1>7. CASE UNCHANGED vars
  BY <1>7 DEF vars, hubVars, HubInv, Cut, Settled
<1> QED BY <1>1, <1>2, <1>3, <1>4, <1>5, <1>6, <1>7 DEF Next

(* No restart, from a snapshot read in any interleaving, doubles a forward.*)
THEOREM NothingIsDoubled == Spec => []NeverDoubled
<1>1. CutInv => NeverDoubled
  BY DEF CutInv, HubInv, NeverDoubled, Places
<1> QED BY <1>1, CutInit, CutNext, PTL DEF Spec
-----------------------------------------------------------------------------
(* A forward that has been at rest since the save began is still there,    *)
(* and each part of the snapshot that has been read lists those at rest.   *)
Rested == \A f \in Forwards : rest[f] # "moving" => Where(f) = rest[f]

Lists(s, where, f) ==
    \/ where = "moving"
    \/ where = "delivered" /\ f \in s.delivered
    \/ where = "letter" /\ f \in s.letters
    \/ where = "queued" /\ f \in s.queued

(* The calls of Capture that have still to read what is at rest there.     *)
Unread(where) ==
    CASE where = "delivered" -> {"journal"}
      [] where = "letter" -> {"journal", "letters"}
      [] where = "queued" -> {"journal", "letters", "queue"}
      [] OTHER -> {}

PartLists ==
    saver \in {"journal", "letters", "queue", "write"} =>
        \A f \in Forwards :
            saver \in Unread(rest[f]) \/ Lists(part, rest[f], f)

DiskLists == \A f \in Forwards : Lists(disk, disk.rest[f], f)

RestInv == CutInv /\ Rested /\ PartLists /\ DiskLists

LEMMA WhereMeans ==
    ASSUME NEW f \in Forwards
    PROVE  /\ Where(f) = "queued" => f \in queued
           /\ Where(f) = "letter" => f \in letters
           /\ Where(f) = "delivered" => f \in delivered
BY DEF Where

LEMMA RestInit == Init => RestInv
<1> SUFFICES ASSUME Init PROVE RestInv
  OBVIOUS
<1>1. \A f \in Forwards : rest[f] = "moving" /\ disk.rest[f] = "moving"
  BY DEF Init, NoSnapshot, AllMoving
<1>2. saver = "idle"
  BY DEF Init
<1> QED BY <1>1, <1>2, CutInit DEF RestInv, Rested, PartLists, DiskLists, Lists

LEMMA RestHub == RestInv /\ HubGoesOn => RestInv'
<1> SUFFICES ASSUME RestInv, HubGoesOn PROVE RestInv'
  OBVIOUS
<1>1. UNCHANGED <<stopping, saver, part, disk>> /\ Watch
  BY HubGoesOnSteps
<1>2. CutInv'
  BY CutHub DEF RestInv
<1>3. \A f \in Forwards :
          rest'[f] = "moving" \/ (rest'[f] = rest[f] /\ Where(f)' = rest[f])
  BY <1>1 DEF Watch
<1>4. Rested'
  BY <1>3 DEF Rested
<1>5. PartLists'
  <2> SUFFICES ASSUME saver \in {"journal", "letters", "queue", "write"},
                      NEW f \in Forwards
               PROVE  saver \in Unread(rest'[f]) \/ Lists(part, rest'[f], f)
    BY <1>1 DEF PartLists, Lists
  <2>1. CASE rest'[f] = "moving"
    BY <2>1 DEF Lists
  <2>2. CASE rest'[f] = rest[f]
    BY <2>2 DEF RestInv, PartLists
  <2> QED BY <1>3, <2>1, <2>2
<1>6. DiskLists'
  BY <1>1 DEF RestInv, DiskLists, Lists
<1> QED BY <1>2, <1>4, <1>5, <1>6 DEF RestInv

LEMMA RestCapture == RestInv /\ CaptureNext => RestInv'
<1> SUFFICES ASSUME RestInv, CaptureNext PROVE RestInv'
  OBVIOUS
<1>1. /\ UNCHANGED <<hubVars, disk, stopping, rest>>
      /\ part' = Captured(saver) /\ saver' = Then(saver)
      /\ saver \in {"journal", "letters", "queue"}
  BY DEF CaptureNext
<1>2. CutInv'
  BY CutCapture DEF RestInv
<1>3. Rested'
  BY <1>1 DEF RestInv, Rested, Where, hubVars
<1>4. DiskLists'
  BY <1>1 DEF RestInv, DiskLists, Lists
<1>5. part \in Snapshots
  BY DEF RestInv, CutInv, SnapshotTypes
<1>6. PartLists'
  <2> SUFFICES ASSUME NEW f \in Forwards
               PROVE  saver' \in Unread(rest[f]) \/ Lists(part', rest[f], f)
    BY <1>1 DEF PartLists, Lists
  <2>1. saver \in Unread(rest[f]) \/ Lists(part, rest[f], f)
    BY <1>1 DEF RestInv, PartLists
  <2>2. rest[f] # "moving" => Where(f) = rest[f]
    BY DEF RestInv, Rested
  <2>3. rest[f] \in Rests
    BY DEF RestInv, CutInv, SnapshotTypes
  <2>4. CASE saver = "journal"
    <3>1. /\ saver' = "letters" /\ part'.delivered = delivered
          /\ part'.letters = part.letters /\ part'.queued = part.queued
      BY <1>1, <1>5, <2>4 DEF Then, Captured, Snapshots
    <3> QED BY <2>1, <2>2, <2>3, <2>4, <3>1, WhereMeans
            DEF Unread, Lists, Rests
  <2>5. CASE saver = "letters"
    <3>1. /\ saver' = "queue" /\ part'.letters = letters
          /\ part'.delivered = part.delivered /\ part'.queued = part.queued
      BY <1>1, <1>5, <2>5 DEF Then, Captured, Snapshots
    <3> QED BY <2>1, <2>2, <2>3, <2>5, <3>1, WhereMeans
            DEF Unread, Lists, Rests
  <2>6. CASE saver = "queue"
    <3>1. /\ saver' = "write" /\ part'.queued = queued
          /\ part'.delivered = part.delivered /\ part'.letters = part.letters
      BY <1>1, <1>5, <2>6 DEF Then, Captured, Snapshots
    <3> QED BY <2>1, <2>2, <2>3, <2>6, <3>1, WhereMeans
            DEF Unread, Lists, Rests
  <2> QED BY <1>1, <2>4, <2>5, <2>6
<1> QED BY <1>2, <1>3, <1>4, <1>6 DEF RestInv

LEMMA RestNext == RestInv /\ [Next]_vars => RestInv'
<1> SUFFICES ASSUME RestInv, [Next]_vars PROVE RestInv'
  OBVIOUS
<1>0. CutInv'
  BY CutNext DEF RestInv
<1>1. CASE StartSave
  <2>1. UNCHANGED <<hubVars, disk>> /\ saver' = "journal"
    BY <1>1 DEF StartSave, Then
  <2>2. \A f \in Forwards : rest'[f] = Where(f)
    BY <1>1 DEF StartSave
  <2>3. \A f \in Forwards : Where(f)' = Where(f)
    BY <2>1 DEF Where, hubVars
  <2>4. \A f \in Forwards :
            "journal" \in Unread(Where(f)) \/ Lists(part', Where(f), f)
    BY DEF Where, Unread, Lists
  <2>5. DiskLists'
    BY <2>1 DEF RestInv, DiskLists, Lists
  <2>6. PartLists'
    BY <2>1, <2>2, <2>4 DEF PartLists, Lists
  <2> QED BY <1>0, <2>2, <2>3, <2>5, <2>6 DEF RestInv, Rested
<1>2. CASE CaptureNext
  BY <1>2, RestCapture
<1>3. CASE WriteFile
  <2>1. /\ saver = "write" /\ saver' \in {"over", "idle"} /\ rest' = AllMoving
        /\ disk' = disk \/ disk' = [part EXCEPT !.rest = rest]
    BY <1>3 DEF WriteFile
  <2>2. Rested' /\ PartLists'
    BY <2>1 DEF Rested, PartLists, AllMoving
  <2>3. ASSUME disk' = [part EXCEPT !.rest = rest]
        PROVE  DiskLists'
    <3>1. /\ disk'.rest = rest /\ disk'.delivered = part.delivered
          /\ disk'.letters = part.letters /\ disk'.queued = part.queued
      BY <2>3 DEF RestInv, CutInv, SnapshotTypes, Snapshots
    <3>2. \A f \in Forwards : rest[f] \in Rests
      BY DEF RestInv, CutInv, SnapshotTypes
    <3>3. \A f \in Forwards : Lists(part, rest[f], f)
      BY <2>1, <3>2 DEF RestInv, PartLists, Unread, Rests
    <3> QED BY <3>1, <3>3 DEF DiskLists, Lists
  <2>4. ASSUME disk' = disk
        PROVE  DiskLists'
    BY <2>4 DEF RestInv, DiskLists, Lists
  <2> QED BY <1>0, <2>1, <2>2, <2>3, <2>4 DEF RestInv
<1>4. CASE Stop
  BY <1>0, <1>4
     DEF Stop, hubVars, RestInv, Rested, PartLists, DiskLists, Lists, Where
<1>5. CASE HubGoesOn
  BY <1>5, RestHub
<1>6. CASE Restart
  <2>1. saver' = "idle" /\ rest' = AllMoving /\ disk' = disk
    BY <1>6 DEF Restart
  <2> QED BY <1>0, <2>1
          DEF RestInv, Rested, PartLists, DiskLists, Lists, AllMoving
<1>7. CASE UNCHANGED vars
  BY <1>0, <1>7 DEF vars, hubVars, RestInv, Rested, PartLists, DiskLists,
                    Lists, Where
<1> QED BY <1>1, <1>2, <1>3, <1>4, <1>5, <1>6, <1>7 DEF Next

(* A restart brings back what was at rest while the file was made.         *)
LEMMA RestartBringsBack ==
    ASSUME RestInv, Restart, NEW f \in Forwards, disk.rest[f] # "moving"
    PROVE  Where(f)' = disk.rest[f]
<1>1. queued' = disk.queued /\ letters' = disk.letters
      /\ delivered' = disk.delivered
  BY DEF Restart
<1>2. Lists(disk, disk.rest[f], f) /\ Cut(disk)
  BY DEF RestInv, DiskLists, CutInv
<1>3. /\ f \in queued' => f \notin letters' /\ f \notin delivered'
      /\ f \in letters' => f \notin delivered'
  BY <1>1, <1>2 DEF Cut
<1>4. CASE disk.rest[f] = "queued"
  <2>1. f \in queued'
    BY <1>1, <1>2, <1>4 DEF Lists
  <2> QED BY <1>3, <1>4, <2>1 DEF Where
<1>5. CASE disk.rest[f] = "letter"
  <2>1. f \in letters'
    BY <1>1, <1>2, <1>5 DEF Lists
  <2> QED BY <1>3, <1>5, <2>1 DEF Where
<1>6. CASE disk.rest[f] = "delivered"
  <2>1. f \in delivered'
    BY <1>1, <1>2, <1>6 DEF Lists
  <2> QED BY <1>3, <1>6, <2>1 DEF Where
<1> QED BY <1>2, <1>4, <1>5, <1>6 DEF Lists

(* Whatever handlers and workers did meanwhile, and whenever the process   *)
(* ends: what no worker and no operator touched during the last save that  *)
(* reached the disk is, after the restart, where it was.                   *)
THEOREM WhatRestedSurvives == Spec => RestSurvives
<1>1. RestInv /\ [Next]_vars =>
        [Restart => \A f \in Forwards :
            disk.rest[f] # "moving" => Where(f)' = disk.rest[f]]_vars
  BY RestartBringsBack
<1> QED BY <1>1, RestInit, RestNext, PTL DEF Spec, RestSurvives
=============================================================================
