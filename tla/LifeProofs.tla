----------------------------- MODULE LifeProofs -----------------------------
(***************************************************************************)
(* What becomes of a forward, for every number of radars, workers and      *)
(* forwards and every setting: it is at exactly one place, in one copy;    *)
(* its attempts are counted, its settlement is journaled, the dead-letter  *)
(* queue keeps it, and the engine as a whole implements the life of a      *)
(* forward and the hub that snapshots see.                                 *)
(*                                                                         *)
(* Conservation comes first.  It is inductive once the variables are       *)
(* typed: every step either leaves all forwards where they are or moves    *)
(* one of them.                                                            *)
(***************************************************************************)
EXTENDS DeliveryProofs

(* What being at a place means, place by place.                            *)
PlacesSpelledOut ==
    \A f \in Forwards :
        /\ At(f, "absent") <=> f >= next
        /\ At(f, "planned") <=> \E j \in planned : j.fwd = f
        /\ At(f, "queued") <=> Queued(f)
        /\ At(f, "held") <=> \E w \in Workers : Holds(w, f)
        /\ At(f, "delivered") <=> Delivered(f)
        /\ At(f, "buried") <=> f \in buried

LEMMA AtPlaces == PlacesSpelledOut
BY DEF PlacesSpelledOut, At

LEMMA AtPlacesNext == PlacesSpelledOut'
BY DEF PlacesSpelledOut, At

(* A forward that no place gains or loses stays where it is, one that      *)
(* leaves its place for another is there.                                  *)
LEMMA Stays ==
    ASSUME NEW f \in Forwards, OnePlace(f),
           \A q \in Places : At(f, q)' <=> At(f, q)
    PROVE  OnePlace(f)'
BY DEF OnePlace

LEMMA Moves ==
    ASSUME NEW f \in Forwards, OnePlace(f),
           NEW from \in Places, NEW to \in Places, from # to,
           At(f, from), ~ At(f, from)', At(f, to)',
           \A q \in Places \ {from, to} : At(f, q)' <=> At(f, q)
    PROVE  OnePlace(f)'
<1>1. \A q \in Places : At(f, q) <=> q = from
  BY DEF OnePlace
<1>2. \A q \in Places : At(f, q)' <=> q = to
  BY <1>1
<1> QED BY <1>2 DEF OnePlace

LEMMA OnlyThere ==
    ASSUME NEW f \in Forwards, OnePlace(f),
           NEW p \in Places, NEW q \in Places, At(f, p), At(f, q)
    PROVE  p = q
BY DEF OnePlace

(* A busy worker moves on without taking up or letting go of its forward.  *)
LEMMA HoldsOn ==
    ASSUME WorkersTypeOK, NEW w \in Workers, Busy(w),
           NEW step \in Steps \ {"idle"}, NextStep(w, step),
           \/ UNCHANGED hand
           \/ \E t \in Int : hand' = [hand EXCEPT ![w].notBefore = t]
           \/ hand' = [hand EXCEPT ![w].attempt = @ + 1],
           \/ UNCHANGED cause
           \/ \E why \in Causes : cause' = [cause EXCEPT ![w] = why],
           Holding(w)' <=> Holding(w)
    PROVE  \A v \in Workers : \A f \in Forwards : Holds(v, f)' <=> Holds(v, f)
<1>1. \A v \in Workers : Holding(v)' <=> Holding(v)
  BY DEF WorkersTypeOK, NextStep, Holding
<1>2. \A v \in Workers : Holding(v) => Busy(v)
  BY DEF Holding, Busy
<1>3. \A v \in Workers : Busy(v) => hand'[v].fwd = hand[v].fwd
  BY WorkerGoesOn
<1> QED BY <1>1, <1>2, <1>3 DEF Holds

(* A busy worker lets go of its forward.                                   *)
LEMMA LetsGo ==
    ASSUME WorkersTypeOK, HeldOnce, NEW w \in Workers, Busy(w),
           UNCHANGED hand,
           \A v \in Workers \ {w} : Holding(v)' <=> Holding(v),
           Holding(w), ~ Holding(w)'
    PROVE  /\ \A v \in Workers \ {w} : \A f \in Forwards :
                 Holds(v, f)' <=> Holds(v, f)
           /\ \A f \in Forwards :
                 (\E v \in Workers : Holds(v, f)')
                    <=> (\E v \in Workers : Holds(v, f)) /\ f # hand[w].fwd
           /\ HeldOnce'
<1>1. \A v \in Workers \ {w} : \A f \in Forwards : Holds(v, f)' <=> Holds(v, f)
  BY DEF Holds
<1>2. \A f \in Forwards : Holds(w, f) <=> f = hand[w].fwd
  BY DEF Holds
<1>3. \A f \in Forwards : ~ Holds(w, f)'
  BY DEF Holds
<1>4. \A f \in Forwards :
         (\E v \in Workers : Holds(v, f)')
            <=> (\E v \in Workers : Holds(v, f)) /\ f # hand[w].fwd
  BY <1>1, <1>2, <1>3 DEF HeldOnce
<1>5. HeldOnce'
  BY <1>1, <1>3 DEF HeldOnce
<1> QED BY <1>1, <1>4, <1>5

(* Nothing moves.                                                          *)
LEMMA AllStay ==
    ASSUME Conservation, FiledByRadar',
           UNCHANGED <<next, planned, ready, buried>>,
           \A v \in Workers : \A f \in Forwards : Holds(v, f)' <=> Holds(v, f),
           \A f \in Forwards : Delivered(f)' <=> Delivered(f)
    PROVE  Conservation'
<1>1. ASSUME NEW f \in Forwards
      PROVE  OnePlace(f)'
  <2>1. \A q \in Places : At(f, q)' <=> At(f, q)
    BY AtPlaces, AtPlacesNext DEF PlacesSpelledOut, Places, Queued
  <2> QED BY <2>1, Stays DEF Conservation
<1>2. PlannedOnce' /\ QueuedOnce' /\ HeldOnce'
  BY DEF Conservation, PlannedOnce, QueuedOnce, HeldOnce
<1> QED BY <1>1, <1>2 DEF Conservation

-----------------------------------------------------------------------------
(* The steps that move a forward.                                          *)

LEMMA PlanMoves ==
    ASSUME TypeInv, Conservation, FiledByRadar',
           NEW r \in Radars, PlanForward(r)
    PROVE  Conservation'
<1> DEFINE new == NewJob(next, r)
<1>0. next \in Forwards
  BY MaxForwardsAssumption, TypeInvParts
     DEF PlanForward, FleetTypeOK, Forwards
<1> PICK n \in Forwards : n = next
  BY <1>0
<1>1. /\ new.fwd = n
      /\ next = n /\ next' = n + 1
      /\ planned' = planned \union {new}
      /\ UNCHANGED <<ready, buried, pc, hand, cause, journaled>>
  BY MaxForwardsAssumption, TypeInvParts
     DEF PlanForward, NewJob, FleetTypeOK, Forwards
<1> HIDE DEF new
<1>2. \A v \in Workers : \A f \in Forwards : Holds(v, f)' <=> Holds(v, f)
  BY <1>1 DEF Holds, Holding
<1>3. \A f \in Forwards : Delivered(f)' <=> Delivered(f)
  BY <1>1 DEF Delivered
<1>4. \A f \in Forwards : Queued(f)' <=> Queued(f)
  BY <1>1 DEF Queued
<1>5. At(n, "absent") /\ ~ At(n, "planned")
  <2>1. At(n, "absent")
    BY <1>1, AtPlaces DEF PlacesSpelledOut, Forwards
  <2> QED BY <1>1, <2>1, OnlyThere DEF Conservation, Places
<1>6. \A j \in planned : j.fwd # n
  BY <1>1, <1>5, AtPlaces DEF PlacesSpelledOut
<1>7. ASSUME NEW f \in Forwards, f # n
      PROVE  OnePlace(f)'
  <2>1. f >= next' <=> f >= next
    BY <1>1, <1>7, MaxForwardsAssumption DEF Forwards
  <2>2. \A q \in Places : At(f, q)' <=> At(f, q)
    BY <1>1, <1>2, <1>3, <1>4, <1>7, <2>1, AtPlaces, AtPlacesNext
       DEF PlacesSpelledOut, Places
  <2> QED BY <2>2, Stays DEF Conservation
<1>8. OnePlace(n)'
  <2>1. n >= next /\ ~ (n >= next')
    BY <1>1, MaxForwardsAssumption DEF Forwards
  <2>2. ~ At(n, "absent")' /\ At(n, "planned")'
    BY <1>1, <2>1, AtPlacesNext DEF PlacesSpelledOut
  <2>3. \A q \in Places \ {"absent", "planned"} : At(n, q)' <=> At(n, q)
    BY <1>1, <1>2, <1>3, <1>4, AtPlaces, AtPlacesNext
       DEF PlacesSpelledOut, Places
  <2> QED BY <1>1, <1>5, <2>2, <2>3, Moves DEF Conservation, Places
<1>9. PlannedOnce'
  BY <1>1, <1>6 DEF Conservation, PlannedOnce
<1>10. QueuedOnce' /\ HeldOnce'
  BY <1>1, <1>2 DEF Conservation, QueuedOnce, HeldOnce
<1> QED BY <1>7, <1>8, <1>9, <1>10 DEF Conservation

(* A job that joins its queue was nowhere in a queue before.               *)
LEMMA JoinsQueue ==
    ASSUME BrokerTypeOK, FiledByRadar, QueuedOnce,
           NEW j \in Jobs, Enqueue(j), ~ Queued(j.fwd)
    PROVE  /\ QueuedOnce'
           /\ \A f \in Forwards : Queued(f)' <=> Queued(f) \/ f = j.fwd
<1>1. j.radar \in Radars /\ ready'[j.radar] = ready[j.radar] \union {j}
  BY DEF Jobs, Enqueue, BrokerTypeOK
<1>2. \A r \in Radars \ {j.radar} : ready'[r] = ready[r]
  BY DEF Enqueue, BrokerTypeOK
<1>3. \A r \in Radars : \A k \in ready'[r] : k \in ready[r] \/ k = j
  BY <1>1, <1>2
<1>4. \A r \in Radars : ready[r] \subseteq ready'[r]
  BY <1>1, <1>2
<1>5. QueuedOnce'
  BY <1>3 DEF QueuedOnce, Queued
<1>6. \A f \in Forwards : Queued(f)' <=> Queued(f) \/ f = j.fwd
  BY <1>1, <1>3, <1>4 DEF Queued
<1> QED BY <1>5, <1>6

LEMMA EnqueueMoves ==
    ASSUME TypeInv, Conservation, FiledByRadar',
           NEW j \in planned, EnqueueForward(j)
    PROVE  Conservation'
<1>1. /\ j \in Jobs /\ j.fwd \in Forwards
      /\ planned' = planned \ {j}
      /\ Enqueue(j)
      /\ UNCHANGED <<next, buried, pc, hand, cause, journaled>>
  BY TypeInvParts DEF EnqueueForward, Jobs
<1>2. \A v \in Workers : \A f \in Forwards : Holds(v, f)' <=> Holds(v, f)
  BY <1>1 DEF Holds, Holding
<1>3. \A f \in Forwards : Delivered(f)' <=> Delivered(f)
  BY <1>1 DEF Delivered
<1>4. At(j.fwd, "planned") /\ ~ At(j.fwd, "queued")
  <2>1. At(j.fwd, "planned")
    BY <1>1, AtPlaces DEF PlacesSpelledOut
  <2> QED BY <1>1, <2>1, OnlyThere DEF Conservation, Places
<1>5. /\ QueuedOnce'
      /\ \A f \in Forwards : Queued(f)' <=> Queued(f) \/ f = j.fwd
  BY <1>1, <1>4, JoinsQueue, AtPlaces, TypeInvParts
     DEF PlacesSpelledOut, Conservation
<1>6. \A f \in Forwards :
         (\E k \in planned' : k.fwd = f)
            <=> (\E k \in planned : k.fwd = f) /\ f # j.fwd
  BY <1>1 DEF Conservation, PlannedOnce
<1>7. ASSUME NEW f \in Forwards, f # j.fwd
      PROVE  OnePlace(f)'
  <2>1. \A q \in Places : At(f, q)' <=> At(f, q)
    BY <1>1, <1>2, <1>3, <1>5, <1>6, <1>7, AtPlaces, AtPlacesNext
       DEF PlacesSpelledOut, Places
  <2> QED BY <2>1, Stays DEF Conservation
<1>8. OnePlace(j.fwd)'
  <2>1. ~ At(j.fwd, "planned")' /\ At(j.fwd, "queued")'
    BY <1>1, <1>5, <1>6, AtPlacesNext DEF PlacesSpelledOut
  <2>2. \A q \in Places \ {"planned", "queued"} :
           At(j.fwd, q)' <=> At(j.fwd, q)
    BY <1>1, <1>2, <1>3, AtPlaces, AtPlacesNext DEF PlacesSpelledOut, Places
  <2> QED BY <1>1, <1>4, <2>1, <2>2, Moves DEF Conservation, Places
<1>9. PlannedOnce' /\ HeldOnce'
  BY <1>1, <1>2 DEF Conservation, PlannedOnce, HeldOnce
<1> QED BY <1>5, <1>7, <1>8, <1>9 DEF Conservation

LEMMA LeaseMoves ==
    ASSUME TypeInv, Conservation, FiledByRadar',
           NEW w \in Workers, LeaseJob(w)
    PROVE  Conservation'
<1>1. PICK j \in Leasable : Lease(j) /\ hand' = [hand EXCEPT ![w] = j]
  BY DEF LeaseJob
<1>2. PICK r \in Radars : j \in ready[r] /\ j \in Jobs
  BY LeasableReady, TypeInvParts
<1>3. /\ j.radar = r /\ j.fwd \in Forwards
      /\ ready' = [ready EXCEPT ![r] = @ \ {j}]
      /\ UNCHANGED <<next, planned, buried, journaled, cause>>
  BY <1>1, <1>2 DEF LeaseJob, Lease, Conservation, FiledByRadar, Jobs
<1>4. \A q \in Radars : ready'[q] = ready[q] \ {j}
  <2>1. \A q \in Radars \ {r} : j \notin ready[q]
    BY <1>3 DEF Conservation, FiledByRadar
  <2> QED BY <1>3, <2>1, TypeInvParts DEF BrokerTypeOK
<1>5. \A f \in Forwards : Queued(f)' <=> Queued(f) /\ f # j.fwd
  BY <1>2, <1>4 DEF Queued, Conservation, QueuedOnce
<1>6. \A f \in Forwards : Delivered(f)' <=> Delivered(f)
  BY <1>3 DEF Delivered
<1>7. /\ ~ Holding(w) /\ Holding(w)'
      /\ hand'[w] = j
      /\ \A v \in Workers \ {w} :
            (Holding(v)' <=> Holding(v)) /\ hand'[v] = hand[v]
  BY <1>1, <1>3, TypeInvParts
     DEF LeaseJob, WorkersTypeOK, NextStep, Holding
<1>8. \A v \in Workers : \A f \in Forwards :
         Holds(v, f)' <=> Holds(v, f) \/ (v = w /\ f = j.fwd)
  BY <1>7 DEF Holds
<1>9. At(j.fwd, "queued") /\ ~ At(j.fwd, "held")
  <2>1. At(j.fwd, "queued")
    BY <1>2, <1>3, AtPlaces DEF PlacesSpelledOut, Queued
  <2> QED BY <1>3, <2>1, OnlyThere DEF Conservation, Places
<1>10. ASSUME NEW f \in Forwards, f # j.fwd
       PROVE  OnePlace(f)'
  <2>1. \A q \in Places : At(f, q)' <=> At(f, q)
    BY <1>3, <1>5, <1>6, <1>8, <1>10, AtPlaces, AtPlacesNext
       DEF PlacesSpelledOut, Places
  <2> QED BY <2>1, Stays DEF Conservation
<1>11. OnePlace(j.fwd)'
  <2>1. ~ At(j.fwd, "queued")' /\ At(j.fwd, "held")'
    BY <1>3, <1>5, <1>8, AtPlacesNext DEF PlacesSpelledOut
  <2>2. \A q \in Places \ {"queued", "held"} : At(j.fwd, q)' <=> At(j.fwd, q)
    BY <1>3, <1>6, AtPlaces, AtPlacesNext DEF PlacesSpelledOut, Places
  <2> QED BY <1>3, <1>9, <2>1, <2>2, Moves DEF Conservation, Places
<1>12. HeldOnce'
  <2>1. \A v \in Workers : ~ Holds(v, j.fwd)
    BY <1>3, <1>9, AtPlaces DEF PlacesSpelledOut
  <2> QED BY <1>8, <2>1 DEF Conservation, HeldOnce
<1>13. PlannedOnce' /\ QueuedOnce'
  BY <1>3, <1>4 DEF Conservation, PlannedOnce, QueuedOnce
<1> QED BY <1>10, <1>11, <1>12, <1>13 DEF Conservation

(* A worker's forward goes somewhere else.                                 *)
LEMMA HandsOver ==
    ASSUME TypeInv, Conservation, FiledByRadar',
           NEW w \in Workers, Busy(w), Holding(w), ~ Holding(w)',
           UNCHANGED <<next, planned, hand>>,
           \A v \in Workers \ {w} : Holding(v)' <=> Holding(v),
           NEW mine \in Forwards, mine = hand[w].fwd,
           NEW to \in {"queued", "delivered", "buried"},
           At(mine, to)',
           \A q \in {"queued", "delivered", "buried"} \ {to} :
              At(mine, q)' <=> At(mine, q),
           \A f \in Forwards \ {mine} :
              \A q \in {"queued", "delivered", "buried"} :
                 At(f, q)' <=> At(f, q),
           QueuedOnce'
    PROVE  Conservation'
<1>1. Holds(w, mine)
  BY DEF Holds
<1>2. /\ HeldOnce'
      /\ \A f \in Forwards :
            (\E v \in Workers : Holds(v, f)')
               <=> (\E v \in Workers : Holds(v, f)) /\ f # mine
  BY LetsGo, TypeInvParts DEF Conservation
<1>3. At(mine, "held") /\ ~ At(mine, "held")'
  BY <1>1, <1>2, AtPlaces, AtPlacesNext DEF PlacesSpelledOut
<1>4. \A f \in Forwards : \A q \in {"absent", "planned"} :
         At(f, q)' <=> At(f, q)
  BY AtPlaces, AtPlacesNext DEF PlacesSpelledOut
<1>5. ASSUME NEW f \in Forwards, f # mine
      PROVE  OnePlace(f)'
  <2>1. At(f, "held")' <=> At(f, "held")
    BY <1>2, <1>5, AtPlaces, AtPlacesNext DEF PlacesSpelledOut
  <2>2. \A q \in Places : At(f, q)' <=> At(f, q)
    BY <1>4, <1>5, <2>1 DEF Places
  <2> QED BY <2>2, Stays DEF Conservation
<1>6. OnePlace(mine)'
  <2>1. \A q \in Places \ {"held", to} : At(mine, q)' <=> At(mine, q)
    BY <1>1, <1>4 DEF Places
  <2> QED BY <1>1, <1>3, <2>1, Moves DEF Conservation, Places
<1>7. PlannedOnce'
  BY DEF Conservation, PlannedOnce
<1> QED BY <1>2, <1>5, <1>6, <1>7 DEF Conservation

LEMMA RequeueMoves ==
    ASSUME TypeInv, Conservation, FiledByRadar',
           NEW w \in Workers, Requeue(w)
    PROVE  Conservation'
<1>0. hand[w].fwd \in Forwards
  BY BusyHoldsJob, TypeInvParts DEF Requeue, Busy
<1> PICK mine \in Forwards : mine = hand[w].fwd
  BY <1>0
<1>1. /\ Busy(w) /\ hand[w] \in Jobs /\ mine = hand[w].fwd
      /\ Enqueue(hand[w])
      /\ UNCHANGED <<next, planned, buried, hand, cause, journaled>>
  BY BusyHoldsJob, TypeInvParts DEF Requeue, Busy
<1>2. /\ Holding(w) /\ ~ Holding(w)'
      /\ \A v \in Workers \ {w} : Holding(v)' <=> Holding(v)
  BY TypeInvParts DEF Requeue, NextStep, Holding, WorkersTypeOK
<1>3. ~ Queued(mine)
  <2>1. At(mine, "held")
    BY <1>1, <1>2, AtPlaces DEF PlacesSpelledOut, Holds
  <2>2. ~ At(mine, "queued")
    BY <1>1, <2>1, OnlyThere DEF Conservation, Places
  <2> QED BY <1>1, <2>2, AtPlaces DEF PlacesSpelledOut
<1>4. /\ QueuedOnce'
      /\ \A f \in Forwards : Queued(f)' <=> Queued(f) \/ f = mine
  BY <1>1, <1>3, JoinsQueue, TypeInvParts DEF Conservation
<1>5. \A f \in Forwards : \A q \in {"delivered", "buried"} :
         At(f, q)' <=> At(f, q)
  BY <1>1, AtPlaces, AtPlacesNext DEF PlacesSpelledOut, Delivered
<1>6. /\ At(mine, "queued")'
      /\ \A f \in Forwards \ {mine} : At(f, "queued")' <=> At(f, "queued")
  BY <1>1, <1>4, AtPlaces, AtPlacesNext DEF PlacesSpelledOut
<1>7. /\ "queued" \in {"queued", "delivered", "buried"}
      /\ \A q \in {"queued", "delivered", "buried"} \ {"queued"} :
            At(mine, q)' <=> At(mine, q)
      /\ \A f \in Forwards \ {mine} :
            \A q \in {"queued", "delivered", "buried"} :
               At(f, q)' <=> At(f, q)
  BY <1>1, <1>5, <1>6
<1> QED BY <1>1, <1>2, <1>4, <1>6, <1>7, HandsOver

LEMMA BuryMoves ==
    ASSUME TypeInv, Conservation, FiledByRadar',
           NEW w \in Workers, Bury(w)
    PROVE  Conservation'
<1>0. hand[w].fwd \in Forwards
  BY BusyHoldsJob, TypeInvParts DEF Bury, Busy
<1> PICK mine \in Forwards : mine = hand[w].fwd
  BY <1>0
<1>1. /\ Busy(w) /\ mine = hand[w].fwd
      /\ buried' = buried \union {mine}
      /\ UNCHANGED <<next, planned, ready, hand, cause, journaled>>
  BY BusyHoldsJob, TypeInvParts DEF Bury, Busy, Push, FromJob
<1>2. /\ Holding(w) /\ ~ Holding(w)'
      /\ \A v \in Workers \ {w} : Holding(v)' <=> Holding(v)
  BY TypeInvParts DEF Bury, NextStep, Holding, WorkersTypeOK
<1>3. QueuedOnce' /\ \A f \in Forwards : Queued(f)' <=> Queued(f)
  BY <1>1 DEF Conservation, QueuedOnce, Queued
<1>4. \A f \in Forwards : \A q \in {"delivered", "queued"} :
         At(f, q)' <=> At(f, q)
  BY <1>1, <1>3, AtPlaces, AtPlacesNext DEF PlacesSpelledOut, Delivered
<1>5. /\ At(mine, "buried")'
      /\ \A f \in Forwards \ {mine} : At(f, "buried")' <=> At(f, "buried")
  BY <1>1, AtPlaces, AtPlacesNext DEF PlacesSpelledOut
<1>6. /\ "buried" \in {"queued", "delivered", "buried"}
      /\ \A q \in {"queued", "delivered", "buried"} \ {"buried"} :
            At(mine, q)' <=> At(mine, q)
      /\ \A f \in Forwards \ {mine} :
            \A q \in {"queued", "delivered", "buried"} :
               At(f, q)' <=> At(f, q)
  BY <1>1, <1>4, <1>5
<1> QED BY <1>1, <1>2, <1>3, <1>5, <1>6, HandsOver

LEMMA SuccessMoves ==
    ASSUME TypeInv, Conservation, FiledByRadar',
           NEW w \in Workers, PostReturns(w, "success")
    PROVE  Conservation'
<1>0. hand[w].fwd \in Forwards
  BY BusyHoldsJob, TypeInvParts DEF PostReturns, Busy
<1> PICK mine \in Forwards : mine = hand[w].fwd
  BY <1>0
<1>1. /\ Busy(w) /\ mine = hand[w].fwd
      /\ journaled' = [journaled EXCEPT ![mine] = @ \union {"success"}]
      /\ UNCHANGED <<next, planned, ready, hand, buried>>
  BY BusyHoldsJob, TypeInvParts DEF PostReturns, Busy, Note
<1>2. /\ Holding(w) /\ ~ Holding(w)'
      /\ \A v \in Workers \ {w} : Holding(v)' <=> Holding(v)
  BY TypeInvParts DEF PostReturns, Outcome, NextStep, Holding, WorkersTypeOK
<1>3. QueuedOnce' /\ \A f \in Forwards : Queued(f)' <=> Queued(f)
  BY <1>1 DEF Conservation, QueuedOnce, Queued
<1>4. \A f \in Forwards : \A q \in {"queued", "buried"} :
         At(f, q)' <=> At(f, q)
  BY <1>1, <1>3, AtPlaces, AtPlacesNext DEF PlacesSpelledOut
<1>5. /\ At(mine, "delivered")'
      /\ \A f \in Forwards \ {mine} :
            At(f, "delivered")' <=> At(f, "delivered")
  BY <1>1, TypeInvParts, AtPlaces, AtPlacesNext
     DEF PlacesSpelledOut, Delivered
<1>6. /\ "delivered" \in {"queued", "delivered", "buried"}
      /\ \A q \in {"queued", "delivered", "buried"} \ {"delivered"} :
            At(mine, q)' <=> At(mine, q)
      /\ \A f \in Forwards \ {mine} :
            \A q \in {"queued", "delivered", "buried"} :
               At(f, q)' <=> At(f, q)
  BY <1>1, <1>4, <1>5
<1> QED BY <1>1, <1>2, <1>3, <1>5, <1>6, HandsOver

-----------------------------------------------------------------------------
(* The clock.  Its jobs keep their identity: aging maps each to itself,    *)
(* later.                                                                  *)
LEMMA ElapseStays ==
    ASSUME TypeInv, Conservation, FiledByRadar', Elapse
    PROVE  Conservation'
<1> DEFINE D == {j.notBefore : j \in Waiting}
<1>1. /\ planned' = {Aged(j, D) : j \in planned}
      /\ \A r \in Radars : ready'[r] = {Aged(j, D) : j \in ready[r]}
      /\ \A w \in Workers :
            hand'[w] = IF w \in Requeuing THEN Aged(hand[w], D) ELSE hand[w]
      /\ UNCHANGED <<next, buried, pc, cause, journaled>>
  BY DEF Elapse, BrokerElapse
<1>2. \A j \in planned : Aged(j, D).fwd = j.fwd
  BY AgedKeeps, TypeInvParts
<1>3. \A r \in Radars : \A j \in ready[r] : Aged(j, D).fwd = j.fwd
  BY AgedKeeps, TypeInvParts DEF BrokerTypeOK
<1>4. \A w \in Workers : hand'[w].fwd = hand[w].fwd
  <2>1. \A w \in Requeuing : hand[w] \in Jobs
    BY BusyHoldsJob, TypeInvParts DEF Requeuing, Busy
  <2>2. \A w \in Requeuing : Aged(hand[w], D).fwd = hand[w].fwd
    BY <2>1, AgedKeeps
  <2> HIDE DEF D
  <2> QED BY <1>1, <2>2
<1> HIDE DEF D
<1>5. \A v \in Workers : \A f \in Forwards : Holds(v, f)' <=> Holds(v, f)
  BY <1>1, <1>4 DEF Holds, Holding
<1>6. \A f \in Forwards :
         (\E j \in planned' : j.fwd = f) <=> \E j \in planned : j.fwd = f
  BY <1>1, <1>2
<1>7. \A f \in Forwards : Queued(f)' <=> Queued(f)
  BY <1>1, <1>3 DEF Queued
<1>8. ASSUME NEW f \in Forwards
      PROVE  OnePlace(f)'
  <2>1. \A q \in Places : At(f, q)' <=> At(f, q)
    BY <1>1, <1>5, <1>6, <1>7, AtPlaces, AtPlacesNext
       DEF PlacesSpelledOut, Places, Delivered
  <2> QED BY <2>1, Stays DEF Conservation
<1>9. PlannedOnce'
  BY <1>1, <1>2 DEF Conservation, PlannedOnce
<1>10. QueuedOnce'
  BY <1>1, <1>3 DEF Conservation, QueuedOnce
<1>11. HeldOnce'
  BY <1>5 DEF Conservation, HeldOnce
<1> QED BY <1>8, <1>9, <1>10, <1>11 DEF Conservation

LEMMA InitConserved == Init => Conservation
<1> SUFFICES ASSUME Init PROVE Conservation
  OBVIOUS
<1>1. FiledByRadar
  BY InitLeases DEF LeaseInv
<1>2. \A v \in Workers : ~ Holding(v)
  BY DEF Init, Holding
<1>3. PlannedOnce /\ QueuedOnce /\ HeldOnce
  BY <1>2 DEF Init, BrokerInit, PlannedOnce, QueuedOnce, HeldOnce, Holds
<1>4. ASSUME NEW f \in Forwards
      PROVE  OnePlace(f)
  <2>1. f >= next
    BY <1>4, MaxForwardsAssumption DEF Init, FleetInit, Forwards
  <2>2. /\ ~ \E j \in planned : j.fwd = f
        /\ ~ Queued(f)
        /\ ~ \E w \in Workers : Holds(w, f)
        /\ ~ Delivered(f)
        /\ f \notin buried
    BY <1>2 DEF Init, BrokerInit, DlqInit, Queued, Holds, Delivered
  <2>3. \A q \in Places : At(f, q) <=> q = "absent"
    BY <2>1, <2>2, AtPlaces DEF PlacesSpelledOut, Places
  <2> QED BY <2>3 DEF OnePlace, Places
<1> QED BY <1>1, <1>3, <1>4 DEF Conservation

LEMMA NextConserved ==
    TypeInv /\ LeaseInv /\ Conservation /\ [Next]_vars => Conservation'
<1> SUFFICES ASSUME TypeInv, LeaseInv, Conservation, [Next]_vars
             PROVE  Conservation'
  OBVIOUS
<1>a. FiledByRadar'
  BY NextLeases DEF LeaseInv
<1>b. WorkersTypeOK
  BY TypeInvParts
<1>c. UNCHANGED journaled => \A f \in Forwards : Delivered(f)' <=> Delivered(f)
  BY DEF Delivered
<1>d. UNCHANGED <<pc, hand, cause>> =>
         \A v \in Workers : \A f \in Forwards : Holds(v, f)' <=> Holds(v, f)
  BY DEF Holds, Holding
<1>1. ASSUME NEW r \in Radars, PlanForward(r)
      PROVE  Conservation'
  BY <1>a, <1>1, PlanMoves
<1>2. ASSUME NEW r \in Radars, SwitchRadar(r) \/ ReadCircuit(r)
      PROVE  Conservation'
  BY <1>a, <1>c, <1>d, <1>2, AllStay DEF SwitchRadar, SetEnabled, ReadCircuit
<1>3. ASSUME NEW j \in planned, EnqueueForward(j)
      PROVE  Conservation'
  BY <1>a, <1>3, EnqueueMoves
<1>4. ASSUME NEW w \in Workers, LeaseJob(w)
      PROVE  Conservation'
  BY <1>a, <1>4, LeaseMoves
<1>5. ASSUME NEW w \in Workers, LookUp(w)
      PROVE  Conservation'
  <2>1. /\ Busy(w) /\ {"allow", "bury"} \subseteq Steps \ {"idle"}
        /\ "unavailable" \in Causes
    BY <1>5 DEF LookUp, Busy, Steps, Causes
  <2>2. Holding(w)' <=> Holding(w)
    BY <1>b, <1>5 DEF LookUp, Outcome, NextStep, Holding, WorkersTypeOK
  <2>3. \A v \in Workers : \A f \in Forwards : Holds(v, f)' <=> Holds(v, f)
    BY <1>b, <1>5, <2>1, <2>2, HoldsOn DEF LookUp, Outcome
  <2> QED BY <1>a, <1>c, <1>5, <2>3, AllStay DEF LookUp
<1>6. ASSUME NEW w \in Workers, AskBreaker(w)
      PROVE  Conservation'
  <2>1. /\ Busy(w) /\ {"take", "requeue"} \subseteq Steps \ {"idle"}
        /\ "skipped_open" \in Causes /\ SkipDelay \in Int
    BY <1>6, DeliveryAssumption
       DEF AskBreaker, Busy, Steps, Causes, Postponed
  <2>2. Holding(w)' <=> Holding(w)
    BY <1>b, <1>6
       DEF AskBreaker, Postpone, Outcome, NextStep, Holding, WorkersTypeOK
  <2>3. \A v \in Workers : \A f \in Forwards : Holds(v, f)' <=> Holds(v, f)
    BY <1>b, <1>6, <2>1, <2>2, HoldsOn DEF AskBreaker, Postpone, Outcome
  <2> QED BY <1>a, <1>c, <1>6, <2>3, AllStay DEF AskBreaker
<1>7. ASSUME NEW w \in Workers, TakeToken(w)
      PROVE  Conservation'
  <2>1. /\ Busy(w) /\ {"posting", "requeue"} \subseteq Steps \ {"idle"}
        /\ "rate_delayed" \in Causes
    BY <1>7 DEF TakeToken, Busy, Steps, Causes, Postponed
  <2>2. Wait(hand[w].radar) \in Int
    BY <1>b, <2>1, BusyHoldsJob, WaitType, TypeInvParts
  <2>3. Holding(w)' <=> Holding(w)
    BY <1>b, <1>7
       DEF TakeToken, Postpone, Outcome, NextStep, Holding, WorkersTypeOK
  <2>4. \A v \in Workers : \A f \in Forwards : Holds(v, f)' <=> Holds(v, f)
    BY <1>b, <1>7, <2>1, <2>2, <2>3, HoldsOn DEF TakeToken, Postpone, Outcome
  <2> QED BY <1>a, <1>c, <1>7, <2>4, AllStay DEF TakeToken
<1>8. ASSUME NEW w \in Workers, NEW v \in Verdicts, PostReturns(w, v)
      PROVE  Conservation'
  <2>1. CASE v = "success"
    BY <1>a, <1>8, <2>1, SuccessMoves
  <2>2. CASE v # "success"
    <3>1. Busy(w) /\ "report" \in Steps \ {"idle"} /\ v \in Causes
      BY <1>8 DEF PostReturns, Busy, Steps, Causes
    <3>2. Holding(w)' <=> Holding(w)
      BY <1>b, <1>8, <2>2
         DEF PostReturns, Outcome, NextStep, Holding, WorkersTypeOK
    <3>3. \A u \in Workers : \A f \in Forwards : Holds(u, f)' <=> Holds(u, f)
      BY <1>b, <1>8, <3>1, <3>2, HoldsOn DEF PostReturns, Outcome
    <3>4. \A f \in Forwards : Delivered(f)' <=> Delivered(f)
      BY <1>8, <2>2, TypeInvParts DEF PostReturns, Note, Delivered
    <3> QED BY <1>a, <1>8, <3>3, <3>4, AllStay DEF PostReturns
  <2> QED BY <2>1, <2>2
<1>9. ASSUME NEW w \in Workers, Report(w)
      PROVE  Conservation'
  <2>1. /\ Busy(w)
        /\ {"release", "bury", "requeue"} \subseteq Steps \ {"idle"}
        /\ {"exhausted", "retryable"} \subseteq Causes
        /\ \A t \in Delays(hand[w].attempt) : t \in Int
    BY <1>9, DeliveryAssumption
       DEF Report, Busy, Steps, Causes, Verdicts, Delays
  <2>2. Holding(w)' <=> Holding(w)
    BY <1>b, <1>9
       DEF Report, Postpone, Outcome, NextStep, Holding, WorkersTypeOK
  <2>3. /\ \E step \in {"release", "bury", "requeue"} : NextStep(w, step)
        /\ \/ UNCHANGED hand
           \/ \E t \in Int : hand' = [hand EXCEPT ![w].notBefore = t]
        /\ \/ UNCHANGED cause
           \/ \E why \in Causes : cause' = [cause EXCEPT ![w] = why]
    BY <1>9, <2>1 DEF Report, Postpone, Outcome
  <2>4. \A v \in Workers : \A f \in Forwards : Holds(v, f)' <=> Holds(v, f)
    BY <1>b, <2>1, <2>2, <2>3, HoldsOn
  <2> QED BY <1>a, <1>c, <1>9, <2>4, AllStay DEF Report
<1>10. ASSUME NEW w \in Workers, Requeue(w)
       PROVE  Conservation'
  BY <1>a, <1>10, RequeueMoves
<1>11. ASSUME NEW w \in Workers, Bury(w)
       PROVE  Conservation'
  BY <1>a, <1>11, BuryMoves
<1>12. ASSUME NEW w \in Workers, Finish(w)
       PROVE  Conservation'
  <2>1. /\ ~ Holding(w) /\ ~ Holding(w)'
        /\ \A v \in Workers \ {w} :
              (Holding(v)' <=> Holding(v)) /\ hand'[v] = hand[v]
    BY <1>b, <1>12 DEF Finish, Outcome, NextStep, Holding, WorkersTypeOK
  <2>2. \A v \in Workers : \A f \in Forwards : Holds(v, f)' <=> Holds(v, f)
    BY <2>1 DEF Holds
  <2>3. "success" \notin TrailingNote(cause[w])
    BY DEF TrailingNote
  <2>4. \A f \in Forwards : Delivered(f)' <=> Delivered(f)
    BY <1>12, <2>3, TypeInvParts DEF Finish, Delivered
  <2> QED BY <1>a, <1>12, <2>2, <2>4, AllStay DEF Finish, Release
<1>13. ASSUME Elapse
       PROVE  Conservation'
  BY <1>a, <1>13, ElapseStays
<1>14. ASSUME UNCHANGED vars
       PROVE  Conservation'
  BY <1>a, <1>c, <1>d, <1>14, AllStay DEF vars
<1> QED BY <1>1, <1>2, <1>3, <1>4, <1>5, <1>6, <1>7, <1>8, <1>9, <1>10,
           <1>11, <1>12, <1>13, <1>14 DEF Next, Worker, Handle

(* No forward is lost, duplicated or posted by two workers at a time.      *)
THEOREM ConservationHolds == Spec => []Conservation
<1>1. Init => TypeInv /\ LeaseInv /\ Conservation
  BY InitTyped, InitLeases, InitConserved
<1>2. TypeInv /\ LeaseInv /\ Conservation /\ [Next]_vars
         => (TypeInv /\ LeaseInv /\ Conservation)'
  BY NextTyped, NextLeases, NextConserved
<1> QED BY <1>1, <1>2, PTL DEF Spec

-----------------------------------------------------------------------------
Sound == TypeInv /\ LeaseInv /\ Conservation

LEMMA InitSound == Init => Sound
BY InitTyped, InitLeases, InitConserved DEF Sound

LEMMA NextSound == Sound /\ [Next]_vars => Sound'
BY NextTyped, NextLeases, NextConserved DEF Sound

(* A worker's step leaves the registers of the others alone.               *)
Others(w) ==
    \A v \in Workers \ {w} :
        pc'[v] = pc[v] /\ hand'[v] = hand[v] /\ cause'[v] = cause[v]

LEMMA OthersWait ==
    ASSUME WorkersTypeOK, NEW w \in Workers, Worker(w)
    PROVE  Others(w)
<1>1. CASE LeaseJob(w)
  BY <1>1 DEF LeaseJob, NextStep, Others, WorkersTypeOK
<1>2. CASE LookUp(w)
  BY <1>2 DEF LookUp, Outcome, NextStep, Others, WorkersTypeOK
<1>3. CASE AskBreaker(w)
  BY <1>3 DEF AskBreaker, Postpone, Outcome, NextStep, Others, WorkersTypeOK
<1>4. CASE TakeToken(w)
  BY <1>4 DEF TakeToken, Postpone, Outcome, NextStep, Others, WorkersTypeOK
<1>5. ASSUME NEW v \in Verdicts, PostReturns(w, v)
      PROVE  Others(w)
  BY <1>5 DEF PostReturns, Outcome, NextStep, Others, WorkersTypeOK
<1>6. CASE Report(w)
  BY <1>6 DEF Report, Postpone, Outcome, NextStep, Others, WorkersTypeOK
<1>7. CASE Requeue(w)
  BY <1>7 DEF Requeue, NextStep, Others, WorkersTypeOK
<1>8. CASE Bury(w)
  BY <1>8 DEF Bury, NextStep, Others, WorkersTypeOK
<1>9. CASE Finish(w)
  BY <1>9 DEF Finish, Outcome, NextStep, Others, WorkersTypeOK
<1> QED BY <1>1, <1>2, <1>3, <1>4, <1>5, <1>6, <1>7, <1>8, <1>9
        DEF Worker, Handle

(* Steps that are nobody's: of handlers, operators and the clock.          *)
Outside ==
    \/ \E r \in Radars : PlanForward(r) \/ SwitchRadar(r) \/ ReadCircuit(r)
    \/ \E j \in planned : EnqueueForward(j)
    \/ Elapse
    \/ UNCHANGED vars

LEMMA StepKinds == [Next]_vars => Outside \/ \E w \in Workers : Worker(w)
BY DEF Next, Outside

LEMMA OutsideKeeps ==
    ASSUME Sound, Outside
    PROVE  /\ UNCHANGED <<pc, cause, journaled, posts, dead, buried>>
           /\ \A w \in Workers :
                 /\ pc[w] # "requeue" => hand'[w] = hand[w]
                 /\ hand'[w].fwd = hand[w].fwd
                 /\ hand'[w].attempt = hand[w].attempt
<1>1. CASE Elapse
  <2> DEFINE D == {j.notBefore : j \in Waiting}
  <2>1. \A w \in Workers :
           hand'[w] = IF w \in Requeuing THEN Aged(hand[w], D) ELSE hand[w]
    BY <1>1 DEF Elapse
  <2>2. \A w \in Requeuing : hand[w] \in Jobs
    BY BusyHoldsJob, TypeInvParts DEF Requeuing, Busy, Sound
  <2>3. \A w \in Requeuing : /\ Aged(hand[w], D).fwd = hand[w].fwd
                             /\ Aged(hand[w], D).attempt = hand[w].attempt
    BY <2>2, AgedKeeps
  <2> HIDE DEF D
  <2> QED BY <1>1, <2>1, <2>3 DEF Elapse, Requeuing
<1>2. ASSUME NEW r \in Radars,
             PlanForward(r) \/ SwitchRadar(r) \/ ReadCircuit(r)
      PROVE  UNCHANGED <<pc, hand, cause, journaled, posts, dead, buried>>
  BY <1>2 DEF PlanForward, SwitchRadar, ReadCircuit
<1>3. ASSUME NEW j \in planned, EnqueueForward(j)
      PROVE  UNCHANGED <<pc, hand, cause, journaled, posts, dead, buried>>
  BY <1>3 DEF EnqueueForward
<1>4. CASE UNCHANGED vars
  BY <1>4 DEF vars
<1> QED BY <1>1, <1>2, <1>3, <1>4 DEF Outside

-----------------------------------------------------------------------------
(* The journal.  A verdict that ends a forward is written before the       *)
(* burial for a terminal answer and after it for the others.               *)

TerminalNoted(w) ==
    pc[w] \in {"report", "requeue", "bury", "release"} /\ cause[w] = "terminal"
        => "terminal" \in journaled[hand[w].fwd]

NoteIsDue(w, f) ==
    /\ pc[w] = "release" /\ hand[w].fwd = f
    /\ cause[w] \in {"unavailable", "exhausted"}

JournalInv ==
    /\ \A w \in Workers : TerminalNoted(w)
    /\ \A f \in buried :
          "terminal" \in journaled[f] \/ \E w \in Workers : NoteIsDue(w, f)

(* The journal forgets no verdict, and a worker that has not written one   *)
(* does not become due by the step of another.                             *)
LEMMA JournalGoesOn ==
    ASSUME JournalInv, NEW w \in Workers, Others(w),
           \A f \in Forwards : journaled[f] \subseteq journaled'[f],
           \A v \in Workers : Busy(v) => hand[v].fwd \in Forwards,
           buried \subseteq Forwards,
           TerminalNoted(w)',
           \A f \in buried' :
              \/ f \in buried /\ (NoteIsDue(w, f) => NoteIsDue(w, f)')
              \/ "terminal" \in journaled'[f]
              \/ NoteIsDue(w, f)'
    PROVE  JournalInv'
<1>1. ASSUME NEW v \in Workers \ {w}
      PROVE  TerminalNoted(v)'
  BY <1>1 DEF Others, JournalInv, TerminalNoted, Busy
<1>2. ASSUME NEW f \in buried'
      PROVE  "terminal" \in journaled'[f] \/ \E v \in Workers : NoteIsDue(v, f)'
  <2>1. CASE f \in buried /\ (NoteIsDue(w, f) => NoteIsDue(w, f)')
    <3>1. CASE "terminal" \in journaled[f]
      BY <2>1, <3>1
    <3>2. ASSUME NEW v \in Workers, NoteIsDue(v, f)
          PROVE  NoteIsDue(v, f)'
      BY <2>1, <3>2 DEF Others, NoteIsDue
    <3> QED BY <2>1, <3>1, <3>2 DEF JournalInv
  <2> QED BY <1>2, <2>1
<1> QED BY <1>1, <1>2 DEF JournalInv

LEMMA JournalNext == Sound /\ JournalInv /\ [Next]_vars => JournalInv'
<1> SUFFICES ASSUME Sound, JournalInv, [Next]_vars
             PROVE  JournalInv'
  OBVIOUS
<1>a. WorkersTypeOK /\ journaled \in [Forwards -> SUBSET Verdicts]
      /\ buried \subseteq Forwards
  BY TypeInvParts DEF Sound, DlqTypeOK
<1>b. \A v \in Workers : Busy(v) => hand[v].fwd \in Forwards
  BY <1>a, BusyHoldsJob
<1>1. CASE Outside
  BY <1>1, OutsideKeeps DEF JournalInv, TerminalNoted, NoteIsDue
<1>2. ASSUME NEW w \in Workers, Worker(w)
      PROVE  JournalInv'
  <2>a. Others(w) /\ TerminalNoted(w)
    BY <1>a, <1>2, OthersWait DEF JournalInv
  <2>b. UNCHANGED journaled =>
          \A f \in Forwards : journaled[f] \subseteq journaled'[f]
    OBVIOUS
  <2> USE JournalGoesOn, <1>a, <1>b, <2>a
  <2>1. CASE LeaseJob(w)
    BY <2>b, <2>1
       DEF LeaseJob, NextStep, TerminalNoted, NoteIsDue, WorkersTypeOK
  <2>2. CASE LookUp(w)
    BY <2>b, <2>2 DEF LookUp, Outcome, NextStep, TerminalNoted, NoteIsDue,
                      WorkersTypeOK
  <2>3. CASE AskBreaker(w)
    BY <2>b, <2>3 DEF AskBreaker, Postpone, Outcome, NextStep, TerminalNoted,
                      NoteIsDue, WorkersTypeOK
  <2>4. CASE TakeToken(w)
    BY <2>b, <2>4 DEF TakeToken, Postpone, Outcome, NextStep, TerminalNoted,
                      NoteIsDue, WorkersTypeOK
  <2>5. ASSUME NEW v \in Verdicts, PostReturns(w, v)
        PROVE  JournalInv'
    <3>1. /\ pc[w] = "posting" /\ pc'[w] = "report" /\ cause'[w] = v
          /\ hand' = hand /\ buried' = buried
          /\ hand[w].fwd \in Forwards
      BY <2>5 DEF PostReturns, Outcome, NextStep, WorkersTypeOK, Busy
    <3>2. journaled' = [journaled EXCEPT ![hand[w].fwd] = @ \union {v}]
      BY <2>5 DEF PostReturns, Note
    <3>3. /\ \A f \in Forwards : journaled[f] \subseteq journaled'[f]
          /\ v \in journaled'[hand[w].fwd]
      BY <3>1, <3>2
    <3>4. TerminalNoted(w)'
      BY <3>1, <3>3 DEF TerminalNoted
    <3>5. \A f \in Forwards : ~ NoteIsDue(w, f)
      BY <3>1 DEF NoteIsDue
    <3> QED BY <3>1, <3>3, <3>4, <3>5
  <2>6. CASE Report(w)
    <3>1. /\ pc[w] = "report" /\ pc'[w] \in {"release", "bury", "requeue"}
          /\ cause'[w] = cause[w] \/ cause'[w] \in {"exhausted", "retryable"}
          /\ UNCHANGED <<journaled, buried>>
      BY <2>6 DEF Report, Postpone, Outcome, NextStep, WorkersTypeOK
    <3>2. hand'[w].fwd = hand[w].fwd
      BY <2>6, BusyHoldsJob
         DEF Report, Postpone, WorkersTypeOK, Busy, Jobs
    <3>3. TerminalNoted(w)'
      BY <3>1, <3>2 DEF TerminalNoted
    <3>4. \A f \in Forwards : ~ NoteIsDue(w, f)
      BY <3>1 DEF NoteIsDue
    <3> QED BY <2>b, <3>1, <3>3, <3>4
  <2>7. CASE Requeue(w)
    BY <2>b, <2>7
       DEF Requeue, NextStep, TerminalNoted, NoteIsDue, WorkersTypeOK
  <2>8. CASE Bury(w)
    <3>1. /\ pc[w] = "bury" /\ pc'[w] = "release"
          /\ UNCHANGED <<hand, cause, journaled>>
          /\ buried' = buried \union {hand[w].fwd}
      BY <2>8 DEF Bury, NextStep, Push, FromJob, WorkersTypeOK
    <3>2. cause[w] \in {"unavailable", "exhausted", "terminal"}
      BY <3>1 DEF WorkersTypeOK, Reasons
    <3> QED BY <2>b, <3>1, <3>2 DEF TerminalNoted, NoteIsDue
  <2>9. CASE Finish(w)
    <3>1. /\ pc[w] = "release" /\ pc'[w] = "idle" /\ buried' = buried
          /\ hand[w].fwd \in Forwards
          /\ journaled' = [journaled EXCEPT ![hand[w].fwd] =
                              @ \union TrailingNote(cause[w])]
      BY <2>9 DEF Finish, Outcome, NextStep, WorkersTypeOK, Busy
    <3>2. \A f \in Forwards : journaled[f] \subseteq journaled'[f]
      BY <3>1
    <3>3. \A f \in Forwards : NoteIsDue(w, f) => "terminal" \in journaled'[f]
      BY <3>1 DEF NoteIsDue, TrailingNote
    <3> QED BY <3>1, <3>2, <3>3 DEF TerminalNoted
  <2> QED BY <1>2, <2>1, <2>2, <2>3, <2>4, <2>5, <2>6, <2>7, <2>8, <2>9
          DEF Worker, Handle
<1> QED BY <1>1, <1>2, StepKinds

(* Every burial can be found in the journal, once its worker is done.      *)
THEOREM BurialsAreJournaled == Spec => []SettledIsJournaled
<1>1. Init => JournalInv
  BY DEF Init, DlqInit, JournalInv, TerminalNoted
<1>2. JournalInv => SettledIsJournaled
  BY DEF JournalInv, NoteIsDue, SettledIsJournaled
<1> QED BY <1>1, <1>2, InitSound, NextSound, JournalNext, PTL DEF Spec

-----------------------------------------------------------------------------
(* Attempts.  Every copy of a forward knows how often it was posted, and   *)
(* what it was taken out for.                                              *)

(* What a worker that is at a step knows of its job's attempts.            *)
Fits(step, why, n) ==
    /\ step \in {"lookup", "allow", "take", "requeue"} => n < MaxAttempts
    /\ step \in {"posting", "report", "bury"} => n <= MaxAttempts
    /\ step \in {"posting", "report"} => n > 0
    /\ step = "bury" => /\ why = "exhausted" => n = MaxAttempts
                        /\ why = "terminal" => n > 0

HandBudget(w) ==
    Holding(w) => /\ hand[w].attempt = posts[hand[w].fwd]
                  /\ Fits(pc[w], cause[w], hand[w].attempt)

DeadBudget(it) ==
    /\ it.fwd \in buried
    /\ it.attempt = posts[it.fwd]
    /\ it.reason = "exhausted" => it.attempt = MaxAttempts
    /\ it.reason = "terminal" => it.attempt > 0

BudgetInv ==
    /\ \A f \in Forwards : posts[f] <= MaxAttempts
    /\ \A f \in Forwards : f >= next => posts[f] = 0
    /\ \A j \in planned : j.attempt = 0 /\ posts[j.fwd] = 0
    /\ \A r \in Radars : \A j \in ready[r] :
          j.attempt = posts[j.fwd] /\ j.attempt < MaxAttempts
    /\ \A w \in Workers : HandBudget(w)
    /\ \A i \in DOMAIN dead : DeadBudget(dead[i])

LEMMA PushElements ==
    ASSUME NEW q \in Seq(Items), NEW it \in Items
    PROVE  \A i \in DOMAIN Capped(Append(q, it)) :
              \/ Capped(Append(q, it))[i] = it
              \/ \E k \in DOMAIN q : Capped(Append(q, it))[i] = q[k]
<1> DEFINE a == Append(q, it)
<1>1. /\ a \in Seq(Items) /\ Len(a) = Len(q) + 1 /\ Len(q) \in Nat
      /\ \A k \in 1 .. Len(a) : a[k] = it \/ (k \in DOMAIN q /\ a[k] = q[k])
  BY AppendProperties, LenProperties
<1> HIDE DEF a
<1>2. CASE ~ (Len(a) > DlqMax)
  <2>1. Capped(a) = a /\ DOMAIN a = 1 .. Len(a)
    BY <1>1, <1>2, LenProperties DEF Capped
  <2> QED BY <1>1, <2>1 DEF a
<1>3. CASE Len(a) > DlqMax
  <2> DEFINE m == Len(a) - DlqMax + 1
  <2>1. m \in 1 .. Len(a) /\ m \in Int /\ Len(a) \in Int
    BY <1>1, <1>3, DlqAssumption
  <2>2. Capped(a) = SubSeq(a, m, Len(a))
    BY <1>3 DEF Capped
  <2>3. /\ DOMAIN SubSeq(a, m, Len(a)) = 1 .. Len(a) - m + 1
        /\ \A i \in 1 .. Len(a) - m + 1 :
              SubSeq(a, m, Len(a))[i] = a[m + i - 1]
    BY <1>1, <2>1
  <2>4. \A i \in 1 .. Len(a) - m + 1 : m + i - 1 \in 1 .. Len(a)
    BY <1>1, <2>1
  <2> HIDE DEF m
  <2> QED BY <1>1, <2>2, <2>3, <2>4 DEF a
<1> QED BY <1>2, <1>3

(* A worker moves and makes no POST.                                       *)
LEMMA BudgetGoesOn ==
    ASSUME BudgetInv, NEW w \in Workers, Others(w),
           UNCHANGED <<posts, next, planned>>,
           \A r \in Radars : \A j \in ready'[r] :
              \/ j \in ready[r]
              \/ j.attempt = posts[j.fwd] /\ j.attempt < MaxAttempts,
           buried \subseteq buried',
           \A i \in DOMAIN dead' :
              (\E k \in DOMAIN dead : dead'[i] = dead[k]) \/ DeadBudget(dead[i])',
           HandBudget(w)'
    PROVE  BudgetInv'
<1>1. ASSUME NEW v \in Workers \ {w}
      PROVE  HandBudget(v)'
  <2>1. /\ pc'[v] = pc[v] /\ cause'[v] = cause[v] /\ hand'[v] = hand[v]
        /\ posts' = posts
    BY DEF Others
  <2>2. HandBudget(v)
    BY DEF BudgetInv
  <2> QED BY <2>1, <2>2 DEF HandBudget, Holding
<1>2. \A i \in DOMAIN dead' : DeadBudget(dead[i])'
  BY DEF BudgetInv, DeadBudget
<1>3. \A r \in Radars : \A j \in ready'[r] :
         j.attempt = posts'[j.fwd] /\ j.attempt < MaxAttempts
  BY DEF BudgetInv
<1> QED BY <1>1, <1>2, <1>3 DEF BudgetInv

(* A worker that starts a POST: the forward it holds is nowhere else.      *)
LEMMA BudgetTake ==
    ASSUME Sound, BudgetInv, NEW w \in Workers, Others(w), TakeToken(w),
           pc'[w] = "posting"
    PROVE  BudgetInv'
<1>a. WorkersTypeOK /\ posts \in [Forwards -> Nat] /\ next \in Int
  BY MaxForwardsAssumption, TypeInvParts DEF Sound, FleetTypeOK
<1>0. /\ hand[w] \in Jobs /\ hand[w].fwd \in Forwards
      /\ hand[w].attempt \in Nat /\ Busy(w) /\ Holds(w, hand[w].fwd)
  BY <1>a, BusyHoldsJob DEF TakeToken, Busy, Holds, Holding
<1> PICK mine \in Forwards : mine = hand[w].fwd
  BY <1>0
<1>1. /\ pc[w] = "take"
      /\ hand' = [hand EXCEPT ![w].attempt = @ + 1]
      /\ posts' = [posts EXCEPT ![mine] = @ + 1]
      /\ UNCHANGED <<next, planned, ready, dead, buried>>
  BY <1>a, <1>0 DEF TakeToken, Postpone, Outcome, NextStep, WorkersTypeOK
<1>2. At(mine, "held") /\ OnePlace(mine)
  BY <1>0, AtPlaces DEF PlacesSpelledOut, Sound, Conservation
<1>3. \A q \in Places \ {"held"} : ~ At(mine, q)
  BY <1>2 DEF OnePlace, Places
<1>4. /\ ~ (mine >= next) /\ mine \notin buried
      /\ \A j \in planned : j.fwd # mine
      /\ \A r \in Radars : \A j \in ready[r] : j.fwd # mine
  BY <1>3, AtPlaces DEF PlacesSpelledOut, Places, Queued
<1>5. \A v \in Workers \ {w} : Holding(v) => hand[v].fwd # mine
  BY <1>0 DEF Sound, Conservation, HeldOnce, Holds
<1>6. /\ posts'[mine] = posts[mine] + 1
      /\ \A f \in Forwards \ {mine} : posts'[f] = posts[f]
  BY <1>a, <1>1
<1>7. /\ hand'[w].attempt = hand[w].attempt + 1 /\ hand'[w].fwd = mine
      /\ hand[w].attempt = posts[mine] /\ hand[w].attempt < MaxAttempts
  BY <1>a, <1>0, <1>1
     DEF WorkersTypeOK, Jobs, BudgetInv, HandBudget, Holding, Fits
<1>8. HandBudget(w)'
  BY <1>0, <1>6, <1>7, DeliveryAssumption DEF HandBudget, Fits
<1>9. ASSUME NEW v \in Workers \ {w}
      PROVE  HandBudget(v)'
  <2>1. Holding(v) => hand[v].fwd \in Forwards
    BY <1>a, BusyHoldsJob DEF Holding, Busy
  <2> QED BY <1>5, <1>6, <2>1 DEF Others, BudgetInv, HandBudget, Holding
<1>10. \A i \in DOMAIN dead : DeadBudget(dead[i])'
  <2>1. \A i \in DOMAIN dead : dead[i].fwd \in Forwards \ {mine}
    BY <1>4, TypeInvParts DEF BudgetInv, DeadBudget, DlqTypeOK, Sound
  <2> QED BY <1>1, <1>6, <2>1 DEF BudgetInv, DeadBudget
<1>11. \A f \in Forwards : posts'[f] <= MaxAttempts
  BY <1>0, <1>6, <1>7, DeliveryAssumption DEF BudgetInv
<1>12. \A f \in Forwards : f >= next' => posts'[f] = 0
  BY <1>1, <1>4, <1>6 DEF BudgetInv
<1>13. \A j \in planned' : j.attempt = 0 /\ posts'[j.fwd] = 0
  <2>1. \A j \in planned : j.fwd \in Forwards
    BY TypeInvParts DEF Sound, Jobs
  <2> QED BY <1>1, <1>4, <1>6, <2>1 DEF BudgetInv
<1>14. \A r \in Radars : \A j \in ready'[r] :
          j.attempt = posts'[j.fwd] /\ j.attempt < MaxAttempts
  <2>1. \A r \in Radars : \A j \in ready[r] : j.fwd \in Forwards
    BY TypeInvParts DEF Sound, BrokerTypeOK, Jobs
  <2> QED BY <1>1, <1>4, <1>6, <2>1 DEF BudgetInv
<1> QED BY <1>1, <1>8, <1>9, <1>10, <1>11, <1>12, <1>13, <1>14 DEF BudgetInv

LEMMA BudgetOutside ==
    ASSUME Sound, BudgetInv, Outside
    PROVE  BudgetInv'
<1>a. UNCHANGED <<pc, cause, posts, dead, buried>>
  BY OutsideKeeps
<1>b. \A w \in Workers : HandBudget(w)'
  BY OutsideKeeps DEF BudgetInv, HandBudget, Holding
<1>1. ASSUME NEW r \in Radars, PlanForward(r)
      PROVE  BudgetInv'
  <2>1. /\ next \in Forwards /\ next' = next + 1 /\ UNCHANGED ready
        /\ planned' = planned \union {NewJob(next, r)}
    BY <1>1, MaxForwardsAssumption, TypeInvParts
       DEF PlanForward, Sound, FleetTypeOK, Forwards
  <2>2. posts[next] = 0
    BY <2>1, MaxForwardsAssumption DEF BudgetInv, Forwards
  <2>3. \A f \in Forwards : f >= next' => f >= next
    BY <2>1, MaxForwardsAssumption DEF Forwards
  <2>4. \A j \in planned' : j.attempt = 0 /\ posts'[j.fwd] = 0
    BY <1>a, <2>1, <2>2 DEF BudgetInv, NewJob
  <2> QED BY <1>a, <1>b, <2>1, <2>3, <2>4 DEF BudgetInv, DeadBudget
<1>2. ASSUME NEW r \in Radars, SwitchRadar(r) \/ ReadCircuit(r)
      PROVE  BudgetInv'
  BY <1>a, <1>b, <1>2
     DEF SwitchRadar, SetEnabled, ReadCircuit, BudgetInv, DeadBudget
<1>3. ASSUME NEW j \in planned, EnqueueForward(j)
      PROVE  BudgetInv'
  <2>1. /\ j \in Jobs /\ next' = next /\ planned' \subseteq planned
        /\ \A r \in Radars : \A k \in ready'[r] : k \in ready[r] \/ k = j
    BY <1>3, TypeInvParts DEF EnqueueForward, Enqueue, Sound, BrokerTypeOK
  <2>2. j.attempt = posts[j.fwd] /\ j.attempt < MaxAttempts
    BY <1>3, DeliveryAssumption DEF BudgetInv
  <2> QED BY <1>a, <1>b, <2>1, <2>2 DEF BudgetInv, DeadBudget
<1>4. CASE Elapse
  <2> DEFINE D == {j.notBefore : j \in Waiting}
  <2>1. /\ planned' = {Aged(j, D) : j \in planned}
        /\ \A r \in Radars : ready'[r] = {Aged(j, D) : j \in ready[r]}
        /\ next' = next
    BY <1>4 DEF Elapse, BrokerElapse
  <2>2. /\ \A j \in planned : /\ Aged(j, D).fwd = j.fwd
                              /\ Aged(j, D).attempt = j.attempt
        /\ \A r \in Radars : \A j \in ready[r] :
              /\ Aged(j, D).fwd = j.fwd
              /\ Aged(j, D).attempt = j.attempt
    BY AgedKeeps, TypeInvParts DEF Sound, BrokerTypeOK
  <2> HIDE DEF D
  <2>3. \A j \in planned' : j.attempt = 0 /\ posts'[j.fwd] = 0
    BY <1>a, <2>1, <2>2 DEF BudgetInv
  <2>4. \A r \in Radars : \A j \in ready'[r] :
           j.attempt = posts'[j.fwd] /\ j.attempt < MaxAttempts
    BY <1>a, <2>1, <2>2 DEF BudgetInv
  <2> QED BY <1>a, <1>b, <2>1, <2>3, <2>4 DEF BudgetInv, DeadBudget
<1>5. CASE UNCHANGED vars
  BY <1>a, <1>b, <1>5 DEF vars, BudgetInv, DeadBudget
<1> QED BY <1>1, <1>2, <1>3, <1>4, <1>5 DEF Outside

LEMMA BudgetNext == Sound /\ BudgetInv /\ [Next]_vars => BudgetInv'
<1> SUFFICES ASSUME Sound, BudgetInv, [Next]_vars
             PROVE  BudgetInv'
  OBVIOUS
<1>a. WorkersTypeOK
  BY TypeInvParts DEF Sound
<1>1. CASE Outside
  BY <1>1, BudgetOutside
<1>2. ASSUME NEW w \in Workers, Worker(w)
      PROVE  BudgetInv'
  <2>a. Others(w) /\ HandBudget(w)
    BY <1>a, <1>2, OthersWait DEF BudgetInv
  <2>b. UNCHANGED dead =>
          \A i \in DOMAIN dead' : \E k \in DOMAIN dead : dead'[i] = dead[k]
    OBVIOUS
  <2>c. /\ hand[w] \in Jobs => hand[w].attempt \in Nat
        /\ Busy(w) => hand[w] \in Jobs
    BY <1>a DEF WorkersTypeOK, Jobs
  <2>1. CASE LeaseJob(w)
    <3>1. PICK j \in Leasable : Lease(j) /\ hand' = [hand EXCEPT ![w] = j]
      BY <2>1 DEF LeaseJob
    <3>2. PICK r \in Radars : j \in ready[r] /\ j \in Jobs
      BY <3>1, LeasableReady, TypeInvParts DEF Sound
    <3>3. /\ pc'[w] = "lookup" /\ hand'[w] = j
          /\ UNCHANGED <<posts, next, planned, dead, buried>>
      BY <1>a, <2>1, <3>1 DEF LeaseJob, NextStep, WorkersTypeOK
    <3>4. HandBudget(w)'
      BY <3>2, <3>3 DEF BudgetInv, HandBudget, Fits
    <3>5. \A q \in Radars : ready'[q] \subseteq ready[q]
      BY <3>1, TypeInvParts DEF Lease, Sound, BrokerTypeOK
    <3> QED BY <2>a, <2>b, <3>3, <3>4, <3>5, BudgetGoesOn
  <2>2. CASE LookUp(w)
    <3>1. /\ pc[w] = "lookup"
          /\ \/ pc'[w] = "allow" /\ cause' = cause
             \/ pc'[w] = "bury" /\ cause'[w] = "unavailable"
          /\ UNCHANGED <<hand, posts, next, planned, ready, dead, buried>>
          /\ hand[w].attempt \in Nat
      BY <1>a, <2>2, <2>c DEF LookUp, Outcome, NextStep, WorkersTypeOK, Busy
    <3>2. HandBudget(w)'
      BY <2>a, <3>1, DeliveryAssumption DEF HandBudget, Holding, Fits
    <3> QED BY <2>a, <2>b, <3>1, <3>2, BudgetGoesOn
  <2>3. CASE AskBreaker(w)
    <3>1. /\ pc[w] = "allow" /\ pc'[w] \in {"take", "requeue"}
          /\ hand'[w].fwd = hand[w].fwd
          /\ hand'[w].attempt = hand[w].attempt
          /\ UNCHANGED <<posts, next, planned, ready, dead, buried>>
      BY <1>a, <2>3, <2>c
         DEF AskBreaker, Postpone, Outcome, NextStep, WorkersTypeOK, Jobs, Busy
    <3>2. HandBudget(w)'
      BY <2>a, <3>1 DEF HandBudget, Holding, Fits
    <3> QED BY <2>a, <2>b, <3>1, <3>2, BudgetGoesOn
  <2>4. CASE TakeToken(w)
    <3>1. CASE pc'[w] = "posting"
      BY <2>a, <2>4, <3>1, BudgetTake
    <3>2. CASE pc'[w] # "posting"
      <4>1. /\ pc[w] = "take" /\ pc'[w] = "requeue"
            /\ hand'[w].fwd = hand[w].fwd
            /\ hand'[w].attempt = hand[w].attempt
            /\ UNCHANGED <<posts, next, planned, ready, dead, buried>>
        BY <1>a, <2>4, <2>c, <3>2
           DEF TakeToken, Postpone, Outcome, NextStep, WorkersTypeOK, Jobs,
               Busy
      <4>2. HandBudget(w)'
        BY <2>a, <4>1 DEF HandBudget, Holding, Fits
      <4> QED BY <2>a, <2>b, <4>1, <4>2, BudgetGoesOn
    <3> QED BY <3>1, <3>2
  <2>5. ASSUME NEW v \in Verdicts, PostReturns(w, v)
        PROVE  BudgetInv'
    <3>1. /\ pc[w] = "posting" /\ pc'[w] = "report"
          /\ UNCHANGED <<hand, posts, next, planned, ready, dead, buried>>
      BY <1>a, <2>5 DEF PostReturns, Outcome, NextStep, WorkersTypeOK
    <3>2. HandBudget(w)'
      BY <2>a, <3>1 DEF HandBudget, Holding, Fits
    <3> QED BY <2>a, <2>b, <3>1, <3>2, BudgetGoesOn
  <2>6. CASE Report(w)
    <3>1. /\ pc[w] = "report"
          /\ \/ pc'[w] = "release"
             \/ /\ pc'[w] = "bury" /\ cause'[w] = "exhausted"
                /\ hand[w].attempt >= MaxAttempts /\ cause[w] = "retryable"
             \/ /\ pc'[w] = "bury" /\ cause'[w] = "terminal"
                /\ cause[w] = "terminal"
             \/ /\ pc'[w] = "requeue" /\ cause[w] = "retryable"
                /\ ~ (hand[w].attempt >= MaxAttempts)
          /\ UNCHANGED <<posts, next, planned, ready, dead, buried>>
      BY <1>a, <2>6
         DEF Report, Postpone, Outcome, NextStep, WorkersTypeOK, Exhausted
    <3>2. /\ hand'[w].fwd = hand[w].fwd
          /\ hand'[w].attempt = hand[w].attempt
          /\ hand[w].attempt \in Nat
      BY <1>a, <2>6, <2>c DEF Report, Postpone, WorkersTypeOK, Jobs, Busy
    <3>3. HandBudget(w)'
      BY <2>a, <3>1, <3>2, DeliveryAssumption DEF HandBudget, Holding, Fits
    <3> QED BY <2>a, <2>b, <3>1, <3>3, BudgetGoesOn
  <2>7. CASE Requeue(w)
    <3>1. /\ pc[w] = "requeue" /\ pc'[w] = "release"
          /\ UNCHANGED <<posts, next, planned, dead, buried>>
      BY <1>a, <2>7 DEF Requeue, NextStep, WorkersTypeOK
    <3>2. \A r \in Radars : \A j \in ready'[r] : j \in ready[r] \/ j = hand[w]
      BY <2>7, TypeInvParts DEF Requeue, Enqueue, Sound, BrokerTypeOK
    <3>3. hand[w].attempt = posts[hand[w].fwd] /\ hand[w].attempt < MaxAttempts
      BY <2>a, <3>1 DEF HandBudget, Holding, Fits
    <3>4. HandBudget(w)'
      BY <3>1 DEF HandBudget, Holding
    <3> QED BY <2>a, <2>b, <3>1, <3>2, <3>3, <3>4, BudgetGoesOn
  <2>8. CASE Bury(w)
    <3> DEFINE it == FromJob(hand[w], cause[w])
    <3>1. /\ pc[w] = "bury" /\ pc'[w] = "release"
          /\ UNCHANGED <<posts, next, planned, ready>>
          /\ dead' = Capped(Append(dead, it))
          /\ buried' = buried \union {it.fwd}
      BY <1>a, <2>8 DEF Bury, NextStep, Push, WorkersTypeOK
    <3>2. it \in Items /\ dead \in Seq(Items)
      BY <1>a, <2>c, <3>1, FromJobType, TypeInvParts
         DEF WorkersTypeOK, Busy, Sound, DlqTypeOK
    <3>3. /\ it.fwd = hand[w].fwd /\ it.attempt = hand[w].attempt
          /\ it.reason = cause[w]
      BY DEF FromJob
    <3>4. HandBudget(w)'
      BY <3>1 DEF HandBudget, Holding
    <3>5. /\ it.fwd \in buried'
          /\ it.attempt = posts'[it.fwd]
          /\ it.reason = "exhausted" => it.attempt = MaxAttempts
          /\ it.reason = "terminal" => it.attempt > 0
      BY <2>a, <3>1, <3>3 DEF HandBudget, Holding, Fits
    <3> HIDE DEF it
    <3>6. \A i \in DOMAIN dead' :
             dead'[i] = it \/ \E k \in DOMAIN dead : dead'[i] = dead[k]
      BY <3>1, <3>2, PushElements
    <3>7. \A i \in DOMAIN dead' :
             \/ \E k \in DOMAIN dead : dead'[i] = dead[k]
             \/ DeadBudget(dead[i])'
      BY <3>5, <3>6 DEF DeadBudget
    <3>8. \A r \in Radars : \A j \in ready'[r] : j \in ready[r]
      BY <3>1
    <3> QED BY <2>a, <3>1, <3>4, <3>7, <3>8, BudgetGoesOn
  <2>9. CASE Finish(w)
    <3>1. /\ pc'[w] = "idle"
          /\ UNCHANGED <<posts, next, planned, ready, dead, buried>>
      BY <1>a, <2>9
         DEF Finish, Release, Outcome, NextStep, WorkersTypeOK
    <3>2. HandBudget(w)'
      BY <3>1 DEF HandBudget, Holding
    <3> QED BY <2>a, <2>b, <3>1, <3>2, BudgetGoesOn
  <2> QED BY <1>2, <2>1, <2>2, <2>3, <2>4, <2>5, <2>6, <2>7, <2>8, <2>9
          DEF Worker, Handle
<1> QED BY <1>1, <1>2, StepKinds

LEMMA InitBudget == Init => BudgetInv
<1> SUFFICES ASSUME Init PROVE BudgetInv
  OBVIOUS
<1>1. dead = <<>> /\ DOMAIN dead = {}
  BY DEF Init, DlqInit
<1>2. \A w \in Workers : HandBudget(w)
  BY DEF Init, HandBudget, Holding
<1>3. planned = {} /\ \A r \in Radars : ready[r] = {}
  BY DEF Init, BrokerInit
<1>4. \A f \in Forwards : posts[f] = 0
  BY DEF Init
<1> QED BY <1>1, <1>2, <1>3, <1>4, DeliveryAssumption DEF BudgetInv

(* A POST costs one attempt and nothing else does.                         *)
THEOREM AttemptsAreCounted == Spec => []AttemptBudget
<1>1. BudgetInv => AttemptBudget
  BY DEF BudgetInv, HandBudget, DeadBudget, AttemptBudget, Holds
<1> QED BY <1>1, InitSound, NextSound, InitBudget, BudgetNext, PTL DEF Spec

-----------------------------------------------------------------------------
(* Dead letters.  No forward is buried twice, so a letter more is a burial *)
(* more until the queue is full.                                           *)

LettersInv ==
    /\ \A i \in DOMAIN dead : dead[i].fwd \in buried
    /\ \A i, k \in DOMAIN dead : dead[i].fwd = dead[k].fwd => i = k
    /\ Len(dead) = IF Cardinality(buried) < DlqMax
                   THEN Cardinality(buried) ELSE DlqMax

LEMMA PushGrows ==
    ASSUME NEW q \in Seq(Items), NEW it \in Items, Len(q) < DlqMax
    PROVE  /\ Len(Capped(Append(q, it))) = Len(q) + 1
           /\ Capped(Append(q, it))[Len(q) + 1] = it
           /\ \A i \in 1 .. Len(q) : Capped(Append(q, it))[i] = q[i]
<1> DEFINE a == Append(q, it)
<1>1. /\ Len(a) = Len(q) + 1 /\ Len(q) \in Nat /\ a[Len(q) + 1] = it
      /\ \A i \in 1 .. Len(q) : a[i] = q[i]
  BY AppendProperties, LenProperties
<1>2. Capped(a) = a
  BY <1>1, DlqAssumption DEF Capped
<1> QED BY <1>1, <1>2

LEMMA PushShifts ==
    ASSUME NEW q \in Seq(Items), NEW it \in Items, Len(q) = DlqMax
    PROVE  /\ Len(Capped(Append(q, it))) = DlqMax
           /\ Capped(Append(q, it))[DlqMax] = it
           /\ \A i \in 1 .. DlqMax - 1 : Capped(Append(q, it))[i] = q[i + 1]
<1> DEFINE a == Append(q, it)
<1>1. /\ a \in Seq(Items) /\ Len(a) = DlqMax + 1 /\ a[DlqMax + 1] = it
      /\ \A i \in 1 .. DlqMax : a[i] = q[i]
  BY AppendProperties, LenProperties
<1>2. Len(a) > DlqMax /\ Len(a) - DlqMax + 1 = 2
  BY <1>1, DlqAssumption
<1> HIDE DEF a
<1>3. Capped(a) = SubSeq(a, 2, DlqMax + 1)
  BY <1>1, <1>2 DEF Capped
<1>4. /\ Len(Capped(a)) = DlqMax
      /\ \A i \in 1 .. DlqMax : Capped(a)[i] = a[i + 1]
  BY <1>1, <1>3, DlqAssumption
<1>5. /\ DlqMax \in 1 .. DlqMax
      /\ \A i \in 1 .. DlqMax - 1 : i \in 1 .. DlqMax /\ i + 1 \in 1 .. DlqMax
  BY DlqAssumption
<1> QED BY <1>1, <1>4, <1>5 DEF a

LEMMA BuriedFinite ==
    ASSUME TypeInv
    PROVE  IsFiniteSet(buried) /\ Cardinality(buried) \in Nat
<1>1. IsFiniteSet(Forwards)
  BY FS_Interval, MaxForwardsAssumption DEF Forwards
<1> QED BY <1>1, FS_Subset, FS_CardinalityType, TypeInvParts DEF DlqTypeOK

(* Only a burial touches the queue.                                        *)
LEMMA OnlyBurials ==
    ASSUME Sound, [Next]_vars
    PROVE  UNCHANGED <<dead, buried>> \/ \E w \in Workers : Bury(w)
<1>1. Outside => UNCHANGED <<dead, buried>>
  BY OutsideKeeps
<1>2. ASSUME NEW w \in Workers, Worker(w), ~ Bury(w)
      PROVE  UNCHANGED <<dead, buried>>
  BY <1>2 DEF Worker, Handle, LeaseJob, LookUp, AskBreaker, TakeToken,
              PostReturns, Report, Requeue, Finish
<1> QED BY <1>1, <1>2, StepKinds

(* What a burial does, when its queue holds each forward once.             *)
BurialOf(mine) ==
    /\ mine \notin buried
    /\ buried' = buried \union {mine}
    /\ \/ /\ Len(dead) < DlqMax
          /\ Len(dead') = Len(dead) + 1 /\ dead'[Len(dead) + 1].fwd = mine
          /\ \A i \in 1 .. Len(dead) : dead'[i] = dead[i]
       \/ /\ Len(dead) = DlqMax
          /\ Len(dead') = DlqMax /\ dead'[DlqMax].fwd = mine
          /\ \A i \in 1 .. DlqMax - 1 : dead'[i] = dead[i + 1]

LEMMA BuryBuries ==
    ASSUME Sound, LettersInv, NEW w \in Workers, Bury(w)
    PROVE  hand[w].fwd \in Forwards /\ BurialOf(hand[w].fwd)
<1> DEFINE it == FromJob(hand[w], cause[w])
<1>a. WorkersTypeOK /\ dead \in Seq(Items) /\ Len(dead) \in Nat
  BY TypeInvParts DEF Sound, DlqTypeOK
<1>1. /\ pc[w] = "bury" /\ hand[w] \in Jobs /\ hand[w].fwd \in Forwards
      /\ cause[w] \in Reasons
  BY <1>a, BusyHoldsJob DEF Bury, Busy, WorkersTypeOK
<1>2. /\ dead' = Capped(Append(dead, it))
      /\ buried' = buried \union {hand[w].fwd}
      /\ it.fwd = hand[w].fwd
  BY DEF Bury, Push, FromJob
<1>3. it \in Items
  BY <1>1, FromJobType
<1>4. hand[w].fwd \notin buried
  <2>1. At(hand[w].fwd, "held") /\ OnePlace(hand[w].fwd)
    BY <1>1, AtPlaces DEF PlacesSpelledOut, Sound, Conservation, Holds, Holding
  <2> QED BY <1>1, <2>1, AtPlaces DEF PlacesSpelledOut, OnePlace, Places
<1>5. Len(dead) <= DlqMax
  BY BuriedFinite, DlqAssumption DEF LettersInv, Sound
<1> HIDE DEF it
<1>6. CASE Len(dead) < DlqMax
  BY <1>a, <1>1, <1>2, <1>3, <1>4, <1>6, PushGrows DEF BurialOf
<1>7. CASE Len(dead) = DlqMax
  BY <1>a, <1>1, <1>2, <1>3, <1>4, <1>7, PushShifts DEF BurialOf
<1> QED BY <1>a, <1>5, <1>6, <1>7, DlqAssumption

LEMMA LettersNext == Sound /\ LettersInv /\ [Next]_vars => LettersInv'
<1> SUFFICES ASSUME Sound, LettersInv, [Next]_vars
             PROVE  LettersInv'
  OBVIOUS
<1>1. CASE UNCHANGED <<dead, buried>>
  BY <1>1 DEF LettersInv
<1>2. ASSUME NEW w \in Workers, Bury(w)
      PROVE  LettersInv'
  <2> DEFINE mine == hand[w].fwd
  <2>1. BurialOf(mine)
    BY <1>2, BuryBuries
  <2> HIDE DEF mine
  <2>2. dead \in Seq(Items) /\ dead' \in Seq(Items) /\ Len(dead) \in Nat
    BY NextTyped, TypeInvParts DEF Sound, DlqTypeOK, TypeInv, TypeOK
  <2>3. DOMAIN dead = 1 .. Len(dead) /\ DOMAIN dead' = 1 .. Len(dead')
    BY <2>2, LenProperties
  <2>4. /\ Cardinality(buried) \in Nat
        /\ Cardinality(buried') = Cardinality(buried) + 1
    BY <2>1, BuriedFinite, FS_AddElement DEF BurialOf, Sound
  <2>5. Len(dead') = IF Cardinality(buried') < DlqMax
                     THEN Cardinality(buried') ELSE DlqMax
    BY <2>1, <2>2, <2>4, DlqAssumption DEF BurialOf, LettersInv
  <2>6. CASE Len(dead) < DlqMax
    <3>1. /\ Len(dead') = Len(dead) + 1 /\ dead'[Len(dead) + 1].fwd = mine
          /\ \A i \in 1 .. Len(dead) : dead'[i] = dead[i]
          /\ mine \notin buried /\ buried' = buried \union {mine}
      BY <2>1, <2>2, <2>6, DlqAssumption DEF BurialOf
    <3>2. \A i \in 1 .. Len(dead') : i = Len(dead) + 1 \/ i \in 1 .. Len(dead)
      BY <2>2, <3>1
    <3> QED BY <2>3, <2>5, <3>1, <3>2 DEF LettersInv
  <2>7. CASE Len(dead) = DlqMax
    <3>1. /\ Len(dead') = DlqMax /\ dead'[DlqMax].fwd = mine
          /\ \A i \in 1 .. DlqMax - 1 : dead'[i] = dead[i + 1]
          /\ mine \notin buried /\ buried' = buried \union {mine}
      BY <2>1, <2>2, <2>7, DlqAssumption DEF BurialOf
    <3>2. \A i \in 1 .. DlqMax : i = DlqMax \/ i \in 1 .. DlqMax - 1
      BY DlqAssumption
    <3>3. \A i \in 1 .. DlqMax - 1 : i + 1 \in 1 .. DlqMax
      BY DlqAssumption
    <3>4. \A i \in 1 .. DlqMax - 1 : dead'[i].fwd \in buried
      BY <2>3, <2>7, <3>1, <3>3 DEF LettersInv
    <3>5. \A i, k \in 1 .. DlqMax - 1 :
             dead'[i].fwd = dead'[k].fwd => i = k
      <4> SUFFICES ASSUME NEW i \in 1 .. DlqMax - 1, NEW k \in 1 .. DlqMax - 1,
                          dead[i + 1].fwd = dead[k + 1].fwd
                   PROVE  i = k
        BY <3>1
      <4>1. i + 1 = k + 1
        BY <2>3, <2>7, <3>3 DEF LettersInv
      <4> QED BY <4>1, DlqAssumption
    <3> QED BY <2>3, <2>5, <3>1, <3>2, <3>4, <3>5 DEF LettersInv
  <2> QED BY <2>1, <2>6, <2>7 DEF BurialOf
<1> QED BY <1>1, <1>2, OnlyBurials

LEMMA InitLetters == Init => LettersInv
<1> SUFFICES ASSUME Init PROVE LettersInv
  OBVIOUS
<1>1. dead = <<>> /\ DOMAIN dead = {} /\ Len(dead) = 0 /\ buried = {}
  BY DEF Init, DlqInit
<1> QED BY <1>1, FS_EmptySet, DlqAssumption DEF LettersInv

LEMMA LettersAge ==
    Sound /\ LettersInv /\ [Next]_vars => OldestLetterGoes
<1> SUFFICES ASSUME Sound, LettersInv, [Next]_vars
             PROVE  OldestLetterGoes
  OBVIOUS
<1>1. /\ dead \in Seq(Items) /\ Len(dead) \in Nat
      /\ DOMAIN dead = 1 .. Len(dead)
      /\ dead' \in Seq(Items) /\ DOMAIN dead' = 1 .. Len(dead')
  BY NextTyped, TypeInvParts, LenProperties DEF Sound, DlqTypeOK, TypeInv, TypeOK
<1>2. Len(dead) <= DlqMax
  BY BuriedFinite, DlqAssumption DEF LettersInv, Sound
<1>a. Len(dead) \in Nat /\ DlqMax \in Nat
  BY <1>1, DlqAssumption
<1>b. Len(dead) < DlqMax \/ Len(dead) = DlqMax
  BY <1>2, <1>a
<1>3. CASE UNCHANGED <<dead, buried>>
  BY <1>1, <1>2, <1>3 DEF OldestLetterGoes
<1>4. ASSUME NEW w \in Workers, Bury(w)
      PROVE  OldestLetterGoes
  <2> DEFINE mine == hand[w].fwd
  <2>1. BurialOf(mine)
    BY <1>4, BuryBuries
  <2> HIDE DEF mine
  <2>2. buried' \ buried = {mine} /\ buried' # buried
    BY <2>1 DEF BurialOf
  <2>3. CASE Len(dead) < DlqMax
    <3>1. /\ Len(dead') = Len(dead) + 1 /\ dead'[Len(dead) + 1].fwd = mine
          /\ \A i \in 1 .. Len(dead) : dead'[i] = dead[i]
      <4>1. Len(dead) # DlqMax
        BY <1>a, <2>3
      <4> QED BY <2>1, <4>1 DEF BurialOf
    <3>2. Len(dead') <= DlqMax
      BY <1>1, <2>3, <3>1, DlqAssumption
    <3>3. dead' # <<>> /\ dead'[Len(dead')].fwd = mine
      BY <1>1, <3>1
    <3>4. \A i \in DOMAIN dead : i \in {i - 1, i} \intersect DOMAIN dead'
      BY <1>1, <3>1
    <3> QED BY <1>1, <2>2, <3>1, <3>2, <3>3, <3>4 DEF OldestLetterGoes
  <2>4. CASE Len(dead) = DlqMax
    <3>1. /\ Len(dead') = DlqMax /\ dead'[DlqMax].fwd = mine
          /\ \A i \in 1 .. DlqMax - 1 : dead'[i] = dead[i + 1]
      <4>1. ~ (Len(dead) < DlqMax)
        BY <1>a, <2>4
      <4> QED BY <2>1, <4>1 DEF BurialOf
    <3>2. dead' # <<>> /\ dead'[Len(dead')].fwd = mine
      BY <1>1, <3>1, DlqAssumption
    <3>3. ASSUME NEW i \in DOMAIN dead, i # 1
          PROVE  \E k \in {i - 1, i} \intersect DOMAIN dead' : dead'[k] = dead[i]
      <4>1. i - 1 \in 1 .. DlqMax - 1 /\ (i - 1) + 1 = i
        BY <1>1, <2>4, <3>3, DlqAssumption
      <4>2. i - 1 \in {i - 1, i} \intersect DOMAIN dead'
        BY <1>1, <3>1, <4>1, DlqAssumption
      <4>3. dead'[i - 1] = dead[i]
        BY <3>1, <4>1
      <4> QED BY <4>2, <4>3
    <3>4. Len(dead') <= DlqMax
      BY <3>1, DlqAssumption
    <3> QED BY <2>2, <2>4, <3>2, <3>3, <3>4 DEF OldestLetterGoes
  <2> QED BY <1>b, <2>3, <2>4
<1> QED BY <1>3, <1>4, OnlyBurials

(* A letter leaves the dead-letter queue only as the oldest of a full one, *)
(* whichever worker buries the forward that comes in its place.            *)
THEOREM LettersAreKept == Spec => DlqForgetsTheOldest
<1> QED BY InitSound, NextSound, InitLetters, LettersNext, LettersAge, PTL
        DEF Spec, DlqForgetsTheOldest

-----------------------------------------------------------------------------
(* The steps of the engine as moves: a step leaves every forward at its    *)
(* place, or takes one from a place to another.  Being at one place before *)
(* and after, a forward is moved by showing where it is found.             *)

Keeps(f) == \A q \in Places : At(f, q)' <=> At(f, q)

AllKeep == \A f \in Forwards : Keeps(f)

Moving(f, from, to) ==
    /\ f \in Forwards
    /\ At(f, from)
    /\ At(f, to)'
    /\ \A g \in Forwards \ {f} : Keeps(g)

LEMMA Carried ==
    ASSUME Sound, Sound', NEW f \in Forwards,
           f >= next => f >= next',
           (\E j \in planned : j.fwd = f) => \E j \in planned' : j.fwd = f,
           Queued(f) => Queued(f)',
           \A w \in Workers : Holds(w, f) => Holds(w, f)',
           Delivered(f) => Delivered(f)',
           f \in buried => f \in buried'
    PROVE  Keeps(f)
<1>1. PICK p \in Places : \A q \in Places : At(f, q) <=> q = p
  BY DEF Sound, Conservation, OnePlace
<1>2. At(f, p)'
  BY <1>1, AtPlaces, AtPlacesNext DEF PlacesSpelledOut, Places
<1>3. PICK r \in Places : \A q \in Places : At(f, q)' <=> q = r
  BY DEF Sound, Conservation, OnePlace
<1> QED BY <1>1, <1>2, <1>3 DEF Keeps

(* A worker's step, for a forward that it does not let go of.              *)
LEMMA CarriedBy ==
    ASSUME Sound, Sound', NEW w \in Workers, Others(w),
           UNCHANGED <<next, planned>>, NEW f \in Forwards,
           Queued(f) => Queued(f)',
           Holds(w, f) => Holds(w, f)',
           Delivered(f) => Delivered(f)',
           f \in buried => f \in buried'
    PROVE  Keeps(f)
<1>1. ASSUME NEW v \in Workers, Holds(v, f)
      PROVE  Holds(v, f)'
  BY <1>1 DEF Others, Holds, Holding
<1> QED BY <1>1, Carried

(* The steps in which a worker keeps what it holds.                        *)
Quiet(w) ==
    \/ LookUp(w) \/ AskBreaker(w) \/ TakeToken(w) \/ Report(w) \/ Finish(w)
    \/ \E v \in Verdicts \ {"success"} : PostReturns(w, v)

LEMMA QuietKeeps ==
    ASSUME Sound, NEW w \in Workers, Quiet(w)
    PROVE  /\ UNCHANGED <<next, planned, ready, dead, buried>>
           /\ Holding(w) => Holding(w)' /\ hand'[w].fwd = hand[w].fwd
           /\ \A f \in Forwards : Delivered(f)' <=> Delivered(f)
<1>a. WorkersTypeOK /\ journaled \in [Forwards -> SUBSET Verdicts]
  BY TypeInvParts DEF Sound
<1>b. Busy(w) => hand[w] \in Jobs
  BY <1>a DEF WorkersTypeOK
<1>c. UNCHANGED journaled => \A f \in Forwards : Delivered(f)' <=> Delivered(f)
  BY DEF Delivered
<1>1. CASE LookUp(w)
  BY <1>a, <1>c, <1>1
     DEF LookUp, Outcome, NextStep, Holding, WorkersTypeOK
<1>2. CASE AskBreaker(w)
  BY <1>a, <1>b, <1>c, <1>2
     DEF AskBreaker, Postpone, Outcome, NextStep, Holding, WorkersTypeOK,
         Busy, Jobs
<1>3. CASE TakeToken(w)
  BY <1>a, <1>b, <1>c, <1>3
     DEF TakeToken, Postpone, Outcome, NextStep, Holding, WorkersTypeOK,
         Busy, Jobs
<1>4. CASE Report(w)
  <2>1. /\ UNCHANGED <<next, planned, ready, dead, buried, journaled>>
        /\ hand'[w].fwd = hand[w].fwd
    BY <1>a, <1>b, <1>4 DEF Report, Postpone, WorkersTypeOK, Busy, Jobs
  <2>2. Holding(w) => Holding(w)'
    BY <1>a, <1>4
       DEF Report, Postpone, Outcome, NextStep, Holding, WorkersTypeOK
  <2> QED BY <1>c, <2>1, <2>2
<1>5. CASE Finish(w)
  <2>1. ~ Holding(w) /\ UNCHANGED <<next, planned, ready, dead, buried>>
    BY <1>5 DEF Finish, Release, Holding
  <2>2. "success" \notin TrailingNote(cause[w])
    BY DEF TrailingNote
  <2>3. \A f \in Forwards : Delivered(f)' <=> Delivered(f)
    BY <1>a, <1>5, <2>2 DEF Finish, Delivered
  <2> QED BY <2>1, <2>3
<1>6. ASSUME NEW v \in Verdicts \ {"success"}, PostReturns(w, v)
      PROVE  /\ UNCHANGED <<next, planned, ready, dead, buried, hand>>
             /\ Holding(w)'
             /\ \A f \in Forwards : Delivered(f)' <=> Delivered(f)
  <2>1. \A f \in Forwards : Delivered(f)' <=> Delivered(f)
    BY <1>a, <1>6 DEF PostReturns, Note, Delivered
  <2> QED BY <1>a, <1>6, <2>1
          DEF PostReturns, Outcome, NextStep, Holding, WorkersTypeOK
<1> QED BY <1>1, <1>2, <1>3, <1>4, <1>5, <1>6 DEF Quiet

LEMMA QuietStays ==
    ASSUME Sound, Sound', NEW w \in Workers, Others(w), Quiet(w)
    PROVE  AllKeep
<1> SUFFICES ASSUME NEW f \in Forwards PROVE Keeps(f)
  BY DEF AllKeep
<1>1. Holds(w, f) => Holds(w, f)'
  BY QuietKeeps DEF Holds
<1>2. Queued(f)' <=> Queued(f)
  BY QuietKeeps DEF Queued
<1> QED BY <1>1, <1>2, QuietKeeps, CarriedBy

LEMMA PlanMove ==
    ASSUME Sound, Sound', NEW r \in Radars, PlanForward(r)
    PROVE  /\ next' = next + 1
           /\ \E f \in Forwards : f = next /\ Moving(f, "absent", "planned")
<1>1. /\ next \in Forwards /\ next' = next + 1 /\ next >= next
      /\ planned' = planned \union {NewJob(next, r)}
      /\ UNCHANGED <<ready, buried, pc, hand, cause, journaled>>
  BY MaxForwardsAssumption, TypeInvParts
     DEF PlanForward, Sound, FleetTypeOK, Forwards
<1>2. NewJob(next, r).fwd = next
  BY DEF NewJob
<1> PICK new \in Forwards : new = next
  BY <1>1
<1>3. ASSUME NEW f \in Forwards \ {new}
      PROVE  Keeps(f)
  <2>1. f >= next => f >= next'
    BY <1>1, MaxForwardsAssumption DEF Forwards
  <2>2. /\ Queued(f) => Queued(f)'
        /\ \A w \in Workers : Holds(w, f) => Holds(w, f)'
        /\ Delivered(f) => Delivered(f)'
    BY <1>1 DEF Queued, Holds, Holding, Delivered
  <2> QED BY <1>1, <2>1, <2>2, Carried
<1>4. \E j \in planned' : j.fwd = new
  BY <1>1, <1>2
<1>5. At(new, "absent") /\ At(new, "planned")'
  BY <1>1, <1>4, AtPlaces, AtPlacesNext DEF PlacesSpelledOut
<1> QED BY <1>1, <1>3, <1>5 DEF Moving

LEMMA EnqueueMove ==
    ASSUME Sound, Sound', NEW j \in planned, EnqueueForward(j)
    PROVE  next' = next /\ Moving(j.fwd, "planned", "queued")
<1>1. /\ j \in Jobs /\ j.fwd \in Forwards /\ j.radar \in Radars
      /\ planned' = planned \ {j} /\ j \in ready'[j.radar]
      /\ \A r \in Radars : ready[r] \subseteq ready'[r]
      /\ UNCHANGED <<next, buried, pc, hand, cause, journaled>>
  BY TypeInvParts DEF EnqueueForward, Enqueue, Sound, BrokerTypeOK, Jobs
<1>2. ASSUME NEW f \in Forwards \ {j.fwd}
      PROVE  Keeps(f)
  <2>1. /\ Queued(f) => Queued(f)'
        /\ \A w \in Workers : Holds(w, f) => Holds(w, f)'
        /\ Delivered(f) => Delivered(f)'
    BY <1>1 DEF Queued, Holds, Holding, Delivered
  <2>2. (\E k \in planned : k.fwd = f) => \E k \in planned' : k.fwd = f
    BY <1>1
  <2> QED BY <1>1, <2>1, <2>2, Carried
<1>3. At(j.fwd, "planned") /\ At(j.fwd, "queued")'
  BY <1>1, AtPlaces, AtPlacesNext DEF PlacesSpelledOut, Queued
<1> QED BY <1>1, <1>2, <1>3 DEF Moving

LEMMA ElapseKeeps ==
    ASSUME Sound, Sound', Elapse
    PROVE  next' = next /\ AllKeep
<1> DEFINE D == {j.notBefore : j \in Waiting}
<1>1. /\ planned' = {Aged(j, D) : j \in planned}
      /\ \A r \in Radars : ready'[r] = {Aged(j, D) : j \in ready[r]}
      /\ UNCHANGED <<next, pc, cause, journaled, buried>>
  BY DEF Elapse, BrokerElapse
<1>2. /\ \A j \in planned : Aged(j, D).fwd = j.fwd
      /\ \A r \in Radars : \A j \in ready[r] : Aged(j, D).fwd = j.fwd
  BY AgedKeeps, TypeInvParts DEF Sound, BrokerTypeOK
<1> HIDE DEF D
<1>3. \A w \in Workers : hand'[w].fwd = hand[w].fwd
  BY OutsideKeeps DEF Outside
<1>4. ASSUME NEW f \in Forwards
      PROVE  Keeps(f)
  <2>1. (\E j \in planned : j.fwd = f) => \E j \in planned' : j.fwd = f
    BY <1>1, <1>2
  <2>2. Queued(f) => Queued(f)'
    BY <1>1, <1>2 DEF Queued
  <2>3. \A w \in Workers : Holds(w, f) => Holds(w, f)'
    BY <1>1, <1>3 DEF Holds, Holding
  <2> QED BY <1>1, <2>1, <2>2, <2>3, Carried DEF Delivered
<1> QED BY <1>1, <1>4 DEF AllKeep

LEMMA OutsideMoves ==
    ASSUME Sound, Sound', Outside
    PROVE  \/ next' = next /\ AllKeep
           \/ /\ next' = next + 1
              /\ \E f \in Forwards : f = next /\ Moving(f, "absent", "planned")
           \/ next' = next /\ \E f \in Forwards : Moving(f, "planned", "queued")
<1>1. ASSUME UNCHANGED <<next, planned, ready, buried, pc, hand, cause,
                         journaled>>
      PROVE  AllKeep
  <2> SUFFICES ASSUME NEW f \in Forwards PROVE Keeps(f)
    BY DEF AllKeep
  <2>1. /\ Queued(f) => Queued(f)'
        /\ \A w \in Workers : Holds(w, f) => Holds(w, f)'
        /\ Delivered(f) => Delivered(f)'
    BY <1>1 DEF Queued, Holds, Holding, Delivered
  <2> QED BY <1>1, <2>1, Carried
<1>2. ASSUME NEW r \in Radars, SwitchRadar(r) \/ ReadCircuit(r)
      PROVE  next' = next /\ AllKeep
  BY <1>1, <1>2 DEF SwitchRadar, SetEnabled, ReadCircuit
<1>3. UNCHANGED vars => next' = next /\ AllKeep
  BY <1>1 DEF vars
<1>4. ASSUME NEW j \in planned, EnqueueForward(j)
      PROVE  next' = next /\ \E f \in Forwards : Moving(f, "planned", "queued")
  BY <1>4, EnqueueMove DEF Moving
<1> QED BY <1>2, <1>3, <1>4, PlanMove, ElapseKeeps DEF Outside

LEMMA LeaseMove ==
    ASSUME Sound, Sound', NEW w \in Workers, Others(w), LeaseJob(w)
    PROVE  \E f \in Forwards : Moving(f, "queued", "held")
<1>1. PICK j \in Leasable : Lease(j) /\ hand' = [hand EXCEPT ![w] = j]
  BY DEF LeaseJob
<1>2. PICK r \in Radars : j \in ready[r] /\ j \in Jobs
  BY <1>1, LeasableReady, TypeInvParts DEF Sound
<1>3. /\ j.fwd \in Forwards /\ ~ Holding(w)
      /\ pc'[w] = "lookup" /\ hand'[w] = j
      /\ UNCHANGED <<next, planned, buried, journaled>>
  BY <1>1, <1>2, TypeInvParts
     DEF LeaseJob, NextStep, Sound, WorkersTypeOK, Jobs, Holding
<1>4. \A q \in Radars : \A k \in ready[q] : k \in ready'[q] \/ k = j
  BY <1>1, TypeInvParts DEF Lease, Sound, BrokerTypeOK
<1>5. ASSUME NEW f \in Forwards \ {j.fwd}
      PROVE  Keeps(f)
  <2>1. Queued(f) => Queued(f)'
    BY <1>4 DEF Queued
  <2> QED BY <1>3, <2>1, CarriedBy DEF Holds, Delivered
<1>6. At(j.fwd, "queued") /\ At(j.fwd, "held")'
  BY <1>2, <1>3, AtPlaces, AtPlacesNext
     DEF PlacesSpelledOut, Queued, Holds, Holding
<1> QED BY <1>3, <1>5, <1>6 DEF Moving

(* A worker hands its forward over.                                        *)
LEMMA HandMove ==
    ASSUME Sound, Sound', NEW w \in Workers, Others(w), Holding(w),
           UNCHANGED <<next, planned>>,
           NEW mine \in Forwards, mine = hand[w].fwd,
           \A f \in Forwards : (Queued(f) => Queued(f)')
                               /\ (Delivered(f) => Delivered(f)'),
           buried \subseteq buried',
           NEW to \in Places, At(mine, to)'
    PROVE  Moving(mine, "held", to)
<1>1. \A f \in Forwards \ {mine} : Keeps(f)
  BY CarriedBy DEF Holds
<1>2. At(mine, "held")
  BY AtPlaces DEF PlacesSpelledOut, Holds
<1> QED BY <1>1, <1>2 DEF Moving

LEMMA SuccessMove ==
    ASSUME Sound, Sound', NEW w \in Workers, Others(w),
           NEW mine \in Forwards, mine = hand[w].fwd,
           PostReturns(w, "success")
    PROVE  Moving(mine, "held", "delivered")
<1>1. Holding(w) /\ UNCHANGED <<next, planned, ready, buried>>
  BY DEF PostReturns, Holding
<1>2. /\ \A f \in Forwards : Delivered(f) => Delivered(f)'
      /\ Delivered(mine)'
  BY <1>1, TypeInvParts DEF PostReturns, Note, Delivered, Sound
<1>3. At(mine, "delivered")' /\ "delivered" \in Places
  BY <1>2, AtPlacesNext DEF PlacesSpelledOut, Places
<1>4. \A f \in Forwards : Queued(f) => Queued(f)'
  BY <1>1 DEF Queued
<1> QED BY <1>1, <1>2, <1>3, <1>4, HandMove

LEMMA RequeueMove ==
    ASSUME Sound, Sound', NEW w \in Workers, Others(w),
           NEW mine \in Forwards, mine = hand[w].fwd, Requeue(w)
    PROVE  Moving(mine, "held", "queued")
<1>1. /\ Holding(w) /\ hand[w] \in Jobs
      /\ UNCHANGED <<next, planned, buried, journaled>>
  BY BusyHoldsJob, TypeInvParts DEF Requeue, Sound, Busy, Holding
<1>2. /\ hand[w].radar \in Radars
      /\ hand[w] \in ready'[hand[w].radar]
      /\ \A r \in Radars : ready[r] \subseteq ready'[r]
  BY <1>1, TypeInvParts DEF Requeue, Enqueue, Sound, BrokerTypeOK, Jobs
<1>3. \A f \in Forwards : Queued(f) => Queued(f)'
  BY <1>2 DEF Queued
<1>4. Queued(mine)'
  BY <1>2 DEF Queued
<1>5. At(mine, "queued")' /\ "queued" \in Places
  BY <1>4, AtPlacesNext DEF PlacesSpelledOut, Places
<1> QED BY <1>1, <1>3, <1>5, HandMove DEF Delivered

LEMMA BuryMove ==
    ASSUME Sound, Sound', NEW w \in Workers, Others(w),
           NEW mine \in Forwards, mine = hand[w].fwd, Bury(w)
    PROVE  Moving(mine, "held", "buried")
<1>1. /\ Holding(w)
      /\ UNCHANGED <<next, planned, ready, journaled>>
      /\ buried' = buried \union {mine}
  BY DEF Bury, Push, FromJob, Holding
<1>2. At(mine, "buried")' /\ "buried" \in Places
  BY <1>1, AtPlacesNext DEF PlacesSpelledOut, Places
<1>3. \A f \in Forwards : Queued(f) => Queued(f)'
  BY <1>1 DEF Queued
<1> QED BY <1>1, <1>2, <1>3, HandMove DEF Delivered

-----------------------------------------------------------------------------
(* The hub that snapshots see.                                             *)

In(p) == {f \in Forwards : At(f, p)}

LEMMA MovedSets ==
    ASSUME Sound, Sound', NEW f \in Forwards,
           NEW from \in Places, NEW to \in Places, from # to,
           Moving(f, from, to)
    PROVE  /\ f \in In(from)
           /\ In(from)' = In(from) \ {f}
           /\ In(to)' = In(to) \union {f}
           /\ \A p \in Places \ {from, to} : In(p)' = In(p)
<1>1. \A q \in Places : At(f, q) <=> q = from
  BY OnlyThere DEF Sound, Conservation, Moving
<1>2. \A q \in Places : At(f, q)' <=> q = to
  BY DEF Sound, Conservation, Moving, OnePlace
<1>3. \A g \in Forwards \ {f} : \A q \in Places : At(g, q)' <=> At(g, q)
  BY DEF Moving, Keeps
<1> QED BY <1>1, <1>2, <1>3 DEF In

LEMMA KeptSets == AllKeep => \A p \in Places : In(p)' = In(p)
BY DEF AllKeep, Keeps, In

Views ==
    /\ {j.fwd : j \in planned} = In("planned")
    /\ {f \in Forwards : Queued(f)} = In("queued")
    /\ {hand[w].fwd : w \in Held} = In("held")
    /\ {f \in Forwards : Delivered(f)} = In("delivered")

LEMMA ViewsHold == Sound => Views
<1> SUFFICES ASSUME Sound PROVE Views
  OBVIOUS
<1>1. \A j \in planned : j.fwd \in Forwards
  BY TypeInvParts DEF Sound, Jobs
<1>2. \A w \in Held : hand[w].fwd \in Forwards
  BY BusyHoldsJob, TypeInvParts DEF Sound, Held, Holding, Busy
<1>3. {j.fwd : j \in planned} = In("planned")
  BY <1>1, AtPlaces DEF PlacesSpelledOut, In
<1>4. {hand[w].fwd : w \in Held} = In("held")
  BY <1>2, AtPlaces DEF PlacesSpelledOut, In, Held, Holds
<1>5. /\ {f \in Forwards : Queued(f)} = In("queued")
      /\ {f \in Forwards : Delivered(f)} = In("delivered")
  BY AtPlaces DEF PlacesSpelledOut, In
<1> QED BY <1>3, <1>4, <1>5 DEF Views

LEMMA ViewsHoldNext == Sound' => Views'
BY ViewsHold, PTL

(* A step of the engine is one of the hub, or none.                        *)
LEMMA StutterOfHub ==
    ASSUME Sound, Sound', UNCHANGED <<next, dead>>, AllKeep
    PROVE  UNCHANGED HubView!hubVars
<1>1. Views /\ Views'
  BY ViewsHold, ViewsHoldNext
<1>2. /\ In("planned")' = In("planned") /\ In("queued")' = In("queued")
      /\ In("held")' = In("held") /\ In("delivered")' = In("delivered")
  BY KeptSets DEF Places
<1> QED BY <1>1, <1>2 DEF HubView!hubVars, Views, Letters

LEMMA LettersOfBurial ==
    ASSUME TypeInv, TypeInv', LettersInv, NEW mine \in Forwards, BurialOf(mine)
    PROVE  \/ Letters' = Letters \union {mine}
           \/ \E oldest \in Letters :
                 Letters' = (Letters \ {oldest}) \union {mine}
<1>1. /\ dead \in Seq(Items) /\ dead' \in Seq(Items) /\ Len(dead) \in Nat
      /\ DOMAIN dead = 1 .. Len(dead) /\ DOMAIN dead' = 1 .. Len(dead')
  <2>1. dead \in Seq(Items) /\ dead' \in Seq(Items)
    BY TypeInvParts DEF DlqTypeOK, TypeInv, TypeOK
  <2> QED BY <2>1, LenProperties
<1>0. Len(dead) \in Nat /\ BurialOf(mine)
  BY <1>1
<1>2. CASE Len(dead) < DlqMax
  <2>1. /\ Len(dead') = Len(dead) + 1 /\ dead'[Len(dead) + 1].fwd = mine
        /\ \A i \in 1 .. Len(dead) : dead'[i] = dead[i]
    BY <1>0, <1>2, DlqAssumption DEF BurialOf
  <2>2. DOMAIN dead' = DOMAIN dead \union {Len(dead) + 1}
    BY <1>1, <2>1
  <2>3. Letters' = Letters \union {mine}
    BY <1>1, <2>1, <2>2 DEF Letters
  <2> QED BY <2>3
<1>3. CASE Len(dead) = DlqMax
  <2>1. /\ Len(dead') = DlqMax /\ dead'[DlqMax].fwd = mine
        /\ \A i \in 1 .. DlqMax - 1 : dead'[i] = dead[i + 1]
    BY <1>0, <1>3, DlqAssumption DEF BurialOf
  <2>2. /\ 1 \in DOMAIN dead
        /\ \A i \in 1 .. DlqMax : i = DlqMax \/ i \in 1 .. DlqMax - 1
        /\ \A i \in 1 .. DlqMax - 1 : i + 1 \in DOMAIN dead /\ i + 1 # 1
        /\ \A i \in DOMAIN dead \ {1} :
              \E k \in 1 .. DlqMax - 1 : k + 1 = i
        /\ \A i \in 1 .. DlqMax - 1 : i \in DOMAIN dead'
        /\ DlqMax \in DOMAIN dead'
    <3>1. DOMAIN dead = 1 .. DlqMax /\ DOMAIN dead' = 1 .. DlqMax
      BY <1>1, <1>3, <2>1
    <3>2. ASSUME NEW i \in DOMAIN dead \ {1}
          PROVE  \E k \in 1 .. DlqMax - 1 : k + 1 = i
      <4>1. i - 1 \in 1 .. DlqMax - 1 /\ (i - 1) + 1 = i
        BY <3>1, <3>2, DlqAssumption
      <4> QED BY <4>1
    <3> QED BY <3>1, <3>2, DlqAssumption
  <2>3. Letters' = {dead[i].fwd : i \in DOMAIN dead \ {1}} \union {mine}
    <3>1. ASSUME NEW f \in Letters'
          PROVE  f \in {dead[i].fwd : i \in DOMAIN dead \ {1}} \union {mine}
      <4>1. PICK i \in DOMAIN dead' : f = dead'[i].fwd
        BY <3>1 DEF Letters
      <4>2. i = DlqMax \/ i \in 1 .. DlqMax - 1
        BY <1>1, <2>1, <2>2, <4>1
      <4>3. CASE i = DlqMax
        BY <2>1, <4>1, <4>3
      <4>4. CASE i \in 1 .. DlqMax - 1
        BY <2>1, <2>2, <4>1, <4>4
      <4> QED BY <4>2, <4>3, <4>4
    <3>2. mine \in Letters'
      BY <2>1, <2>2 DEF Letters
    <3>3. ASSUME NEW i \in DOMAIN dead \ {1}
          PROVE  dead[i].fwd \in Letters'
      <4>1. PICK k \in 1 .. DlqMax - 1 : k + 1 = i
        BY <2>2, <3>3
      <4>2. dead'[k] = dead[i] /\ k \in DOMAIN dead'
        BY <2>1, <2>2, <4>1
      <4> QED BY <4>2 DEF Letters
    <3> QED BY <3>1, <3>2, <3>3
  <2>4. {dead[i].fwd : i \in DOMAIN dead \ {1}} = Letters \ {dead[1].fwd}
    BY <2>2 DEF LettersInv, Letters
  <2> QED BY <2>2, <2>3, <2>4 DEF Letters
<1> QED BY <1>1, <1>2, <1>3 DEF BurialOf

LEMMA OutsideOfHub ==
    ASSUME Sound, Sound', Outside
    PROVE  [HubView!HubNext]_HubView!hubVars
<1>a. Views /\ Views' /\ Letters' = Letters
  BY ViewsHold, ViewsHoldNext, OutsideKeeps DEF Letters
<1>1. CASE next' = next /\ AllKeep
  BY <1>1, OutsideKeeps, StutterOfHub
<1>2. ASSUME NEW f \in Forwards, f = next, next' = next + 1,
             Moving(f, "absent", "planned")
      PROVE  HubView!Build
  <2>1. /\ In("planned")' = In("planned") \union {next}
        /\ In("queued")' = In("queued") /\ In("held")' = In("held")
        /\ In("delivered")' = In("delivered")
    BY <1>2, MovedSets DEF Places
  <2>2. next <= MaxForwards
    BY <1>2 DEF Forwards
  <2> QED BY <1>a, <1>2, <2>1, <2>2 DEF HubView!Build, Views
<1>3. ASSUME NEW f \in Forwards, next' = next, Moving(f, "planned", "queued")
      PROVE  HubView!Enqueue(f)
  <2>1. /\ f \in In("planned") /\ In("planned")' = In("planned") \ {f}
        /\ In("queued")' = In("queued") \union {f}
        /\ In("held")' = In("held") /\ In("delivered")' = In("delivered")
    BY <1>3, MovedSets DEF Places
  <2> QED BY <1>a, <1>3, <2>1 DEF HubView!Enqueue, Views
<1>4. HubView!Forwards = Forwards
  BY DEF HubView!Forwards, Forwards
<1> QED BY <1>1, <1>2, <1>3, <1>4, OutsideMoves DEF HubView!HubNext

LEMMA WorkerOfHub ==
    ASSUME Sound, Sound', LettersInv, NEW w \in Workers, Worker(w), Others(w)
    PROVE  [HubView!HubNext]_HubView!hubVars
<1>a. Views /\ Views'
  BY ViewsHold, ViewsHoldNext
<1>b. HubView!Forwards = Forwards
  BY DEF HubView!Forwards, Forwards
<1>c. Busy(w) => hand[w].fwd \in Forwards
  BY BusyHoldsJob, TypeInvParts DEF Sound
<1>1. CASE Quiet(w)
  BY <1>1, QuietKeeps, QuietStays, StutterOfHub
<1>2. CASE LeaseJob(w)
  <2>1. PICK f \in Forwards : Moving(f, "queued", "held")
    BY <1>2, LeaseMove
  <2>2. /\ f \in In("queued") /\ In("queued")' = In("queued") \ {f}
        /\ In("held")' = In("held") \union {f}
        /\ In("planned")' = In("planned") /\ In("delivered")' = In("delivered")
    BY <2>1, MovedSets DEF Places
  <2>3. Letters' = Letters /\ next' = next
    BY <1>2 DEF LeaseJob, Letters
  <2>4. HubView!Lease(f)
    BY <1>a, <2>2, <2>3 DEF HubView!Lease, Views
  <2> QED BY <1>b, <2>4 DEF HubView!HubNext
<1>3. CASE PostReturns(w, "success")
  <2>0. Busy(w) /\ Letters' = Letters /\ next' = next
    BY <1>3 DEF PostReturns, Busy, Letters
  <2>1. PICK mine \in Forwards : mine = hand[w].fwd
    BY <1>c, <2>0
  <2>2. /\ mine \in In("held") /\ In("held")' = In("held") \ {mine}
        /\ In("delivered")' = In("delivered") \union {mine}
        /\ In("planned")' = In("planned") /\ In("queued")' = In("queued")
    BY <1>3, <2>1, SuccessMove, MovedSets DEF Places
  <2>3. HubView!Deliver(mine)
    BY <1>a, <2>0, <2>2 DEF HubView!Deliver, Views
  <2> QED BY <1>b, <2>3 DEF HubView!HubNext
<1>4. CASE Requeue(w)
  <2>0. Busy(w) /\ Letters' = Letters /\ next' = next
    BY <1>4 DEF Requeue, Busy, Letters
  <2>1. PICK mine \in Forwards : mine = hand[w].fwd
    BY <1>c, <2>0
  <2>2. /\ mine \in In("held") /\ In("held")' = In("held") \ {mine}
        /\ In("queued")' = In("queued") \union {mine}
        /\ In("planned")' = In("planned")
        /\ In("delivered")' = In("delivered")
    BY <1>4, <2>1, RequeueMove, MovedSets DEF Places
  <2>3. HubView!PutBack(mine)
    BY <1>a, <2>0, <2>2 DEF HubView!PutBack, Views
  <2> QED BY <1>b, <2>3 DEF HubView!HubNext
<1>5. CASE Bury(w)
  <2>0. Busy(w) /\ next' = next
    BY <1>5 DEF Bury, Busy
  <2>1. PICK mine \in Forwards : mine = hand[w].fwd /\ BurialOf(mine)
    BY <1>5, <1>c, <2>0, BuryBuries
  <2>2. /\ mine \in In("held") /\ In("held")' = In("held") \ {mine}
        /\ In("planned")' = In("planned") /\ In("queued")' = In("queued")
        /\ In("delivered")' = In("delivered")
    BY <1>5, <2>1, BuryMove, MovedSets DEF Places
  <2>3. \/ Letters' = Letters \union {mine}
        \/ \E oldest \in Letters :
              Letters' = (Letters \ {oldest}) \union {mine}
    BY <2>1, LettersOfBurial DEF Sound
  <2>4. HubView!Bury(mine)
    BY <1>a, <2>0, <2>2, <2>3 DEF HubView!Bury, Views
  <2> QED BY <1>b, <2>4 DEF HubView!HubNext
<1> QED BY <1>1, <1>2, <1>3, <1>4, <1>5 DEF Worker, Handle, Quiet

LEMMA HubNextStep ==
    Sound /\ LettersInv /\ [Next]_vars => [HubView!HubNext]_HubView!hubVars
<1> SUFFICES ASSUME Sound, LettersInv, [Next]_vars
             PROVE  [HubView!HubNext]_HubView!hubVars
  OBVIOUS
<1>1. Sound' /\ WorkersTypeOK
  BY NextSound, TypeInvParts DEF Sound
<1> QED BY <1>1, StepKinds, OutsideOfHub, OthersWait, WorkerOfHub

(* To the snapshots of the store the engine is the hub of module Hub, the  *)
(* one the theorems about saves and restarts are proved for.               *)
THEOREM EngineIsTheHub == Spec => ImplementsHub
<1>1. Init => HubView!HubInit
  <2> SUFFICES ASSUME Init PROVE HubView!HubInit
    OBVIOUS
  <2>1. /\ planned = {} /\ next = 1 /\ dead = <<>>
        /\ \A f \in Forwards : ~ Queued(f) /\ ~ Delivered(f)
        /\ Held = {}
    BY DEF Init, FleetInit, BrokerInit, DlqInit, Queued, Delivered, Held,
           Holding
  <2>2. Letters = {}
    BY <2>1 DEF Letters
  <2> QED BY <2>1, <2>2 DEF HubView!HubInit
<1> QED BY <1>1, InitSound, NextSound, InitLetters, LettersNext, HubNextStep,
           PTL DEF Spec, ImplementsHub, HubView!HubSpec

-----------------------------------------------------------------------------
(* The life of a forward.  Its fate follows from its place and from        *)
(* whether a worker has a POST under way for it.                           *)

Posting(w, f) == pc[w] = "posting" /\ hand[w].fwd = f

Tried(f) == \E w \in Workers : Posting(w, f)

LEMMA FateOfPlace ==
    ASSUME Sound, NEW f \in Forwards
    PROVE  /\ At(f, "absent") => Fate(f) = "absent"
           /\ At(f, "delivered") => Fate(f) = "delivered"
           /\ At(f, "buried") => Fate(f) = "dead"
           /\ \A p \in {"planned", "queued", "held"} :
                 At(f, p) => Fate(f) = IF Tried(f) THEN "trying" ELSE "waiting"
           /\ Tried(f) => At(f, "held")
<1>1. \A p, q \in Places : At(f, p) /\ At(f, q) => p = q
  BY OnlyThere DEF Sound, Conservation
<1>2. /\ At(f, "absent") <=> f >= next
      /\ At(f, "delivered") <=> Delivered(f)
      /\ At(f, "buried") <=> f \in buried
      /\ At(f, "held") <=> \E w \in Workers : Holds(w, f)
  BY AtPlaces DEF PlacesSpelledOut
<1>3. f < next <=> ~ (f >= next)
  BY TypeInvParts, MaxForwardsAssumption DEF Sound, FleetTypeOK, Forwards
<1>4. Tried(f) => At(f, "held")
  BY <1>2 DEF Tried, Posting, Holds, Holding
<1>5. At(f, "absent") => Fate(f) = "absent"
  BY <1>2, <1>3 DEF Fate
<1>6. At(f, "delivered") => Fate(f) = "delivered"
  BY <1>1, <1>2, <1>3 DEF Fate, Places
<1>7. At(f, "buried") => Fate(f) = "dead"
  BY <1>1, <1>2, <1>3 DEF Fate, Places
<1>8. ASSUME NEW p \in {"planned", "queued", "held"}, At(f, p)
      PROVE  Fate(f) = IF Tried(f) THEN "trying" ELSE "waiting"
  <2>1. f < next /\ ~ Delivered(f) /\ f \notin buried
    BY <1>1, <1>2, <1>3, <1>8 DEF Places
  <2> QED BY <1>3, <2>1 DEF Fate, Tried, Posting
<1> QED BY <1>4, <1>5, <1>6, <1>7, <1>8

LEMMA FateOfPlaceNext ==
    Sound' => \A f \in Forwards :
        /\ At(f, "absent")' => Fate(f)' = "absent"
        /\ At(f, "delivered")' => Fate(f)' = "delivered"
        /\ At(f, "buried")' => Fate(f)' = "dead"
        /\ \A p \in {"planned", "queued", "held"} :
              At(f, p)' => Fate(f)' = IF Tried(f)' THEN "trying" ELSE "waiting"
        /\ Tried(f)' => At(f, "held")'
<1> DEFINE FatesFollow ==
        \A f \in Forwards :
            /\ At(f, "absent") => Fate(f) = "absent"
            /\ At(f, "delivered") => Fate(f) = "delivered"
            /\ At(f, "buried") => Fate(f) = "dead"
            /\ \A p \in {"planned", "queued", "held"} :
                  At(f, p) =>
                      Fate(f) = IF Tried(f) THEN "trying" ELSE "waiting"
            /\ Tried(f) => At(f, "held")
<1>1. Sound => FatesFollow
  BY FateOfPlace
<1>2. Sound' => FatesFollow'
  BY <1>1, PTL
<1> QED BY <1>2

LEMMA FateKept ==
    ASSUME Sound, Sound', NEW f \in Forwards, Keeps(f), Tried(f)' <=> Tried(f)
    PROVE  Fate(f)' = Fate(f)
<1>1. PICK p \in Places : At(f, p)
  BY DEF Sound, Conservation, OnePlace
<1>2. At(f, p)'
  BY <1>1 DEF Keeps
<1> QED BY <1>1, <1>2, FateOfPlace, FateOfPlaceNext DEF Places

(* A step that leaves all fates alone.                                     *)
LEMMA StutterOfLife ==
    ASSUME UNCHANGED posts, \A f \in Forwards : Fate(f)' = Fate(f)
    PROVE  UNCHANGED <<[f \in Forwards |-> Fate(f)], posts>>
OBVIOUS

(* A step in the life of one forward.                                      *)
LEMMA LifeMoves ==
    ASSUME NEW f \in Forwards, NEW from, NEW to,
           Fate(f) = from, Fate(f)' = to,
           \A g \in Forwards \ {f} : Fate(g)' = Fate(g)
    PROVE  Lifecycle!Move(f, from, to)
BY DEF Lifecycle!Move

LEMMA OutsideOfLife ==
    ASSUME Sound, Sound', Outside
    PROVE  [Lifecycle!Next]_<<[f \in Forwards |-> Fate(f)], posts>>
<1>1. posts' = posts /\ \A f \in Forwards : Tried(f)' <=> Tried(f)
  BY OutsideKeeps DEF Tried, Posting
<1>2. CASE AllKeep
  BY <1>1, <1>2, FateKept, StutterOfLife DEF AllKeep
<1>3. ASSUME NEW f \in Forwards, Moving(f, "absent", "planned")
      PROVE  Lifecycle!Accept(f)
  <2>1. Fate(f) = "absent" /\ ~ Tried(f)
    BY <1>3, FateOfPlace, OnlyThere
       DEF Moving, Sound, Conservation, Places
  <2>2. Fate(f)' = "waiting"
    BY <1>1, <1>3, <2>1, FateOfPlaceNext DEF Moving
  <2>3. \A g \in Forwards \ {f} : Fate(g)' = Fate(g)
    BY <1>1, <1>3, FateKept DEF Moving
  <2> QED BY <1>1, <2>1, <2>2, <2>3, LifeMoves DEF Lifecycle!Accept
<1>4. ASSUME NEW f \in Forwards, Moving(f, "planned", "queued")
      PROVE  \A g \in Forwards : Fate(g)' = Fate(g)
  <2>1. Fate(f)' = Fate(f)
    BY <1>1, <1>4, FateOfPlace, FateOfPlaceNext DEF Moving
  <2> QED BY <1>1, <1>4, <2>1, FateKept DEF Moving
<1> QED BY <1>1, <1>2, <1>3, <1>4, OutsideMoves, StutterOfLife
        DEF Lifecycle!Next

(* A worker that starts or ends no POST.                                   *)
LEMMA TriedAsBefore ==
    ASSUME NEW w \in Workers, Others(w),
           pc[w] # "posting", pc'[w] # "posting"
    PROVE  \A f \in Forwards : Tried(f)' <=> Tried(f)
<1>1. \A v \in Workers : \A f \in Forwards : Posting(v, f)' <=> Posting(v, f)
  BY DEF Others, Posting
<1> QED BY <1>1 DEF Tried

LEMMA TriedElsewhere ==
    ASSUME NEW w \in Workers, Others(w), NEW mine \in Forwards,
           hand[w].fwd = mine, hand'[w].fwd = mine
    PROVE  \A f \in Forwards \ {mine} : Tried(f)' <=> Tried(f)
<1>1. \A v \in Workers : \A f \in Forwards \ {mine} :
         Posting(v, f)' <=> Posting(v, f)
  BY DEF Others, Posting
<1> QED BY <1>1 DEF Tried

(* Nobody but its holder posts a forward.                                  *)
LEMMA HolderPosts ==
    ASSUME Sound, NEW w \in Workers, NEW mine \in Forwards, Holds(w, mine)
    PROVE  /\ \A v \in Workers \ {w} : ~ Posting(v, mine)
           /\ Tried(mine) <=> pc[w] = "posting"
           /\ At(mine, "held")
<1>1. \A v \in Workers : Posting(v, mine) => v = w
  BY DEF Sound, Conservation, HeldOnce, Holds, Holding, Posting
<1>2. At(mine, "held")
  BY AtPlaces DEF PlacesSpelledOut
<1> QED BY <1>1, <1>2 DEF Tried, Posting, Holds

LEMMA TryOfLife ==
    ASSUME Sound, Sound', BudgetInv, NEW w \in Workers, Others(w),
           TakeToken(w), pc'[w] = "posting"
    PROVE  \E f \in Forwards : Lifecycle!Try(f)
<1>a. WorkersTypeOK /\ posts \in [Forwards -> Nat]
  BY TypeInvParts DEF Sound
<1>b. hand[w] \in Jobs /\ hand[w].fwd \in Forwards /\ Busy(w)
  BY <1>a, BusyHoldsJob DEF TakeToken, Busy
<1> PICK mine \in Forwards : mine = hand[w].fwd
  BY <1>b
<1>1. /\ pc[w] = "take" /\ hand'[w].fwd = mine
      /\ posts' = [posts EXCEPT ![mine] = @ + 1]
  BY <1>a, <1>b
     DEF TakeToken, Postpone, Outcome, NextStep, WorkersTypeOK, Jobs
<1>2. Holds(w, mine)
  BY <1>1 DEF Holds, Holding
<1>3. posts[mine] < MaxAttempts
  BY <1>1, <1>2 DEF BudgetInv, HandBudget, Fits, Holds
<1>4. AllKeep
  BY QuietStays DEF Quiet
<1>5. Fate(mine) = "waiting"
  BY <1>1, <1>2, HolderPosts, FateOfPlace
<1>6. Tried(mine)' /\ At(mine, "held")'
  BY <1>1, <1>2, <1>4, HolderPosts
     DEF Tried, Posting, AllKeep, Keeps, Places
<1>7. Fate(mine)' = "trying"
  BY <1>6, FateOfPlaceNext
<1>8. \A g \in Forwards \ {mine} : Fate(g)' = Fate(g)
  BY <1>1, <1>4, TriedElsewhere, FateKept DEF AllKeep
<1>9. Lifecycle!Try(mine)
  BY <1>1, <1>3, <1>5, <1>7, <1>8, LifeMoves DEF Lifecycle!Try
<1> QED BY <1>9

LEMMA ReturnOfLife ==
    ASSUME Sound, Sound', NEW w \in Workers, Others(w),
           NEW v \in Verdicts, PostReturns(w, v)
    PROVE  Lifecycle!Next
<1>a. WorkersTypeOK
  BY TypeInvParts DEF Sound
<1>b. hand[w].fwd \in Forwards
  BY <1>a, BusyHoldsJob DEF PostReturns, Busy
<1> PICK mine \in Forwards : mine = hand[w].fwd
  BY <1>b
<1>1. /\ pc[w] = "posting" /\ pc'[w] = "report" /\ hand' = hand
      /\ posts' = posts
  BY <1>a DEF PostReturns, Outcome, NextStep, WorkersTypeOK
<1>2. Holds(w, mine)
  BY <1>1 DEF Holds, Holding
<1>3. Fate(mine) = "trying" /\ At(mine, "held")
  BY <1>1, <1>2, HolderPosts, FateOfPlace
<1>4. \A f \in Forwards \ {mine} : Tried(f)' <=> Tried(f)
  BY <1>1, TriedElsewhere
<1>5. ~ Tried(mine)'
  <2>1. \A u \in Workers \ {w} : ~ Posting(u, mine)'
    BY <1>2, HolderPosts DEF Others, Posting
  <2> QED BY <1>1, <2>1 DEF Tried, Posting
<1>6. CASE v = "success"
  <2>1. Moving(mine, "held", "delivered")
    BY <1>6, SuccessMove
  <2>2. Fate(mine)' = "delivered"
    BY <2>1, FateOfPlaceNext DEF Moving
  <2>3. \A g \in Forwards \ {mine} : Fate(g)' = Fate(g)
    BY <1>4, <2>1, FateKept DEF Moving
  <2>4. Lifecycle!Deliver(mine)
    BY <1>1, <1>3, <2>2, <2>3, LifeMoves DEF Lifecycle!Deliver
  <2> QED BY <2>4 DEF Lifecycle!Next
<1>7. CASE v # "success"
  <2>1. AllKeep
    BY <1>7, QuietStays DEF Quiet
  <2>2. Fate(mine)' = "waiting"
    BY <1>3, <1>5, <2>1, FateOfPlaceNext DEF AllKeep, Keeps, Places
  <2>3. \A g \in Forwards \ {mine} : Fate(g)' = Fate(g)
    BY <1>4, <2>1, FateKept DEF AllKeep
  <2>4. Lifecycle!Fail(mine)
    BY <1>1, <1>3, <2>2, <2>3, LifeMoves DEF Lifecycle!Fail
  <2> QED BY <2>4 DEF Lifecycle!Next
<1> QED BY <1>6, <1>7

LEMMA WorkerOfLife ==
    ASSUME Sound, Sound', BudgetInv, NEW w \in Workers, Worker(w), Others(w)
    PROVE  [Lifecycle!Next]_<<[f \in Forwards |-> Fate(f)], posts>>
<1>a. WorkersTypeOK
  BY TypeInvParts DEF Sound
<1>1. ASSUME Quiet(w), posts' = posts, pc[w] # "posting", pc'[w] # "posting"
      PROVE  UNCHANGED <<[f \in Forwards |-> Fate(f)], posts>>
  <2>1. AllKeep /\ \A f \in Forwards : Tried(f)' <=> Tried(f)
    BY <1>1, QuietStays, TriedAsBefore
  <2> QED BY <1>1, <2>1, FateKept, StutterOfLife DEF AllKeep
<1>2. CASE LookUp(w) \/ AskBreaker(w) \/ Report(w) \/ Finish(w)
  <2>1. /\ Quiet(w) /\ posts' = posts
        /\ pc[w] # "posting" /\ pc'[w] # "posting"
    BY <1>a, <1>2
       DEF Quiet, LookUp, AskBreaker, Report, Finish, Postpone, Outcome,
           NextStep, WorkersTypeOK
  <2> QED BY <1>1, <2>1
<1>3. CASE TakeToken(w) /\ pc'[w] # "posting"
  <2>1. Quiet(w) /\ pc[w] = "take" /\ posts' = posts
    BY <1>a, <1>3 DEF Quiet, TakeToken, Postpone, NextStep, WorkersTypeOK
  <2> QED BY <1>1, <1>3, <2>1
<1>4. CASE TakeToken(w) /\ pc'[w] = "posting"
  BY <1>4, TryOfLife DEF Lifecycle!Next
<1>5. ASSUME NEW v \in Verdicts, PostReturns(w, v)
      PROVE  Lifecycle!Next
  BY <1>5, ReturnOfLife
<1>6. CASE LeaseJob(w) \/ Requeue(w)
  <2>0. /\ posts' = posts /\ pc[w] # "posting" /\ pc'[w] # "posting"
        /\ Requeue(w) => hand[w].fwd \in Forwards
    BY <1>a, <1>6, BusyHoldsJob
       DEF LeaseJob, Requeue, NextStep, WorkersTypeOK, Busy
  <2>1. \A f \in Forwards : Tried(f)' <=> Tried(f)
    BY <2>0, TriedAsBefore
  <2>2. \E f \in Forwards : Moving(f, "queued", "held")
                            \/ Moving(f, "held", "queued")
    BY <1>6, <2>0, LeaseMove, RequeueMove
  <2>3. PICK f \in Forwards : Moving(f, "queued", "held")
                              \/ Moving(f, "held", "queued")
    BY <2>2
  <2>4. Fate(f)' = Fate(f)
    BY <2>1, <2>3, FateOfPlace, FateOfPlaceNext DEF Moving
  <2>5. \A g \in Forwards \ {f} : Fate(g)' = Fate(g)
    BY <2>1, <2>3, FateKept DEF Moving
  <2> QED BY <2>0, <2>4, <2>5, StutterOfLife
<1>7. CASE Bury(w)
  <2>0. /\ posts' = posts /\ pc[w] = "bury" /\ pc'[w] = "release"
        /\ hand[w].fwd \in Forwards
    BY <1>a, <1>7, BusyHoldsJob DEF Bury, NextStep, WorkersTypeOK, Busy
  <2>1. PICK mine \in Forwards : mine = hand[w].fwd
    BY <2>0
  <2>2. Moving(mine, "held", "buried") /\ Holds(w, mine)
    BY <1>7, <2>0, <2>1, BuryMove DEF Holds, Holding
  <2>3. Fate(mine) = "waiting" /\ Fate(mine)' = "dead"
    BY <2>0, <2>2, HolderPosts, FateOfPlace, FateOfPlaceNext DEF Moving
  <2>4. \A f \in Forwards : Tried(f)' <=> Tried(f)
    BY <2>0, TriedAsBefore
  <2>5. \A g \in Forwards \ {mine} : Fate(g)' = Fate(g)
    BY <2>2, <2>4, FateKept DEF Moving
  <2>6. Lifecycle!GiveUp(mine)
    BY <2>0, <2>3, <2>5, LifeMoves DEF Lifecycle!GiveUp
  <2> QED BY <2>6 DEF Lifecycle!Next
<1> QED BY <1>2, <1>3, <1>4, <1>5, <1>6, <1>7 DEF Worker, Handle

LEMMA LifeNextStep ==
    Sound /\ BudgetInv /\ [Next]_vars
        => [Lifecycle!Next]_<<[f \in Forwards |-> Fate(f)], posts>>
<1> SUFFICES ASSUME Sound, BudgetInv, [Next]_vars
             PROVE  [Lifecycle!Next]_<<[f \in Forwards |-> Fate(f)], posts>>
  OBVIOUS
<1>1. Sound' /\ WorkersTypeOK
  BY NextSound, TypeInvParts DEF Sound
<1> QED BY <1>1, StepKinds, OutsideOfLife, OthersWait, WorkerOfLife

(* Every forward lives the life ForwardLifecycle allows: one POST at a     *)
(* time, at most MaxAttempts of them, until it is delivered or given up    *)
(* for good, however workers, breakers, buckets and the switch interleave. *)
THEOREM ForwardsLiveTheirLife == Spec => ImplementsLifecycle
<1>1. Init => Lifecycle!Init
  <2> SUFFICES ASSUME Init PROVE Lifecycle!Init
    OBVIOUS
  <2>1. \A f \in Forwards : f >= next
    BY MaxForwardsAssumption DEF Init, FleetInit, Forwards
  <2>2. \A f \in Forwards : Fate(f) = "absent"
    BY <2>1, InitSound, FateOfPlace, AtPlaces DEF PlacesSpelledOut
  <2> QED BY <2>2 DEF Lifecycle!Init, Init
<1> QED BY <1>1, InitSound, NextSound, InitBudget, BudgetNext, LifeNextStep,
           PTL DEF Spec, ImplementsLifecycle, Lifecycle!Spec
=============================================================================
