-------------------------------- MODULE Dlq --------------------------------
(***************************************************************************)
(* The dead-letter queue (internal/dlq): a bounded list, oldest first.     *)
(* An item keeps of its job what FromJob copies and a replay or an operator*)
(* relies on: which forward it was, for which radar, how many attempts it  *)
(* had, and why it was given up.                                           *)
(***************************************************************************)
EXTENDS Fleet, Sequences

CONSTANT DlqMax   \* Queue.max

ASSUME DlqAssumption == DlqMax \in Nat \ {0}

VARIABLES
    dead,         \* Queue.items
    buried        \* history: the forwards ever pushed, evicted ones included

Reasons == {"unavailable", "exhausted", "terminal"}

Items == [fwd : Forwards, radar : Radars, attempt : Nat, reason : Reasons]

DlqTypeOK ==
    /\ dead \in Seq(Items)
    /\ buried \subseteq Forwards

DlqInit ==
    /\ dead = <<>>
    /\ buried = {}

FromJob(j, why) ==
    [fwd |-> j.fwd, radar |-> j.radar, attempt |-> j.attempt, reason |-> why]

(* A broken variant, for the runs: the wrong end is cut off.               *)
CappedNewest(q) ==
    IF Len(q) > DlqMax THEN SubSeq(q, 1, DlqMax) ELSE q

(* Push appends, and keeps the newest DlqMax.                              *)
Capped(q) ==
    IF Len(q) > DlqMax THEN SubSeq(q, Len(q) - DlqMax + 1, Len(q)) ELSE q

Push(it) ==
    /\ dead' = Capped(Append(dead, it))
    /\ buried' = buried \union {it.fwd}

InDead(f) == \E i \in DOMAIN dead : dead[i].fwd = f

(* Get finds the newest item of a forward.                                 *)
Letter(f) ==
    dead[CHOOSE i \in DOMAIN dead :
            /\ dead[i].fwd = f
            /\ \A k \in DOMAIN dead : dead[k].fwd = f => k <= i]

(* A broken variant: the oldest item goes, whichever it is.                *)
WithoutOldest(q, f) == Tail(q)

(* Remove takes out the oldest item of a forward, if there is one.         *)
Without(q, f) ==
    LET at == CHOOSE i \in DOMAIN q :
                 q[i].fwd = f /\ \A k \in 1 .. i - 1 : q[k].fwd # f
    IN  SubSeq(q, 1, at - 1) \o SubSeq(q, at + 1, Len(q))

Remove(f) ==
    /\ dead' = IF InDead(f) THEN Without(dead, f) ELSE dead
    /\ UNCHANGED buried
=============================================================================
