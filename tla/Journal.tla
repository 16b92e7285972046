------------------------------ MODULE Journal ------------------------------
(***************************************************************************)
(* The journal (internal/journal): a bounded list of what the workers did, *)
(* oldest first.  An entry keeps what a replay needs: which forward it is  *)
(* about, and the radar; and of its verdict whether it is a success.  The  *)
(* body is in each of them; List hides it from the console, Get does not.  *)
(***************************************************************************)
EXTENDS Fleet, Sequences

CONSTANT JournalMax   \* Log.max

ASSUME JournalAssumption == JournalMax \in Nat \ {0}

VARIABLE log          \* Log.entries

Entries == [fwd : Forwards, radar : Radars, success : BOOLEAN]

JournalTypeOK == log \in Seq(Entries) /\ Len(log) <= JournalMax

JournalInit == log = <<>>

(* Broken variants, for the runs: the list is cut one entry late, or early.*)
RecentLate(l) ==
    IF Len(l) > JournalMax + 1 THEN SubSeq(l, Len(l) - JournalMax, Len(l))
    ELSE l

RecentEarly(l) == IF Len(l) >= JournalMax THEN SubSeq(l, 2, Len(l)) ELSE l

Recent(l) ==
    IF Len(l) > JournalMax THEN SubSeq(l, Len(l) - JournalMax + 1, Len(l))
    ELSE l

AppendFor(j, success) ==
    log' = Recent(Append(log,
               [fwd |-> j.fwd, radar |-> j.radar, success |-> success]))

InLog(f) == \E i \in DOMAIN log : log[i].fwd = f

(* Get finds the newest entry on a forward.                                *)
Entry(f) ==
    log[CHOOSE i \in DOMAIN log :
           /\ log[i].fwd = f
           /\ \A k \in DOMAIN log : log[k].fwd = f => k <= i]
=============================================================================
