---------------------------- MODULE Idempotency ----------------------------
(***************************************************************************)
(* The idempotency store (internal/idempotency): per key the hash of the   *)
(* first body and the id of the report made from it, for a time TTL.  Its  *)
(* methods hold one mutex and start by dropping what has expired.          *)
(*                                                                         *)
(* Time is relative: left is the time until ExpiresAt, and a record that   *)
(* has none left is gone.  A body hash is the body.                        *)
(***************************************************************************)
EXTENDS Integers

CONSTANTS
    Keys,
    Bodies,
    TTL,          \* the lifetime of a record, in ticks
    MaxReports,   \* bound: how many reports a behaviour makes
    NoRecord      \* what the map has for a key that is not in it

ASSUME IdempotencyAssumption ==
    /\ TTL \in Nat \ {0}
    /\ MaxReports \in Nat \ {0}

VARIABLE byKey

Reports == 1 .. MaxReports

Records == [body : Bodies, report : Reports, left : 1 .. TTL]

ASSUME NoRecordAssumption == NoRecord \notin Records

IdempotencyTypeOK == byKey \in [Keys -> Records \union {NoRecord}]

IdempotencyInit == byKey = [k \in Keys |-> NoRecord]

(* A broken variant, for the runs: a record dies a tick early.             *)
KnownEarly(k) == byKey[k] # NoRecord /\ byKey[k].left > 1

Known(k) == byKey[k] # NoRecord

NewRecord(body, p) == [body |-> body, report |-> p, left |-> TTL]

(* Remember, the three ways it can answer: the key is new, or its time is  *)
(* over; it is known with the same body; it is known with another one.     *)
RememberKey(k, body, p) ==
    /\ ~ Known(k)
    /\ byKey' = [byKey EXCEPT ![k] = NewRecord(body, p)]

(* A broken variant, for the runs: the hashes are not compared.            *)
SameKey(k, body) == Known(k)

SameBody(k, body) == Known(k) /\ byKey[k].body = body

ReplaysKey(k, body) == SameBody(k, body) /\ UNCHANGED byKey

ConflictsOnKey(k, body) ==
    /\ Known(k)
    /\ ~ SameBody(k, body)
    /\ UNCHANGED byKey

(* A broken variant: a record whose time is over is kept.                  *)
LaterKept(rec) == IF rec = NoRecord THEN NoRecord ELSE [rec EXCEPT !.left = @ - 1]

(* A broken variant: the collection looks at AcceptedAt.                   *)
LaterAccepted(rec) == NoRecord

Later(rec) ==
    IF rec = NoRecord THEN NoRecord
    ELSE IF rec.left = 1 THEN NoRecord
    ELSE [rec EXCEPT !.left = @ - 1]

IdempotencyElapse == byKey' = [k \in Keys |-> Later(byKey[k])]
=============================================================================
