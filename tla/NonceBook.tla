----------------------------- MODULE NonceBook -----------------------------
(***************************************************************************)
(* The nonce book (internal/nonce): a nonce is remembered for a window     *)
(* from its acceptance.  Its methods hold one mutex.                       *)
(*                                                                         *)
(* Time is relative: a record is the time it has left, and none is left of *)
(* a nonce that is not in the book.  A record whose ExpiresAt is now is    *)
(* expired, and gcLocked, which starts every method, drops it.             *)
(***************************************************************************)
EXTENDS Integers

CONSTANTS
    Nonces,
    Window        \* the window, in ticks

ASSUME WindowAssumption == Window \in Nat \ {0}

VARIABLE nonceLeft

NonceTypeOK == nonceLeft \in [Nonces -> 0 .. Window]

NonceInit == nonceLeft = [n \in Nonces |-> 0]

(* A broken variant, for the runs: a record dies a tick early.             *)
UnusedEarly(n) == nonceLeft[n] <= 1

Unused(n) == nonceLeft[n] = 0

(* CheckAndRemember, the two ways it can answer.                           *)
RememberNonce(n) ==
    /\ Unused(n)
    /\ nonceLeft' = [nonceLeft EXCEPT ![n] = Window]

RefuseNonce(n) == ~ Unused(n) /\ UNCHANGED nonceLeft

NonceElapse ==
    nonceLeft' = [n \in Nonces |->
                    IF nonceLeft[n] > 0 THEN nonceLeft[n] - 1 ELSE 0]
=============================================================================
