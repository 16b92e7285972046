----------------------------- MODULE RateLimit -----------------------------
(***************************************************************************)
(* The per-radar token bucket (internal/ratelimit), in integers: a token   *)
(* is Unit units, a tick brings Rate[r] units, and the bucket holds at     *)
(* most Burst[r] tokens.  Take refills lazily from the time since its last *)
(* call; refilling at each tick gives the same content at each call, since *)
(* the cap is applied to a sum that only grows between calls.  Gates has   *)
(* the stored times, and GatesProofs!GatesTick proves the two the same.    *)
(*                                                                         *)
(* Gates.Ensure builds a full bucket when a radar is first handled, and    *)
(* replaces it when the radar's rate or burst changed; a registered        *)
(* radar's never do.  A full bucket stays full until its first Take, so it *)
(* may as well exist from the start.                                       *)
(***************************************************************************)
EXTENDS Fleet

CONSTANTS
    Unit,   \* units per token: the resolution of the fractional content
    Rate,   \* Rate[r]: units per tick
    Burst   \* Burst[r]: tokens the bucket holds

(* ratelimit.New replaces a rate <= 0 and a burst < 1 by 5.                *)
ASSUME RateLimitAssumption ==
    /\ Unit \in Nat \ {0}
    /\ Rate \in [Radars -> Nat \ {0}]
    /\ Burst \in [Radars -> Nat \ {0}]

VARIABLE tokens

RateLimitTypeOK ==
    /\ tokens \in [Radars -> Nat]
    /\ \A r \in Radars : tokens[r] <= Burst[r] * Unit

RateLimitInit == tokens = [r \in Radars |-> Burst[r] * Unit]

(* Take with a token to give: it answers 0, proceed now.                   *)
Take(r) ==
    /\ tokens[r] >= Unit
    /\ tokens' = [tokens EXCEPT ![r] = @ - Unit]

(* Take with less than a token left: it answers how long until the missing *)
(* part has flowed in, rounded up to a tick, and takes nothing.            *)
Wait(r) == (Unit - tokens[r] + Rate[r] - 1) \div Rate[r]

Empty(r) ==
    /\ tokens[r] < Unit
    /\ UNCHANGED tokens

(* A broken variant, for the runs: the content is not capped.              *)
RefilledUncapped(r, content) == content + Rate[r]

(* What a content becomes in a tick.                                       *)
Refilled(r, content) ==
    IF content + Rate[r] > Burst[r] * Unit
    THEN Burst[r] * Unit ELSE content + Rate[r]

RateLimitElapse == tokens' = [r \in Radars |-> Refilled(r, tokens[r])]
=============================================================================
