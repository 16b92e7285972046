----------------------------- MODULE MCDelivery -----------------------------
(* Values for TLC: the radars differ only in that a slow one has the least  *)
(* rate and burst.                                                         *)
EXTENDS Delivery, TLC

CONSTANTS Slow, RatePerTick, BurstTokens, Concurrency

MCRate == [r \in Radars |-> IF r \in Slow THEN 1 ELSE RatePerTick]
MCBurst == [r \in Radars |-> IF r \in Slow THEN 1 ELSE BurstTokens]
MCMaxInFlight == [r \in Radars |-> Concurrency]

(* Nothing tells the workers apart.                                        *)
WorkerSymmetry == Permutations(Workers)
=============================================================================
