------------------------------ MODULE MCGates ------------------------------
(* Values for TLC: one rate and one burst for all radars.                  *)
EXTENDS Gates, TLC

CONSTANTS RatePerTick, BurstTokens

MCRate == [r \in Radars |-> RatePerTick]
MCBurst == [r \in Radars |-> BurstTokens]

(* Nothing tells the workers apart.                                        *)
WorkerSymmetry == Permutations(Workers)
=============================================================================
