------------------------------ MODULE MCReplay ------------------------------
(* Values for TLC: operators and workers are interchangeable.              *)
EXTENDS Replay, TLC

ActorSymmetry == Permutations(Operators) \union Permutations(Workers)
=============================================================================
