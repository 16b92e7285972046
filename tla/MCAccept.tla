------------------------------ MODULE MCAccept ------------------------------
(* Values for TLC.  A station sends a report and tries again with the same *)
(* key: once as it should, with a new nonce, and once with another body.   *)
(* A third message reuses the first nonce under a key of its own.          *)
EXTENDS Accept, TLC

CONSTANTS first, again, other, reuse

MCKeyOf == [m \in Messages |-> IF m = reuse THEN "k2" ELSE "k1"]
MCBodyOf == [m \in Messages |-> IF m = other THEN "b2" ELSE "b1"]
MCNonceOf ==
    [m \in Messages |->
        CASE m \in {first, reuse} -> "n1" [] m = again -> "n2"
          [] OTHER -> "n3"]
MCInterest == [r \in Radars |-> Bodies]

(* Nothing tells the handlers apart.                                       *)
HandlerSymmetry == Permutations(Handlers)
=============================================================================
