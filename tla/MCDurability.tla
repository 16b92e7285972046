---------------------------- MODULE MCDurability ----------------------------
(* Values for TLC: answers of each kind, and the errors a radar that is    *)
(* slow and a hub that stops make of a POST.                               *)
EXTENDS Durability

Answer(code) == [status |-> code, err |-> "none"]
Failed(why) == [status |-> 0, err |-> why]

MCResults ==
    {Answer(204), Answer(404), Answer(503), Failed("timeout"),
     Failed("canceled")}
=============================================================================
