-------------------------- MODULE ForwardLifecycle --------------------------
(***************************************************************************)
(* What the hub promises about a forward, without queues, workers,         *)
(* breakers or time: it is tried, one POST at a time and at most           *)
(* MaxAttempts times, until it is delivered or given up; both are final.   *)
(***************************************************************************)
EXTENDS Naturals

CONSTANTS Forwards, MaxAttempts

VARIABLES
    fate,    \* fate[f]: where the forward is in its life
    tries    \* tries[f]: the POSTs made for it

Fates == {"absent", "waiting", "trying", "delivered", "dead"}

LifecycleTypeOK ==
    /\ fate \in [Forwards -> Fates]
    /\ tries \in [Forwards -> Nat]

Init ==
    /\ fate = [f \in Forwards |-> "absent"]
    /\ tries = [f \in Forwards |-> 0]

Move(f, from, to) ==
    /\ fate[f] = from
    /\ fate' = [fate EXCEPT ![f] = to]

Accept(f) == Move(f, "absent", "waiting") /\ UNCHANGED tries

Try(f) ==
    /\ Move(f, "waiting", "trying")
    /\ tries[f] < MaxAttempts
    /\ tries' = [tries EXCEPT ![f] = @ + 1]

Deliver(f) == Move(f, "trying", "delivered") /\ UNCHANGED tries

Fail(f) == Move(f, "trying", "waiting") /\ UNCHANGED tries

GiveUp(f) == Move(f, "waiting", "dead") /\ UNCHANGED tries

Next ==
    \E f \in Forwards :
        Accept(f) \/ Try(f) \/ Deliver(f) \/ Fail(f) \/ GiveUp(f)

Spec == Init /\ [][Next]_<<fate, tries>>
=============================================================================
