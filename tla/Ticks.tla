------------------------------- MODULE Ticks --------------------------------
(***************************************************************************)
(* Gates whose breakers and buckets run with the clock, as Delivery has    *)
(* them: the operations of Circuit and RateLimit in any order, snapshots   *)
(* and restarts, and ticks between them, in which what a snapshot holds    *)
(* ages like what is in memory.  Gates has the points in time that the     *)
(* code stores, and implements this module.                                *)
(***************************************************************************)
EXTENDS Circuit, RateLimit

CONSTANT NotRead  \* what a snapshot has not read yet

VARIABLES
    rated,        \* the radars whose bucket has been built from their rate
    part, disk    \* a snapshot being taken, and the one in the file

files == <<part, disk>>
ticksVars == <<breakers, tokens, rated, files>>

Nothing == [breakers |-> [r \in Radars |-> NotRead],
            tokens |-> [r \in Radars |-> NotRead]]

TicksInit ==
    /\ CircuitInit
    /\ RateLimitInit
    /\ rated = {}
    /\ part = Nothing
    /\ disk = [breakers |-> breakers, tokens |-> tokens]

(* A worker asks the breaker or reports to it, a reader refreshes it.      *)
CallBreaker(r) ==
    /\ Admit(r) \/ Deny(r) \/ Success(r) \/ Failure(r) \/ Observe(r)
    /\ UNCHANGED <<tokens, rated, files>>

TakeOne(r) == Take(r) /\ UNCHANGED <<breakers, rated, files>>

(* The first call of Gates.Ensure in a process.                            *)
Build(r) ==
    /\ r \notin rated
    /\ rated' = rated \union {r}
    /\ tokens' = [tokens EXCEPT ![r] = Burst[r] * Unit]
    /\ UNCHANGED <<breakers, files>>

ReadBreaker(r) ==
    /\ part.breakers[r] = NotRead
    /\ breakers' = [breakers EXCEPT ![r] = Refreshed(@)]
    /\ part' = [part EXCEPT !.breakers[r] = Refreshed(breakers[r])]
    /\ UNCHANGED <<tokens, rated, disk>>

ReadBucket(r) ==
    /\ part.tokens[r] = NotRead
    /\ part' = [part EXCEPT !.tokens[r] = tokens[r]]
    /\ UNCHANGED <<breakers, tokens, rated, disk>>

(* A snapshot is written once everything has been read, if it is written.  *)
Save ==
    /\ \A r \in Radars : NotRead \notin {part.breakers[r], part.tokens[r]}
    /\ disk' \in {part, disk}
    /\ part' = Nothing
    /\ UNCHANGED <<breakers, tokens, rated>>

Restore ==
    /\ breakers' = disk.breakers
    /\ tokens' = disk.tokens
    /\ rated' = {}
    /\ part' = Nothing
    /\ UNCHANGED disk

Tick ==
    /\ CircuitElapse
    /\ RateLimitElapse
    /\ part' = [breakers |-> [r \in Radars |->
                    IF part.breakers[r] = NotRead THEN NotRead
                    ELSE Cooled(part.breakers[r])],
                tokens |-> [r \in Radars |->
                    IF part.tokens[r] = NotRead THEN NotRead
                    ELSE Refilled(r, part.tokens[r])]]
    /\ disk' = [breakers |-> [r \in Radars |-> Cooled(disk.breakers[r])],
                tokens |-> [r \in Radars |-> Refilled(r, disk.tokens[r])]]
    /\ UNCHANGED rated

TicksNext ==
    \/ \E r \in Radars :
          \/ CallBreaker(r)
          \/ TakeOne(r)
          \/ Build(r)
          \/ ReadBreaker(r)
          \/ ReadBucket(r)
    \/ Save
    \/ Restore
    \/ Tick

TicksSpec == TicksInit /\ [][TicksNext]_ticksVars
=============================================================================
