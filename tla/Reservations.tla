---------------------------- MODULE Reservations ----------------------------
(***************************************************************************)
(* What a partition's pending ring promises to the code that uses it: a    *)
(* bag of reserved base offsets, bounded by the ring's capacity, and the   *)
(* least of them as the floor.  PendingRing implements this specification. *)
(***************************************************************************)
EXTENDS Integers

CONSTANTS Cap,      \* entries a ring can hold (MaxBackends)
          Bases     \* the offsets a reservation can be made at

VARIABLES held,     \* how many reservations stand at each base
          count,    \* how many stand in all
          floor     \* the lowest reserved base, -1 when there is none

vars == <<held, count, floor>>

Standing(h) == {b \in Bases : h[b] > 0}

IsFloor(f, h) == IF Standing(h) = {} THEN f = -1
                 ELSE f \in Standing(h) /\ \A b \in Standing(h) : f <= b

Init == /\ held = [b \in Bases |-> 0]
        /\ count = 0
        /\ floor = -1

Reserve(base) == /\ count < Cap
                 /\ held' = [held EXCEPT ![base] = held[base] + 1]
                 /\ count' = count + 1
                 /\ IsFloor(floor', held')

Release(base) == /\ held[base] > 0
                 /\ held' = [held EXCEPT ![base] = held[base] - 1]
                 /\ count' = count - 1
                 /\ IsFloor(floor', held')

Next == \E base \in Bases : Reserve(base) \/ Release(base)

Spec == Init /\ [][Next]_vars
=============================================================================
