------------------------------- MODULE MdFifo -------------------------------
(***************************************************************************)
(* What a modem channel promises to the code above it: a bounded first-in  *)
(* first-out queue.  Units are numbered in the order in which the writer   *)
(* produced them; the queue holds the numbers of the units in flight.      *)
(***************************************************************************)
EXTENDS Integers, Sequences

CONSTANTS Capacity,     \* units the channel can hold
          MaxUnits      \* bound on the units ever written

VARIABLES q,            \* the units in flight, oldest first
          produced      \* how many units were ever put in

vars == <<q, produced>>

Init == q = << >> /\ produced = 0

\* The writer publishes the next n units.
Put == \E n \in 1 .. (Capacity - Len(q)) :
          /\ produced + n <= MaxUnits
          /\ q' = q \o [i \in 1 .. n |-> produced + i - 1]
          /\ produced' = produced + n

\* The reader takes the n oldest units.
Take == \E n \in 1 .. Len(q) :
          /\ q' = SubSeq(q, n + 1, Len(q))
          /\ UNCHANGED produced

Next == Put \/ Take

Spec == Init /\ [][Next]_vars
=============================================================================
