-------------------------------- MODULE ByteFifo --------------------------------
(***************************************************************************)
(* What a byte queue promises: it takes a stream of bytes, holds at most   *)
(* Capacity of them, and gives them on in order, each once.                *)
(***************************************************************************)
EXTENDS Integers, Sequences

CONSTANT Capacity

VARIABLES taken,    \* how many bytes were taken
          out       \* the bytes given on

vars == <<taken, out>>

Init == taken = 0 /\ out = <<>>

Take == \E n \in 1 .. Capacity :
    /\ taken + n - Len(out) <= Capacity
    /\ taken' = taken + n
    /\ out' = out

Give == \E n \in 1 .. Capacity :
    /\ Len(out) + n <= taken
    /\ out' = out \o [j \in 1 .. n |-> Len(out) + j]
    /\ taken' = taken

Spec == Init /\ [][Take \/ Give]_vars
=============================================================================
