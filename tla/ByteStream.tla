------------------------------- MODULE ByteStream -------------------------------
(***************************************************************************)
(* One ByteStreamQueue between a descriptor that is read into it and one   *)
(* that it is written to.  The owner calls push only when space_available  *)
(* and pop only when non_empty, as the Poller does on behalf of the DNS    *)
(* proxy; a read returns as many bytes as it likes up to what it was asked *)
(* for, and a write takes as many as it likes.                             *)
(***************************************************************************)
EXTENDS ByteStreamQueue

CONSTANT MaxBytes   \* length of the stream

ASSUME MaxBytesAssumption == MaxBytes \in Nat

VARIABLES q, taken, out

vars == <<q, taken, out>>

Init == q = NewQueue /\ taken = 0 /\ out = <<>>

\* push, when the read returns n bytes; an end of file changes nothing.
Push ==
    /\ space_available(q)
    /\ \E n \in 1 .. contiguous_space_to_push(q) :
        /\ taken + n <= MaxBytes
        /\ q' = Pushed(q, taken + 1, n)
        /\ taken' = taken + n
    /\ out' = out

\* Fault: pop takes the whole contiguous stretch for written.
PopAll ==
    /\ non_empty(q)
    /\ \E n \in 1 .. contiguous_space_to_pop(q) : out' = out \o Front(q, n)
    /\ q' = Popped(q, contiguous_space_to_pop(q))
    /\ taken' = taken

\* pop, when the write takes n bytes.
Pop ==
    /\ non_empty(q)
    /\ \E n \in 1 .. contiguous_space_to_pop(q) :
        /\ q' = Popped(q, n)
        /\ out' = out \o Front(q, n)
    /\ taken' = taken

Next == Push \/ Pop

Spec == Init /\ [][Next]_vars

-----------------------------------------------------------------------------

\* The indices stay in the buffer, which holds bytes of the stream.
TypeOK == q \in Queue /\ taken \in 0 .. MaxBytes /\ out \in Seq(Nat)

\* The bytes written are the bytes read, in order, from the first, each once:
\* neither wrapping around nor filling up loses, repeats or overwrites one.
InOrder == \A i \in DOMAIN out : out[i] = i

\* The indices account for every byte: what was read and not yet written is what
\* available_to_pop reports, and together with available_to_push it makes up the
\* buffer less the cell that is left free.
Accounted ==
    /\ available_to_pop(q) = taken - Len(out)
    /\ available_to_push(q) = Size - 1 - available_to_pop(q)

\* The queue implements a FIFO of capacity Size - 1.
Fifo == INSTANCE ByteFifo WITH Capacity <- Size - 1
ImplementsFifo == Fifo!Spec
=============================================================================
