---------------------------- MODULE ByteStreamQueue ----------------------------
(***************************************************************************)
(* ByteStreamQueue: the ring buffer through which the DNS proxy relays one *)
(* direction of a TCP connection.  One cell is always left free, so that   *)
(* equal indices mean empty and never full.                                *)
(*                                                                         *)
(* The bytes of a stream are numbered from 1, and a byte is its number: a  *)
(* byte that is lost, repeated or overwritten shows.                       *)
(***************************************************************************)
EXTENDS Integers, Sequences

CONSTANT Size   \* the argument of the constructor; 1 MiB in the DNS proxy

ASSUME SizeAssumption == Size \in Nat /\ Size > 1

Cell == 0 .. Size - 1

Queue == [buffer : [Cell -> Nat], next_byte_to_push : Cell, next_byte_to_pop : Cell]

NewQueue == [buffer |-> [i \in Cell |-> 0], next_byte_to_push |-> 0, next_byte_to_pop |-> 0]

available_to_pop(q) ==
    q.next_byte_to_push - q.next_byte_to_pop
        + (IF q.next_byte_to_pop > q.next_byte_to_push THEN Size ELSE 0)

\* Fault: no cell is left free.
available_to_push_all(q) ==
    q.next_byte_to_pop - q.next_byte_to_push
        + (IF q.next_byte_to_pop > q.next_byte_to_push THEN 0 ELSE Size)

available_to_push(q) ==
    q.next_byte_to_pop - q.next_byte_to_push - 1
        + (IF q.next_byte_to_pop > q.next_byte_to_push THEN 0 ELSE Size)

space_available(q) == available_to_push(q) > 0
non_empty(q) == available_to_pop(q) > 0

\* Of n cells from cell i on, those before the end of the buffer.
Contiguous(i, n) == IF i + n >= Size THEN Size - i ELSE n

contiguous_space_to_push(q) == Contiguous(q.next_byte_to_push, available_to_push(q))
contiguous_space_to_pop(q) == Contiguous(q.next_byte_to_pop, available_to_pop(q))

\* Fault: an index that reaches the end of the buffer restarts at cell 1.
WrapsToOne(i) == IF i = Size THEN 1 ELSE i

Wrap(i) == IF i = Size THEN 0 ELSE i

\* push: the n bytes from number b on, which one read returned, are copied in.
Pushed(q, b, n) ==
    LET i == q.next_byte_to_push
    IN  [q EXCEPT !.buffer = [j \in Cell |-> IF i <= j /\ j < i + n THEN b + (j - i) ELSE @[j]],
                  !.next_byte_to_push = Wrap(i + n)]

\* pop: n bytes have been written; Front is what they were.
Popped(q, n) == [q EXCEPT !.next_byte_to_pop = Wrap(@ + n)]
Front(q, n) == [j \in 1 .. n |-> q.buffer[q.next_byte_to_pop + j - 1]]
=============================================================================
