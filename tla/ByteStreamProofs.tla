--------------------------- MODULE ByteStreamProofs ---------------------------
(***************************************************************************)
(* Theorems about ByteStreamQueue for every buffer size and every stream.  *)
(*                                                                         *)
(* The indices alone say how many bytes are in the buffer (Accounted); the *)
(* inductive invariant adds which bytes they are: the cells from           *)
(* next_byte_to_pop on, around the end of the buffer, hold the bytes taken *)
(* and not yet given, in order.                                            *)
(***************************************************************************)
EXTENDS ByteStream, SequenceTheorems, TLAPS

\* The cell k places behind cell i.
Behind(i, k) == IF i + k >= Size THEN i + k - Size ELSE i + k

\* The bytes in the queue are those from number b + 1 on.
Holds(queue, b) ==
    \A k \in 0 .. available_to_pop(queue) - 1 :
        queue.buffer[Behind(queue.next_byte_to_pop, k)] = b + 1 + k

\* The inductive invariant.
Inv == TypeOK /\ Accounted /\ InOrder /\ Holds(q, Len(out))

-----------------------------------------------------------------------------
(* The arithmetic of the indices.                                          *)

\* However the indices stand, what can be popped and what can be pushed make up
\* the buffer less one cell.
LEMMA Available ==
    ASSUME NEW r \in Queue
    PROVE  /\ available_to_pop(r) \in 0 .. Size - 1
           /\ available_to_push(r) = Size - 1 - available_to_pop(r)
<1> DEFINE i == r.next_byte_to_push
           o == r.next_byte_to_pop
<1>1. i \in Cell /\ o \in Cell
  BY DEF Queue
<1>2. /\ available_to_pop(r) = i - o + (IF o > i THEN Size ELSE 0)
      /\ available_to_push(r) = o - i - 1 + (IF o > i THEN 0 ELSE Size)
  BY DEF available_to_pop, available_to_push
<1> HIDE DEF i, o
<1>3. CASE o > i
  BY <1>1, <1>2, <1>3, SizeAssumption DEF Cell
<1>4. CASE ~(o > i)
  BY <1>1, <1>2, <1>4, SizeAssumption DEF Cell
<1> QED BY <1>3, <1>4

\* A push of n bytes that fit keeps the indices in the buffer, adds n bytes at the
\* back and leaves the ones that are there.
LEMMA PushedQueue ==
    ASSUME NEW r \in Queue, NEW b \in Nat, NEW n \in 1 .. contiguous_space_to_push(r),
           space_available(r), Holds(r, b)
    PROVE  /\ Pushed(r, b + available_to_pop(r) + 1, n) \in Queue
           /\ available_to_pop(Pushed(r, b + available_to_pop(r) + 1, n)) = available_to_pop(r) + n
           /\ Holds(Pushed(r, b + available_to_pop(r) + 1, n), b)
<1> DEFINE i == r.next_byte_to_push
           o == r.next_byte_to_pop
           a == available_to_pop(r)
           f == [j \in Cell |-> IF i <= j /\ j < i + n THEN b + a + 1 + (j - i) ELSE r.buffer[j]]
           s == Pushed(r, b + a + 1, n)
<1>1. /\ i \in Cell /\ o \in Cell /\ a \in 0 .. Size - 1
      /\ r.buffer \in [Cell -> Nat] /\ Size \in Nat /\ Size > 1
      /\ a = i - o + (IF o > i THEN Size ELSE 0)
  BY SizeAssumption, Available DEF Queue, available_to_pop
<1>2. n \in Nat /\ n >= 1 /\ i + n <= Size /\ n <= Size - 1 - a
  <2>1. available_to_push(r) = Size - 1 - a
    BY Available
  <2>2. contiguous_space_to_push(r) = Contiguous(i, available_to_push(r))
    BY DEF contiguous_space_to_push
  <2> HIDE DEF i, a
  <2>3. n \in 1 .. Contiguous(i, Size - 1 - a)
    BY <2>1, <2>2
  <2> QED BY <1>1, <2>3 DEF Contiguous, Cell
<1>3. s = [buffer |-> f, next_byte_to_push |-> Wrap(i + n), next_byte_to_pop |-> o]
  <2>1. s = [r EXCEPT !.buffer = f, !.next_byte_to_push = Wrap(i + n)]
    BY DEF Pushed
  <2> HIDE DEF f
  <2> QED BY <2>1 DEF Queue
<1>4. \A k \in 0 .. a - 1 : r.buffer[Behind(o, k)] = b + 1 + k
  BY DEF Holds
<1> HIDE DEF i, o, a, s
<1>5. Wrap(i + n) \in Cell
  BY <1>1, <1>2 DEF Wrap, Cell
<1>6. f \in [Cell -> Nat]
  <2>1. ASSUME NEW j \in Cell PROVE f[j] \in Nat
    BY <1>1, <1>2, <2>1 DEF Cell
  <2> QED BY <2>1
<1>7. s \in Queue
  BY <1>1, <1>3, <1>5, <1>6 DEF Queue
<1>8. available_to_pop(s) = a + n
  <2>1. available_to_pop(s) = Wrap(i + n) - o + (IF o > Wrap(i + n) THEN Size ELSE 0)
    BY <1>3 DEF available_to_pop
  <2> QED BY <1>1, <1>2, <2>1 DEF Wrap, Cell
<1>9. Holds(s, b)
  <2> SUFFICES ASSUME NEW k \in 0 .. a + n - 1
               PROVE  f[Behind(o, k)] = b + 1 + k
    <3> HIDE DEF f
    <3>1. s.buffer = f /\ s.next_byte_to_pop = o
      BY <1>3
    <3>2. 0 .. available_to_pop(s) - 1 = 0 .. a + n - 1
      BY <1>1, <1>2, <1>8
    <3> QED BY <3>1, <3>2 DEF Holds
  <2>0. k \in Nat /\ k < a + n /\ o \in Nat /\ o < Size /\ a + n < Size /\ i \in Nat
    BY <1>1, <1>2 DEF Cell
  <2>1. Behind(o, k) \in Cell
    BY <1>1, <2>0 DEF Behind, Cell
  <2>2. CASE k < a
    <3>1. ~(i <= Behind(o, k) /\ Behind(o, k) < i + n)
      BY <1>1, <1>2, <2>2 DEF Behind, Cell
    <3>2. r.buffer[Behind(o, k)] = b + 1 + k
      BY <1>1, <1>4, <2>2
    <3> QED BY <2>1, <3>1, <3>2
  <2>3. CASE k >= a
    <3>1. Behind(o, k) = i + (k - a)
      BY <1>1, <1>2, <2>3 DEF Behind, Cell
    <3>2. f[Behind(o, k)] = b + a + 1 + (Behind(o, k) - i)
      <4>1. i <= Behind(o, k) /\ Behind(o, k) < i + n
        BY <1>1, <1>2, <2>0, <2>3, <3>1
      <4> QED BY <2>1, <4>1
    <3> QED BY <1>1, <1>2, <2>3, <3>1, <3>2 DEF Cell
  <2> QED BY <1>1, <2>2, <2>3
<1> QED BY <1>7, <1>8, <1>9 DEF s, a

\* A pop of n bytes that are there keeps the indices in the buffer, gives the next n
\* bytes and leaves the rest.
LEMMA PoppedQueue ==
    ASSUME NEW r \in Queue, NEW b \in Nat, NEW n \in 1 .. contiguous_space_to_pop(r),
           non_empty(r), Holds(r, b)
    PROVE  /\ n <= available_to_pop(r)
           /\ Popped(r, n) \in Queue
           /\ available_to_pop(Popped(r, n)) = available_to_pop(r) - n
           /\ Holds(Popped(r, n), b + n)
           /\ Front(r, n) = [j \in 1 .. n |-> b + j]
<1> DEFINE i == r.next_byte_to_push
           o == r.next_byte_to_pop
           a == available_to_pop(r)
           s == Popped(r, n)
<1>1. /\ i \in Cell /\ o \in Cell /\ a \in 0 .. Size - 1
      /\ r.buffer \in [Cell -> Nat] /\ Size \in Nat /\ Size > 1
      /\ a = i - o + (IF o > i THEN Size ELSE 0)
  BY SizeAssumption, Available DEF Queue, available_to_pop
<1>2. n \in Nat /\ n >= 1 /\ o + n <= Size /\ n <= a
  <2>1. n \in 1 .. Contiguous(o, a)
    BY DEF contiguous_space_to_pop
  <2> HIDE DEF i, o, a
  <2> QED BY <1>1, <2>1 DEF Contiguous, Cell
<1>3. /\ s.next_byte_to_push = i /\ s.next_byte_to_pop = Wrap(o + n) /\ s.buffer = r.buffer
      /\ s = [buffer |-> s.buffer, next_byte_to_push |-> s.next_byte_to_push,
              next_byte_to_pop |-> s.next_byte_to_pop]
  BY DEF Popped, Queue
<1>4. \A k \in 0 .. a - 1 : r.buffer[Behind(o, k)] = b + 1 + k
  BY DEF Holds
<1>5. Front(r, n) = [j \in 1 .. n |-> r.buffer[o + j - 1]]
  BY DEF Front
<1> HIDE DEF i, o, a, s
<1>6. Wrap(o + n) \in Cell
  BY <1>1, <1>2 DEF Wrap, Cell
<1>7. s \in Queue
  BY <1>1, <1>3, <1>6 DEF Queue
<1>8. available_to_pop(s) = a - n
  <2>1. available_to_pop(s) = i - Wrap(o + n) + (IF Wrap(o + n) > i THEN Size ELSE 0)
    BY <1>3 DEF available_to_pop
  <2> QED BY <1>1, <1>2, <2>1 DEF Wrap, Cell
<1>9. Holds(s, b + n)
  <2> SUFFICES ASSUME NEW k \in 0 .. a - n - 1
               PROVE  r.buffer[Behind(Wrap(o + n), k)] = b + n + 1 + k
    BY <1>3, <1>8 DEF Holds
  <2>1. Behind(Wrap(o + n), k) = Behind(o, n + k) /\ n + k \in 0 .. a - 1
    <3>1. k \in Nat /\ n + k < a /\ o \in Nat /\ o < Size
      BY <1>1, <1>2 DEF Cell
    <3>2. CASE o + n = Size
      BY <1>1, <1>2, <3>1, <3>2 DEF Behind, Wrap
    <3>3. CASE o + n < Size
      BY <1>1, <1>2, <3>1, <3>3 DEF Behind, Wrap
    <3> QED BY <1>1, <1>2, <3>1, <3>2, <3>3
  <2>2. r.buffer[Behind(o, n + k)] = b + 1 + (n + k)
    BY <1>4, <2>1
  <2> QED BY <1>2, <2>1, <2>2
<1>10. Front(r, n) = [j \in 1 .. n |-> b + j]
  <2> SUFFICES ASSUME NEW j \in 1 .. n
               PROVE  r.buffer[o + j - 1] = b + j
    BY <1>5
  <2>1. Behind(o, j - 1) = o + j - 1 /\ j - 1 \in 0 .. a - 1
    BY <1>1, <1>2 DEF Behind, Cell
  <2>2. r.buffer[Behind(o, j - 1)] = b + 1 + (j - 1)
    BY <1>4, <2>1
  <2> QED BY <1>2, <2>1, <2>2
<1> QED BY <1>2, <1>7, <1>8, <1>9, <1>10 DEF s, a

-----------------------------------------------------------------------------
(* The invariant and its consequences.                                     *)

\* An empty queue satisfies the invariant.
LEMMA InitInv == Init => Inv
<1> SUFFICES ASSUME Init PROVE Inv
  OBVIOUS
<1>1. NewQueue \in Queue /\ available_to_pop(NewQueue) = 0
  BY SizeAssumption DEF NewQueue, Queue, Cell, available_to_pop
<1>2. q = NewQueue /\ taken = 0 /\ out = <<>> /\ Len(out) = 0
  BY DEF Init
<1>3. available_to_push(q) = Size - 1 - available_to_pop(q)
  BY <1>1, <1>2, Available
<1>4. Holds(q, Len(out))
  BY <1>1, <1>2 DEF Holds
<1>5. TypeOK /\ Accounted
  <2>1. TypeOK
    BY <1>1, <1>2, MaxBytesAssumption DEF TypeOK
  <2>2. available_to_pop(q) = 0
    BY <1>1, <1>2
  <2>3. available_to_pop(q) = taken - Len(out)
    <3>1. 0 = 0 - 0
      OBVIOUS
    <3> QED BY <1>2, <2>2, <3>1
  <2> QED BY <1>3, <2>1, <2>3 DEF Accounted
<1>6. InOrder
  BY <1>2 DEF InOrder
<1> QED BY <1>4, <1>5, <1>6 DEF Inv

\* push keeps the invariant: new bytes extend the range of bytes held.
LEMMA PushInv == Inv /\ Push => Inv'
<1> SUFFICES ASSUME Inv, Push PROVE Inv'
  OBVIOUS
<1> DEFINE b == Len(out)
           a == available_to_pop(q)
<1>1. /\ q \in Queue /\ taken \in 0 .. MaxBytes /\ out \in Seq(Nat) /\ b \in Nat
      /\ a = taken - b /\ Holds(q, b) /\ MaxBytes \in Nat
  BY MaxBytesAssumption DEF Inv, TypeOK, Accounted
<1>2. PICK n \in 1 .. contiguous_space_to_push(q) :
        taken + n <= MaxBytes /\ q' = Pushed(q, taken + 1, n) /\ taken' = taken + n
  BY DEF Push
<1>3. a \in 0 .. Size - 1 /\ Size \in Nat /\ n \in Nat
  <2>1. contiguous_space_to_push(q) \in Int
    <3>1. available_to_push(q) \in Int /\ q.next_byte_to_push \in Int /\ Size \in Int
      BY <1>1, Available, SizeAssumption DEF Queue, Cell
    <3> QED BY <3>1 DEF contiguous_space_to_push, Contiguous
  <2> QED BY <1>1, <1>2, <2>1, Available, SizeAssumption
<1>4. out' = out /\ Len(out') = b /\ space_available(q)
  BY DEF Push
<1>5. taken + 1 = b + a + 1
  BY <1>1, <1>3
<1>6. q' \in Queue /\ available_to_pop(q') = a + n /\ Holds(q', b)
  BY <1>1, <1>2, <1>4, <1>5, PushedQueue
<1> HIDE DEF a, b
<1>7. TypeOK'
  BY <1>1, <1>2, <1>3, <1>4, <1>6 DEF TypeOK
<1>8. Accounted'
  BY <1>1, <1>2, <1>3, <1>4, <1>6, Available DEF Accounted
<1> QED BY <1>4, <1>6, <1>7, <1>8 DEF Inv, InOrder

\* pop keeps the invariant: what it writes is the front of that range.
LEMMA PopInv == Inv /\ Pop => Inv'
<1> SUFFICES ASSUME Inv, Pop PROVE Inv'
  OBVIOUS
<1> DEFINE b == Len(out)
           a == available_to_pop(q)
<1>1. /\ q \in Queue /\ taken \in 0 .. MaxBytes /\ out \in Seq(Nat) /\ b \in Nat
      /\ a = taken - b /\ Holds(q, b) /\ MaxBytes \in Nat
  BY MaxBytesAssumption DEF Inv, TypeOK, Accounted
<1>2. PICK n \in 1 .. contiguous_space_to_pop(q) : q' = Popped(q, n) /\ out' = out \o Front(q, n)
  BY DEF Pop
<1>3. a \in 0 .. Size - 1 /\ Size \in Nat /\ n \in Nat
  <2>1. contiguous_space_to_pop(q) \in Int
    <3>1. available_to_pop(q) \in Int /\ q.next_byte_to_pop \in Int /\ Size \in Int
      BY <1>1, Available, SizeAssumption DEF Queue, Cell
    <3> QED BY <3>1 DEF contiguous_space_to_pop, Contiguous
  <2> QED BY <1>1, <1>2, <2>1, Available, SizeAssumption
<1>4. taken' = taken /\ non_empty(q)
  BY DEF Pop
<1>5. /\ q' \in Queue /\ available_to_pop(q') = a - n /\ Holds(q', b + n) /\ n <= a
      /\ Front(q, n) = [j \in 1 .. n |-> b + j]
  BY <1>1, <1>2, <1>4, PoppedQueue
<1> DEFINE f == [j \in 1 .. n |-> b + j]
<1> HIDE DEF a
<1>6. f \in Seq(Nat) /\ Len(f) = n /\ \A j \in 1 .. n : f[j] = b + j
  BY <1>1, <1>3
<1>7. out' = out \o f
  BY <1>2, <1>5
<1> HIDE DEF f
<1>8. out' \in Seq(Nat) /\ Len(out') = b + n
  <2>1. out \o f \in Seq(Nat) /\ Len(out \o f) = Len(out) + Len(f)
    BY <1>1, <1>6, ConcatProperties
  <2> QED BY <1>6, <1>7, <2>1
<1>9. InOrder'
  <2> SUFFICES ASSUME NEW m \in 1 .. b + n PROVE out'[m] = m
    BY <1>8 DEF InOrder
  <2>1. CASE m <= b
    BY <1>1, <1>6, <1>7, <2>1 DEF Inv, InOrder
  <2>2. CASE m > b
    BY <1>1, <1>3, <1>6, <1>7, <2>2
  <2> QED BY <1>1, <2>1, <2>2
<1> HIDE DEF b
<1>10. TypeOK'
  BY <1>1, <1>4, <1>5, <1>8 DEF TypeOK
<1>11. Accounted'
  BY <1>1, <1>3, <1>4, <1>5, <1>8, Available DEF Accounted
<1> QED BY <1>5, <1>8, <1>9, <1>10, <1>11 DEF Inv

\* A stuttering step keeps the invariant.
LEMMA StutterInv == Inv /\ UNCHANGED vars => Inv'
  BY DEF vars, Inv, TypeOK, Accounted, InOrder, Holds

\* The inductive invariant holds for every size of the queue.
LEMMA InvInvariant == Spec => []Inv
<1>1. Inv /\ [Next]_vars => Inv'
  BY PushInv, PopInv, StutterInv DEF Next
<1> QED BY <1>1, InitInv, PTL DEF Spec

\* The indices stay in the buffer.
THEOREM TypeCorrect == Spec => []TypeOK
<1>1. Inv => TypeOK
  BY DEF Inv
<1> QED BY <1>1, InvInvariant, PTL

\* For every buffer size and every way in which reads and writes cut the stream,
\* the bytes come out in the order in which they went in, each once.
THEOREM StreamPreserved == Spec => []InOrder
<1>1. Inv => InOrder
  BY DEF Inv
<1> QED BY <1>1, InvInvariant, PTL

\* available_to_pop and available_to_push always tell the truth.
THEOREM SpaceAccounted == Spec => []Accounted
<1>1. Inv => Accounted
  BY DEF Inv
<1> QED BY <1>1, InvInvariant, PTL

\* The ring buffer implements a FIFO that holds Size - 1 bytes.
THEOREM RefinesFifo == Spec => ImplementsFifo
<1>1. Init => Fifo!Init
  BY DEF Init, Fifo!Init
<1>2. ASSUME Inv, Push PROVE Fifo!Take
  <2> DEFINE a == available_to_pop(q)
  <2>1. PICK n \in 1 .. contiguous_space_to_push(q) : taken' = taken + n
    BY <1>2 DEF Push
  <2>2. /\ q \in Queue /\ a = taken - Len(out) /\ available_to_push(q) = Size - 1 - a
        /\ taken \in Int /\ Len(out) \in Nat /\ Size \in Nat /\ a \in 0 .. Size - 1
    BY <1>2, Available, SizeAssumption DEF Inv, TypeOK, Accounted
  <2>3. /\ q.next_byte_to_push \in Int /\ out' = out
        /\ contiguous_space_to_push(q) \in Int /\ contiguous_space_to_push(q) <= available_to_push(q)
    <3>1. q.next_byte_to_push \in Cell /\ out' = out
      BY <1>2, <2>2 DEF Push, Queue
    <3>2. contiguous_space_to_push(q) = Contiguous(q.next_byte_to_push, available_to_push(q))
      BY DEF contiguous_space_to_push
    <3> HIDE DEF a
    <3> QED BY <2>2, <3>1, <3>2 DEF Contiguous, Cell
  <2> HIDE DEF a
  <2>4. n \in 1 .. Size - 1 /\ taken + n - Len(out) <= Size - 1
    BY <2>1, <2>2, <2>3
  <2> QED BY <2>1, <2>3, <2>4 DEF Fifo!Take
<1>3. ASSUME Inv, Pop PROVE Fifo!Give
  <2> DEFINE a == available_to_pop(q)
  <2>1. PICK n \in 1 .. contiguous_space_to_pop(q) : out' = out \o Front(q, n)
    BY <1>3 DEF Pop
  <2>2. /\ q \in Queue /\ a = taken - Len(out) /\ taken \in Int /\ Len(out) \in Nat
        /\ Size \in Nat /\ a \in 0 .. Size - 1 /\ Holds(q, Len(out))
    BY <1>3, Available, SizeAssumption DEF Inv, TypeOK, Accounted
  <2>3. n <= a /\ Front(q, n) = [j \in 1 .. n |-> Len(out) + j]
    BY <1>3, <2>1, <2>2, PoppedQueue DEF Pop
  <2>4. contiguous_space_to_pop(q) \in Int
    BY <2>2 DEF contiguous_space_to_pop, Contiguous, Queue, Cell
  <2> HIDE DEF a
  <2>5. n \in 1 .. Size - 1 /\ Len(out) + n <= taken
    BY <2>1, <2>2, <2>3, <2>4
  <2>6. taken' = taken /\ out' = out \o [j \in 1 .. n |-> Len(out) + j]
    BY <1>3, <2>1, <2>3 DEF Pop
  <2> QED BY <2>5, <2>6 DEF Fifo!Give
<1>4. Inv /\ [Next]_vars => [Fifo!Take \/ Fifo!Give]_Fifo!vars
  BY <1>2, <1>3 DEF Next, vars, Fifo!vars
<1> QED BY <1>1, <1>4, InvInvariant, PTL DEF Spec, ImplementsFifo, Fifo!Spec
=============================================================================
