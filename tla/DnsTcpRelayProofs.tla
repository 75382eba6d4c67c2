-------------------------- MODULE DnsTcpRelayProofs --------------------------
(***************************************************************************)
(* The relay of a DNS connection, for every size of its buffers, every     *)
(* length of the two streams and every way in which the ends write, read   *)
(* and end.                                                                *)
(*                                                                         *)
(* A callback runs on what was looked up before the batch.  What makes     *)
(* that sound is that the actions do not take from one another: only its   *)
(* own action fills a queue and only its own action empties it (Fit), and  *)
(* a write that waits is alone (Writing).  The lemmas on the ring buffer   *)
(* say which bytes a queue holds (Streams), and the cancelled actions say  *)
(* why nothing is left when poll has no interest any more (Cancelled).     *)
(***************************************************************************)
EXTENDS DnsTcpRelay, SequenceTheorems, TLAPS

-----------------------------------------------------------------------------
(* The ring buffer.                                                        *)

Ring == INSTANCE ByteStreamProofs WITH q <- queue, taken <- taken, out <- out

\* The bytes in the queue are those from number b + 1 on.
Holds(r, b) == Ring!Holds(r, b)

\* The operators of the instance are those of ByteStreamQueue.
LEMMA RingNames ==
    /\ Ring!Cell = Cell /\ Ring!Queue = Queue
    /\ \A r : /\ Ring!available_to_pop(r) = available_to_pop(r)
              /\ Ring!available_to_push(r) = available_to_push(r)
              /\ Ring!contiguous_space_to_push(r) = contiguous_space_to_push(r)
              /\ Ring!contiguous_space_to_pop(r) = contiguous_space_to_pop(r)
    /\ \A r, b, n : Ring!Pushed(r, b, n) = Pushed(r, b, n)
    /\ \A r, n : Ring!Popped(r, n) = Popped(r, n) /\ Ring!Front(r, n) = Front(r, n)
<1>1. Ring!Cell = Cell /\ Ring!Queue = Queue
  BY DEF Ring!Queue, Queue, Ring!Cell, Cell
<1>2. ASSUME NEW r
      PROVE  /\ Ring!available_to_pop(r) = available_to_pop(r)
             /\ Ring!available_to_push(r) = available_to_push(r)
  BY DEF Ring!available_to_pop, available_to_pop, Ring!available_to_push, available_to_push
<1>3. ASSUME NEW k, NEW n
      PROVE  Ring!Contiguous(k, n) = Contiguous(k, n) /\ Ring!Wrap(k) = Wrap(k)
  BY DEF Ring!Contiguous, Contiguous, Ring!Wrap, Wrap
<1>4. ASSUME NEW r
      PROVE  /\ Ring!contiguous_space_to_push(r) = contiguous_space_to_push(r)
             /\ Ring!contiguous_space_to_pop(r) = contiguous_space_to_pop(r)
  BY <1>2, <1>3 DEF Ring!contiguous_space_to_push, contiguous_space_to_push,
                    Ring!contiguous_space_to_pop, contiguous_space_to_pop
<1>5. ASSUME NEW r, NEW b, NEW n PROVE Ring!Pushed(r, b, n) = Pushed(r, b, n)
  BY <1>1, <1>3 DEF Ring!Pushed, Pushed
<1>6. ASSUME NEW r, NEW n PROVE Ring!Popped(r, n) = Popped(r, n) /\ Ring!Front(r, n) = Front(r, n)
  BY <1>3 DEF Ring!Popped, Popped, Ring!Front, Front
<1> QED BY <1>1, <1>2, <1>4, <1>5, <1>6

\* The same for the two tests.
LEMMA RingTests ==
    ASSUME NEW r
    PROVE  /\ Ring!space_available(r) <=> space_available(r)
           /\ Ring!non_empty(r) <=> non_empty(r)
  BY RingNames DEF Ring!space_available, space_available, Ring!non_empty, non_empty

\* Available, of ByteStreamProofs.
LEMMA Available ==
    ASSUME NEW r \in Queue
    PROVE  /\ available_to_pop(r) \in 0 .. Size - 1
           /\ available_to_push(r) = Size - 1 - available_to_pop(r)
  BY Ring!Available, RingNames, SizeAssumption, RelayAssumption

\* PushedQueue, of ByteStreamProofs.
LEMMA PushedQueue ==
    ASSUME NEW r \in Queue, NEW b \in Nat, NEW n \in 1 .. contiguous_space_to_push(r),
           space_available(r), Holds(r, b)
    PROVE  LET s == Pushed(r, b + available_to_pop(r) + 1, n)
           IN  s \in Queue /\ available_to_pop(s) = available_to_pop(r) + n /\ Holds(s, b)
  BY Ring!PushedQueue, RingNames, RingTests, SizeAssumption, RelayAssumption DEF Holds

\* PoppedQueue, of ByteStreamProofs.
LEMMA PoppedQueue ==
    ASSUME NEW r \in Queue, NEW b \in Nat, NEW n \in 1 .. contiguous_space_to_pop(r),
           non_empty(r), Holds(r, b)
    PROVE  /\ n <= available_to_pop(r)
           /\ Popped(r, n) \in Queue
           /\ available_to_pop(Popped(r, n)) = available_to_pop(r) - n
           /\ Holds(Popped(r, n), b + n)
           /\ Front(r, n) = [j \in 1 .. n |-> b + j]
  BY Ring!PoppedQueue, RingNames, RingTests, SizeAssumption, RelayAssumption DEF Holds

\* A new queue is empty.
LEMMA NewIsEmpty == NewQueue \in Queue /\ available_to_pop(NewQueue) = 0 /\ \A b : Holds(NewQueue, b)
<1>1. NewQueue \in Queue /\ available_to_pop(NewQueue) = 0
  BY SizeAssumption DEF NewQueue, Queue, Cell, available_to_pop
<1>2. Ring!available_to_pop(NewQueue) = 0
  BY <1>1, RingNames
<1> QED BY <1>1, <1>2 DEF Holds, Ring!Holds

\* What can be pushed or popped at once is a number of bytes that are free or there.
LEMMA ContiguousFacts ==
    ASSUME NEW r \in Queue
    PROVE  /\ contiguous_space_to_push(r) \in Int /\ contiguous_space_to_pop(r) \in Nat
           /\ non_empty(r) => contiguous_space_to_pop(r) >= 1
           /\ space_available(r) <=> available_to_pop(r) < Size - 1
           /\ non_empty(r) <=> available_to_pop(r) > 0
<1>1. /\ r.next_byte_to_push \in Cell /\ r.next_byte_to_pop \in Cell
      /\ available_to_pop(r) \in 0 .. Size - 1 /\ available_to_push(r) = Size - 1 - available_to_pop(r)
      /\ Size \in Nat
  BY Available, SizeAssumption DEF Queue
<1>2. space_available(r) <=> available_to_push(r) > 0
  BY DEF space_available
<1>3. non_empty(r) <=> available_to_pop(r) > 0
  BY DEF non_empty
<1>4. contiguous_space_to_push(r) = Contiguous(r.next_byte_to_push, available_to_push(r))
  BY DEF contiguous_space_to_push
<1>5. contiguous_space_to_pop(r) = Contiguous(r.next_byte_to_pop, available_to_pop(r))
  BY DEF contiguous_space_to_pop
<1>6. contiguous_space_to_push(r) \in Int
  BY <1>1, <1>4 DEF Contiguous, Cell
<1>7. contiguous_space_to_pop(r) \in Nat /\ (available_to_pop(r) > 0 => contiguous_space_to_pop(r) >= 1)
  BY <1>1, <1>5 DEF Contiguous, Cell
<1> QED BY <1>1, <1>2, <1>3, <1>6, <1>7

\* After one byte of a write, what is left of it can still be popped at once.
LEMMA OneLess ==
    ASSUME NEW r \in Queue, NEW n \in 2 .. contiguous_space_to_pop(r)
    PROVE  n - 1 \in 1 .. contiguous_space_to_pop(Popped(r, 1)) /\ non_empty(Popped(r, 1))
<1> DEFINE o == r.next_byte_to_pop
           p == r.next_byte_to_push
           a == available_to_pop(r)
           s == Popped(r, 1)
<1>1. o \in Cell /\ p \in Cell /\ a \in 0 .. Size - 1 /\ Size \in Nat /\ a = p - o + (IF o > p THEN Size ELSE 0)
  BY Available, SizeAssumption DEF Queue, available_to_pop
<1>2. contiguous_space_to_pop(r) = Contiguous(o, a)
  BY DEF contiguous_space_to_pop
<1>3. s.next_byte_to_push = p /\ s.next_byte_to_pop = Wrap(o + 1)
  BY DEF Popped, Queue
<1>4. available_to_pop(s) = p - Wrap(o + 1) + (IF Wrap(o + 1) > p THEN Size ELSE 0)
  BY <1>3 DEF available_to_pop
<1>5. contiguous_space_to_pop(s) = Contiguous(Wrap(o + 1), available_to_pop(s))
  BY <1>3 DEF contiguous_space_to_pop
<1>6. non_empty(s) <=> available_to_pop(s) > 0
  BY DEF non_empty
<1> HIDE DEF o, p, a, s
<1>7. n \in Int /\ n >= 2 /\ n <= a /\ o + n <= Size
  BY <1>1, <1>2 DEF Contiguous, Cell
<1>8. Wrap(o + 1) = o + 1
  BY <1>1, <1>7 DEF Wrap, Cell
<1>9. available_to_pop(s) = a - 1
  BY <1>1, <1>4, <1>7, <1>8 DEF Cell
<1>10. contiguous_space_to_pop(s) = Contiguous(o, a) - 1
  BY <1>1, <1>5, <1>7, <1>8, <1>9 DEF Contiguous, Cell
<1>11. n - 1 \in 1 .. contiguous_space_to_pop(s) /\ available_to_pop(s) > 0
  BY <1>1, <1>2, <1>7, <1>9, <1>10 DEF Contiguous, Cell
<1> QED BY <1>6, <1>11 DEF s

-----------------------------------------------------------------------------
(* The inductive invariant.                                                *)

RelayTypes ==
    /\ queue \in [End -> Queue] /\ taken \in [End -> Nat] /\ out \in [End -> Seq(Nat)]
    /\ st \in [End -> EndState] /\ wrote \in [End -> Nat] /\ seen \in [End -> Nat]
    /\ eof \in [End -> BOOLEAN]
    /\ active \subseteq DOMAIN Actions
    /\ events \subseteq DOMAIN Actions
    /\ ready \subseteq DOMAIN Actions
    /\ failed \subseteq DOMAIN Actions
    /\ pc \in {"connect", "interest", "poll", "dispatch", "write", "writing"} \cup Ended
    /\ i \in DOMAIN Actions /\ left \in Nat

Fd(a) == Actions[a].fd

\* Number of the byte before the first that an end may send.
Before(e) == IF e = "client" THEN 0 ELSE MaxBytes

\* Bytes read from an end that are no longer in its queue.
Passed(e) == taken[e] - available_to_pop(queue[e])

\* What was read from an end was sent by it; its queue holds the last of it, and all
\* the rest, or as much as was wanted, has been written to the other end.
Stream(e) ==
    /\ taken[e] <= wrote[e]
    /\ available_to_pop(queue[e]) <= taken[e]
    /\ Holds(queue[e], Before(e) + Passed(e))
    /\ \A k \in DOMAIN out[Peer(e)] : out[Peer(e)][k] = Before(e) + k
    /\ st[Peer(e)] \in {"open", "fin"} => Len(out[Peer(e)]) = Passed(e)

Streams == \A e \in End : Stream(e)

\* End of file is remembered of an end that will not send any more and of which all was read.
EofTrue == \A e \in End : eof[e] => taken[e] = wrote[e] /\ st[e] # "open"

\* Just the reads that met end of file are cancelled.
Cancelled == \A a \in DOMAIN Actions : a \in active <=> Actions[a].dir = "Out" \/ ~eof[Fd(a)]

\* What poll(2) is asked about is wanted.
Wanted == pc = "poll" => \A a \in events : when_interested(a)

\* An action can do what it would be called for.
Fit(a) ==
    /\ when_interested(a)
    /\ Actions[a].dir = "In" => taken[Fd(a)] < wrote[Fd(a)] \/ st[Fd(a)] \in {"fin", "gone", "broken"}

\* The actions that the batch has not yet come to.
Pending == {a \in ready \ failed : a > i \/ (a = i /\ pc = "dispatch")}

Batch == pc \in {"dispatch", "write", "writing"} => \A a \in Pending : Fit(a)

\* A write has some of the bytes in front of it left.
Writing ==
    pc \in {"write", "writing"} =>
        /\ Actions[i].dir = "Out"
        /\ non_empty(queue[PopSource(Fd(i))])
        /\ left \in 1 .. contiguous_space_to_pop(queue[PopSource(Fd(i))])

\* poll has no interest only when both ends have ended and both queues are empty.
Done == pc = "returned" => \A e \in End : eof[e] /\ available_to_pop(queue[e]) = 0

Inv == /\ RelayTypes /\ Streams /\ EofTrue /\ Cancelled
       /\ Wanted /\ Batch /\ Writing /\ Done /\ pc # "assert"

-----------------------------------------------------------------------------
(* The four actions.                                                       *)

LEMMA ActionFacts ==
    /\ Len(Actions) = 4 /\ DOMAIN Actions = 1 .. 4
    /\ Fd(1) = "dns_server" /\ Actions[1].dir = "In"
    /\ Fd(2) = "client" /\ Actions[2].dir = "In"
    /\ Fd(3) = "dns_server" /\ Actions[3].dir = "Out"
    /\ Fd(4) = "client" /\ Actions[4].dir = "Out"
  BY DEF Actions, Fd

LEMMA EndFacts ==
    /\ \A e \in End : Peer(e) \in End /\ Peer(e) # e /\ Peer(Peer(e)) = e
    /\ \A a \in DOMAIN Actions : Fd(a) \in End /\ Actions[a].fd = Fd(a) /\ Actions[a].dir \in {"In", "Out"}
    /\ \A e \in End, d \in End : d # e => d = Peer(e)
    /\ \A a, b \in DOMAIN Actions : Fd(a) = Fd(b) /\ Actions[a].dir = Actions[b].dir => a = b
<1>1. /\ \A e \in End : Peer(e) \in End /\ Peer(e) # e /\ Peer(Peer(e)) = e
      /\ \A e \in End, d \in End : d # e => d = Peer(e)
  BY DEF End, Peer
<1>2. \A a \in DOMAIN Actions : a = 1 \/ a = 2 \/ a = 3 \/ a = 4
  BY ActionFacts
<1>3. \A a \in DOMAIN Actions : Fd(a) \in End /\ Actions[a].fd = Fd(a) /\ Actions[a].dir \in {"In", "Out"}
  BY <1>2, ActionFacts DEF End, Fd
<1>4. \A a, b \in DOMAIN Actions : Fd(a) = Fd(b) /\ Actions[a].dir = Actions[b].dir => a = b
  BY <1>2, ActionFacts
<1> QED BY <1>1, <1>3, <1>4

\* An action is fit when its queue is: the reads need room, the writes bytes.
LEMMA InterestFacts ==
    ASSUME NEW a \in DOMAIN Actions
    PROVE  /\ Actions[a].dir = "In" => (when_interested(a) <=> space_available(queue[Fd(a)]))
           /\ Actions[a].dir = "Out" => (when_interested(a) <=> non_empty(queue[Peer(Fd(a))]))
           /\ PopSource(Fd(a)) = Peer(Fd(a))
  BY DEF when_interested, Fd, PopSource

\* After an action the batch goes on with the next, or ends.
LEMMA Advance ==
    ASSUME RelayTypes, NextAction, UNCHANGED <<ready, failed>>,
           \A a \in ready \ failed : a > i => Fit(a)'
    PROVE  /\ pc' \in {"interest", "dispatch"} /\ i' \in DOMAIN Actions
           /\ Batch' /\ Wanted' /\ Writing' /\ Done'
<1>1. i \in 1 .. 4 /\ Len(Actions) = 4 /\ ready \subseteq DOMAIN Actions /\ DOMAIN Actions = 1 .. 4
  BY ActionFacts DEF RelayTypes
<1>2. /\ i' = IF i = 4 THEN 1 ELSE i + 1
      /\ pc' = IF i = 4 THEN "interest" ELSE "dispatch"
  BY <1>1 DEF NextAction
<1>3. pc' \in {"interest", "dispatch"} /\ i' \in DOMAIN Actions
  BY <1>1, <1>2
<1>4. Batch'
  <2> SUFFICES ASSUME pc' = "dispatch", NEW a \in Pending' PROVE Fit(a)'
    BY <1>3 DEF Batch
  <2>1. a \in ready \ failed /\ a >= i' /\ a \in 1 .. 4
    BY <1>1, <1>3 DEF Pending
  <2>2. a > i
    BY <1>1, <1>2, <2>1
  <2> QED BY <2>1, <2>2
<1>5. Wanted' /\ Writing' /\ Done'
  BY <1>3 DEF Wanted, Writing, Done
<1> QED BY <1>3, <1>4, <1>5

\* What the parts of the invariant depend on.
LEMMA Unchanged ==
    ASSUME Inv
    PROVE  /\ UNCHANGED <<queue, taken, out, st, wrote>> => Streams'
           /\ UNCHANGED <<eof, taken, wrote, st>> => EofTrue'
           /\ UNCHANGED <<eof, active>> => Cancelled'
           /\ \A a \in DOMAIN Actions : UNCHANGED <<queue, taken, wrote, st>> => (Fit(a) <=> Fit(a)')
<1>1. UNCHANGED <<queue, taken, out, st, wrote>> => Streams'
  BY DEF Inv, Streams, Stream, Passed, Holds, Ring!Holds, Ring!available_to_pop, available_to_pop
<1>2. UNCHANGED <<eof, taken, wrote, st>> => EofTrue'
  BY DEF Inv, EofTrue
<1>3. UNCHANGED <<eof, active>> => Cancelled'
  BY DEF Inv, Cancelled
<1>4. ASSUME NEW a \in DOMAIN Actions, UNCHANGED <<queue, taken, wrote, st>> PROVE Fit(a) <=> Fit(a)'
  BY <1>4 DEF Fit, when_interested, space_available, non_empty, available_to_push, available_to_pop
<1> QED BY <1>1, <1>2, <1>3, <1>4

-----------------------------------------------------------------------------
(* One lemma for each kind of step.                                        *)

LEMMA InitInv == Init => Inv
<1> SUFFICES ASSUME Init PROVE Inv
  OBVIOUS
<1>1. RelayTypes
  BY NewIsEmpty, ActionFacts DEF Init, RelayTypes, EndState
<1>2. Streams
  <2> SUFFICES ASSUME NEW e \in End PROVE Stream(e)
    BY DEF Streams
  <2>1. /\ queue[e] = NewQueue /\ taken[e] = 0 /\ wrote[e] = 0 /\ out[Peer(e)] = <<>>
    BY EndFacts DEF Init
  <2>2. Passed(e) = 0 /\ Len(out[Peer(e)]) = 0 /\ DOMAIN out[Peer(e)] = {}
    BY <2>1, NewIsEmpty DEF Passed
  <2> QED BY <2>1, <2>2, NewIsEmpty DEF Stream
<1>3. EofTrue /\ Wanted /\ Batch /\ Writing /\ Done /\ pc # "assert"
  BY DEF Init, EofTrue, Wanted, Batch, Writing, Done
<1>4. Cancelled
  BY EndFacts DEF Init, Cancelled
<1> QED BY <1>1, <1>2, <1>3, <1>4 DEF Inv

\* Steps that only move the thread, to a place of which nothing is said.
LEMMA MovedInv ==
    ASSUME Inv, UNCHANGED <<queue, taken, out, ends, eof, active>>, RelayTypes',
           pc' \notin {"poll", "dispatch", "write", "writing", "returned", "assert"}
    PROVE  Inv'
<1>1. Streams' /\ EofTrue' /\ Cancelled'
  BY Unchanged DEF ends
<1>2. Wanted' /\ Batch' /\ Writing' /\ Done'
  BY DEF Wanted, Batch, Writing, Done
<1> QED BY <1>1, <1>2 DEF Inv

LEMMA ConnectInv == Inv /\ ConnectServer => Inv'
<1> SUFFICES ASSUME Inv, ConnectServer PROVE Inv'
  OBVIOUS
<1>1. RelayTypes'
  BY DEF Inv, RelayTypes, ConnectServer, ends, poller, Ended
<1> QED BY <1>1, MovedInv DEF ConnectServer, poller

\* poll returns for want of interest only when nothing is left to do.
LEMMA InterestInv == Inv /\ ComputeInterest => Inv'
<1> SUFFICES ASSUME Inv, ComputeInterest PROVE Inv'
  OBVIOUS
<1>1. /\ UNCHANGED <<queue, taken, out, st, wrote, seen, eof, active, ready, failed, i, left>>
      /\ events' = {a \in active : when_interested(a) /\ ~(Actions[a].dir = "In" /\ eof[Fd(a)])}
      /\ pc' = IF events' = {} THEN "returned" ELSE "poll"
  BY DEF ComputeInterest, ends, Fd
<1>2. RelayTypes'
  BY <1>1 DEF Inv, RelayTypes, Ended
<1>3. Streams' /\ EofTrue' /\ Cancelled'
  BY <1>1, Unchanged
<1>4. Wanted'
  BY <1>1 DEF Wanted, when_interested, space_available, non_empty, available_to_push, available_to_pop
<1>5. Done'
  <2> SUFFICES ASSUME events' = {}, NEW e \in End PROVE eof[e] /\ available_to_pop(queue[e]) = 0
    BY <1>1 DEF Done, available_to_pop
  <2>1. PICK a \in 1 .. 4 : Fd(a) = e /\ Actions[a].dir = "In"
    BY ActionFacts DEF End
  <2>2. PICK b \in 1 .. 4 : Fd(b) = Peer(e) /\ Actions[b].dir = "Out"
    BY ActionFacts DEF End, Peer
  <2>3. queue[e] \in Queue
    BY DEF Inv, RelayTypes
  <2>4. b \in active /\ (eof[e] \/ a \in active)
    BY <2>1, <2>2, ActionFacts DEF Inv, Cancelled
  <2>5. ~non_empty(queue[e])
    <3>1. ~when_interested(b)
      BY <1>1, <2>2, <2>4
    <3> QED BY <2>2, <3>1, InterestFacts, ActionFacts, EndFacts
  <2>6. available_to_pop(queue[e]) = 0
    BY <2>3, <2>5, ContiguousFacts, Available
  <2>7. space_available(queue[e])
    <3>1. 0 < Size - 1
      BY SizeAssumption
    <3> QED BY <2>3, <2>6, <3>1, ContiguousFacts
  <2>8. when_interested(a)
    BY <2>1, <2>7, InterestFacts, ActionFacts
  <2>9. eof[e]
    BY <1>1, <2>1, <2>4, <2>8
  <2> QED BY <2>6, <2>9
<1>6. Batch' /\ Writing' /\ pc' # "assert"
  BY <1>1 DEF Batch, Writing
<1> QED BY <1>2, <1>3, <1>4, <1>5, <1>6 DEF Inv

\* What poll(2) reports is so: the batch starts with what can be done.
LEMMA PollInv == Inv /\ (PollReturns \/ PollTimesOut) => Inv'
<1> SUFFICES ASSUME Inv, PollReturns \/ PollTimesOut PROVE Inv'
  OBVIOUS
<1>1. CASE PollTimesOut
  <2>1. RelayTypes'
    BY <1>1 DEF Inv, RelayTypes, PollTimesOut, ends, poller
  <2> QED BY <1>1, <2>1, MovedInv DEF PollTimesOut, poller
<1>2. CASE PollReturns
  <2>1. /\ UNCHANGED <<queue, taken, out, st, wrote, seen, eof, active, events, left>>
        /\ ready' = ReadyNow /\ failed' = FailedNow /\ pc = "poll" /\ pc' = "dispatch" /\ i' = 1
    BY <1>2 DEF PollReturns, ends
  <2>2. RelayTypes'
    BY <2>1, ActionFacts DEF Inv, RelayTypes, ReadyNow, FailedNow
  <2>3. Streams' /\ EofTrue' /\ Cancelled'
    BY <2>1, Unchanged
  <2>4. Batch'
    <3> SUFFICES ASSUME NEW a \in Pending' PROVE Fit(a)'
      BY DEF Batch
    <3>1. a \in events /\ a \in DOMAIN Actions /\ IsReady(a) /\ st[Fd(a)] \notin {"broken", "reset"}
      BY <2>1 DEF Inv, RelayTypes, Pending, ReadyNow, FailedNow, Fd
    <3>2. when_interested(a)
      BY <2>1, <3>1 DEF Inv, Wanted
    <3>3. st[Fd(a)] \in EndState
      BY <3>1, EndFacts DEF Inv, RelayTypes
    <3>4. Actions[a].dir = "In" => taken[Fd(a)] < wrote[Fd(a)] \/ st[Fd(a)] \in {"fin", "gone", "broken"}
      BY <3>1, <3>3 DEF IsReady, Readable, Fd, EndState
    <3>5. Fit(a)
      BY <3>2, <3>4 DEF Fit
    <3> QED BY <2>1, <3>1, <3>5, Unchanged
  <2>5. Wanted' /\ Writing' /\ Done' /\ pc' # "assert"
    BY <2>1 DEF Wanted, Writing, Done
  <2> QED BY <2>2, <2>3, <2>4, <2>5 DEF Inv
<1> QED BY <1>1, <1>2

LEMMA SkipInv == Inv /\ (Skip \/ ErrorReported) => Inv'
<1> SUFFICES ASSUME Inv, Skip \/ ErrorReported PROVE Inv'
  OBVIOUS
<1>1. CASE ErrorReported
  <2>1. RelayTypes'
    BY <1>1 DEF Inv, RelayTypes, ErrorReported, ends, poller, Ended
  <2> QED BY <1>1, <2>1, MovedInv DEF ErrorReported, poller
<1>2. CASE Skip
  <2>1. /\ NextAction /\ pc = "dispatch"
        /\ UNCHANGED <<queue, taken, out, st, wrote, seen, eof, active, events, ready, failed, left>>
    BY <1>2 DEF Skip, ends, poller
  <2>2. \A a \in ready \ failed : a > i => Fit(a)'
    BY <2>1, Unchanged DEF Inv, Batch, Pending, RelayTypes
  <2>3. pc' \in {"interest", "dispatch"} /\ i' \in DOMAIN Actions /\ Batch' /\ Wanted' /\ Writing' /\ Done'
    BY <2>1, <2>2, Advance DEF Inv
  <2>4. RelayTypes'
    BY <2>1, <2>3 DEF Inv, RelayTypes
  <2>5. Streams' /\ EofTrue' /\ Cancelled'
    BY <2>1, Unchanged
  <2> QED BY <2>3, <2>4, <2>5 DEF Inv
<1> QED BY <1>1, <1>2

\* A direction of which the step changes nothing but that its sender may have sent more
\* and its receiver may have ended.
LEMMA OtherStream ==
    ASSUME Inv, RelayTypes', NEW e \in End,
           queue'[e] = queue[e], taken'[e] = taken[e], out'[Peer(e)] = out[Peer(e)], wrote'[e] >= wrote[e],
           st'[Peer(e)] \in {"open", "fin"} => st[Peer(e)] \in {"open", "fin"}
    PROVE  Stream(e)'
<1>1. Stream(e) /\ taken[e] \in Nat /\ wrote[e] \in Nat /\ wrote'[e] \in Nat
  BY DEF Inv, Streams, RelayTypes
<1>2. available_to_pop(queue[e])' = available_to_pop(queue[e]) /\ Passed(e)' = Passed(e)
  BY DEF Passed, available_to_pop
<1>3. Holds(queue[e], Before(e) + Passed(e))'
  BY <1>1, <1>2 DEF Stream, Holds, Ring!Holds, Ring!available_to_pop, Before
<1>4. taken'[e] <= wrote'[e]
  BY <1>1 DEF Stream
<1> QED BY <1>1, <1>2, <1>3, <1>4 DEF Stream, Before

\* An action stays fit while nothing is put into the queue that it fills, nothing is
\* taken from the queue that it empties, and nothing is read from its end.
LEMMA FitKept ==
    ASSUME RelayTypes, RelayTypes', NEW a \in DOMAIN Actions, Fit(a),
           Actions[a].dir = "In" =>
               /\ available_to_pop(queue'[Fd(a)]) <= available_to_pop(queue[Fd(a)])
               /\ taken'[Fd(a)] = taken[Fd(a)] /\ wrote'[Fd(a)] >= wrote[Fd(a)]
               /\ st[Fd(a)] \in {"fin", "gone", "broken"} => st'[Fd(a)] \in {"fin", "gone", "broken"},
           Actions[a].dir = "Out" =>
               available_to_pop(queue[Peer(Fd(a))]) <= available_to_pop(queue'[Peer(Fd(a))])
    PROVE  Fit(a)'
<1>1. CASE Actions[a].dir = "In"
  <2> DEFINE e == Fd(a)
  <2>1. queue[e] \in Queue /\ queue'[e] \in Queue /\ taken[e] \in Nat /\ wrote[e] \in Nat /\ wrote'[e] \in Nat
    BY EndFacts DEF RelayTypes
  <2>2. available_to_pop(queue[e]) < Size - 1
    BY <1>1, <2>1, InterestFacts, ContiguousFacts DEF Fit
  <2>3. available_to_pop(queue'[e]) < Size - 1
    <3>1. available_to_pop(queue[e]) \in Int /\ available_to_pop(queue'[e]) \in Int
      BY <2>1, Available
    <3> QED BY <1>1, <2>2, <3>1, SizeAssumption
  <2>4. space_available(queue'[e])
    BY <2>1, <2>3, ContiguousFacts
  <2>5. when_interested(a)'
    BY <1>1, <2>4 DEF when_interested, Fd, space_available, available_to_push
  <2>6. taken'[e] < wrote'[e] \/ st'[e] \in {"fin", "gone", "broken"}
    BY <1>1, <2>1 DEF Fit
  <2> QED BY <2>5, <2>6 DEF Fit, Fd
<1>2. CASE Actions[a].dir = "Out"
  <2> DEFINE e == Peer(Fd(a))
  <2>1. queue[e] \in Queue /\ queue'[e] \in Queue
    BY EndFacts DEF RelayTypes
  <2>2. available_to_pop(queue[e]) > 0
    BY <1>2, <2>1, InterestFacts, ContiguousFacts DEF Fit
  <2>3. available_to_pop(queue'[e]) > 0
    <3>1. available_to_pop(queue[e]) \in Int /\ available_to_pop(queue'[e]) \in Int
      BY <2>1, Available
    <3> QED BY <1>2, <2>2, <3>1
  <2>4. non_empty(queue'[e])
    BY <2>1, <2>3, ContiguousFacts
  <2>5. when_interested(a)'
    BY <1>2, <2>4 DEF when_interested, Fd, non_empty, available_to_pop
  <2> QED BY <1>2, <2>5 DEF Fit
<1> QED BY <1>1, <1>2, EndFacts

\* What the callback that runs may rely on.
LEMMA CurrentFit ==
    ASSUME Inv, NEW dir, Dispatched(dir)
    PROVE  i \in DOMAIN Actions /\ Actions[i].dir = dir /\ Fd(i) \in End /\ Fit(i)
<1>1. pc = "dispatch" /\ i \in ready \ failed /\ Actions[i].dir = dir /\ i \in DOMAIN Actions
  BY DEF Inv, RelayTypes, Dispatched
<1>2. i \in Pending
  BY <1>1 DEF Pending
<1> QED BY <1>1, <1>2, EndFacts DEF Inv, Batch

LEMMA PushInv == Inv /\ PushBytes => Inv'
<1> SUFFICES ASSUME Inv, PushBytes PROVE Inv'
  OBVIOUS
<1>0. PICK e \in End : e = Fd(i)
  BY CurrentFit DEF PushBytes
<1> DEFINE q == queue[e]
<1>1. pc = "dispatch" /\ i \in DOMAIN Actions /\ Actions[i].dir = "In" /\ Fit(i)
  BY CurrentFit DEF PushBytes, Dispatched
<1>2. space_available(q)
  BY <1>0, <1>1, InterestFacts DEF Fit
<1>3. PICK n \in 1 .. contiguous_space_to_push(q) :
        /\ taken[e] + n <= wrote[e]
        /\ queue' = [queue EXCEPT ![e] = Pushed(q, ByteOf(e, taken[e] + 1), n)]
        /\ taken' = [taken EXCEPT ![e] = taken[e] + n]
  BY <1>0, <1>2 DEF PushBytes, Fd
<1>4. NextAction /\ UNCHANGED <<out, st, wrote, seen, eof, active, events, ready, failed, left>>
  BY <1>0, <1>2 DEF PushBytes, Fd, ends, poller
<1>5. /\ q \in Queue /\ taken[e] \in Nat /\ wrote[e] \in Nat /\ Stream(e)
      /\ available_to_pop(q) \in Nat /\ n \in Nat /\ n >= 1
  <2>1. q \in Queue /\ taken[e] \in Nat /\ wrote[e] \in Nat /\ Stream(e)
    BY <1>1 DEF Inv, RelayTypes, Streams
  <2>2. available_to_pop(q) \in 0 .. Size - 1 /\ Size \in Nat /\ contiguous_space_to_push(q) \in Int
    BY <2>1, Available, ContiguousFacts, SizeAssumption
  <2> QED BY <2>1, <2>2
<1> DEFINE b == Before(e) + Passed(e)
           s == Pushed(q, ByteOf(e, taken[e] + 1), n)
<1>6. b \in Nat /\ ByteOf(e, taken[e] + 1) = b + available_to_pop(q) + 1 /\ Holds(q, b)
  BY <1>1, <1>5, RelayAssumption DEF Before, Passed, ByteOf, Stream
<1>7. s \in Queue /\ available_to_pop(s) = available_to_pop(q) + n /\ Holds(s, b)
  BY <1>2, <1>5, <1>6, PushedQueue
<1> HIDE DEF b, s
<1>8. queue' = [queue EXCEPT ![e] = s] /\ queue \in [End -> Queue] /\ taken \in [End -> Nat]
  BY <1>3 DEF s, Inv, RelayTypes
<1>9. /\ queue'[e] = s /\ taken'[e] = taken[e] + n
      /\ \A d \in End : d # e => queue'[d] = queue[d] /\ taken'[d] = taken[d]
      /\ queue' \in [End -> Queue] /\ taken' \in [End -> Nat]
  BY <1>1, <1>3, <1>5, <1>7, <1>8
<1>10. i' \in DOMAIN Actions /\ pc' \in {"interest", "dispatch"}
  BY <1>1, <1>4, ActionFacts DEF NextAction
<1>11. RelayTypes'
  BY <1>4, <1>9, <1>10 DEF Inv, RelayTypes
<1>12. Streams'
  <2>1. Stream(e)'
    <3>1. Passed(e)' = Passed(e)
      BY <1>5, <1>7, <1>9 DEF Passed, available_to_pop
    <3>2. Holds(queue[e], Before(e) + Passed(e))'
      BY <1>7, <1>9, <3>1 DEF b, Holds, Ring!Holds, Ring!available_to_pop
    <3>3. available_to_pop(queue[e])' = available_to_pop(q) + n
      BY <1>7, <1>9 DEF available_to_pop
    <3>4. taken'[e] <= wrote'[e] /\ available_to_pop(q) + n <= taken'[e]
      BY <1>3, <1>4, <1>5, <1>9 DEF Stream
    <3> QED BY <1>4, <1>5, <3>1, <3>2, <3>3, <3>4 DEF Stream
  <2>2. ASSUME NEW d \in End, d # e PROVE Stream(d)'
    <3>1. wrote[d] \in Nat
      BY DEF Inv, RelayTypes
    <3> QED BY <1>4, <1>9, <1>11, <2>2, <3>1, OtherStream
  <2> QED BY <2>1, <2>2 DEF Streams
<1>13. EofTrue' /\ Cancelled'
  <2>1. ~eof[e]
    BY <1>3, <1>5 DEF Inv, EofTrue
  <2> QED BY <1>4, <1>9, <2>1, Unchanged DEF Inv, EofTrue
<1>14. \A a \in ready \ failed : a > i => Fit(a)'
  <2> SUFFICES ASSUME NEW a \in ready \ failed, a > i PROVE Fit(a)'
    OBVIOUS
  <2>1. a \in DOMAIN Actions /\ Fit(a) /\ a # i
    BY <1>1, ActionFacts DEF Inv, RelayTypes, Batch, Pending
  <2>2. Actions[a].dir = "In" => Fd(a) # e
    BY <1>0, <1>1, <2>1, EndFacts
  <2>3. \A d \in End : available_to_pop(queue[d]) <= available_to_pop(queue'[d])
    <3> SUFFICES ASSUME NEW d \in End PROVE available_to_pop(queue[d]) <= available_to_pop(queue'[d])
      OBVIOUS
    <3>1. available_to_pop(queue[d]) \in Int
      BY <1>8, Available
    <3>2. CASE d = e
      BY <1>5, <1>7, <1>9, <3>2
    <3>3. CASE d # e
      BY <1>9, <3>1, <3>3
    <3> QED BY <3>2, <3>3
  <2>4. \A d \in End : d # e => /\ available_to_pop(queue'[d]) <= available_to_pop(queue[d])
                               /\ taken'[d] = taken[d] /\ wrote'[d] >= wrote[d]
    <3> SUFFICES ASSUME NEW d \in End, d # e
                 PROVE  /\ available_to_pop(queue'[d]) <= available_to_pop(queue[d])
                        /\ taken'[d] = taken[d] /\ wrote'[d] >= wrote[d]
      OBVIOUS
    <3>1. available_to_pop(queue[d]) \in Int /\ wrote[d] \in Nat
      BY <1>8, Available DEF Inv, RelayTypes
    <3> QED BY <1>4, <1>9, <3>1
  <2> HIDE DEF q
  <2> QED BY <1>4, <1>11, <2>1, <2>2, <2>3, <2>4, FitKept, EndFacts DEF Inv
<1>15. Batch' /\ Wanted' /\ Writing' /\ Done'
  BY <1>4, <1>14, Advance DEF Inv
<1>16. pc' # "assert"
  BY <1>10
<1> QED BY <1>11, <1>12, <1>13, <1>15, <1>16 DEF Inv

LEMMA PushEofInv == Inv /\ PushEof => Inv'
<1> SUFFICES ASSUME Inv, PushEof PROVE Inv'
  OBVIOUS
<1>1. /\ NextAction /\ pc = "dispatch" /\ i \in DOMAIN Actions /\ Actions[i].dir = "In" /\ Fd(i) \in End
      /\ UNCHANGED <<queue, taken, out, st, wrote, seen, events, ready, failed, left>>
      /\ taken[Fd(i)] = wrote[Fd(i)] /\ st[Fd(i)] \in {"fin", "gone", "broken"}
      /\ eof' = [eof EXCEPT ![Fd(i)] = TRUE] /\ active' = active \ {i}
  BY CurrentFit DEF PushEof, Dispatched, ends, Fd
<1>2. \A a \in ready \ failed : a > i => Fit(a)'
  BY <1>1, Unchanged DEF Inv, Batch, Pending, RelayTypes
<1>3. pc' \in {"interest", "dispatch"} /\ i' \in DOMAIN Actions /\ Batch' /\ Wanted' /\ Writing' /\ Done'
  BY <1>1, <1>2, Advance DEF Inv
<1>4. RelayTypes'
  BY <1>1, <1>3 DEF Inv, RelayTypes
<1>5. Streams'
  BY <1>1, Unchanged
<1>6. \A d \in End : eof'[d] <=> eof[d] \/ d = Fd(i)
  BY <1>1 DEF Inv, RelayTypes
<1>7. EofTrue'
  BY <1>1, <1>6 DEF Inv, EofTrue
<1>8. Cancelled'
  <2> SUFFICES ASSUME NEW a \in DOMAIN Actions
               PROVE  a \in active' <=> Actions[a].dir = "Out" \/ ~eof'[Fd(a)]
    BY DEF Cancelled, Fd
  <2>1. a = i <=> Fd(a) = Fd(i) /\ Actions[a].dir = "In"
    BY <1>1, EndFacts
  <2>2. Actions[a].dir \in {"In", "Out"} /\ Fd(a) \in End
    BY EndFacts
  <2>3. a \in active <=> Actions[a].dir = "Out" \/ ~eof[Fd(a)]
    BY DEF Inv, Cancelled
  <2> QED BY <1>1, <1>6, <2>1, <2>2, <2>3
<1> QED BY <1>3, <1>4, <1>5, <1>7, <1>8 DEF Inv

LEMMA PopBeginsInv == Inv /\ PopBegins => Inv'
<1> SUFFICES ASSUME Inv, PopBegins PROVE Inv'
  OBVIOUS
<1>0. PICK e \in End : e = PopSource(Fd(i))
  BY CurrentFit, InterestFacts, EndFacts DEF PopBegins
<1>1. pc = "dispatch" /\ i \in DOMAIN Actions /\ Actions[i].dir = "Out" /\ Fit(i)
  BY CurrentFit DEF PopBegins, Dispatched
<1>2. non_empty(queue[e])
  BY <1>0, <1>1, InterestFacts DEF Fit
<1>3. /\ left' = contiguous_space_to_pop(queue[e]) /\ pc' = "write"
      /\ UNCHANGED <<queue, taken, out, st, wrote, seen, eof, active, events, ready, failed, i>>
  BY <1>0, <1>2 DEF PopBegins, Fd, ends, poller
<1>4. left' \in Nat /\ left' >= 1
  BY <1>2, <1>3, ContiguousFacts DEF Inv, RelayTypes
<1>5. RelayTypes'
  BY <1>3, <1>4 DEF Inv, RelayTypes
<1>6. Streams' /\ EofTrue' /\ Cancelled'
  BY <1>3, Unchanged
<1>7. Batch'
  <2> SUFFICES ASSUME NEW a \in Pending' PROVE Fit(a)'
    BY DEF Batch
  <2>1. a \in Pending /\ a \in DOMAIN Actions
    BY <1>1, <1>3 DEF Pending, Inv, RelayTypes
  <2> QED BY <1>1, <1>3, <2>1, Unchanged DEF Inv, Batch
<1>8. Writing'
  <2>1. Actions[i'].dir = "Out" /\ PopSource(Fd(i')) = e
    BY <1>0, <1>1, <1>3
  <2>2. non_empty(queue'[e]) /\ left' \in 1 .. contiguous_space_to_pop(queue'[e])
    BY <1>2, <1>3, <1>4
  <2> QED BY <2>1, <2>2 DEF Writing, PopSource, Peer, Fd, non_empty, available_to_pop, contiguous_space_to_pop
<1>9. Wanted' /\ Done' /\ pc' # "assert"
  BY <1>3 DEF Wanted, Done
<1> QED BY <1>5, <1>6, <1>7, <1>8, <1>9 DEF Inv

\* The write that runs.
LEMMA CurrentWrite ==
    ASSUME Inv, pc \in {"write", "writing"}
    PROVE  \E e \in End :
             /\ i \in DOMAIN Actions /\ Actions[i].dir = "Out" /\ Fd(i) = Peer(e) /\ PopSource(Fd(i)) = e
             /\ non_empty(queue[e]) /\ left \in 1 .. contiguous_space_to_pop(queue[e])
             /\ \A a \in ready \ failed : a > i => a \in DOMAIN Actions /\ Fit(a)
<1>1. i \in DOMAIN Actions /\ Actions[i].dir = "Out" /\ Fd(i) \in End
  BY EndFacts DEF Inv, RelayTypes, Writing
<1>2. PopSource(Fd(i)) \in End /\ Fd(i) = Peer(PopSource(Fd(i)))
  BY <1>1, EndFacts, InterestFacts
<1>3. non_empty(queue[PopSource(Fd(i))]) /\ left \in 1 .. contiguous_space_to_pop(queue[PopSource(Fd(i))])
  BY DEF Inv, Writing
<1>4. \A a \in ready \ failed : a > i => a \in DOMAIN Actions /\ Fit(a)
  BY DEF Inv, RelayTypes, Batch, Pending
<1> QED BY <1>1, <1>2, <1>3, <1>4

\* A pop takes nothing that the rest of the batch is there for.
LEMMA FitAfterPop ==
    ASSUME Inv, RelayTypes', NEW e \in End, NEW a \in DOMAIN Actions, Fit(a), a # i,
           i \in DOMAIN Actions, Actions[i].dir = "Out", Fd(i) = Peer(e),
           \A d \in End : d # e => queue'[d] = queue[d],
           available_to_pop(queue'[e]) <= available_to_pop(queue[e]),
           UNCHANGED <<taken, wrote>>,
           \A d \in End : st[d] \in {"fin", "gone", "broken"} => st'[d] \in {"fin", "gone", "broken"}
    PROVE  Fit(a)'
<1>1. Fd(a) \in End /\ Actions[a].dir \in {"In", "Out"}
  BY EndFacts
<1>2. Actions[a].dir = "Out" => Peer(Fd(a)) # e
  BY <1>1, EndFacts
<1>3. \A d \in End : available_to_pop(queue[d]) \in Int /\ wrote[d] \in Nat
  BY Available DEF Inv, RelayTypes
<1>4. \A d \in End : available_to_pop(queue'[d]) <= available_to_pop(queue[d])
  BY <1>3
<1>5. Actions[a].dir = "Out" =>
        available_to_pop(queue[Peer(Fd(a))]) <= available_to_pop(queue'[Peer(Fd(a))])
  BY <1>1, <1>2, <1>3, EndFacts
<1> QED BY <1>1, <1>3, <1>4, <1>5, FitKept DEF Inv

\* Where the thread is after a write is over.
LEMMA WriteOver ==
    ASSUME Inv, pc \in {"write", "writing"}, NextAction, UNCHANGED <<taken, seen, wrote, eof, poller>>,
           queue' \in [End -> Queue], out' \in [End -> Seq(Nat)], st' \in [End -> EndState], left' \in Nat,
           NEW e \in End, PopSource(Fd(i)) = e,
           \A d \in End : d # e => queue'[d] = queue[d],
           available_to_pop(queue'[e]) <= available_to_pop(queue[e]),
           \A d \in End : st[d] \in {"fin", "gone", "broken"} => st'[d] \in {"fin", "gone", "broken"}
    PROVE  /\ RelayTypes' /\ Batch' /\ Wanted' /\ Writing' /\ Done' /\ pc' # "assert"
<1>1. i \in DOMAIN Actions /\ Actions[i].dir = "Out" /\ Fd(i) = Peer(e)
  BY CurrentWrite
<1>2. i' \in DOMAIN Actions /\ pc' \in {"interest", "dispatch"}
  BY <1>1, ActionFacts DEF NextAction
<1>3. RelayTypes'
  BY <1>2 DEF Inv, RelayTypes, poller
<1>4. \A a \in ready \ failed : a > i => Fit(a)'
  <2> SUFFICES ASSUME NEW a \in ready \ failed, a > i PROVE Fit(a)'
    OBVIOUS
  <2>1. a \in DOMAIN Actions /\ Fit(a) /\ a # i
    BY <1>1, CurrentWrite, ActionFacts
  <2> QED BY <1>1, <1>3, <2>1, FitAfterPop
<1>5. Batch' /\ Wanted' /\ Writing' /\ Done'
  BY <1>4, Advance DEF Inv, poller
<1> QED BY <1>2, <1>3, <1>5

\* One more byte at the end of a sequence.
LEMMA OneMore ==
    ASSUME NEW o \in Seq(Nat), NEW b \in Nat, NEW f, f = [j \in 1 .. 1 |-> b + j]
    PROVE  /\ o \o f \in Seq(Nat) /\ Len(o \o f) = Len(o) + 1
           /\ \A k \in 1 .. Len(o) : (o \o f)[k] = o[k]
           /\ (o \o f)[Len(o) + 1] = b + 1
<1>1. f \in [1 .. 1 -> Nat] /\ f[1] = b + 1
  OBVIOUS
<1>2. f \in Seq(Nat) /\ Len(f) = 1
  <2>1. f \in UNION {[1 .. n -> Nat] : n \in Nat} /\ DOMAIN f = 1 .. 1
    BY <1>1
  <2> QED BY <1>1, <2>1
<1> QED BY <1>1, <1>2, ConcatProperties

LEMMA WriteByteInv == Inv /\ WriteByte => Inv'
<1> SUFFICES ASSUME Inv, WriteByte PROVE Inv'
  OBVIOUS
<1>0. pc \in {"write", "writing"}
  BY DEF WriteByte
<1>1. PICK e \in End :
        /\ i \in DOMAIN Actions /\ Actions[i].dir = "Out" /\ Fd(i) = Peer(e) /\ PopSource(Fd(i)) = e
        /\ non_empty(queue[e]) /\ left \in 1 .. contiguous_space_to_pop(queue[e])
        /\ \A a \in ready \ failed : a > i => a \in DOMAIN Actions /\ Fit(a)
  BY <1>0, CurrentWrite
<1> DEFINE q == queue[e]
           fd == Peer(e)
           s == Popped(q, 1)
           f == Front(q, 1)
           b == Before(e) + Passed(e)
<1>2. /\ st[fd] \in {"open", "fin"} /\ out' = [out EXCEPT ![fd] = out[fd] \o f]
      /\ queue' = [queue EXCEPT ![e] = s] /\ left' = left - 1
      /\ UNCHANGED <<taken, st, wrote, seen, eof, active, events, ready, failed>>
      /\ IF left = 1 THEN NextAction ELSE pc' = "writing" /\ i' = i
  BY <1>1 DEF WriteByte, ends, poller, Fd
<1>3. /\ q \in Queue /\ taken[e] \in Nat /\ wrote[e] \in Nat /\ out[fd] \in Seq(Nat) /\ Stream(e)
      /\ queue \in [End -> Queue] /\ out \in [End -> Seq(Nat)] /\ st \in [End -> EndState] /\ fd \in End
  BY EndFacts DEF Inv, RelayTypes, Streams
<1>4. available_to_pop(q) \in Nat /\ contiguous_space_to_pop(q) \in Nat /\ left \in Nat
  <2>1. available_to_pop(q) \in 0 .. Size - 1 /\ contiguous_space_to_pop(q) \in Nat
    BY <1>3, Available, ContiguousFacts
  <2> QED BY <1>1, <2>1, SizeAssumption
<1>5. b \in Nat /\ Passed(e) \in Nat /\ Holds(q, b) /\ Len(out[fd]) = Passed(e)
  BY <1>2, <1>3, <1>4, RelayAssumption DEF Before, Passed, Stream
<1>6. 1 \in 1 .. contiguous_space_to_pop(q)
  BY <1>1, <1>4
<1>7. s \in Queue /\ available_to_pop(s) = available_to_pop(q) - 1 /\ Holds(s, b + 1) /\ f = [j \in 1 .. 1 |-> b + j]
  BY <1>1, <1>3, <1>5, <1>6, PoppedQueue
<1> HIDE DEF b, s, f
<1>9. /\ queue' \in [End -> Queue] /\ queue'[e] = s /\ \A d \in End : d # e => queue'[d] = queue[d]
  BY <1>2, <1>3, <1>7
<1>10. /\ out'[fd] = out[fd] \o f /\ out[fd] \o f \in Seq(Nat) /\ Len(out[fd] \o f) = Passed(e) + 1
       /\ \A k \in 1 .. Passed(e) : (out[fd] \o f)[k] = out[fd][k]
       /\ (out[fd] \o f)[Passed(e) + 1] = b + 1
  <2>1. out'[fd] = out[fd] \o f
    BY <1>2, <1>3
  <2> DEFINE o == out[fd]
             g == o \o f
  <2>2. o \in Seq(Nat) /\ b \in Nat /\ f = [j \in 1 .. 1 |-> b + j] /\ Len(o) = Passed(e)
    BY <1>3, <1>5, <1>7
  <2> HIDE DEF o
  <2>3. /\ g \in Seq(Nat) /\ Len(g) = Len(o) + 1
        /\ \A k \in 1 .. Len(o) : g[k] = o[k]
        /\ g[Len(o) + 1] = b + 1
    BY <2>2, OneMore
  <2> HIDE DEF g
  <2>4. Len(g) = Passed(e) + 1 /\ (\A k \in 1 .. Passed(e) : g[k] = o[k]) /\ g[Passed(e) + 1] = b + 1
    BY <2>2, <2>3
  <2> QED BY <2>1, <2>3, <2>4 DEF g, o
<1>11. out' \in [End -> Seq(Nat)] /\ \A d \in End : d # fd => out'[d] = out[d]
  BY <1>2, <1>3, <1>10
<1>12. available_to_pop(queue'[e]) <= available_to_pop(queue[e])
  BY <1>4, <1>7, <1>9
<1>13. ASSUME left = 1
       PROVE  RelayTypes' /\ Batch' /\ Wanted' /\ Writing' /\ Done' /\ pc' # "assert"
  <2>1. left' \in Nat
    BY <1>2, <1>13
  <2> QED BY <1>0, <1>1, <1>2, <1>3, <1>9, <1>11, <1>12, <1>13, <2>1, WriteOver DEF poller
<1>14. ASSUME left # 1
       PROVE  RelayTypes' /\ Batch' /\ Wanted' /\ Writing' /\ Done' /\ pc' # "assert"
  <2>1. left \in 2 .. contiguous_space_to_pop(q) /\ left - 1 \in Nat /\ pc' = "writing" /\ i' = i
    BY <1>1, <1>2, <1>4, <1>14
  <2>2. RelayTypes'
    BY <1>2, <1>9, <1>11, <2>1 DEF Inv, RelayTypes
  <2>3. left - 1 \in 1 .. contiguous_space_to_pop(s) /\ non_empty(s)
    BY <1>3, <2>1, OneLess DEF s
  <2>4. Writing'
    <3>1. Actions[i'].dir = "Out" /\ PopSource(Fd(i')) = e
      BY <1>1, <2>1
    <3>2. non_empty(queue'[e]) /\ left' \in 1 .. contiguous_space_to_pop(queue'[e])
      BY <1>2, <1>9, <2>3
    <3> QED BY <3>1, <3>2 DEF Writing, PopSource, Peer, Fd, non_empty, available_to_pop, contiguous_space_to_pop
  <2>5. Batch'
    <3> SUFFICES ASSUME NEW a \in Pending' PROVE Fit(a)'
      BY DEF Batch
    <3>1. a \in ready \ failed /\ a > i
      BY <1>2, <2>1 DEF Pending
    <3>2. a \in DOMAIN Actions /\ Fit(a) /\ a # i
      BY <1>1, <3>1, ActionFacts
    <3> QED BY <1>1, <1>2, <1>9, <1>12, <2>2, <3>2, FitAfterPop
  <2>6. Wanted' /\ Done' /\ pc' # "assert"
    BY <2>1 DEF Wanted, Done
  <2> QED BY <2>2, <2>4, <2>5, <2>6
<1>15. Streams'
  <2>1. Stream(e)'
    <3>1. Passed(e)' = Passed(e) + 1 /\ available_to_pop(queue[e])' = available_to_pop(q) - 1
      BY <1>2, <1>3, <1>4, <1>7, <1>9 DEF Passed, available_to_pop
    <3>2. Before(e) + (Passed(e) + 1) = b + 1
      BY <1>5, RelayAssumption DEF b, Before
    <3>3. Holds(queue[e], Before(e) + Passed(e))'
      BY <1>7, <1>9, <3>1, <3>2 DEF Holds, Ring!Holds, Ring!available_to_pop, Before
    <3>4. \A k \in DOMAIN out'[fd] : out'[fd][k] = Before(e) + k
      <4> SUFFICES ASSUME NEW k \in 1 .. Passed(e) + 1 PROVE out'[fd][k] = Before(e) + k
        BY <1>10
      <4>1. CASE k = Passed(e) + 1
        BY <1>10, <3>2, <4>1
      <4>2. CASE k \in 1 .. Passed(e)
        <5>1. k \in DOMAIN out[fd]
          BY <1>3, <1>5, <4>2
        <5> QED BY <1>3, <1>10, <4>2, <5>1 DEF Stream
      <4> QED BY <1>5, <4>1, <4>2
    <3>5. taken'[e] <= wrote'[e] /\ available_to_pop(q) - 1 <= taken'[e]
      BY <1>2, <1>3, <1>4 DEF Stream
    <3> QED BY <1>10, <3>1, <3>3, <3>4, <3>5 DEF Stream, Before, Peer
  <2>2. ASSUME NEW d \in End, d # e PROVE Stream(d)'
    <3>1. wrote[d] \in Nat /\ Peer(d) # fd /\ Peer(d) \in End
      BY <2>2, EndFacts DEF Inv, RelayTypes
    <3>2. RelayTypes'
      BY <1>13, <1>14 DEF Inv
    <3> QED BY <1>2, <1>9, <1>11, <2>2, <3>1, <3>2, OtherStream
  <2> QED BY <2>1, <2>2 DEF Streams
<1>16. EofTrue' /\ Cancelled'
  BY <1>2, Unchanged
<1> QED BY <1>13, <1>14, <1>15, <1>16 DEF Inv

LEMMA WriteInVainInv == Inv /\ WriteInVain => Inv'
<1> SUFFICES ASSUME Inv, WriteInVain PROVE Inv'
  OBVIOUS
<1>0. pc \in {"write", "writing"}
  BY DEF WriteInVain
<1>1. PICK e \in End :
        /\ i \in DOMAIN Actions /\ Actions[i].dir = "Out" /\ Fd(i) = Peer(e) /\ PopSource(Fd(i)) = e
        /\ non_empty(queue[e]) /\ left \in 1 .. contiguous_space_to_pop(queue[e])
  BY <1>0, CurrentWrite
<1> DEFINE q == queue[e]
           fd == Peer(e)
           s == Popped(q, left)
           b == Before(e) + Passed(e)
<1>2. PICK t \in {"gone", "broken"} : st' = [st EXCEPT ![fd] = t]
  BY <1>1 DEF WriteInVain, Fd
<1>3. /\ st[fd] = "gone" /\ queue' = [queue EXCEPT ![e] = s] /\ left' = 0 /\ NextAction
      /\ UNCHANGED <<taken, out, wrote, seen, eof, active, events, ready, failed>>
  BY <1>1 DEF WriteInVain, poller, Fd
<1>4. /\ q \in Queue /\ taken[e] \in Nat /\ wrote[e] \in Nat /\ Stream(e)
      /\ queue \in [End -> Queue] /\ out \in [End -> Seq(Nat)] /\ st \in [End -> EndState] /\ fd \in End
  BY EndFacts DEF Inv, RelayTypes, Streams
<1>5. available_to_pop(q) \in Nat /\ left \in Nat /\ left >= 1
  <2>1. available_to_pop(q) \in 0 .. Size - 1 /\ contiguous_space_to_pop(q) \in Nat
    BY <1>4, Available, ContiguousFacts
  <2> QED BY <1>1, <2>1, SizeAssumption
<1>6. b \in Nat /\ Holds(q, b)
  BY <1>4, <1>5, RelayAssumption DEF Before, Passed, Stream
<1>7. s \in Queue /\ available_to_pop(s) = available_to_pop(q) - left /\ Holds(s, b + left) /\ left <= available_to_pop(q)
  BY <1>1, <1>4, <1>6, PoppedQueue
<1>8. PICK n \in Nat : n = left
  BY <1>5
<1>9. PICK r \in Queue : r = s
  BY <1>7
<1>10. /\ queue' \in [End -> Queue] /\ queue'[e] = r /\ \A d \in End : d # e => queue'[d] = queue[d]
  BY <1>3, <1>4, <1>9
<1>11. /\ st' \in [End -> EndState] /\ st'[fd] \notin {"open", "fin"}
       /\ \A d \in End : /\ st'[d] \in {"open", "fin"} => st[d] \in {"open", "fin"}
                         /\ st[d] \in {"fin", "gone", "broken"} => st'[d] \in {"fin", "gone", "broken"}
                         /\ st'[d] = "open" => st[d] = "open"
  BY <1>2, <1>3, <1>4 DEF EndState
<1> HIDE DEF s
<1>12. available_to_pop(queue'[e]) <= available_to_pop(queue[e])
  BY <1>5, <1>7, <1>9, <1>10
<1>13. RelayTypes' /\ Batch' /\ Wanted' /\ Writing' /\ Done' /\ pc' # "assert"
  <2>1. left' \in Nat /\ out' \in [End -> Seq(Nat)]
    BY <1>3, <1>4
  <2> QED BY <1>0, <1>1, <1>3, <1>10, <1>11, <1>12, <2>1, WriteOver DEF poller
<1>14. Streams'
  <2>1. Stream(e)'
    <3>1. Passed(e)' = Passed(e) + n /\ available_to_pop(queue[e])' = available_to_pop(q) - n
      BY <1>3, <1>4, <1>5, <1>7, <1>8, <1>9, <1>10 DEF Passed, available_to_pop
    <3>2. Before(e) + (Passed(e) + n) = b + n
      BY <1>4, <1>5, <1>8, RelayAssumption DEF Before, Passed
    <3>3. Holds(r, b + n)
      BY <1>7, <1>8, <1>9
    <3>4. Holds(queue[e], Before(e) + Passed(e))'
      BY <1>10, <3>1, <3>2, <3>3 DEF Holds, Ring!Holds, Ring!available_to_pop, Before
    <3>5. taken'[e] <= wrote'[e] /\ available_to_pop(q) - n <= taken'[e]
      BY <1>3, <1>4, <1>5, <1>8 DEF Stream
    <3> QED BY <1>3, <1>4, <1>11, <3>1, <3>4, <3>5 DEF Stream, Before, Peer
  <2>2. ASSUME NEW d \in End, d # e PROVE Stream(d)'
    <3>1. wrote[d] \in Nat /\ Peer(d) \in End
      BY EndFacts DEF Inv, RelayTypes
    <3> QED BY <1>3, <1>10, <1>11, <1>13, <2>2, <3>1, OtherStream
  <2> QED BY <2>1, <2>2 DEF Streams
<1>15. EofTrue'
  BY <1>3, <1>11 DEF Inv, EofTrue
<1>16. Cancelled'
  BY <1>3, Unchanged
<1> QED BY <1>13, <1>14, <1>15, <1>16 DEF Inv

LEMMA WriteCutShortInv == Inv /\ WriteCutShort => Inv'
<1> SUFFICES ASSUME Inv, WriteCutShort PROVE Inv'
  OBVIOUS
<1>1. /\ pc \in {"write", "writing"} /\ left' = 0
      /\ UNCHANGED <<queue, taken, out, st, wrote, seen, eof, active, events, ready, failed>>
      /\ IF pc = "writing" THEN NextAction ELSE pc' \in {"threw", "sigpipe"} /\ i' = i
  BY DEF WriteCutShort, ends, poller
<1>2. PICK e \in End : PopSource(Fd(i)) = e
  BY <1>1, CurrentWrite
<1>3. /\ queue \in [End -> Queue] /\ out \in [End -> Seq(Nat)] /\ st \in [End -> EndState]
      /\ available_to_pop(queue[e]) \in Int
  BY Available DEF Inv, RelayTypes
<1>4. Streams' /\ EofTrue' /\ Cancelled'
  BY <1>1, Unchanged
<1>5. CASE pc = "writing"
  <2>1. RelayTypes' /\ Batch' /\ Wanted' /\ Writing' /\ Done' /\ pc' # "assert"
    BY <1>1, <1>2, <1>3, <1>5, WriteOver DEF poller
  <2> QED BY <1>4, <2>1 DEF Inv
<1>6. CASE pc # "writing"
  <2>1. RelayTypes'
    BY <1>1, <1>6 DEF Inv, RelayTypes, Ended
  <2> QED BY <1>1, <1>6, <2>1, MovedInv DEF ends
<1> QED BY <1>5, <1>6

\* What an end does by itself takes nothing from the thread.
LEMMA EndInv ==
    ASSUME Inv, NEW e \in End, EndWrites(e) \/ EndReads(e) \/ EndEnds(e)
    PROVE  Inv'
<1>0. UNCHANGED relay /\ RelayTypes
  BY DEF Inv, EndWrites, EndReads, EndEnds, EndsWith
<1>1. /\ st' \in [End -> EndState] /\ wrote' \in [End -> Nat] /\ seen' \in [End -> Nat]
      /\ \A d \in End : /\ wrote'[d] >= wrote[d]
                        /\ wrote'[d] # wrote[d] => st[d] = "open"
                        /\ st'[d] \in {"open", "fin"} => st[d] \in {"open", "fin"}
                        /\ st[d] \in {"fin", "gone", "broken"} => st'[d] \in {"fin", "gone", "broken"}
                        /\ st'[d] = "open" => st[d] = "open"
  <2>1. st \in [End -> EndState] /\ wrote \in [End -> Nat] /\ seen \in [End -> Nat]
    BY <1>0 DEF RelayTypes
  <2>2. CASE EndWrites(e)
    BY <2>1, <2>2 DEF EndWrites
  <2>3. CASE EndReads(e)
    BY <2>1, <2>3 DEF EndReads
  <2>4. CASE EndEnds(e)
    <3>1. PICK from \in EndState, to \in EndState :
            /\ st[e] = from /\ st' = [st EXCEPT ![e] = to] /\ wrote' = wrote /\ seen' = seen
            /\ from \in {"open", "fin"} /\ to # "open" /\ (from = "fin" => to \in {"gone", "broken"})
      BY <2>4 DEF EndEnds, EndsWith, EndState
    <3>2. \A d \in End : st'[d] = IF d = e THEN to ELSE st[d]
      BY <2>1, <3>1
    <3> QED BY <2>1, <3>1, <3>2
  <2> QED BY <2>2, <2>3, <2>4
<1>2. RelayTypes'
  BY <1>0, <1>1 DEF RelayTypes, relay, poller
<1>3. Streams'
  <2> SUFFICES ASSUME NEW d \in End PROVE Stream(d)'
    BY DEF Streams
  <2>1. Peer(d) \in End
    BY EndFacts
  <2> QED BY <1>0, <1>1, <1>2, <2>1, OtherStream DEF relay
<1>4. EofTrue'
  BY <1>0, <1>1 DEF Inv, EofTrue, relay
<1>5. Cancelled' /\ Wanted' /\ Writing' /\ Done' /\ pc' # "assert"
  BY <1>0 DEF Inv, Cancelled, Wanted, Writing, Done, relay, poller, when_interested, space_available,
              non_empty, available_to_push, available_to_pop, contiguous_space_to_pop
<1>6. Batch'
  <2> SUFFICES ASSUME pc \in {"dispatch", "write", "writing"}, NEW a \in Pending' PROVE Fit(a)'
    BY <1>0 DEF Batch, relay
  <2>1. a \in DOMAIN Actions /\ Fit(a) /\ Fd(a) \in End /\ Peer(Fd(a)) \in End
    BY <1>0, EndFacts DEF Inv, Batch, Pending, relay, poller, RelayTypes
  <2>2. queue' = queue /\ taken' = taken
    BY <1>0 DEF relay
  <2>3. \A d \in End : available_to_pop(queue[d]) \in Int
    BY <1>0, Available DEF RelayTypes
  <2>4. \A d \in End : /\ available_to_pop(queue'[d]) <= available_to_pop(queue[d])
                       /\ available_to_pop(queue[d]) <= available_to_pop(queue'[d])
    BY <2>2, <2>3
  <2> QED BY <1>0, <1>1, <1>2, <2>1, <2>2, <2>4, FitKept
<1> QED BY <1>2, <1>3, <1>4, <1>5, <1>6 DEF Inv

\* The invariant holds in every reachable state, for every size of the buffers.
LEMMA InvHolds == Spec => []Inv
<1>1. Inv /\ [Next]_vars => Inv'
  <2> SUFFICES ASSUME Inv, [Next]_vars PROVE Inv'
    OBVIOUS
  <2>1. CASE Thread
    BY <2>1, ConnectInv, InterestInv, PollInv, SkipInv, PushInv, PushEofInv, PopBeginsInv, WriteByteInv,
       WriteInVainInv, WriteCutShortInv DEF Thread
  <2>2. CASE \E e \in End : EndWrites(e) \/ EndReads(e) \/ EndEnds(e)
    BY <2>2, EndInv
  <2>3. CASE UNCHANGED vars
    <3>1. UNCHANGED <<queue, taken, out, st, wrote, seen, eof, active, events, ready, failed, pc, i, left>>
      BY <2>3 DEF vars, ends, poller
    <3>2. RelayTypes' /\ pc' # "assert"
      BY <3>1 DEF Inv, RelayTypes
    <3>3. Streams' /\ EofTrue' /\ Cancelled'
      BY <3>1, Unchanged
    <3>4. Wanted' /\ Writing' /\ Done'
      BY <3>1 DEF Inv, Wanted, Writing, Done, when_interested, space_available, non_empty,
                  available_to_push, available_to_pop, contiguous_space_to_pop
    <3>5. Batch'
      <4> SUFFICES ASSUME pc \in {"dispatch", "write", "writing"}, NEW a \in Pending' PROVE Fit(a)'
        BY <3>1 DEF Batch
      <4>1. a \in DOMAIN Actions /\ Fit(a)
        BY <3>1 DEF Inv, Batch, Pending, RelayTypes
      <4> QED BY <3>1, <4>1, Unchanged
    <3> QED BY <3>2, <3>3, <3>4, <3>5 DEF Inv
  <2> QED BY <2>1, <2>2, <2>3 DEF Next
<1> QED BY <1>1, InitInv, PTL DEF Spec

-----------------------------------------------------------------------------
(* The properties.                                                         *)

\* For every size of the buffers and of the streams, however reads and writes are cut and
\* whenever the ends stop reading, shut down, close or reset: what push and pop of the two
\* queues pass on to an end are the first bytes that the other end sent, each once.
THEOREM BytesStayInOrder == Spec => []RelayedInOrder
<1>1. Inv => RelayedInOrder
  <2> SUFFICES ASSUME Inv, NEW e \in End, NEW k \in DOMAIN out[e] PROVE out[e][k] = ByteOf(Peer(e), k)
    BY DEF RelayedInOrder
  <2>1. Peer(e) \in End /\ Peer(Peer(e)) = e
    BY EndFacts
  <2>2. out[e][k] = Before(Peer(e)) + k
    BY <2>1 DEF Inv, Streams, Stream
  <2>3. k \in Nat
    BY DEF Inv, RelayTypes
  <2> QED BY <2>2, <2>3 DEF Before, ByteOf
<1> QED BY <1>1, InvHolds, PTL

\* Interest and readiness, looked up before the batch, are true when Poller::poll calls the
\* callback: neither of the assertions of push and pop fails, and no read blocks.
THEOREM LookedUpStaysTrue == Spec => []StillTrueWhenUsed
<1>1. Inv => StillTrueWhenUsed
  BY CurrentFit DEF Inv, StillTrueWhenUsed, Fit, Fd
<1> QED BY <1>1, InvHolds, PTL

\* handle_tcp leaves its loop only when both ends have ended and all has been passed on.
THEOREM RelayLeavesNothing == Spec => []NothingLeftBehind
<1>1. Inv => NothingLeftBehind
  <2> SUFFICES ASSUME Inv, pc = "returned", NEW e \in End
               PROVE  /\ eof[e] /\ taken[e] = wrote[e]
                      /\ st[Peer(e)] \in {"open", "fin"} => Len(out[Peer(e)]) = wrote[e]
    BY DEF NothingLeftBehind
  <2>1. eof[e] /\ available_to_pop(queue[e]) = 0 /\ taken[e] \in Nat
    BY DEF Inv, Done, RelayTypes
  <2>2. taken[e] = wrote[e]
    BY <2>1 DEF Inv, EofTrue
  <2>3. Passed(e) = taken[e]
    BY <2>1 DEF Passed
  <2> QED BY <2>1, <2>2, <2>3 DEF Inv, Streams, Stream
<1> QED BY <1>1, InvHolds, PTL
=============================================================================
