------------------------------ MODULE DnsTcpRelay ------------------------------
(***************************************************************************)
(* A thread of the DNS proxy that relays one TCP connection between a      *)
(* client and the DNS server: a Poller with four actions and a             *)
(* ByteStreamQueue for each direction.                                     *)
(*                                                                         *)
(* One call of Poller::poll is several steps: the interest of every action *)
(* is computed, poll(2) takes a snapshot of what is ready, and then the    *)
(* callbacks run one after the other, on interest and readiness that were  *)
(* true earlier.  The descriptors are blocking: a read that finds nothing  *)
(* and a write that finds no room hold up the thread.                      *)
(***************************************************************************)
EXTENDS ByteStreamQueue, FiniteSets

CONSTANTS
    MaxBytes,   \* bytes each end sends
    SendRoom,   \* bytes the kernel buffers for an end that does not read
    PeerEnds    \* how ends end: {"shutdown", "close", "reset"} or some of it

ASSUME RelayAssumption ==
    /\ MaxBytes \in Nat /\ SendRoom \in Nat \ {0}
    /\ PeerEnds \subseteq {"shutdown", "close", "reset"}

End == {"client", "dns_server"}
Peer(e) == IF e = "client" THEN "dns_server" ELSE "client"

\* The k-th byte that an end sends: the two streams have no byte in common.
ByteOf(e, k) == IF e = "client" THEN k ELSE MaxBytes + k

\* The actions in the order in which handle_tcp adds them.
Actions == << [fd |-> "dns_server", dir |-> "In"], [fd |-> "client", dir |-> "In"],
              [fd |-> "dns_server", dir |-> "Out"], [fd |-> "client", dir |-> "Out"] >>

\* An end of the connection as its socket shows it (the states of TcpSplitter).
EndState == {"open", "fin", "gone", "broken", "reset"}

VARIABLES
    queue,      \* from_client and from_server, by the end they are read from
    taken,      \* bytes read from each end
    out,        \* the bytes written to each end
    st,         \* the state of each end
    wrote,      \* bytes each end has sent
    seen,       \* bytes each end has received
    eof,        \* eof_ of each descriptor
    active,     \* the actions that are not cancelled
    events,     \* the actions poll(2) was asked about
    ready,      \* the actions for which it reported the event asked for
    failed,     \* the actions for which it reported an error or a hang-up
    pc,         \* where the thread is
    i,          \* the action the thread is at
    left        \* of the bytes it writes, those not yet written

ends == <<st, wrote, seen>>
poller == <<active, events, ready, failed>>
vars == <<queue, taken, out, ends, eof, poller, pc, i, left>>

Init ==
    /\ queue = [e \in End |-> NewQueue]
    /\ taken = [e \in End |-> 0]
    /\ out = [e \in End |-> <<>>]
    /\ st = [e \in End |-> "open"]
    /\ wrote = [e \in End |-> 0]
    /\ seen = [e \in End |-> 0]
    /\ eof = [e \in End |-> FALSE]
    /\ active = DOMAIN Actions
    /\ events = {} /\ ready = {} /\ failed = {}
    /\ pc = "connect" /\ i = 1 /\ left = 0

-----------------------------------------------------------------------------
(* The thread of an accepted connection connects to the DNS server; what   *)
(* fails throws, and the client's connection is closed.                    *)

ConnectServer ==
    /\ pc = "connect"
    /\ pc' \in {"interest", "threw"}
    /\ UNCHANGED <<queue, taken, out, ends, eof, poller, i, left>>

-----------------------------------------------------------------------------
(* Poller::poll.                                                           *)

\* Fault: the queue is not asked for space before it is read into.
InterestedAlways(a) ==
    LET fd == Actions[a].fd
    IN  Actions[a].dir = "In" \/ non_empty(queue[Peer(fd)])

\* Fault: a queue is written out only when it is full.
InterestedWhenFull(a) ==
    LET fd == Actions[a].fd
    IN  IF Actions[a].dir = "In" THEN space_available(queue[fd])
                                 ELSE ~space_available(queue[Peer(fd)])

when_interested(a) ==
    LET fd == Actions[a].fd
    IN  IF Actions[a].dir = "In" THEN space_available(queue[fd])
                                 ELSE non_empty(queue[Peer(fd)])

\* The interest of each action is computed; without any, the relay is done.
ComputeInterest ==
    /\ pc = "interest"
    /\ events' = {a \in active : /\ when_interested(a)
                                 /\ ~(Actions[a].dir = "In" /\ eof[Actions[a].fd])}
    /\ pc' = IF events' = {} THEN "returned" ELSE "poll"
    /\ UNCHANGED <<queue, taken, out, ends, eof, active, ready, failed, i, left>>

Readable(e) == taken[e] < wrote[e] \/ st[e] # "open"
Writable(e) == Len(out[e]) - seen[e] < SendRoom \/ st[e] \notin {"open", "fin"}
IsReady(a) == IF Actions[a].dir = "In" THEN Readable(Actions[a].fd) ELSE Writable(Actions[a].fd)

ReadyNow == {a \in events : IsReady(a)}
FailedNow == {a \in DOMAIN Actions : st[Actions[a].fd] \in {"broken", "reset"}}

\* poll(2) returns what is ready; errors are reported unasked.
PollReturns ==
    /\ pc = "poll"
    /\ ReadyNow \cup FailedNow # {}
    /\ ready' = ReadyNow /\ failed' = FailedNow
    /\ pc' = "dispatch" /\ i' = 1
    /\ UNCHANGED <<queue, taken, out, ends, eof, active, events, left>>

\* Nothing for 60 seconds: handle_tcp calls poll again.
PollTimesOut ==
    /\ pc = "poll"
    /\ ReadyNow \cup FailedNow = {}
    /\ pc' = "interest"
    /\ UNCHANGED <<queue, taken, out, ends, eof, poller, i, left>>

\* On to the next action, or out of poll and into the next one.
NextAction ==
    /\ i' = IF i = Len(Actions) THEN 1 ELSE i + 1
    /\ pc' = IF i = Len(Actions) THEN "interest" ELSE "dispatch"

Skip ==
    /\ pc = "dispatch"
    /\ i \notin ready \cup failed
    /\ NextAction
    /\ UNCHANGED <<queue, taken, out, ends, eof, poller, left>>

\* An error or a hang-up ends the relay, whatever is still queued.
ErrorReported ==
    /\ pc = "dispatch"
    /\ i \in failed
    /\ pc' = "failed"
    /\ UNCHANGED <<queue, taken, out, ends, eof, poller, i, left>>

Dispatched(dir) ==
    /\ pc = "dispatch"
    /\ i \in ready \ failed
    /\ Actions[i].dir = dir

-----------------------------------------------------------------------------
(* The callbacks: push and pop of a queue.                                 *)

\* An assertion of push or pop fails.
Aborts == pc' = "assert" /\ UNCHANGED <<queue, taken, out, ends, eof, poller, i, left>>

\* push, when the read returns bytes.
PushBytes ==
    LET e == Actions[i].fd
    IN  /\ Dispatched("In")
        /\ IF ~space_available(queue[e]) THEN Aborts
           ELSE /\ \E n \in 1 .. contiguous_space_to_push(queue[e]) :
                    /\ taken[e] + n <= wrote[e]
                    /\ queue' = [queue EXCEPT ![e] = Pushed(@, ByteOf(e, taken[e] + 1), n)]
                    /\ taken' = [taken EXCEPT ![e] = @ + n]
                /\ NextAction
                /\ UNCHANGED <<out, ends, eof, poller, left>>

\* Fault: the end of file of one end makes the callback return Exit.
PushEofExits ==
    LET e == Actions[i].fd
    IN  /\ Dispatched("In")
        /\ space_available(queue[e])
        /\ taken[e] = wrote[e] /\ st[e] \in {"fin", "gone", "broken"}
        /\ pc' = "returned"
        /\ UNCHANGED <<queue, taken, out, ends, eof, poller, i, left>>

\* Fault: the end of file is neither remembered nor does it cancel the action.
PushEofContinues ==
    LET e == Actions[i].fd
    IN  /\ Dispatched("In")
        /\ space_available(queue[e])
        /\ taken[e] = wrote[e] /\ st[e] \in {"fin", "gone", "broken"}
        /\ NextAction
        /\ UNCHANGED <<queue, taken, out, ends, eof, poller, left>>

\* push, when the read returns end of file: the action is cancelled.
PushEof ==
    LET e == Actions[i].fd
    IN  /\ Dispatched("In")
        /\ space_available(queue[e])
        /\ taken[e] = wrote[e] /\ st[e] \in {"fin", "gone", "broken"}
        /\ eof' = [eof EXCEPT ![e] = TRUE]
        /\ active' = active \ {i}
        /\ NextAction
        /\ UNCHANGED <<queue, taken, out, ends, events, ready, failed, left>>

\* Fault: the action pops the queue that is filled from the same descriptor.
PopOwn(fd) == fd

\* The queue that is written to a descriptor is the one read from its peer.
PopSource(fd) == Peer(fd)

\* pop calls write with all bytes up to the end of the buffer.
PopBegins ==
    LET e == PopSource(Actions[i].fd)
    IN  /\ Dispatched("Out")
        /\ IF ~non_empty(queue[e]) THEN Aborts
           ELSE /\ left' = contiguous_space_to_pop(queue[e])
                /\ pc' = "write"
                /\ UNCHANGED <<queue, taken, out, ends, eof, poller, i>>

\* The kernel takes a byte for an end that may still read it; write returns with
\* the last one.
WriteByte ==
    LET fd == Actions[i].fd
        e == PopSource(fd)
    IN  /\ pc \in {"write", "writing"}
        /\ st[fd] \in {"open", "fin"}
        /\ Len(out[fd]) - seen[fd] < SendRoom
        /\ out' = [out EXCEPT ![fd] = @ \o Front(queue[e], 1)]
        /\ queue' = [queue EXCEPT ![e] = Popped(@, 1)]
        /\ left' = left - 1
        /\ IF left = 1 THEN NextAction ELSE pc' = "writing" /\ i' = i
        /\ UNCHANGED <<taken, ends, eof, poller>>

\* The end has closed: the bytes are sent in vain and may be answered by RST.
WriteInVain ==
    LET fd == Actions[i].fd
    IN  /\ pc \in {"write", "writing"}
        /\ st[fd] = "gone"
        /\ queue' = [queue EXCEPT ![PopSource(fd)] = Popped(@, left)]
        /\ \E s \in {"gone", "broken"} : st' = [st EXCEPT ![fd] = s]
        /\ left' = 0
        /\ NextAction
        /\ UNCHANGED <<taken, out, wrote, seen, eof, poller>>

\* The end was reset after poll(2) had looked: a write that has got rid of some
\* bytes returns, one that has not fails.  After a FIN it raises SIGPIPE.
WriteCutShort ==
    LET fd == Actions[i].fd
    IN  /\ pc \in {"write", "writing"}
        /\ st[fd] \in {"broken", "reset"}
        /\ left' = 0
        /\ IF pc = "writing" THEN NextAction
           ELSE pc' = (IF st[fd] = "reset" THEN "threw" ELSE "sigpipe") /\ i' = i
        /\ UNCHANGED <<queue, taken, out, ends, eof, poller>>

-----------------------------------------------------------------------------
(* The two ends.                                                           *)

relay == <<queue, taken, out, eof, poller, pc, i, left>>

\* The client has connected before the thread starts, the DNS server has not.
Present(e) == e = "client" \/ pc # "connect"

EndWrites(e) ==
    /\ Present(e) /\ st[e] = "open"
    /\ wrote[e] < MaxBytes
    /\ wrote' = [wrote EXCEPT ![e] = @ + 1]
    /\ UNCHANGED <<relay, st, seen>>

EndReads(e) ==
    /\ st[e] \in {"open", "fin"}
    /\ seen[e] < Len(out[e])
    /\ seen' = [seen EXCEPT ![e] = @ + 1]
    /\ UNCHANGED <<relay, st, wrote>>

EndsWith(e, how, from, to) ==
    /\ how \in PeerEnds
    /\ Present(e) /\ st[e] = from
    /\ st' = [st EXCEPT ![e] = to]
    /\ UNCHANGED <<relay, wrote, seen>>

EndEnds(e) ==
    \/ EndsWith(e, "shutdown", "open", "fin")
    \/ EndsWith(e, "close", "open", "gone") \/ EndsWith(e, "close", "fin", "gone")
    \/ EndsWith(e, "reset", "open", "reset") \/ EndsWith(e, "reset", "fin", "broken")

-----------------------------------------------------------------------------

Thread ==
    \/ ConnectServer \/ ComputeInterest \/ PollReturns \/ PollTimesOut \/ Skip \/ ErrorReported
    \/ PushBytes \/ PushEof
    \/ PopBegins \/ WriteByte \/ WriteInVain \/ WriteCutShort

Next == Thread \/ \E e \in End : EndWrites(e) \/ EndReads(e) \/ EndEnds(e)

Spec == Init /\ [][Next]_vars

\* The thread runs when it can, and an end that is not closed reads what it is sent.
FairSpec == Spec /\ WF_vars(Thread) /\ \A e \in End : WF_vars(EndReads(e))

-----------------------------------------------------------------------------
(* Properties.                                                             *)

Ended == {"returned", "failed", "threw", "sigpipe", "assert"}

\* Each end receives the bytes the other end sent, in order, each once.
RelayedInOrder == \A e \in End : \A k \in DOMAIN out[e] : out[e][k] = ByteOf(Peer(e), k)

\* Interest and readiness are looked up before any callback of the batch runs, and
\* are still true when a callback uses them: no assertion of push or pop fails,
\* and no read blocks the thread for want of bytes or fails (bytes that arrived
\* before a reset are still read, and a reset with none left is seen by poll).
StillTrueWhenUsed ==
    /\ pc # "assert"
    /\ Dispatched("In") => LET e == Actions[i].fd
                           IN  taken[e] < wrote[e] \/ st[e] \in {"fin", "gone", "broken"}

\* The relay returns of its own accord only when both ends have sent end of file
\* and every byte has been passed on (or its receiver has closed).
NothingLeftBehind ==
    pc = "returned" => \A e \in End :
        /\ eof[e]
        /\ taken[e] = wrote[e]
        /\ st[Peer(e)] \in {"open", "fin"} => Len(out[Peer(e)]) = wrote[e]

\* When both ends have shut down their side, the thread ends.
RelayEnds == (\A e \in End : st[e] # "open") ~> pc \in Ended

\* A byte that one end sends reaches the other, if that stays open and the relay
\* is not cut short, although each poll serves the actions in a fixed order and
\* its writes block.
BytesRelayed ==
    \A e \in End, k \in 1 .. MaxBytes :
        wrote[e] >= k ~> \/ seen[Peer(e)] >= k
                         \/ st[Peer(e)] \notin {"open", "fin"}
                         \/ pc \in Ended
=============================================================================
