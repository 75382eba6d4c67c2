----------------------------- MODULE SplitterFlow -----------------------------
(***************************************************************************)
(* The two splitters with the limits of the kernel around them.            *)
(*                                                                         *)
(* Each splitter is one thread with blocking sockets.  A TCP buffer holds  *)
(* so much; a write to a peer that does not read waits, and with it every  *)
(* other connection of that splitter.  A connect to a silent destination   *)
(* waits until the kernel gives up.  A UDP socket holds so many datagrams, *)
(* and drops those that find it full, which is what happens while the      *)
(* thread waits.  The server can open only so many sockets.                *)
(*                                                                         *)
(* TcpSplitter has the same handlers with unbounded buffers and studies    *)
(* what they do to the streams; here bytes are counted, a handler that may *)
(* wait is several steps, and uids are the connections.                    *)
(***************************************************************************)
EXTENDS Naturals, Sequences, FiniteSets, FiniteSetsExt

CONSTANTS
    Conn,           \* connections, each known by its uid
    Silent,         \* connections whose application may stop reading
    Ending,         \* connections whose peers may close or reset them
    Uploads,        \* connections whose application writes
    Downloads,      \* connections whose destination writes
    MaxUnits,       \* units (of bytes) either writes to a connection
    ReadLimit,      \* units one read returns at most
    RcvRoom,        \* units in the receive buffer of a TCP socket
    SndRoom,        \* units on their way to a TCP peer that does not read
    UdpRoom,        \* datagrams in a UDP receive buffer
    SocketLimits    \* connections for which the server may have descriptors

ASSUME FlowAssumption ==
    /\ {Silent, Ending, Uploads, Downloads} \subseteq SUBSET Conn
    /\ {MaxUnits, ReadLimit, RcvRoom, SndRoom, UdpRoom} \subseteq Nat \ {0}
    /\ SocketLimits \subseteq Nat

Side == {"client", "server"}
Other(side) == IF side = "client" THEN "server" ELSE "client"

\* What the thread of a splitter is in the middle of: nothing, n units still to
\* be written to c, or a connect.
Idle == [op |-> "idle"]
Writing(c, n) == [op |-> "write", c |-> c, n |-> n]
Connecting(c) == [op |-> "connect", c |-> c]

\* Datagrams: the announcement of c, n units for c, the end of c.
Datagram == [kind : {"new", "data", "end"}, c : Conn, n : 0 .. ReadLimit]

VARIABLES
    up,         \* status of each splitter: up, threw, sigpipe
    thread,     \* what each thread is doing
    conns,      \* connections_ of each side
    peer,       \* the TCP peer: none, open, gone, broken, reset, closed (by the splitter)
    read,       \* units the splitter has read from it
    inq,        \* units in the receive buffer of the splitter's socket
    outq,       \* units on the way to the peer, not yet read by it
    given,      \* units written to the peer
    udp,        \* datagrams in the UDP receive buffer of each side
    unwatched,  \* client connections whose announcement failed: no Epoller action
    refused,    \* an ICMP error is pending on the client's UDP socket
    limit,      \* the server's limit of descriptors
    dropped     \* units for each side and connection that were in datagrams nobody took

vars == <<up, thread, conns, unwatched, peer, read, inq, outq, given, udp, refused, limit, dropped>>

Zero == [side \in Side |-> [c \in Conn |-> 0]]

Init ==
    /\ up = [side \in Side |-> "up"]
    /\ thread = [side \in Side |-> Idle]
    /\ conns = [side \in Side |-> {}]
    /\ peer = [side \in Side |-> [c \in Conn |-> "none"]]
    /\ read = Zero /\ inq = Zero /\ outq = Zero /\ given = Zero
    /\ udp = [side \in Side |-> <<>>]
    /\ refused = FALSE /\ unwatched = {}
    /\ limit \in SocketLimits
    /\ dropped = Zero

-----------------------------------------------------------------------------

Free(side) == up[side] = "up" /\ thread[side] = Idle
Ready(side) == Free(side) /\ ~(side = "client" /\ refused)

\* A datagram to one side: taken, or dropped.  A server that has ended is
\* reported by ICMP to the client, whose socket is connected.
Send(to, kind, c, n) ==
    IF Len(udp[to]) < UdpRoom /\ up[to] = "up"
    THEN /\ udp' = [udp EXCEPT ![to] = Append(@, [kind |-> kind, c |-> c, n |-> n])]
         /\ UNCHANGED <<dropped, refused>>
    ELSE /\ dropped' = [dropped EXCEPT ![to][c] = @ + n]
         /\ refused' = (refused \/ (to = "server" /\ up[to] # "up"))
         /\ udp' = udp

\* close_connection: the socket is closed; what its buffers hold is lost.
Close(side, c) ==
    /\ conns' = [conns EXCEPT ![side] = @ \ {c}]
    /\ peer' = [peer EXCEPT ![side][c] = "closed"]

\* handle_new_tcp_connection: what the announcement throws is caught, and the
\* connection stays in the map, but nobody looks at it.
Accept(c) ==
    /\ Free("client")
    /\ peer["client"][c] = "none"
    /\ peer' = [peer EXCEPT !["client"][c] = "open"]
    /\ conns' = [conns EXCEPT !["client"] = @ \cup {c}]
    /\ IF refused
       THEN /\ refused' = FALSE
            /\ unwatched' = unwatched \cup {c}
            /\ UNCHANGED <<udp, dropped>>
       ELSE Send("server", "new", c, 0) /\ unwatched' = unwatched
    /\ UNCHANGED <<up, thread, read, inq, outq, given, limit>>

\* The connections that the Epoller of a side looks at.
Watched(side) == IF side = "client" THEN conns[side] \ unwatched ELSE conns[side]

\* receive_bytes_from_tcp_connection: a read takes what is there, up to its limit.
ReadBytes(side, c) ==
    /\ Ready(side)
    /\ c \in Watched(side)
    /\ inq[side][c] > 0
    /\ LET n == Min({inq[side][c], ReadLimit})
       IN  /\ inq' = [inq EXCEPT ![side][c] = @ - n]
           /\ read' = [read EXCEPT ![side][c] = @ + n]
           /\ Send(Other(side), "data", c, n)
    /\ UNCHANGED <<up, thread, conns, peer, outq, given, limit, unwatched>>

\* End of file.  The Epoller then looks at the action that was just freed, and
\* may take what it finds there for a busy wait.
ReadEof(side, c) ==
    /\ Ready(side)
    /\ c \in Watched(side)
    /\ inq[side][c] = 0
    /\ peer[side][c] \in {"gone", "broken"}
    /\ Close(side, c)
    /\ Send(Other(side), "end", c, 0)
    /\ \E busy \in {"up", "threw"} : up' = [up EXCEPT ![side] = busy]
    /\ UNCHANGED <<thread, read, inq, outq, given, limit, unwatched>>

ReadFails(side, c) ==
    /\ Ready(side)
    /\ c \in Watched(side)
    /\ inq[side][c] = 0
    /\ peer[side][c] = "reset"
    /\ up' = [up EXCEPT ![side] = "threw"]
    /\ UNCHANGED <<thread, conns, peer, read, inq, outq, given, refused, limit, unwatched, udp, dropped>>

-----------------------------------------------------------------------------
(* A datagram is taken from the UDP socket.                                *)

\* The next datagram of a ready splitter.
Take(side, d) ==
    /\ Ready(side)
    /\ udp[side] # <<>>
    /\ d = Head(udp[side])

Rest(side) == [udp EXCEPT ![side] = Tail(@)]

\* The next read or write of the client's UDP socket reports the ICMP error.
ErrorThrown ==
    /\ Free("client") /\ refused
    /\ up' = [up EXCEPT !["client"] = "threw"]
    /\ refused' = FALSE
    /\ UNCHANGED <<thread, conns, peer, read, inq, outq, given, udp, limit, unwatched, dropped>>

\* The uid is unknown and nothing is announced.
Ignore(side) ==
    \E d \in Datagram :
        /\ Take(side, d)
        /\ d.c \notin conns[side] /\ d.kind # "new"
        /\ udp' = Rest(side)
        /\ dropped' = [dropped EXCEPT ![side][d.c] = @ + d.n]
        /\ UNCHANGED <<up, thread, conns, peer, read, inq, outq, given, refused, limit, unwatched>>

EndConnection(side) ==
    \E d \in Datagram :
        /\ Take(side, d)
        /\ d.c \in conns[side] /\ d.kind = "end"
        /\ Close(side, d.c)
        /\ udp' = Rest(side)
        /\ UNCHANGED <<up, thread, read, inq, outq, given, refused, limit, unwatched, dropped>>

\* FileDescriptor::write, which returns when everything is written.
BeginWrite(side) ==
    \E d \in Datagram :
        /\ Take(side, d)
        /\ d.c \in conns[side] /\ d.kind = "data"
        /\ thread' = [thread EXCEPT ![side] = Writing(d.c, d.n)]
        /\ udp' = Rest(side)
        /\ UNCHANGED <<up, conns, peer, read, inq, outq, given, refused, limit, unwatched, dropped>>

\* establish_new_tcp_connection: the constructor of TCPSocket stands outside the
\* try block.
BeginConnect ==
    \E d \in Datagram :
        /\ Take("server", d)
        /\ d.kind = "new"
        /\ udp' = Rest("server")
        /\ IF Cardinality(conns["server"]) < limit
           THEN /\ conns' = [conns EXCEPT !["server"] = @ \cup {d.c}]
                /\ thread' = [thread EXCEPT !["server"] = Connecting(d.c)]
                /\ up' = up
           ELSE /\ up' = [up EXCEPT !["server"] = "threw"]
                /\ UNCHANGED <<conns, thread>>
        /\ UNCHANGED <<peer, read, inq, outq, given, refused, limit, unwatched, dropped>>

Connected ==
    \E c \in Conn :
        /\ up["server"] = "up" /\ thread["server"] = Connecting(c)
        /\ thread' = [thread EXCEPT !["server"] = Idle]
        /\ peer' = [peer EXCEPT !["server"][c] = "open"]
        /\ UNCHANGED <<up, conns, read, inq, outq, given, refused, limit, unwatched, udp, dropped>>

\* Fault: the connection stays in the map when connect fails.
RefusedKept ==
    \E c \in Conn :
        /\ up["server"] = "up" /\ thread["server"] = Connecting(c)
        /\ thread' = [thread EXCEPT !["server"] = Idle]
        /\ Send("client", "end", c, 0)
        /\ UNCHANGED <<up, conns, peer, read, inq, outq, given, limit, unwatched>>

\* The destination refuses, or the kernel gives up on one that does not answer.
Refused ==
    \E c \in Conn :
        /\ up["server"] = "up" /\ thread["server"] = Connecting(c)
        /\ thread' = [thread EXCEPT !["server"] = Idle]
        /\ conns' = [conns EXCEPT !["server"] = @ \ {c}]
        /\ Send("client", "end", c, 0)
        /\ UNCHANGED <<up, peer, read, inq, outq, given, limit, unwatched>>

-----------------------------------------------------------------------------
(* A write in progress.                                                    *)

\* Fault: connections_mutex_ stays locked after the write, and the next handler waits for it.
LeftLocked(side, c, n) == [thread EXCEPT ![side] = Writing(c, n)]

Left(side, c, n) == [thread EXCEPT ![side] = IF n = 0 THEN Idle ELSE Writing(c, n)]

\* Fault: what write() did not take at once is forgotten.
WriteSomeOnce(side) ==
    \E c \in Conn, n \in 1 .. ReadLimit :
        /\ up[side] = "up" /\ thread[side] = Writing(c, n)
        /\ LET k == Min({n, SndRoom - outq[side][c]})
           IN  /\ outq' = [outq EXCEPT ![side][c] = @ + k]
               /\ given' = [given EXCEPT ![side][c] = @ + k]
        /\ thread' = [thread EXCEPT ![side] = Idle]
        /\ UNCHANGED <<up, conns, peer, read, inq, udp, refused, limit, unwatched, dropped>>

\* As much as there is room for.
WriteSome(side) ==
    \E c \in Conn, n \in 1 .. ReadLimit :
        /\ up[side] = "up" /\ thread[side] = Writing(c, n)
        /\ peer[side][c] = "open"
        /\ outq[side][c] < SndRoom
        /\ LET k == Min({n, SndRoom - outq[side][c]})
           IN  /\ outq' = [outq EXCEPT ![side][c] = @ + k]
               /\ given' = [given EXCEPT ![side][c] = @ + k]
               /\ thread' = Left(side, c, n - k)
        /\ UNCHANGED <<up, conns, peer, read, inq, udp, refused, limit, unwatched, dropped>>

\* The peer is gone: the first segment it answers with RST breaks the connection.
WriteToGone(side) ==
    \E c \in Conn, n \in 1 .. ReadLimit :
        /\ up[side] = "up" /\ thread[side] = Writing(c, n)
        /\ peer[side][c] = "gone"
        /\ peer' = [peer EXCEPT ![side][c] = "broken"]
        /\ dropped' = [dropped EXCEPT ![side][c] = @ + n]
        /\ thread' = [thread EXCEPT ![side] = Idle]
        /\ UNCHANGED <<up, conns, read, inq, outq, given, refused, limit, unwatched, udp>>

\* EPIPE comes with SIGPIPE, which nobody ignores; ECONNRESET is thrown.
WriteFails(side) ==
    \E c \in Conn, n \in 1 .. ReadLimit :
        /\ up[side] = "up" /\ thread[side] = Writing(c, n)
        /\ peer[side][c] \in {"broken", "reset"}
        /\ up' = [up EXCEPT ![side] = IF peer[side][c] = "broken" THEN "sigpipe" ELSE "threw"]
        /\ UNCHANGED <<thread, conns, peer, read, inq, outq, given, refused, limit, unwatched, udp, dropped>>

-----------------------------------------------------------------------------
(* The TCP peers.                                                          *)

PeerWrites(side, c) ==
    /\ peer[side][c] = "open"
    /\ c \in IF side = "client" THEN Uploads ELSE Downloads
    /\ read[side][c] + inq[side][c] < MaxUnits
    /\ inq[side][c] < RcvRoom
    /\ inq' = [inq EXCEPT ![side][c] = @ + 1]
    /\ UNCHANGED <<up, thread, conns, peer, read, outq, given, refused, limit, unwatched, udp, dropped>>

PeerReads(side, c) ==
    /\ peer[side][c] = "open"
    /\ outq[side][c] > 0
    /\ outq' = [outq EXCEPT ![side][c] = 0]
    /\ UNCHANGED <<up, thread, conns, peer, read, inq, given, refused, limit, unwatched, udp, dropped>>

\* A peer closes its socket, or resets the connection.
PeerEnds(side, c) ==
    /\ c \in Ending
    /\ peer[side][c] = "open"
    /\ \E st \in {"gone", "reset"} : peer' = [peer EXCEPT ![side][c] = st]
    /\ UNCHANGED <<up, thread, conns, read, inq, outq, given, refused, limit, unwatched, udp, dropped>>

-----------------------------------------------------------------------------

HandlesSocket(side, c) == ReadBytes(side, c) \/ ReadEof(side, c) \/ ReadFails(side, c)
HandlesDatagram(side) == Ignore(side) \/ EndConnection(side) \/ BeginWrite(side)
WriteStep(side) == WriteSome(side) \/ WriteToGone(side) \/ WriteFails(side)
ConnectStep == Connected \/ Refused

Next ==
    \/ \E side \in Side : HandlesDatagram(side) \/ WriteStep(side)
    \/ BeginConnect \/ ConnectStep \/ ErrorThrown
    \/ \E c \in Conn : Accept(c)
    \/ \E side \in Side, c \in Conn :
        HandlesSocket(side, c) \/ PeerWrites(side, c) \/ PeerReads(side, c) \/ PeerEnds(side, c)

Spec == Init /\ [][Next]_vars

(***************************************************************************)
(* Fairness.  epoll is level-triggered and a poll returns every ready      *)
(* socket, so one that stays ready is served again and again whenever the  *)
(* thread is free (SF); the kernel ends a connect; peers read, except      *)
(* Silent applications.                                                    *)
(***************************************************************************)
Fairness ==
    /\ \A side \in Side :
        /\ SF_vars(HandlesDatagram(side))
        /\ WF_vars(WriteStep(side))
        /\ \A c \in Conn : SF_vars(HandlesSocket(side, c))
    /\ SF_vars(BeginConnect) /\ WF_vars(ConnectStep) /\ WF_vars(ErrorThrown)
    /\ \A c \in Conn :
        /\ WF_vars(PeerReads("server", c))
        /\ c \notin Silent => WF_vars(PeerReads("client", c))

FairSpec == Spec /\ Fairness

-----------------------------------------------------------------------------
(* Properties.                                                             *)

\* Units for c in a sequence of datagrams.
UnitsIn(q, c) ==
    Cardinality({u \in (DOMAIN q) \X (1 .. ReadLimit) : q[u[1]].c = c /\ u[2] <= q[u[1]].n})

Held(side, c) ==
    IF thread[side].op = "write" /\ thread[side].c = c THEN thread[side].n ELSE 0

\* Every unit that one splitter has read was written to the other end, is in a UDP buffer or in the
\* hands of the other thread, or was in a datagram that found the UDP buffer full or its connection
\* gone: a write that has to wait loses and repeats nothing.
Conserved ==
    \A side \in Side, c \in Conn :
        read[Other(side)][c] =
            given[side][c] + Held(side, c) + UnitsIn(udp[side], c) + dropped[side][c]

\* The server's sockets to destinations that are, or are being, connected.
InUse == {c \in conns["server"] :
            peer["server"][c] \notin {"none", "closed"} \/ thread["server"] = Connecting(c)}

\* A splitter ends only because a peer reset or closed one of its connections (or the Epoller took
\* the freed action of a closed one for a busy wait), the server because its descriptors are all in
\* use, the client because the server has ended; neither a refused connect, then or later, nor a slow
\* peer nor a full buffer ends it.
EndsForCause ==
    \A side \in Side :
        up[side] # "up" =>
            \/ \E c \in Conn : peer[side][c] \in {"broken", "reset", "closed"}
            \/ side = "server" /\ Cardinality(InUse) = limit
            \/ side = "client" /\ up["server"] # "up"

Stuck(side) ==
    /\ thread[side].op = "write"
    /\ side = "client" /\ thread[side].c \in Silent

\* What a peer writes is eventually read, while other peers are slow, destinations silent and buffers
\* full; unless the splitter ends, the connection is closed or could not be announced to a server that has
\* ended, or the one thread waits for ever for an application that has stopped reading.
EveryoneServed ==
    \A side \in Side, c \in Conn :
        inq[side][c] > 0
            ~> inq[side][c] = 0 \/ up[side] # "up" \/ peer[side][c] = "closed"
                \/ (side = "client" /\ c \in unwatched) \/ []Stuck(side)
=============================================================================
