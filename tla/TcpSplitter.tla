------------------------------ MODULE TcpSplitter ------------------------------
(***************************************************************************)
(* The two TCP splitters of koho and the UDP path between them.            *)
(*                                                                         *)
(* The splitter client accepts the TCP connections that DNAT redirects to  *)
(* it, gives each one a uid, and announces it to the splitter server with  *)
(* a metadata packet.  The server dials the original destination.  From    *)
(* then on either side reads its TCP sockets, wraps what one read returned *)
(* in a SplitTCPPacket and sends it over UDP; the other side writes the    *)
(* body to the socket it keeps under the same uid.  An empty body means    *)
(* end of file.  Packets carry no sequence number.                         *)
(*                                                                         *)
(* Each handler runs to completion on the thread of its side's event loop, *)
(* so a handler is one action.  A TCP peer (an application behind the      *)
(* client, a destination behind the server), the network and the user who  *)
(* restarts koho-client are the environment.                               *)
(***************************************************************************)
EXTENDS Naturals, Sequences, FiniteSets, SequencesExt

CONSTANTS
    MaxSessions,    \* how often koho-client is started against one koho-server
    MaxConns,       \* TCP connections made by the applications
    MaxUid,         \* uids handed out in one session
    MaxChunks,      \* reads' worth of bytes a TCP peer writes to a connection
    MaxDups,        \* datagrams the network duplicates
    MayLose,        \* the network may lose datagrams
    MayReorder,     \* the network may reorder datagrams
    MaySendFail,    \* the kernel may refuse a datagram (no route, no buffers)
    PeerEnds        \* the ways in which TCP peers end their connections

ASSUME ConstantsAssumption ==
    /\ MaxSessions \in Nat \ {0} /\ MaxConns \in Nat \ {0} /\ MaxUid \in Nat \ {0}
    /\ MaxChunks \in Nat /\ MaxDups \in Nat
    /\ MayLose \in BOOLEAN /\ MayReorder \in BOOLEAN /\ MaySendFail \in BOOLEAN
    /\ PeerEnds \subseteq {"shutdown", "close", "reset"}

Side == {"client", "server"}
Other(side) == IF side = "client" THEN "server" ELSE "client"

Session == 1 .. MaxSessions
Uid == 1 .. MaxUid

\* The proxied connections, numbered in the order in which they are accepted.
Conn == 1 .. MaxConns
NoConn == 0

\* Packet bodies, reduced to what they stand for: the original destination of
\* connection c (k = 0), or what the k-th read of connection c returned.
Body == [c : Conn, k : 0 .. MaxChunks]
Empty == [c |-> NoConn, k |-> 0]
Destination(c) == [c |-> c, k |-> 0]
Bytes(c, k) == [c |-> c, k |-> k]

\* A SplitTCPPacket in a datagram.  addr is the UDP address of the client of
\* that session: the source of a packet to the server, the destination of a
\* packet to the client.
NoAddr == 0
Packet == [addr : Session, new : BOOLEAN, uid : Uid, body : Body \cup {Empty}]

\* A TCP socket of a splitter, seen with the peer behind it.
\*   none    not yet connected        open   both directions open
\*   fin     peer shut down writing   gone   peer closed: what is sent to it is answered by RST
\*   broken  that RST has arrived     reset  the peer reset the connection
\*   closed  closed by the splitter
SocketState == {"none", "open", "fin", "gone", "broken", "reset", "closed"}
Socket == [st : SocketState, wrote : 0 .. MaxChunks, read : 0 .. MaxChunks,
           got : Seq(Body)]
NewSocket(st) == [st |-> st, wrote |-> 0, read |-> 0, got |-> <<>>]

\* A process runs, or ended: failed assertion, uncaught exception, SIGPIPE.
Status == {"up", "assert", "threw", "sigpipe"}

VARIABLES
    session,    \* the running koho-client; its UDP source address
    up,         \* status of each splitter process
    nextUid,    \* next_connection_uid_ of the client
    uidOf,      \* history: the uid each accepted connection was given, or 0
    conns,      \* connections_ of each side: uid -> connection
    watched,    \* uids whose socket has an Epoller action, on each side
    tcp,        \* the TCP sockets, by side and connection
    chan,       \* datagrams on their way to each side
    udpErr,     \* an ICMP error is pending on the client's connected UDP socket
    savedAddr,  \* saved_address_ of the server's AutoSocket
    dups        \* datagrams duplicated so far

vars == <<session, up, nextUid, uidOf, conns, watched, tcp, chan, udpErr, savedAddr, dups>>

Known(side) == {u \in Uid : conns[side][u] # NoConn}

Init ==
    /\ session = 1
    /\ up = [s \in Side |-> "up"]
    /\ nextUid = 1
    /\ uidOf = [c \in Conn |-> 0]
    /\ conns = [s \in Side |-> [u \in Uid |-> NoConn]]
    /\ watched = [s \in Side |-> {}]
    /\ tcp = [s \in Side |-> [c \in Conn |-> NewSocket("none")]]
    /\ chan = [s \in Side |-> <<>>]
    /\ udpErr = FALSE
    /\ savedAddr = NoAddr
    /\ dups = 0

-----------------------------------------------------------------------------
(* Sending a SplitTCPPacket over UDP.                                      *)

\* The client's socket is connected to the server; the server's AutoSocket
\* answers the last address it heard from, and drops when there is none.
Transmit(side, new, uid, body) ==
    LET addr == IF side = "client" THEN session ELSE savedAddr
    IN  IF addr = NoAddr
        THEN chan
        ELSE [chan EXCEPT ![Other(side)] =
                Append(@, [addr |-> addr, new |-> new, uid |-> uid, body |-> body])]

\* A pending ICMP error makes the client's next call on the socket throw.
SendThrows(side) == MaySendFail \/ (side = "client" /\ udpErr)
SendWorks(side) == ~(side = "client" /\ udpErr)

\* The error is reported once.
ErrorReported(side) == IF side = "client" THEN FALSE ELSE udpErr

-----------------------------------------------------------------------------
(* Handlers of both sides.                                                 *)

\* close_connection: remove the Epoller action, then erase the connection,
\* which closes the socket.  epoll_ctl throws if the socket was never added.
close_connection(side, uid) ==
    IF uid \in watched[side]
    THEN /\ watched' = [watched EXCEPT ![side] = @ \ {uid}]
         /\ tcp' = [tcp EXCEPT ![side][conns[side][uid]].st = "closed"]
         /\ conns' = [conns EXCEPT ![side][uid] = NoConn]
         /\ up' = up
    ELSE /\ up' = [up EXCEPT ![side] = "threw"]
         /\ UNCHANGED <<watched, tcp, conns>>

\* Fault: write() is called once and a body the socket does not take at once is
\* forgotten, instead of writing until all is written.
WriteOnce(side, c, body) ==
    /\ up' = up
    /\ \/ tcp' = tcp
       \/ tcp' = [tcp EXCEPT ![side][c].got = Append(@, body)]

\* A blocking write of a body to a TCP socket that has room for it.
WriteAll(side, c, body) ==
    LET t == tcp[side][c]
    IN  \/ /\ t.st \in {"open", "fin"}
           /\ tcp' = [tcp EXCEPT ![side][c].got = Append(@, body)]
           /\ up' = up
        \/ /\ t.st = "gone"
           /\ \E st \in {"gone", "broken"} : tcp' = [tcp EXCEPT ![side][c].st = st]
           /\ up' = up
        \/ /\ t.st = "broken"
           /\ up' = [up EXCEPT ![side] = "sigpipe"]
           /\ tcp' = tcp
        \/ /\ t.st = "reset"
           /\ up' = [up EXCEPT ![side] = "threw"]
           /\ tcp' = tcp

\* The Epoller calls back only for sockets with an action.
Dispatchable(side, uid) ==
    /\ up[side] = "up"
    /\ uid \in watched[side]

\* Fault: the read is not waited for and its result not looked at.
ReadBytesUnready(side, uid) ==
    /\ Dispatchable(side, uid)
    /\ LET c == conns[side][uid]
           k == tcp[side][c].read + 1
       IN  /\ k <= MaxChunks + 1
           /\ tcp' = [tcp EXCEPT ![side][c].read = k]
           /\ chan' = Transmit(side, FALSE, uid, Bytes(c, k))
    /\ UNCHANGED <<session, up, nextUid, uidOf, conns, watched, udpErr, savedAddr, dups>>

\* receive_bytes_from_tcp_connection, when the read returns bytes.
ReadBytes(side, uid) ==
    /\ Dispatchable(side, uid)
    /\ LET c == conns[side][uid]
           t == tcp[side][c]
       IN  /\ t.read < t.wrote
           /\ tcp' = [tcp EXCEPT ![side][c].read = @ + 1]
           /\ \/ /\ SendWorks(side)
                 /\ chan' = Transmit(side, FALSE, uid, Bytes(c, t.read + 1))
                 /\ UNCHANGED <<up, udpErr>>
              \/ /\ SendThrows(side)
                 /\ up' = [up EXCEPT ![side] = "threw"]
                 /\ udpErr' = ErrorReported(side)
                 /\ chan' = chan
    /\ UNCHANGED <<session, nextUid, uidOf, conns, watched, savedAddr, dups>>

\* Fault: the connection is closed when the peer's FIN arrives, before the bytes
\* in front of it are read.
ReadEofUndrained(side, uid) ==
    /\ Dispatchable(side, uid)
    /\ tcp[side][conns[side][uid]].st \in {"fin", "gone", "broken"}
    /\ close_connection(side, uid)
    /\ SendWorks(side)
    /\ chan' = Transmit(side, FALSE, uid, Empty)
    /\ UNCHANGED <<session, nextUid, uidOf, udpErr, savedAddr, dups>>

\* Fault: the connection is closed at end of file but the other side not told.
ReadEofSilently(side, uid) ==
    /\ Dispatchable(side, uid)
    /\ LET t == tcp[side][conns[side][uid]]
       IN  t.st \in {"fin", "gone", "broken"} /\ t.read = t.wrote
    /\ close_connection(side, uid)
    /\ UNCHANGED <<session, nextUid, uidOf, chan, udpErr, savedAddr, dups>>

\* Fault: the connection is erased at end of file but its Epoller action kept.
ReadEofStillWatched(side, uid) ==
    /\ Dispatchable(side, uid)
    /\ LET c == conns[side][uid]
           t == tcp[side][c]
       IN  /\ c # NoConn
           /\ t.st \in {"fin", "gone", "broken"} /\ t.read = t.wrote
           /\ tcp' = [tcp EXCEPT ![side][c].st = "closed"]
    /\ conns' = [conns EXCEPT ![side][uid] = NoConn]
    /\ chan' = Transmit(side, FALSE, uid, Empty)
    /\ UNCHANGED <<session, up, nextUid, uidOf, watched, udpErr, savedAddr, dups>>

\* receive_bytes_from_tcp_connection, when the read returns end of file: the
\* connection is closed and the other side told.  The Epoller then looks at
\* the action and the socket that were just freed; it goes on, or takes what
\* it finds there for a busy wait and throws.
ReadEof(side, uid) ==
    /\ Dispatchable(side, uid)
    /\ LET c == conns[side][uid]
           t == tcp[side][c]
       IN  /\ t.st \in {"fin", "gone", "broken"}
           /\ t.read = t.wrote
           /\ tcp' = [tcp EXCEPT ![side][c].st = "closed"]
    /\ watched' = [watched EXCEPT ![side] = @ \ {uid}]
    /\ conns' = [conns EXCEPT ![side][uid] = NoConn]
    /\ \/ /\ SendWorks(side)
          /\ chan' = Transmit(side, FALSE, uid, Empty)
          /\ \E busy \in {"up", "threw"} : up' = [up EXCEPT ![side] = busy]
          /\ udpErr' = udpErr
       \/ /\ SendThrows(side)
          /\ up' = [up EXCEPT ![side] = "threw"]
          /\ udpErr' = ErrorReported(side)
          /\ chan' = chan
    /\ UNCHANGED <<session, nextUid, uidOf, savedAddr, dups>>

\* receive_bytes_from_tcp_connection, when the read fails: ECONNRESET is
\* thrown out of the event loop.
ReadFails(side, uid) ==
    /\ Dispatchable(side, uid)
    /\ LET t == tcp[side][conns[side][uid]]
       IN  t.st = "reset" /\ t.read = t.wrote
    /\ up' = [up EXCEPT ![side] = "threw"]
    /\ UNCHANGED <<session, nextUid, uidOf, conns, watched, tcp, chan, udpErr, savedAddr, dups>>

-----------------------------------------------------------------------------
(* Handlers of the client.                                                 *)

\* The next connection in the listener's backlog.
NextToArrive(c) ==
    /\ uidOf[c] = 0
    /\ \A d \in Conn : d < c => uidOf[d] # 0

\* Fault: the uid of a closed connection is given to the next one.
AcceptRecyclingUid ==
    \E c \in Conn, uid \in Uid \ Known("client") :
        /\ up["client"] = "up"
        /\ NextToArrive(c)
        /\ \A u \in Uid : u < uid => u \in Known("client")
        /\ conns' = [conns EXCEPT !["client"][uid] = c]
        /\ tcp' = [tcp EXCEPT !["client"][c] = NewSocket("open")]
        /\ uidOf' = [uidOf EXCEPT ![c] = uid]
        /\ chan' = Transmit("client", TRUE, uid, Destination(c))
        /\ watched' = [watched EXCEPT !["client"] = @ \cup {uid}]
        /\ UNCHANGED <<session, up, nextUid, udpErr, savedAddr, dups>>

\* Fault: the announcement is sent twice, in case one is lost.
AcceptAnnouncingTwice ==
    \E c \in Conn :
        /\ up["client"] = "up"
        /\ NextToArrive(c)
        /\ nextUid <= MaxUid
        /\ conns' = [conns EXCEPT !["client"][nextUid] = c]
        /\ tcp' = [tcp EXCEPT !["client"][c] = NewSocket("open")]
        /\ nextUid' = nextUid + 1
        /\ uidOf' = [uidOf EXCEPT ![c] = nextUid]
        /\ LET p == [addr |-> session, new |-> TRUE, uid |-> nextUid, body |-> Destination(c)]
           IN  chan' = [chan EXCEPT !["server"] = @ \o <<p, p>>]
        /\ watched' = [watched EXCEPT !["client"] = @ \cup {nextUid}]
        /\ UNCHANGED <<session, up, udpErr, savedAddr, dups>>

\* handle_new_tcp_connection: emplace the accepted socket under a new uid,
\* announce it to the server, watch it.
AcceptConnection ==
    \E c \in Conn :
        /\ up["client"] = "up"
        /\ NextToArrive(c)
        /\ nextUid <= MaxUid
        /\ conns' = [conns EXCEPT !["client"][nextUid] = c]
        /\ tcp' = [tcp EXCEPT !["client"][c] = NewSocket("open")]
        /\ nextUid' = nextUid + 1
        /\ uidOf' = [uidOf EXCEPT ![c] = nextUid]
        /\ \/ /\ SendWorks("client")
              /\ chan' = Transmit("client", TRUE, nextUid, Destination(c))
              /\ watched' = [watched EXCEPT !["client"] = @ \cup {nextUid}]
              /\ udpErr' = udpErr
           \/ \* the write throws and is caught: the connection stays in the
              \* map, unannounced and unwatched
              /\ SendThrows("client")
              /\ udpErr' = FALSE
              /\ UNCHANGED <<chan, watched>>
        /\ UNCHANGED <<session, up, savedAddr, dups>>

\* accept() throws and is caught.  get_connection_uid() and accept() are
\* arguments of one call: if the uid was not taken yet, nothing changes.  The
\* handler then unlocks connections_mutex_ twice, which leaves it unlocked.
AcceptFails ==
    /\ up["client"] = "up"
    /\ nextUid <= MaxUid
    /\ nextUid' = nextUid + 1
    /\ UNCHANGED <<session, up, uidOf, conns, watched, tcp, chan, udpErr, savedAddr, dups>>

Deliverable(side) == {i \in DOMAIN chan[side] : MayReorder \/ i = 1}
Consumed(side, i) == [chan EXCEPT ![side] = RemoveAt(@, i)]

\* The client's process takes datagram i from its UDP socket.
ClientReads(i) ==
    /\ up["client"] = "up"
    /\ ~udpErr
    /\ chan["client"][i].addr = session
    /\ chan' = Consumed("client", i)
    /\ UNCHANGED <<session, nextUid, uidOf, udpErr, savedAddr, dups>>

\* receive_packet_from_splitter_server: the read reports the ICMP error.
ClientReadThrows ==
    /\ up["client"] = "up"
    /\ udpErr
    /\ up' = [up EXCEPT !["client"] = "threw"]
    /\ udpErr' = FALSE
    /\ UNCHANGED <<session, nextUid, uidOf, conns, watched, tcp, chan, savedAddr, dups>>

\* receive_packet_from_splitter_server: a packet that announces a connection
\* fails the assertion, one for an unknown uid is ignored.
ClientIgnores ==
    \E i \in Deliverable("client") :
        LET p == chan["client"][i]
        IN  /\ ClientReads(i)
            /\ p.new \/ p.uid \notin Known("client")
            /\ up' = [up EXCEPT !["client"] = IF p.new THEN "assert" ELSE "up"]
            /\ UNCHANGED <<conns, watched, tcp>>

\* receive_packet_from_splitter_server: end of file, the connection is closed.
ClientCloses ==
    \E i \in Deliverable("client") :
        LET p == chan["client"][i]
        IN  /\ ClientReads(i)
            /\ ~p.new
            /\ p.uid \in Known("client")
            /\ p.body = Empty
            /\ close_connection("client", p.uid)

\* receive_packet_from_splitter_server: the body is written to the application.
ClientForwards ==
    \E i \in Deliverable("client") :
        LET p == chan["client"][i]
        IN  /\ ClientReads(i)
            /\ ~p.new
            /\ p.uid \in Known("client")
            /\ p.body # Empty
            /\ WriteAll("client", conns["client"][p.uid], p.body)
            /\ UNCHANGED <<conns, watched>>

-----------------------------------------------------------------------------
(* The server's handler of a datagram.                                     *)

\* AutoSocket::read takes datagram i and remembers where it came from.
ServerReads(i) ==
    /\ up["server"] = "up"
    /\ savedAddr' = chan["server"][i].addr
    /\ UNCHANGED <<session, nextUid, uidOf, udpErr, dups>>

\* A packet for an unknown uid that announces nothing is dropped.
ServerDrops ==
    \E i \in Deliverable("server") :
        LET p == chan["server"][i]
        IN  /\ ServerReads(i)
            /\ p.uid \notin Known("server")
            /\ ~p.new
            /\ chan' = Consumed("server", i)
            /\ UNCHANGED <<up, conns, watched, tcp>>

\* Fault: the connection to the destination gets no Epoller action.
ServerConnectsUnwatched ==
    \E i \in Deliverable("server") :
        LET p == chan["server"][i]
        IN  /\ ServerReads(i)
            /\ p.uid \notin Known("server")
            /\ p.new
            /\ chan' = Consumed("server", i)
            /\ conns' = [conns EXCEPT !["server"][p.uid] = p.body.c]
            /\ tcp' = [tcp EXCEPT !["server"][p.body.c] = NewSocket("open")]
            /\ UNCHANGED <<up, watched>>

\* establish_new_tcp_connection: the destination accepts.
ServerConnects ==
    \E i \in Deliverable("server") :
        LET p == chan["server"][i]
        IN  /\ ServerReads(i)
            /\ p.uid \notin Known("server")
            /\ p.new
            /\ chan' = Consumed("server", i)
            /\ conns' = [conns EXCEPT !["server"][p.uid] = p.body.c]
            /\ watched' = [watched EXCEPT !["server"] = @ \cup {p.uid}]
            /\ tcp' = [tcp EXCEPT !["server"][p.body.c] = NewSocket("open")]
            /\ up' = up

\* Fault: the client is not told that its destination refused.
ServerRefusedSilently ==
    \E i \in Deliverable("server") :
        /\ ServerReads(i)
        /\ chan["server"][i].uid \notin Known("server")
        /\ chan["server"][i].new
        /\ chan' = Consumed("server", i)
        /\ UNCHANGED <<up, conns, watched, tcp>>

\* establish_new_tcp_connection: connect() fails; the packet is sent back with
\* an empty body.
ServerRefused ==
    \E i \in Deliverable("server") :
        LET p == chan["server"][i]
            back == [addr |-> p.addr, new |-> FALSE, uid |-> p.uid, body |-> Empty]
        IN  /\ ServerReads(i)
            /\ p.uid \notin Known("server")
            /\ p.new
            /\ \/ /\ chan' = [Consumed("server", i) EXCEPT !["client"] = Append(@, back)]
                  /\ up' = up
               \/ /\ MaySendFail
                  /\ chan' = Consumed("server", i)
                  /\ up' = [up EXCEPT !["server"] = "threw"]
            /\ UNCHANGED <<conns, watched, tcp>>

\* Fault: the assertion is compiled out and the packet taken for data.
ServerAssertsNot ==
    \E i \in Deliverable("server") :
        LET p == chan["server"][i]
        IN  /\ ServerReads(i)
            /\ p.uid \in Known("server")
            /\ p.new
            /\ chan' = Consumed("server", i)
            /\ WriteAll("server", conns["server"][p.uid], p.body)
            /\ UNCHANGED <<conns, watched>>

\* assert( not received_packet.header.new_connection ) fails.
ServerAsserts ==
    \E i \in Deliverable("server") :
        LET p == chan["server"][i]
        IN  /\ ServerReads(i)
            /\ p.uid \in Known("server")
            /\ p.new
            /\ chan' = Consumed("server", i)
            /\ up' = [up EXCEPT !["server"] = "assert"]
            /\ UNCHANGED <<conns, watched, tcp>>

\* End of file from the client: the connection to the destination is closed.
ServerCloses ==
    \E i \in Deliverable("server") :
        LET p == chan["server"][i]
        IN  /\ ServerReads(i)
            /\ p.uid \in Known("server")
            /\ ~p.new
            /\ p.body = Empty
            /\ chan' = Consumed("server", i)
            /\ close_connection("server", p.uid)

\* The body is written to the destination.
ServerForwards ==
    \E i \in Deliverable("server") :
        LET p == chan["server"][i]
        IN  /\ ServerReads(i)
            /\ p.uid \in Known("server")
            /\ ~p.new
            /\ p.body # Empty
            /\ chan' = Consumed("server", i)
            /\ WriteAll("server", conns["server"][p.uid], p.body)
            /\ UNCHANGED <<conns, watched>>

-----------------------------------------------------------------------------
(* The environment: TCP peers, the network, the user.                      *)

\* What a TCP peer does to the connection that a splitter still holds.
PeerWrites(side, c) ==
    /\ tcp[side][c].st = "open"
    /\ tcp[side][c].wrote < MaxChunks
    /\ tcp' = [tcp EXCEPT ![side][c].wrote = @ + 1]
    /\ UNCHANGED <<session, up, nextUid, uidOf, conns, watched, chan, udpErr, savedAddr, dups>>

PeerStep(side, c, from, to) ==
    /\ tcp[side][c].st = from
    /\ tcp' = [tcp EXCEPT ![side][c].st = to]
    /\ UNCHANGED <<session, up, nextUid, uidOf, conns, watched, chan, udpErr, savedAddr, dups>>

PeerShutsDown(side, c) ==
    /\ "shutdown" \in PeerEnds
    /\ PeerStep(side, c, "open", "fin")

PeerCloses(side, c) ==
    /\ "close" \in PeerEnds
    /\ \E from \in {"open", "fin"} : PeerStep(side, c, from, "gone")

PeerResets(side, c) ==
    /\ "reset" \in PeerEnds
    /\ PeerStep(side, c, "open", "reset") \/ PeerStep(side, c, "fin", "broken")

Lose(side) ==
    /\ MayLose
    /\ \E i \in DOMAIN chan[side] : chan' = Consumed(side, i)
    /\ UNCHANGED <<session, up, nextUid, uidOf, conns, watched, tcp, udpErr, savedAddr, dups>>

\* A duplicate travels behind everything already on its way.
Duplicate(side) ==
    /\ dups < MaxDups
    /\ dups' = dups + 1
    /\ \E i \in DOMAIN chan[side] : chan' = [chan EXCEPT ![side] = Append(@, @[i])]
    /\ UNCHANGED <<session, up, nextUid, uidOf, conns, watched, tcp, udpErr, savedAddr>>

\* A datagram that finds no process is discarded; the ICMP error it causes may
\* reach the client whose connected socket sent it.
ServerUnreachable ==
    /\ up["server"] # "up"
    /\ \E i \in Deliverable("server") :
        /\ chan' = Consumed("server", i)
        /\ \/ udpErr' = udpErr
           \/ udpErr' = TRUE /\ up["client"] = "up" /\ chan["server"][i].addr = session
    /\ UNCHANGED <<session, up, nextUid, uidOf, conns, watched, tcp, savedAddr, dups>>

ClientUnreachable ==
    /\ \E i \in Deliverable("client") :
        /\ up["client"] # "up" \/ chan["client"][i].addr # session
        /\ chan' = Consumed("client", i)
    /\ UNCHANGED <<session, up, nextUid, uidOf, conns, watched, tcp, udpErr, savedAddr, dups>>

\* koho-client ends, by itself or by the user, and is started again against the
\* same koho-server: fresh state, a fresh UDP port, uids from 1.
ClientRestarts ==
    /\ session < MaxSessions
    /\ session' = session + 1
    /\ up' = [up EXCEPT !["client"] = "up"]
    /\ nextUid' = 1
    /\ conns' = [conns EXCEPT !["client"] = [u \in Uid |-> NoConn]]
    /\ watched' = [watched EXCEPT !["client"] = {}]
    /\ tcp' = [tcp EXCEPT !["client"] =
                [c \in Conn |-> IF @[c].st = "none" THEN @[c] ELSE [@[c] EXCEPT !.st = "closed"]]]
    /\ udpErr' = FALSE
    /\ UNCHANGED <<uidOf, chan, savedAddr, dups>>

-----------------------------------------------------------------------------

ClientStep == AcceptConnection \/ AcceptFails \/ ClientReadThrows
                \/ ClientIgnores \/ ClientCloses \/ ClientForwards
ServerStep == ServerDrops \/ ServerConnects \/ ServerRefused \/ ServerAsserts
                \/ ServerCloses \/ ServerForwards
SocketStep(side) ==
    \E uid \in Uid : ReadBytes(side, uid) \/ ReadEof(side, uid) \/ ReadFails(side, uid)
PeerAction(side) ==
    \E c \in Conn : PeerWrites(side, c) \/ PeerShutsDown(side, c)
                        \/ PeerCloses(side, c) \/ PeerResets(side, c)
NetworkStep == ServerUnreachable \/ ClientUnreachable
                \/ \E side \in Side : Lose(side) \/ Duplicate(side)

Next == ClientStep \/ ServerStep \/ NetworkStep \/ ClientRestarts
            \/ \E side \in Side : SocketStep(side) \/ PeerAction(side)

Spec == Init /\ [][Next]_vars

(***************************************************************************)
(* Fairness.  epoll is level-triggered, a poll returns every ready socket  *)
(* (up to 1000) and the loops call poll for ever, so each ready socket is  *)
(* served; a path that loses nothing eventually delivers or discards.      *)
(***************************************************************************)
ClientReceives == ClientReadThrows \/ ClientIgnores \/ ClientCloses \/ ClientForwards

Fairness ==
    /\ WF_vars(ClientReceives)
    /\ WF_vars(ServerStep)
    /\ WF_vars(ServerUnreachable)
    /\ WF_vars(ClientUnreachable)
    /\ \A side \in Side, uid \in Uid :
        WF_vars(ReadBytes(side, uid) \/ ReadEof(side, uid) \/ ReadFails(side, uid))

FairSpec == Spec /\ Fairness

-----------------------------------------------------------------------------
(* Properties.                                                             *)

\* Every variable has its type; in particular a body is only ever read from a socket
\* that is in the map of its side.
TypeOK ==
    /\ session \in Session
    /\ up \in [Side -> Status]
    /\ nextUid \in 1 .. MaxUid + 1
    /\ uidOf \in [Conn -> Uid \cup {0}]
    /\ conns \in [Side -> [Uid -> Conn \cup {NoConn}]]
    /\ watched \in [Side -> SUBSET Uid]
    /\ tcp \in [Side -> [Conn -> Socket]]
    /\ chan \in [Side -> Seq(Packet)]
    /\ udpErr \in BOOLEAN
    /\ savedAddr \in Session \cup {NoAddr}
    /\ dups \in 0 .. MaxDups

\* What a splitter writes to one TCP connection was read from the connection at
\* the other end of the same pair, never from another one, although packets are
\* told apart by nothing but a uid.
Isolated(side) ==
    \A c \in Conn : \A i \in DOMAIN tcp[side][c].got : tcp[side][c].got[i].c = c
NoCrossTalk == \A side \in Side : Isolated(side)

\* The bytes written to destinations are never those of another connection, when
\* koho-client restarts and uids start from 1 again while the server keeps its
\* connections.
UpstreamIsolated == Isolated("server")

\* A TCP peer receives what the other end of its connection sent: the same
\* pieces, in order, from the first, without gap or repetition, although the
\* packets that carry them are not numbered.
StreamIntact ==
    \A side \in Side, c \in Conn :
        \A i \in DOMAIN tcp[side][c].got : tcp[side][c].got[i] = Bytes(c, i)

\* The server's assertion that a packet for a known uid does not announce a new
\* connection never fails, unless the network has duplicated a datagram, or a second koho-client counts
\* uids from 1 again.
ServerAssertHolds == up["server"] = "assert" => dups > 0 \/ session > 1

\* When nothing is on its way, the two connections_ maps hold the same
\* connections under the same uids, however the two ends raced to close them.
\* (A connection whose announcement failed to be sent is unknown to the server.)
TablesAgree ==
    (\A side \in Side : up[side] = "up" /\ chan[side] = <<>>) =>
        /\ watched["client"] = Known("server")
        /\ \A u \in Known("server") : conns["client"][u] = conns["server"][u]

\* An Epoller action exists only for a connection in the map (its callback would
\* otherwise read nothing, which the Epoller takes for a busy wait), and every
\* connection in a map has one, so that its bytes and its end will be noticed;
\* except on the client after a datagram could not be sent.
AllWatched ==
    /\ watched["server"] = Known("server")
    /\ watched["client"] \subseteq Known("client")
    /\ up["server"] = "up" /\ ~MaySendFail => watched["client"] = Known("client")

\* A destination is dialled at most once for each accepted connection: once the
\* server has closed its connection, no late or reordered packet opens another,
\* unless the network has duplicated a datagram.
NeverRedialled ==
    [][dups = 0 => \A c \in Conn : tcp["server"][c].st = "closed" => tcp'["server"][c].st = "closed"]_vars

Died == \E side \in Side : up[side] # "up"

\* Once one splitter has closed its end of a connection, the other end is
\* eventually closed for good too, or was never opened, unless a process dies.
ClosePropagates ==
    \A side \in Side, c \in Conn :
        tcp[side][c].st = "closed"
            ~> [](Died \/ tcp[Other(side)][c].st \in {"none", "closed"})

\* What a TCP peer writes to an open connection is eventually written to its
\* other end, unless that end has been ended by its own peer, was never opened,
\* or a process dies.
BytesArrive ==
    \A side \in Side, c \in Conn, k \in 1 .. MaxChunks :
        tcp[side][c].wrote >= k
            ~> \/ Died
               \/ Len(tcp[Other(side)][c].got) >= k
               \/ tcp[Other(side)][c].st \notin {"none", "open"}
               \/ [](tcp[Other(side)][c].st = "none")

-----------------------------------------------------------------------------
(* The pipes that the splitters implement.                                 *)

\* An end as its user sees it: the states of a socket that its own peer has
\* ended are one.
EndOf(st) == IF st \in {"fin", "gone", "broken", "reset"} THEN "ended" ELSE st

Pipes == INSTANCE SplitPipes WITH
    end <- [s \in Side |-> [c \in Conn |-> EndOf(tcp[s][c].st)]],
    written <- [s \in Side |-> [c \in Conn |-> tcp[s][c].wrote]],
    taken <- [s \in Side |-> [c \in Conn |-> tcp[s][c].read]],
    given <- [s \in Side |-> [c \in Conn |-> tcp[s][c].got]]

\* Over a path that neither loses, reorders nor duplicates datagrams, the two
\* splitters implement SplitPipes: in-order delivery without gaps, no connection
\* closed at end of file with bytes unread, and none closed under its peer before all
\* that the other end sent has been written to it.
ImplementsPipes == Pipes!Spec
=============================================================================
