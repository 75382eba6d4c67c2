--------------------------- MODULE TcpSplitterProofs ---------------------------
(***************************************************************************)
(* The splitters' own bookkeeping, and the safety theorems that rest on    *)
(* it, for every value of the constants that a theorem does not fix: any   *)
(* number of connections, uids, sessions and chunks, any behaviour of the  *)
(* TCP peers, any datagrams lost or reordered, any failing send.           *)
(*                                                                         *)
(* Types are not inductive alone: a socket that is read is found through   *)
(* the map, so it must be known that only sockets in the map are watched   *)
(* (AllWatched), and that in turn needs that an ICMP error is pending only *)
(* after the server has died (ErrorAfterDeath).  TableInv and PacketInv    *)
(* add what a uid means: the one given to the connection when it was       *)
(* accepted, in both maps and in every packet on its way.                  *)
(*                                                                         *)
(* Three parts: the bookkeeping over any network; the wire format, for     *)
(* uids of 64 bits; and the streams, maps and pipes over a reliable path.  *)
(***************************************************************************)
EXTENDS TcpSplitterWire, SequenceTheorems, TLAPS

\* RemoveAt keeps the other elements, in order.
LEMMA RemoveAtElements ==
    ASSUME NEW S, NEW s \in Seq(S), NEW i \in 1 .. Len(s)
    PROVE  /\ RemoveAt(s, i) \in Seq(S)
           /\ Len(RemoveAt(s, i)) = Len(s) - 1
           /\ \A j \in 1 .. Len(s) - 1 :
                RemoveAt(s, i)[j] = IF j < i THEN s[j] ELSE s[j + 1]
<1> DEFINE a == SubSeq(s, 1, i - 1)
           b == SubSeq(s, i + 1, Len(s))
<1>1. a \in Seq(S) /\ Len(a) = i - 1 /\ \A j \in 1 .. i - 1 : a[j] = s[j]
  OBVIOUS
<1>2. b \in Seq(S) /\ Len(b) = Len(s) - i /\ \A j \in 1 .. Len(s) - i : b[j] = s[i + j]
  OBVIOUS
<1>3. RemoveAt(s, i) = a \o b
  BY DEF RemoveAt
<1> HIDE DEF a, b
<1>4. /\ a \o b \in Seq(S)
      /\ Len(a \o b) = Len(a) + Len(b)
      /\ \A j \in 1 .. Len(a) + Len(b) : (a \o b)[j] = IF j <= Len(a) THEN a[j] ELSE b[j - Len(a)]
  BY <1>1, <1>2, ConcatProperties
<1> QED BY <1>1, <1>2, <1>3, <1>4

-----------------------------------------------------------------------------
(* Types of what the actions are made of.                                  *)

\* A packet on its way has the type of a packet.
LEMMA PacketType ==
    ASSUME TypeOK, NEW side \in Side, NEW i \in DOMAIN chan[side]
    PROVE  /\ chan[side] \in Seq(Packet)
           /\ i \in 1 .. Len(chan[side])
           /\ chan[side][i] \in Packet
  BY DEF TypeOK

\* Taking a packet leaves packets.
LEMMA ConsumedType ==
    ASSUME TypeOK, NEW side \in Side, NEW i \in DOMAIN chan[side]
    PROVE  Consumed(side, i) \in [Side -> Seq(Packet)]
<1>1. RemoveAt(chan[side], i) \in Seq(Packet)
  BY PacketType, RemoveAtElements
<1> QED BY <1>1 DEF TypeOK, Consumed

\* Sending a packet leaves packets on their way.
LEMMA TransmitType ==
    ASSUME TypeOK, NEW side \in Side, NEW new \in BOOLEAN, NEW uid \in Uid,
           NEW body \in Body \cup {Empty}
    PROVE  Transmit(side, new, uid, body) \in [Side -> Seq(Packet)]
<1> DEFINE addr == IF side = "client" THEN session ELSE savedAddr
           p == [addr |-> addr, new |-> new, uid |-> uid, body |-> body]
<1>1. CASE addr = NoAddr
  BY <1>1 DEF Transmit, TypeOK
<1>2. CASE addr # NoAddr
  <2>1. p \in Packet
    BY <1>2 DEF TypeOK, Packet, Session, NoAddr
  <2>2. Transmit(side, new, uid, body) = [chan EXCEPT ![Other(side)] = Append(@, p)]
    BY <1>2 DEF Transmit
  <2> HIDE DEF p
  <2>3. QED BY <2>1, <2>2 DEF TypeOK, Other, Side
<1> QED BY <1>1, <1>2

\* Replacing the socket of one connection keeps the type of tcp; an index that is
\* no connection changes nothing.
LEMMA SocketUpdate ==
    ASSUME NEW f \in [Side -> [Conn -> Socket]], NEW side \in Side,
           NEW c, NEW t, c \in Conn => t \in Socket
    PROVE  [f EXCEPT ![side][c] = t] \in [Side -> [Conn -> Socket]]
<1>1. f[side] \in [Conn -> Socket]
  OBVIOUS
<1> DEFINE g == f[side]
<1>2. [g EXCEPT ![c] = t] \in [Conn -> Socket]
  <2> HIDE DEF g
  <2>1. g \in [Conn -> Socket]
    BY <1>1 DEF g
  <2>2. CASE c \in Conn
    BY <2>1, <2>2
  <2>3. CASE c \notin Conn
    BY <2>1, <2>3
  <2> QED BY <2>2, <2>3
<1> QED BY <1>2

\* Changing the state of one socket keeps the type of all of them.
LEMMA SocketStateUpdate ==
    ASSUME TypeOK, NEW side \in Side, NEW c, NEW st \in SocketState
    PROVE  [tcp EXCEPT ![side][c].st = st] \in [Side -> [Conn -> Socket]]
<1>1. tcp \in [Side -> [Conn -> Socket]]
  BY DEF TypeOK
<1>2. ASSUME c \in Conn PROVE [tcp[side][c] EXCEPT !.st = st] \in Socket
  <2>1. tcp[side][c] \in Socket
    BY <1>1, <1>2
  <2> QED BY <2>1 DEF Socket
<1> QED BY <1>1, <1>2, SocketUpdate

\* close_connection keeps the types of what it changes.
LEMMA CloseType ==
    ASSUME TypeOK, NEW side \in Side, NEW uid \in Uid, close_connection(side, uid)
    PROVE  /\ conns' \in [Side -> [Uid -> Conn \cup {NoConn}]]
           /\ watched' \in [Side -> SUBSET Uid]
           /\ tcp' \in [Side -> [Conn -> Socket]]
           /\ up' \in [Side -> Status]
<1>1. [tcp EXCEPT ![side][conns[side][uid]].st = "closed"] \in [Side -> [Conn -> Socket]]
  BY SocketStateUpdate DEF SocketState
<1>2. tcp' \in [Side -> [Conn -> Socket]]
  BY <1>1 DEF TypeOK, close_connection
<1>3. up' \in [Side -> Status]
  BY DEF TypeOK, close_connection, Status
<1>4. watched' \in [Side -> SUBSET Uid]
  <2>1. watched \in [Side -> SUBSET Uid]
    BY DEF TypeOK
  <2>2. watched' = [watched EXCEPT ![side] = @ \ {uid}] \/ watched' = watched
    BY DEF close_connection
  <2> QED BY <2>1, <2>2
<1>5. conns' \in [Side -> [Uid -> Conn \cup {NoConn}]]
  <2>1. conns \in [Side -> [Uid -> Conn \cup {NoConn}]]
    BY DEF TypeOK
  <2>2. conns' = [conns EXCEPT ![side][uid] = NoConn] \/ conns' = conns
    BY DEF close_connection
  <2> QED BY <2>1, <2>2
<1> QED BY <1>2, <1>3, <1>4, <1>5

\* Writing a body to a socket keeps the types of what it changes.
LEMMA WriteType ==
    ASSUME TypeOK, NEW side \in Side, NEW c, NEW body \in Body, WriteAll(side, c, body)
    PROVE  /\ tcp' \in [Side -> [Conn -> Socket]]
           /\ up' \in [Side -> Status]
<1>1. [tcp EXCEPT ![side][c].got = Append(@, body)] \in [Side -> [Conn -> Socket]]
  <2>1. tcp \in [Side -> [Conn -> Socket]]
    BY DEF TypeOK
  <2>2. ASSUME c \in Conn PROVE [tcp[side][c] EXCEPT !.got = Append(@, body)] \in Socket
    <3>1. tcp[side][c] \in Socket
      BY <2>1, <2>2
    <3>2. Append(tcp[side][c].got, body) \in Seq(Body)
      BY <3>1 DEF Socket
    <3> QED BY <3>1, <3>2 DEF Socket
  <2> QED BY <2>1, <2>2, SocketUpdate
<1>2. \A st \in {"gone", "broken"} :
        [tcp EXCEPT ![side][c].st = st] \in [Side -> [Conn -> Socket]]
  BY SocketStateUpdate DEF SocketState
<1>3. tcp' \in [Side -> [Conn -> Socket]]
  <2>1. tcp \in [Side -> [Conn -> Socket]]
    BY DEF TypeOK
  <2>2. \/ tcp' = [tcp EXCEPT ![side][c].got = Append(@, body)]
        \/ \E st \in {"gone", "broken"} : tcp' = [tcp EXCEPT ![side][c].st = st]
        \/ tcp' = tcp
    BY DEF WriteAll
  <2> QED BY <1>1, <1>2, <2>1, <2>2
<1>4. up' \in [Side -> Status]
  BY DEF TypeOK, WriteAll, Status
<1> QED BY <1>3, <1>4

-----------------------------------------------------------------------------
(* Every variable keeps its type, and the Epollers watch the connections.  *)

\* A uid in a map or a packet is the one its connection was given; only packets to
\* the server announce connections, and they name them.
TableInv ==
    \A side \in Side, u \in Uid : conns[side][u] # NoConn => uidOf[conns[side][u]] = u
PacketInv ==
    \A side \in Side : \A i \in DOMAIN chan[side] :
        LET p == chan[side][i]
        IN  /\ p.new => side = "server" /\ p.body \in Body
            /\ p.body # Empty => uidOf[p.body.c] = p.uid

\* An ICMP error is pending only after the server has died.
ErrorAfterDeath == udpErr => up["server"] # "up"

\* The splitters' own bookkeeping: types need the watched uids to be known ones,
\* since a read takes the connection from the map.
Bookkeeping == TypeOK /\ AllWatched /\ ErrorAfterDeath

\* The splitters start with empty maps and no Epoller actions.
LEMMA InitBookkeeping == Init => Bookkeeping
<1> SUFFICES ASSUME Init PROVE Bookkeeping
  OBVIOUS
<1>1. [c \in Conn |-> NewSocket("none")] \in [Conn -> Socket]
  BY ConstantsAssumption DEF NewSocket, Socket, SocketState
<1>2. tcp \in [Side -> [Conn -> Socket]]
  BY <1>1 DEF Init
<1>3. chan \in [Side -> Seq(Packet)]
  BY DEF Init
<1>4. TypeOK
  <2>1. up \in [Side -> Status] /\ watched \in [Side -> SUBSET Uid]
    BY DEF Init, Status
  <2>2. conns \in [Side -> [Uid -> Conn \cup {NoConn}]] /\ uidOf \in [Conn -> Uid \cup {0}]
    BY DEF Init
  <2>3. session = 1 /\ nextUid = 1 /\ savedAddr = NoAddr /\ dups = 0
    BY DEF Init
  <2>4. session \in Session /\ nextUid \in 1 .. MaxUid + 1 /\ dups \in 0 .. MaxDups
    BY <2>3, ConstantsAssumption DEF Session
  <2>5. udpErr \in BOOLEAN
    BY DEF Init
  <2> QED BY <1>2, <1>3, <2>1, <2>2, <2>3, <2>4, <2>5 DEF TypeOK
<1>5. AllWatched
  BY DEF Init, AllWatched, Known, Side
<1>6. ErrorAfterDeath
  BY DEF Init, ErrorAfterDeath
<1> QED BY <1>4, <1>5, <1>6 DEF Bookkeeping

\* What is true of AllWatched and ErrorAfterDeath when the maps do not change.
LEMMA WatchedStable ==
    ASSUME AllWatched, UNCHANGED <<conns, watched>>, up'["server"] = "up" => up["server"] = "up"
    PROVE  AllWatched'
  BY DEF AllWatched, Known

\* close_connection removes the map entry and the Epoller action together.
LEMMA CloseWatched ==
    ASSUME TypeOK, AllWatched, NEW side \in Side, NEW uid \in Uid, close_connection(side, uid)
    PROVE  /\ AllWatched'
           /\ up'["server"] = "up" => up["server"] = "up"
<1>1. up'["server"] = "up" => up["server"] = "up"
  BY DEF TypeOK, close_connection, Side
<1>2. CASE uid \in watched[side]
  <2>1. watched' = [watched EXCEPT ![side] = @ \ {uid}] /\ conns' = [conns EXCEPT ![side][uid] = NoConn]
    BY <1>2 DEF close_connection
  <2>2. \A s \in Side : Known(s)' = Known(s) \ (IF s = side THEN {uid} ELSE {})
    BY <2>1 DEF TypeOK, Known
  <2>3. \A s \in Side : watched'[s] = watched[s] \ (IF s = side THEN {uid} ELSE {})
    BY <2>1 DEF TypeOK
  <2> QED BY <1>1, <2>2, <2>3 DEF AllWatched, Side
<1>3. CASE uid \notin watched[side]
  BY <1>1, <1>3, WatchedStable DEF close_connection
<1> QED BY <1>1, <1>2, <1>3

\* handle_new_tcp_connection, whether or not accept and the announcement succeed.
LEMMA AcceptBookkeeping ==
    ASSUME Bookkeeping, AcceptConnection
    PROVE  Bookkeeping'
<1> USE DEF Bookkeeping
<1> PICK c \in Conn : AcceptConnection!(c)
  BY DEF AcceptConnection
<1>1. nextUid \in Uid /\ "client" \in Side
  BY DEF TypeOK, Uid, Side
<1>2. tcp' \in [Side -> [Conn -> Socket]]
  <2>1. NewSocket("open") \in Socket
    BY ConstantsAssumption DEF NewSocket, Socket, SocketState
  <2> QED BY <1>1, <2>1, SocketUpdate DEF TypeOK
<1>3. chan' \in [Side -> Seq(Packet)]
  <2>1. Destination(c) \in Body
    BY ConstantsAssumption DEF Destination, Body
  <2>2. Transmit("client", TRUE, nextUid, Destination(c)) \in [Side -> Seq(Packet)]
    BY <1>1, <2>1, TransmitType
  <2> QED BY <2>2 DEF TypeOK
<1>4. conns' \in [Side -> [Uid -> Conn \cup {NoConn}]]
  <2>1. conns \in [Side -> [Uid -> Conn \cup {NoConn}]]
    BY DEF TypeOK
  <2> QED BY <1>1, <2>1
<1>5. watched' \in [Side -> SUBSET Uid]
  <2>1. watched \in [Side -> SUBSET Uid]
    BY DEF TypeOK
  <2> QED BY <1>1, <2>1
<1>6. TypeOK'
  <2>1. nextUid' \in 1 .. MaxUid + 1
    <3>1. nextUid' = nextUid + 1
      OBVIOUS
    <3> QED BY <1>1, <3>1, ConstantsAssumption DEF Uid
  <2>2. uidOf' \in [Conn -> Uid \cup {0}]
    BY <1>1 DEF TypeOK
  <2>3. udpErr' \in BOOLEAN
    BY DEF TypeOK
  <2> QED BY <1>2, <1>3, <1>4, <1>5, <2>1, <2>2, <2>3 DEF TypeOK
<1>7. AllWatched'
  <2>1. Known("server")' = Known("server") /\ watched'["server"] = watched["server"]
    BY <1>1 DEF TypeOK, Known, Side
  <2>2. Known("client")' = Known("client") \cup {nextUid}
    BY <1>1 DEF TypeOK, Known, Conn, NoConn
  <2>3. watched'["client"] = watched["client"] \cup {nextUid} \/ watched'["client"] = watched["client"]
    BY <1>1 DEF TypeOK
  <2>4. up["server"] = "up" /\ ~MaySendFail => watched'["client"] = watched["client"] \cup {nextUid}
    BY <1>1 DEF TypeOK, SendThrows, ErrorAfterDeath
  <2> QED BY <2>1, <2>2, <2>3, <2>4 DEF AllWatched
<1>8. ErrorAfterDeath'
  BY DEF ErrorAfterDeath
<1> QED BY <1>6, <1>7, <1>8

\* receive_bytes_from_tcp_connection with bytes.
LEMMA ReadBytesBookkeeping ==
    ASSUME Bookkeeping, NEW side \in Side, NEW uid \in Uid, ReadBytes(side, uid)
    PROVE  Bookkeeping'
<1> USE DEF Bookkeeping
<1> DEFINE c == conns[side][uid]
           t == tcp[side][c]
<1>1. c \in Conn /\ tcp \in [Side -> [Conn -> Socket]] /\ t \in Socket
  BY DEF ReadBytes, Dispatchable, AllWatched, Known, TypeOK, Side
<1>2. t.read + 1 \in 0 .. MaxChunks
  BY <1>1, ConstantsAssumption DEF ReadBytes, Socket
<1>3. tcp' \in [Side -> [Conn -> Socket]]
  <2>1. [t EXCEPT !.read = t.read + 1] \in Socket
    BY <1>1, <1>2 DEF Socket
  <2>2. tcp' = [tcp EXCEPT ![side][c] = [t EXCEPT !.read = t.read + 1]]
    BY DEF ReadBytes
  <2> HIDE DEF c, t
  <2> QED BY <1>1, <2>1, <2>2, SocketUpdate
<1>4. chan' \in [Side -> Seq(Packet)]
  <2>1. Bytes(c, t.read + 1) \in Body
    BY <1>1, <1>2 DEF Bytes, Body
  <2>2. Transmit(side, FALSE, uid, Bytes(c, t.read + 1)) \in [Side -> Seq(Packet)]
    BY <2>1, TransmitType
  <2> QED BY <2>2 DEF TypeOK, ReadBytes
<1>5. /\ up' \in [Side -> Status]
      /\ up'["server"] = "up" => up["server"] = "up"
  BY DEF TypeOK, ReadBytes, Status, Side
<1>6. udpErr' \in BOOLEAN /\ (udpErr' => udpErr)
  BY DEF TypeOK, ReadBytes, ErrorReported
<1>7. UNCHANGED <<session, nextUid, uidOf, conns, watched, savedAddr, dups>>
  BY DEF ReadBytes
<1>8. TypeOK'
  BY <1>3, <1>4, <1>5, <1>6, <1>7 DEF TypeOK
<1>9. AllWatched' /\ ErrorAfterDeath'
  BY <1>5, <1>6, <1>7, WatchedStable DEF ErrorAfterDeath
<1> QED BY <1>8, <1>9

\* receive_bytes_from_tcp_connection with end of file, or with an error.
LEMMA ReadEofBookkeeping ==
    ASSUME Bookkeeping, NEW side \in Side, NEW uid \in Uid, ReadEof(side, uid)
    PROVE  Bookkeeping'
<1> USE DEF Bookkeeping
<1>1. tcp' \in [Side -> [Conn -> Socket]]
  BY SocketStateUpdate DEF ReadEof, SocketState
<1>2. chan' \in [Side -> Seq(Packet)]
  <2>1. Transmit(side, FALSE, uid, Empty) \in [Side -> Seq(Packet)]
    BY TransmitType
  <2> QED BY <2>1 DEF TypeOK, ReadEof
<1>3. /\ up' \in [Side -> Status]
      /\ up'["server"] = "up" => up["server"] = "up"
  BY DEF TypeOK, ReadEof, Dispatchable, Status, Side
<1>4. udpErr' \in BOOLEAN /\ (udpErr' => udpErr)
  BY DEF TypeOK, ReadEof, ErrorReported
<1>5. conns' = [conns EXCEPT ![side][uid] = NoConn] /\ watched' = [watched EXCEPT ![side] = @ \ {uid}]
  BY DEF ReadEof
<1>6. conns' \in [Side -> [Uid -> Conn \cup {NoConn}]]
  <2>1. conns \in [Side -> [Uid -> Conn \cup {NoConn}]]
    BY DEF TypeOK
  <2> QED BY <1>5, <2>1
<1>7. watched' \in [Side -> SUBSET Uid]
  <2>1. watched \in [Side -> SUBSET Uid]
    BY DEF TypeOK
  <2> QED BY <1>5, <2>1
<1>8. TypeOK'
  BY <1>1, <1>2, <1>3, <1>4, <1>6, <1>7 DEF TypeOK, ReadEof
<1>9. AllWatched'
  <2>1. \A s \in Side : Known(s)' = Known(s) \ (IF s = side THEN {uid} ELSE {})
    BY <1>5 DEF TypeOK, Known
  <2>2. \A s \in Side : watched'[s] = watched[s] \ (IF s = side THEN {uid} ELSE {})
    BY <1>5 DEF TypeOK
  <2> QED BY <1>3, <2>1, <2>2 DEF AllWatched, Side
<1>10. ErrorAfterDeath'
  BY <1>3, <1>4 DEF ErrorAfterDeath
<1> QED BY <1>8, <1>9, <1>10

\* A packet that can be delivered is one of those on their way.
LEMMA DeliverableIndex ==
    ASSUME NEW side \in Side, NEW i \in Deliverable(side)
    PROVE  i \in DOMAIN chan[side]
  BY DEF Deliverable

\* receive_packet_from_splitter_server: a packet that is ignored.
LEMMA ClientIgnoresBookkeeping ==
    ASSUME Bookkeeping, ClientIgnores
    PROVE  Bookkeeping'
<1> USE DEF Bookkeeping
<1> PICK i \in Deliverable("client") : ClientIgnores!(i)
  BY DEF ClientIgnores
<1>1. chan' \in [Side -> Seq(Packet)]
  BY ConsumedType, DeliverableIndex DEF ClientReads, Side
<1>2. /\ up' \in [Side -> Status]
      /\ up'["server"] = "up" => up["server"] = "up"
  BY DEF TypeOK, Status, Side
<1>3. TypeOK'
  BY <1>1, <1>2 DEF TypeOK, ClientReads
<1>4. AllWatched' /\ ErrorAfterDeath'
  BY <1>2, WatchedStable DEF ErrorAfterDeath, ClientReads
<1> QED BY <1>3, <1>4

\* receive_packet_from_splitter_server: end of file.
LEMMA ClientClosesBookkeeping ==
    ASSUME Bookkeeping, ClientCloses
    PROVE  Bookkeeping'
<1> USE DEF Bookkeeping
<1> PICK i \in Deliverable("client") : ClientCloses!(i)
  BY DEF ClientCloses
<1> DEFINE p == chan["client"][i]
<1>1. chan' \in [Side -> Seq(Packet)] /\ p.uid \in Uid
  BY ConsumedType, DeliverableIndex, PacketType DEF ClientReads, Side, Packet
<1>2. close_connection("client", p.uid) /\ "client" \in Side
  BY DEF Side
<1> HIDE DEF p
<1>3. TypeOK'
  BY <1>1, <1>2, CloseType DEF TypeOK, ClientReads
<1>4. AllWatched' /\ ErrorAfterDeath'
  BY <1>1, <1>2, CloseWatched DEF ErrorAfterDeath, ClientReads
<1> QED BY <1>3, <1>4

\* receive_packet_from_splitter_server: data.
LEMMA ClientForwardsBookkeeping ==
    ASSUME Bookkeeping, ClientForwards
    PROVE  Bookkeeping'
<1> USE DEF Bookkeeping
<1> PICK i \in Deliverable("client") : ClientForwards!(i)
  BY DEF ClientForwards
<1> DEFINE p == chan["client"][i]
           c == conns["client"][p.uid]
<1>1. chan' \in [Side -> Seq(Packet)] /\ p.body \in Body
  BY ConsumedType, DeliverableIndex, PacketType DEF ClientReads, Side, Packet
<1>2. WriteAll("client", c, p.body) /\ "client" \in Side
  BY DEF Side
<1>3. up'["server"] = "up" => up["server"] = "up"
  BY DEF TypeOK, WriteAll, Side
<1> HIDE DEF p, c
<1>4. tcp' \in [Side -> [Conn -> Socket]] /\ up' \in [Side -> Status]
  BY <1>1, <1>2, WriteType
<1>5. TypeOK'
  BY <1>1, <1>4 DEF TypeOK, ClientReads
<1>6. AllWatched' /\ ErrorAfterDeath'
  BY <1>3, WatchedStable DEF ErrorAfterDeath, ClientReads
<1> QED BY <1>5, <1>6

\* A datagram taken by the server: the reply address and the channel.
LEMMA ServerReadsType ==
    ASSUME TypeOK, NEW i \in Deliverable("server"), ServerReads(i)
    PROVE  /\ savedAddr' \in Session \cup {NoAddr}
           /\ Consumed("server", i) \in [Side -> Seq(Packet)]
           /\ chan["server"][i] \in Packet
           /\ UNCHANGED <<session, nextUid, uidOf, udpErr, dups>>
<1>1. "server" \in Side /\ i \in DOMAIN chan["server"]
  BY DeliverableIndex DEF Side
<1>2. chan["server"][i] \in Packet
  BY <1>1, PacketType
<1> QED BY <1>1, <1>2, ConsumedType DEF ServerReads, Packet

\* Handlers of the server that leave its map alone: dropping, refusing, asserting.
LEMMA ServerStableBookkeeping ==
    ASSUME Bookkeeping, ServerDrops \/ ServerRefused \/ ServerAsserts
    PROVE  Bookkeeping'
<1> USE DEF Bookkeeping
<1>1. PICK i \in Deliverable("server") :
        /\ ServerReads(i)
        /\ \/ chan' = Consumed("server", i)
           \/ chan' = [Consumed("server", i) EXCEPT !["client"] = Append(@,
                    [addr |-> chan["server"][i].addr, new |-> FALSE,
                     uid |-> chan["server"][i].uid, body |-> Empty])]
        /\ \/ up' = up
           \/ up' = [up EXCEPT !["server"] = "threw"]
           \/ up' = [up EXCEPT !["server"] = "assert"]
        /\ UNCHANGED <<conns, watched, tcp>>
  BY DEF ServerDrops, ServerRefused, ServerAsserts
<1>2. chan' \in [Side -> Seq(Packet)]
  <2> DEFINE f == Consumed("server", i)
             back == [addr |-> chan["server"][i].addr, new |-> FALSE,
                      uid |-> chan["server"][i].uid, body |-> Empty]
  <2>1. f \in [Side -> Seq(Packet)] /\ back \in Packet
    BY <1>1, ServerReadsType DEF Packet
  <2>2. chan' = f \/ chan' = [f EXCEPT !["client"] = Append(@, back)]
    BY <1>1
  <2> HIDE DEF f, back
  <2> QED BY <2>1, <2>2 DEF Side
<1>3. /\ up' \in [Side -> Status]
      /\ up'["server"] = "up" => up["server"] = "up"
  BY <1>1 DEF TypeOK, Status, Side
<1>4. TypeOK'
  BY <1>1, <1>2, <1>3, ServerReadsType DEF TypeOK
<1>5. AllWatched' /\ ErrorAfterDeath'
  BY <1>1, <1>3, WatchedStable, ServerReadsType DEF ErrorAfterDeath
<1> QED BY <1>4, <1>5

\* establish_new_tcp_connection, when the destination accepts.
LEMMA ServerConnectsBookkeeping ==
    ASSUME Bookkeeping, PacketInv, ServerConnects
    PROVE  Bookkeeping'
<1> USE DEF Bookkeeping
<1> PICK i \in Deliverable("server") : ServerConnects!(i)
  BY DEF ServerConnects
<1> DEFINE p == chan["server"][i]
<1>1. p.uid \in Uid /\ p.body.c \in Conn /\ chan' \in [Side -> Seq(Packet)] /\ "server" \in Side
  <2>1. "server" \in Side /\ i \in DOMAIN chan["server"]
    BY DeliverableIndex DEF Side
  <2>2. p.body \in Body
    BY <2>1 DEF PacketInv
  <2> QED BY <2>1, <2>2, ServerReadsType DEF Packet, Body
<1>2. tcp' \in [Side -> [Conn -> Socket]]
  <2>1. NewSocket("open") \in Socket
    BY ConstantsAssumption DEF NewSocket, Socket, SocketState
  <2> QED BY <1>1, <2>1, SocketUpdate DEF TypeOK
<1>3. conns' \in [Side -> [Uid -> Conn \cup {NoConn}]]
  <2>1. conns \in [Side -> [Uid -> Conn \cup {NoConn}]]
    BY DEF TypeOK
  <2> DEFINE u == p.uid
             d == p.body.c
  <2>2. conns' = [conns EXCEPT !["server"][u] = d] /\ u \in Uid /\ d \in Conn
    BY <1>1
  <2> HIDE DEF u, d
  <2>3. [conns["server"] EXCEPT ![u] = d] \in [Uid -> Conn \cup {NoConn}]
    BY <1>1, <2>1, <2>2
  <2> QED BY <1>1, <2>1, <2>2, <2>3
<1>4. watched' \in [Side -> SUBSET Uid]
  <2>1. watched \in [Side -> SUBSET Uid]
    BY DEF TypeOK
  <2> QED BY <1>1, <2>1
<1>5. TypeOK'
  BY <1>1, <1>2, <1>3, <1>4, ServerReadsType DEF TypeOK
<1>6. AllWatched'
  <2>1. Known("server")' = Known("server") \cup {p.uid} /\ Known("client")' = Known("client")
    BY <1>1 DEF TypeOK, Known, Conn, NoConn, Side
  <2>2. watched'["server"] = watched["server"] \cup {p.uid} /\ watched'["client"] = watched["client"]
    BY <1>1 DEF TypeOK, Side
  <2> QED BY <2>1, <2>2 DEF AllWatched
<1>7. ErrorAfterDeath'
  BY ServerReadsType DEF ErrorAfterDeath
<1> QED BY <1>5, <1>6, <1>7

\* The server takes an end of file.
LEMMA ServerClosesBookkeeping ==
    ASSUME Bookkeeping, ServerCloses
    PROVE  Bookkeeping'
<1> USE DEF Bookkeeping
<1> PICK i \in Deliverable("server") : ServerCloses!(i)
  BY DEF ServerCloses
<1> DEFINE p == chan["server"][i]
<1>1. chan' \in [Side -> Seq(Packet)] /\ p.uid \in Uid
  BY ServerReadsType DEF Packet
<1>2. close_connection("server", p.uid) /\ "server" \in Side
  BY DEF Side
<1> HIDE DEF p
<1>3. TypeOK'
  BY <1>1, <1>2, CloseType, ServerReadsType DEF TypeOK
<1>4. AllWatched' /\ ErrorAfterDeath'
  BY <1>1, <1>2, CloseWatched, ServerReadsType DEF ErrorAfterDeath
<1> QED BY <1>3, <1>4

\* The server takes data.
LEMMA ServerForwardsBookkeeping ==
    ASSUME Bookkeeping, ServerForwards
    PROVE  Bookkeeping'
<1> USE DEF Bookkeeping
<1> PICK i \in Deliverable("server") : ServerForwards!(i)
  BY DEF ServerForwards
<1> DEFINE p == chan["server"][i]
           c == conns["server"][p.uid]
<1>1. chan' \in [Side -> Seq(Packet)] /\ p.body \in Body
  BY ServerReadsType DEF Packet
<1>2. WriteAll("server", c, p.body) /\ "server" \in Side
  BY DEF Side
<1>3. up'["server"] = "up" => up["server"] = "up"
  BY DEF ServerReads
<1> HIDE DEF p, c
<1>4. tcp' \in [Side -> [Conn -> Socket]] /\ up' \in [Side -> Status]
  BY <1>1, <1>2, WriteType
<1>5. TypeOK'
  BY <1>1, <1>4, ServerReadsType DEF TypeOK
<1>6. AllWatched' /\ ErrorAfterDeath'
  BY <1>3, WatchedStable, ServerReadsType DEF ErrorAfterDeath
<1> QED BY <1>5, <1>6

\* What a TCP peer does changes only its socket.
LEMMA PeerBookkeeping ==
    ASSUME Bookkeeping, NEW side \in Side, NEW c \in Conn,
           PeerWrites(side, c) \/ PeerShutsDown(side, c) \/ PeerCloses(side, c) \/ PeerResets(side, c)
    PROVE  Bookkeeping'
<1> USE DEF Bookkeeping
<1>1. tcp' \in [Side -> [Conn -> Socket]]
  <2>1. CASE PeerWrites(side, c)
    <3>1. tcp \in [Side -> [Conn -> Socket]] /\ tcp[side][c] \in Socket
      BY DEF TypeOK
    <3>2. tcp[side][c].wrote + 1 \in 0 .. MaxChunks
      BY <2>1, <3>1, ConstantsAssumption DEF PeerWrites, Socket
    <3>3. [tcp[side][c] EXCEPT !.wrote = tcp[side][c].wrote + 1] \in Socket
      BY <3>1, <3>2 DEF Socket
    <3>4. tcp' = [tcp EXCEPT ![side][c] = [tcp[side][c] EXCEPT !.wrote = tcp[side][c].wrote + 1]]
      BY <2>1 DEF PeerWrites
    <3> QED BY <3>1, <3>3, <3>4, SocketUpdate
  <2>2. CASE PeerShutsDown(side, c) \/ PeerCloses(side, c) \/ PeerResets(side, c)
    <3>1. PICK st \in SocketState : tcp' = [tcp EXCEPT ![side][c].st = st]
      BY <2>2 DEF PeerShutsDown, PeerCloses, PeerResets, PeerStep, SocketState
    <3> QED BY <3>1, SocketStateUpdate
  <2> QED BY <2>1, <2>2
<1>2. UNCHANGED <<session, up, nextUid, uidOf, conns, watched, chan, udpErr, savedAddr, dups>>
  BY DEF PeerWrites, PeerShutsDown, PeerCloses, PeerResets, PeerStep
<1>3. TypeOK'
  BY <1>1, <1>2 DEF TypeOK
<1>4. AllWatched' /\ ErrorAfterDeath'
  BY <1>2, WatchedStable DEF ErrorAfterDeath
<1> QED BY <1>3, <1>4

\* The network changes only what is on its way and the pending error.
LEMMA NetworkBookkeeping ==
    ASSUME Bookkeeping, NetworkStep
    PROVE  Bookkeeping'
<1> USE DEF Bookkeeping
<1>1. /\ UNCHANGED <<session, up, nextUid, uidOf, conns, watched, tcp, savedAddr>>
      /\ udpErr' = udpErr \/ (udpErr' = TRUE /\ up["server"] # "up")
      /\ dups' = dups \/ (dups < MaxDups /\ dups' = dups + 1)
  BY DEF NetworkStep, ServerUnreachable, ClientUnreachable, Lose, Duplicate
<1>2. chan' \in [Side -> Seq(Packet)]
  <2>1. CASE ServerUnreachable \/ ClientUnreachable \/ \E side \in Side : Lose(side)
    <3>1. PICK side \in Side : \E i \in DOMAIN chan[side] : chan' = Consumed(side, i)
      BY <2>1, DeliverableIndex DEF ServerUnreachable, ClientUnreachable, Lose, Side
    <3> QED BY <3>1, ConsumedType
  <2>2. CASE \E side \in Side : Duplicate(side)
    <3>1. PICK side \in Side : \E i \in DOMAIN chan[side] :
            chan' = [chan EXCEPT ![side] = Append(chan[side], chan[side][i])]
      BY <2>2 DEF Duplicate
    <3>2. PICK i \in DOMAIN chan[side] :
            chan' = [chan EXCEPT ![side] = Append(chan[side], chan[side][i])]
      BY <3>1
    <3>3. chan[side] \in Seq(Packet) /\ chan[side][i] \in Packet
      BY PacketType
    <3>4. Append(chan[side], chan[side][i]) \in Seq(Packet)
      BY <3>3
    <3> QED BY <3>2, <3>4 DEF TypeOK
  <2> QED BY <2>1, <2>2 DEF NetworkStep
<1>3. dups' \in 0 .. MaxDups
  BY <1>1, ConstantsAssumption DEF TypeOK
<1>4. udpErr' \in BOOLEAN
  BY <1>1 DEF TypeOK
<1>5. TypeOK'
  BY <1>1, <1>2, <1>3, <1>4 DEF TypeOK
<1>6. AllWatched' /\ ErrorAfterDeath'
  BY <1>1, WatchedStable DEF ErrorAfterDeath
<1> QED BY <1>5, <1>6

\* A restarted koho-client has an empty map and no Epoller actions.
LEMMA RestartBookkeeping ==
    ASSUME Bookkeeping, ClientRestarts
    PROVE  Bookkeeping'
<1> USE DEF Bookkeeping
<1> DEFINE old == tcp["client"]
           new == [c \in Conn |-> IF old[c].st = "none" THEN old[c] ELSE [old[c] EXCEPT !.st = "closed"]]
<1>1. tcp' \in [Side -> [Conn -> Socket]]
  <2>1. tcp \in [Side -> [Conn -> Socket]] /\ "client" \in Side
    BY DEF TypeOK, Side
  <2>2. old \in [Conn -> Socket]
    BY <2>1
  <2>3. \A c \in Conn : [old[c] EXCEPT !.st = "closed"] \in Socket
    BY <2>2 DEF Socket, SocketState
  <2>4. new \in [Conn -> Socket]
    BY <2>2, <2>3
  <2>5. tcp' = [tcp EXCEPT !["client"] = new]
    BY DEF ClientRestarts
  <2> HIDE DEF new
  <2> QED BY <2>1, <2>4, <2>5
<1>2. session' \in Session /\ nextUid' \in 1 .. MaxUid + 1
  BY ConstantsAssumption DEF TypeOK, ClientRestarts, Session
<1>3. /\ up' \in [Side -> Status]
      /\ up'["server"] = up["server"]
  BY DEF TypeOK, ClientRestarts, Status, Side
<1>4. /\ conns' = [conns EXCEPT !["client"] = [u \in Uid |-> NoConn]]
      /\ watched' = [watched EXCEPT !["client"] = {}]
      /\ UNCHANGED <<uidOf, chan, savedAddr, dups>>
      /\ udpErr' = FALSE
  BY DEF ClientRestarts
<1>5. conns' \in [Side -> [Uid -> Conn \cup {NoConn}]] /\ watched' \in [Side -> SUBSET Uid]
  BY <1>4 DEF TypeOK
<1>6. TypeOK'
  BY <1>1, <1>2, <1>3, <1>4, <1>5 DEF TypeOK
<1>7. AllWatched'
  <2>1. Known("server")' = Known("server") /\ watched'["server"] = watched["server"]
    BY <1>4 DEF TypeOK, Known, Side
  <2>2. Known("client")' = {} /\ watched'["client"] = {}
    BY <1>4 DEF TypeOK, Known, Side
  <2> QED BY <1>3, <2>1, <2>2 DEF AllWatched
<1>8. ErrorAfterDeath'
  BY <1>4 DEF ErrorAfterDeath
<1> QED BY <1>6, <1>7, <1>8

-----------------------------------------------------------------------------
(* What one step can do to the packets, the maps and the streams.          *)

\* The packets left after one is taken were there before.
LEMMA ConsumedFrom ==
    ASSUME TypeOK, NEW side \in Side, NEW i \in DOMAIN chan[side],
           NEW s \in Side, NEW j \in DOMAIN Consumed(side, i)[s]
    PROVE  \E k \in DOMAIN chan[s] : Consumed(side, i)[s][j] = chan[s][k]
<1>1. CASE s # side
  BY <1>1 DEF TypeOK, Consumed
<1>2. CASE s = side
  <2> DEFINE r == RemoveAt(chan[side], i)
  <2>1. Consumed(side, i)[s] = r
    BY <1>2 DEF TypeOK, Consumed
  <2>2. chan[side] \in Seq(Packet) /\ i \in 1 .. Len(chan[side])
    BY PacketType
  <2>3. /\ r \in Seq(Packet) /\ Len(r) = Len(chan[side]) - 1
        /\ \A m \in 1 .. Len(chan[side]) - 1 :
            r[m] = IF m < i THEN chan[side][m] ELSE chan[side][m + 1]
    BY <2>2, RemoveAtElements
  <2>4. j \in 1 .. Len(chan[side]) - 1
    BY <2>1, <2>3
  <2>5. Consumed(side, i)[s][j] = IF j < i THEN chan[side][j] ELSE chan[side][j + 1]
    BY <2>1, <2>3, <2>4
  <2> QED BY <1>2, <2>2, <2>4, <2>5
<1> QED BY <1>1, <1>2

\* Where a packet on its way to side s after a step comes from: it was on its way
\* before; or it reports an end of file; or it announces the connection that was
\* just given nextUid; or it carries bytes of the connection its sender holds
\* under its uid.
PacketOrigin(s, p) ==
    \/ \E k \in DOMAIN chan[s] : p = chan[s][k]
    \/ ~p.new /\ p.body = Empty
    \/ /\ s = "server" /\ p.uid = nextUid
       /\ \E c \in Conn : p.body = Destination(c) /\ uidOf' = [uidOf EXCEPT ![c] = nextUid]
    \/ /\ ~p.new /\ p.uid \in Uid /\ conns[Other(s)][p.uid] \in Conn
       /\ \E k \in 0 .. MaxChunks : p.body = Bytes(conns[Other(s)][p.uid], k)

\* The steps that send or duplicate nothing.
LEMMA ConsumingOrigin ==
    ASSUME Bookkeeping, NEW side \in Side, NEW i \in DOMAIN chan[side],
           chan' = Consumed(side, i)
    PROVE  \A s \in Side : \A j \in DOMAIN chan'[s] : PacketOrigin(s, chan'[s][j])
  BY ConsumedFrom DEF Bookkeeping, PacketOrigin

\* The steps that send packet p to side r.
LEMMA SendingOrigin ==
    ASSUME Bookkeeping, NEW r \in Side, NEW p, PacketOrigin(r, p),
           chan' = [chan EXCEPT ![r] = Append(@, p)]
    PROVE  \A s \in Side : \A j \in DOMAIN chan'[s] : PacketOrigin(s, chan'[s][j])
<1>1. chan \in [Side -> Seq(Packet)]
  BY DEF Bookkeeping, TypeOK
<1> TAKE s \in Side
<1> TAKE j \in DOMAIN chan'[s]
<1>2. (j \in DOMAIN chan[s] /\ chan'[s][j] = chan[s][j]) \/ (s = r /\ chan'[s][j] = p)
  <2>1. CASE s # r
    BY <1>1, <2>1
  <2>2. CASE s = r
    <3>1. chan[s] \in Seq(Packet) /\ chan'[s] = Append(chan[s], p)
      BY <1>1, <2>2
    <3>2. j \in 1 .. Len(chan[s]) + 1
      BY <3>1
    <3> QED BY <2>2, <3>1, <3>2
  <2> QED BY <2>1, <2>2
<1> QED BY <1>2 DEF PacketOrigin

\* The announcement of a connection carries its own uid.
LEMMA AcceptOrigin ==
    ASSUME Bookkeeping, AcceptConnection
    PROVE  \A s \in Side : \A j \in DOMAIN chan'[s] : PacketOrigin(s, chan'[s][j])
<1> PICK c \in Conn : AcceptConnection!(c)
  BY DEF AcceptConnection
<1> DEFINE p == [addr |-> session, new |-> TRUE, uid |-> nextUid, body |-> Destination(c)]
<1>1. chan' = chan \/ chan' = [chan EXCEPT !["server"] = Append(@, p)]
  BY DEF Transmit, Other
<1>2. p.uid = nextUid /\ p.body = Destination(c)
  OBVIOUS
<1>3. PacketOrigin("server", p)
  <2> HIDE DEF p
  <2> QED BY <1>2 DEF PacketOrigin
<1>4. CASE chan' = chan
  BY <1>4 DEF PacketOrigin
<1>5. CASE chan' = [chan EXCEPT !["server"] = Append(@, p)]
  <2> HIDE DEF p
  <2> QED BY <1>3, <1>5, SendingOrigin DEF Side
<1> QED BY <1>1, <1>4, <1>5

\* Data packets carry the uid under which their side keeps the connection.
LEMMA ReadBytesOrigin ==
    ASSUME Bookkeeping, NEW side \in Side, NEW uid \in Uid, ReadBytes(side, uid)
    PROVE  \A s \in Side : \A j \in DOMAIN chan'[s] : PacketOrigin(s, chan'[s][j])
<1> DEFINE c == conns[side][uid]
           k == tcp[side][c].read + 1
           addr == IF side = "client" THEN session ELSE savedAddr
           p == [addr |-> addr, new |-> FALSE, uid |-> uid, body |-> Bytes(c, k)]
<1>1. c \in Conn /\ tcp[side][c] \in Socket
  BY DEF Bookkeeping, ReadBytes, Dispatchable, AllWatched, Known, TypeOK, Side
<1>2. k \in 0 .. MaxChunks
  <2>1. tcp[side][c].read \in 0 .. MaxChunks /\ tcp[side][c].wrote \in 0 .. MaxChunks
    BY <1>1 DEF Socket
  <2>2. tcp[side][c].read < tcp[side][c].wrote
    BY DEF ReadBytes
  <2> HIDE DEF c
  <2> QED BY <2>1, <2>2, ConstantsAssumption
<1>3. chan' = chan \/ chan' = [chan EXCEPT ![Other(side)] = Append(@, p)]
  BY DEF ReadBytes, Transmit
<1>4. ~p.new /\ p.uid = uid /\ p.body = Bytes(c, k)
  OBVIOUS
<1>5. Other(side) \in Side /\ Other(Other(side)) = side
  BY DEF Other, Side
<1> HIDE DEF p, k
<1>6. PacketOrigin(Other(side), p)
  BY <1>1, <1>2, <1>4, <1>5 DEF PacketOrigin
<1>7. CASE chan' = chan
  BY <1>7 DEF PacketOrigin
<1> QED BY <1>3, <1>5, <1>6, <1>7, SendingOrigin

\* An end of file carries no bytes and so says nothing about a connection.
LEMMA ReadEofOrigin ==
    ASSUME Bookkeeping, NEW side \in Side, NEW uid \in Uid, ReadEof(side, uid)
    PROVE  \A s \in Side : \A j \in DOMAIN chan'[s] : PacketOrigin(s, chan'[s][j])
<1> DEFINE addr == IF side = "client" THEN session ELSE savedAddr
           p == [addr |-> addr, new |-> FALSE, uid |-> uid, body |-> Empty]
<1>1. chan' = chan \/ chan' = [chan EXCEPT ![Other(side)] = Append(@, p)]
  BY DEF ReadEof, Transmit
<1>2. ~p.new /\ p.body = Empty
  OBVIOUS
<1>3. Other(side) \in Side
  BY DEF Other, Side
<1> HIDE DEF p
<1>4. PacketOrigin(Other(side), p)
  BY <1>2 DEF PacketOrigin
<1>5. CASE chan' = chan
  BY <1>5 DEF PacketOrigin
<1> QED BY <1>1, <1>3, <1>4, <1>5, SendingOrigin

\* A refusal carries no bytes.
LEMMA ServerRefusedOrigin ==
    ASSUME Bookkeeping, ServerRefused
    PROVE  \A s \in Side : \A j \in DOMAIN chan'[s] : PacketOrigin(s, chan'[s][j])
<1> PICK i \in Deliverable("server") : ServerRefused!(i)
  BY DEF ServerRefused
<1>1. "server" \in Side /\ "client" \in Side /\ i \in DOMAIN chan["server"]
  BY DeliverableIndex DEF Side
<1>2. CASE chan' = Consumed("server", i)
  BY <1>1, <1>2, ConsumingOrigin
<1>3. CASE chan' # Consumed("server", i)
  <2> DEFINE back == [addr |-> chan["server"][i].addr, new |-> FALSE,
                      uid |-> chan["server"][i].uid, body |-> Empty]
             f == Consumed("server", i)
  <2>1. chan' = [f EXCEPT !["client"] = Append(f["client"], back)]
    BY <1>3
  <2>2. f \in [Side -> Seq(Packet)]
    BY <1>1, ConsumedType DEF Bookkeeping
  <2>3. \A s \in Side : \A j \in DOMAIN f[s] : \E k \in DOMAIN chan[s] : f[s][j] = chan[s][k]
    BY <1>1, ConsumedFrom DEF Bookkeeping
  <2>4. back.new = FALSE /\ back.body = Empty
    OBVIOUS
  <2> HIDE DEF f, back
  <2> TAKE s \in Side
  <2> TAKE j \in DOMAIN chan'[s]
  <2>5. (j \in DOMAIN f[s] /\ chan'[s][j] = f[s][j]) \/ chan'[s][j] = back
    BY <1>1, <2>1, <2>2
  <2> QED BY <2>3, <2>4, <2>5 DEF PacketOrigin
<1> QED BY <1>2, <1>3

\* A duplicate is a packet that was already on its way.
LEMMA DuplicateOrigin ==
    ASSUME Bookkeeping, NEW side \in Side, Duplicate(side)
    PROVE  \A s \in Side : \A j \in DOMAIN chan'[s] : PacketOrigin(s, chan'[s][j])
<1> PICK i \in DOMAIN chan[side] : chan' = [chan EXCEPT ![side] = Append(@, @[i])]
  BY DEF Duplicate
<1>1. chan \in [Side -> Seq(Packet)]
  BY DEF Bookkeeping, TypeOK
<1> TAKE s \in Side
<1> TAKE j \in DOMAIN chan'[s]
<1>2. \E k \in DOMAIN chan[s] : chan'[s][j] = chan[s][k]
  BY <1>1
<1> QED BY <1>2 DEF PacketOrigin

\* Every step keeps the agreement of the packets with the accepted connections.
LEMMA PacketsOrigin ==
    ASSUME Bookkeeping, Next
    PROVE  \A s \in Side : \A j \in DOMAIN chan'[s] : PacketOrigin(s, chan'[s][j])
<1>1. CASE \E side \in Side : \E i \in DOMAIN chan[side] : chan' = Consumed(side, i)
  BY <1>1, ConsumingOrigin
<1>2. CASE chan' = chan
  BY <1>2 DEF PacketOrigin
<1>3. CASE ClientStep
  BY <1>1, <1>2, <1>3, AcceptOrigin, DeliverableIndex
     DEF ClientStep, AcceptFails, ClientReadThrows, ClientIgnores, ClientCloses,
         ClientForwards, ClientReads, Side
<1>4. CASE ServerStep
  BY <1>1, <1>4, ServerRefusedOrigin, DeliverableIndex
     DEF ServerStep, ServerDrops, ServerConnects, ServerAsserts, ServerCloses, ServerForwards, Side
<1>5. CASE NetworkStep
  BY <1>1, <1>5, DuplicateOrigin, DeliverableIndex
     DEF NetworkStep, ServerUnreachable, ClientUnreachable, Lose, Side
<1>6. CASE \E side \in Side : SocketStep(side)
  BY <1>2, <1>6, ReadBytesOrigin, ReadEofOrigin DEF SocketStep, ReadFails
<1>7. CASE ClientRestarts \/ \E side \in Side : PeerAction(side)
  BY <1>2, <1>7 DEF ClientRestarts, PeerAction, PeerWrites, PeerShutsDown, PeerCloses,
                    PeerResets, PeerStep
<1> QED BY <1>3, <1>4, <1>5, <1>6, <1>7 DEF Next

\* Only accepting a connection and starting the client change next_connection_uid_,
\* and only accepting gives a connection its uid.
LEMMA UidsUnchanged ==
    ASSUME Next, ~AcceptConnection, ~AcceptFails, ~ClientRestarts
    PROVE  uidOf' = uidOf /\ nextUid' = nextUid
<1>1. CASE ClientStep
  BY <1>1 DEF ClientStep, ClientReadThrows, ClientIgnores, ClientCloses, ClientForwards, ClientReads
<1>2. CASE ServerStep
  <2>1. CASE ServerDrops \/ ServerConnects \/ ServerAsserts
    BY <2>1 DEF ServerDrops, ServerConnects, ServerAsserts, ServerReads
  <2>2. CASE ServerRefused
    BY <2>2 DEF ServerRefused, ServerReads
  <2>3. CASE ServerCloses \/ ServerForwards
    BY <2>3 DEF ServerCloses, ServerForwards, ServerReads
  <2> QED BY <1>2, <2>1, <2>2, <2>3 DEF ServerStep
<1>3. CASE NetworkStep
  BY <1>3 DEF NetworkStep, ServerUnreachable, ClientUnreachable, Lose, Duplicate
<1>4. CASE \E side \in Side : SocketStep(side)
  <2>1. PICK side \in Side, uid \in Uid :
          ReadBytes(side, uid) \/ ReadEof(side, uid) \/ ReadFails(side, uid)
    BY <1>4 DEF SocketStep
  <2>2. CASE ReadBytes(side, uid)
    BY <2>2 DEF ReadBytes
  <2>3. CASE ReadEof(side, uid)
    BY <2>3 DEF ReadEof
  <2>4. CASE ReadFails(side, uid)
    BY <2>4 DEF ReadFails
  <2> QED BY <2>1, <2>2, <2>3, <2>4
<1>5. CASE \E side \in Side : PeerAction(side)
  BY <1>5 DEF PeerAction, PeerWrites, PeerShutsDown, PeerCloses, PeerResets, PeerStep
<1> QED BY <1>1, <1>2, <1>3, <1>4, <1>5 DEF Next

\* A connection keeps the uid it was given.
LEMMA UidsKept ==
    ASSUME Bookkeeping, Next, NEW d \in Conn, uidOf[d] # 0
    PROVE  uidOf'[d] = uidOf[d]
<1>1. CASE AcceptConnection
  <2>1. PICK c \in Conn : NextToArrive(c) /\ uidOf' = [uidOf EXCEPT ![c] = nextUid]
    BY <1>1 DEF AcceptConnection
  <2>2. uidOf \in [Conn -> Uid \cup {0}] /\ c # d
    BY <2>1 DEF Bookkeeping, TypeOK, NextToArrive
  <2> QED BY <2>1, <2>2
<1>2. CASE AcceptFails \/ ClientRestarts
  BY <1>2 DEF AcceptFails, ClientRestarts
<1> QED BY <1>1, <1>2, UidsUnchanged

\* Where an entry of a connections_ map comes from: it was there, or it was just
\* accepted, or just announced.
EntryOrigin(s, u) ==
    \/ conns'[s][u] = conns[s][u]
    \/ conns'[s][u] = NoConn
    \/ /\ s = "client" /\ u = nextUid /\ conns'[s][u] \in Conn
       /\ uidOf' = [uidOf EXCEPT ![conns'[s][u]] = nextUid]
    \/ /\ s = "server"
       /\ \E i \in DOMAIN chan[s] : /\ chan[s][i].new /\ chan[s][i].uid = u
                                   /\ conns'[s][u] = chan[s][i].body.c

\* Every step keeps the agreement of the maps with the accepted connections.
LEMMA EntriesOrigin ==
    ASSUME Bookkeeping, Next, NEW s \in Side, NEW u \in Uid
    PROVE  EntryOrigin(s, u)
<1>1. conns \in [Side -> [Uid -> Conn \cup {NoConn}]] /\ nextUid \in Nat
  BY DEF Bookkeeping, TypeOK
<1>2. CASE AcceptConnection
  <2>1. PICK c \in Conn : /\ nextUid <= MaxUid
                           /\ conns' = [conns EXCEPT !["client"][nextUid] = c]
                           /\ uidOf' = [uidOf EXCEPT ![c] = nextUid]
    BY <1>2 DEF AcceptConnection
  <2>2. CASE s = "client" /\ u = nextUid
    BY <1>1, <2>1, <2>2 DEF EntryOrigin
  <2>3. CASE ~(s = "client" /\ u = nextUid)
    BY <1>1, <2>1, <2>3 DEF EntryOrigin
  <2> QED BY <2>2, <2>3
<1>3. CASE ServerConnects
  <2>1. PICK i \in DOMAIN chan["server"] :
            /\ chan["server"][i].new
            /\ conns' = [conns EXCEPT !["server"][chan["server"][i].uid] = chan["server"][i].body.c]
    BY <1>3, DeliverableIndex DEF ServerConnects, Side
  <2>2. CASE s = "server" /\ u = chan["server"][i].uid
    BY <1>1, <2>1, <2>2 DEF EntryOrigin
  <2>3. CASE ~(s = "server" /\ u = chan["server"][i].uid)
    BY <1>1, <2>1, <2>3 DEF EntryOrigin
  <2> QED BY <2>2, <2>3
<1>4. CASE ClientRestarts
  BY <1>1, <1>4 DEF EntryOrigin, ClientRestarts
<1>5. CASE \E side, uid : conns' = [conns EXCEPT ![side][uid] = NoConn]
  BY <1>1, <1>5 DEF EntryOrigin
<1>6. CASE conns' = conns
  BY <1>6 DEF EntryOrigin
<1>7. CASE ClientStep \/ ServerStep
  <2>1. CASE AcceptFails \/ ClientReadThrows \/ ClientIgnores \/ ClientForwards
    BY <1>6, <2>1 DEF AcceptFails, ClientReadThrows, ClientIgnores, ClientForwards
  <2>2. CASE ClientCloses \/ ServerCloses
    BY <1>5, <1>6, <2>2 DEF ClientCloses, ServerCloses, close_connection
  <2>3. CASE ServerDrops \/ ServerRefused \/ ServerAsserts \/ ServerForwards
    BY <1>6, <2>3 DEF ServerDrops, ServerRefused, ServerAsserts, ServerForwards
  <2> QED BY <1>2, <1>3, <1>7, <2>1, <2>2, <2>3 DEF ClientStep, ServerStep
<1>8. CASE NetworkStep
  BY <1>6, <1>8 DEF NetworkStep, ServerUnreachable, ClientUnreachable, Lose, Duplicate
<1>9. CASE \E side \in Side : SocketStep(side)
  <2>1. PICK side \in Side, uid \in Uid :
          ReadBytes(side, uid) \/ ReadEof(side, uid) \/ ReadFails(side, uid)
    BY <1>9 DEF SocketStep
  <2>2. CASE ReadBytes(side, uid) \/ ReadFails(side, uid)
    BY <1>6, <2>2 DEF ReadBytes, ReadFails
  <2>3. CASE ReadEof(side, uid)
    BY <1>5, <2>3 DEF ReadEof
  <2> QED BY <2>1, <2>2, <2>3
<1>10. CASE \E side \in Side : PeerAction(side)
  BY <1>6, <1>10 DEF PeerAction, PeerWrites, PeerShutsDown, PeerCloses, PeerResets, PeerStep
<1> QED BY <1>4, <1>7, <1>8, <1>9, <1>10 DEF Next

-----------------------------------------------------------------------------
(* The inductive invariant of every instance, and what follows from it.    *)

Inv == Bookkeeping /\ TableInv /\ PacketInv

\* Every step keeps types and watching.
LEMMA BookkeepingStep ==
    ASSUME Inv, Next
    PROVE  Bookkeeping'
<1> USE DEF Inv
<1>1. CASE ClientStep
  <2>1. CASE AcceptFails
    BY <2>1, WatchedStable, ConstantsAssumption
       DEF AcceptFails, Bookkeeping, TypeOK, ErrorAfterDeath
  <2>2. CASE ClientReadThrows
    <3>1. up' \in [Side -> Status] /\ (up'["server"] = "up" => up["server"] = "up")
      BY <2>2 DEF ClientReadThrows, Bookkeeping, TypeOK, Status, Side
    <3>2. UNCHANGED <<session, nextUid, uidOf, conns, watched, tcp, chan, savedAddr, dups>> /\ udpErr' = FALSE
      BY <2>2 DEF ClientReadThrows
    <3> QED BY <3>1, <3>2, WatchedStable DEF Bookkeeping, TypeOK, ErrorAfterDeath
  <2> QED BY <1>1, <2>1, <2>2, AcceptBookkeeping, ClientIgnoresBookkeeping,
             ClientClosesBookkeeping, ClientForwardsBookkeeping DEF ClientStep
<1>2. CASE ServerStep
  BY <1>2, ServerStableBookkeeping, ServerConnectsBookkeeping, ServerClosesBookkeeping,
     ServerForwardsBookkeeping DEF ServerStep
<1>3. CASE NetworkStep
  BY <1>3, NetworkBookkeeping
<1>4. CASE ClientRestarts
  BY <1>4, RestartBookkeeping
<1>5. CASE \E side \in Side : SocketStep(side)
  <2>1. PICK side \in Side, uid \in Uid : ReadBytes(side, uid) \/ ReadEof(side, uid) \/ ReadFails(side, uid)
    BY <1>5 DEF SocketStep
  <2>2. CASE ReadFails(side, uid)
    <3>1. up' \in [Side -> Status] /\ (up'["server"] = "up" => up["server"] = "up")
      BY <2>2 DEF ReadFails, Bookkeeping, TypeOK, Status, Side
    <3>2. UNCHANGED <<session, nextUid, uidOf, conns, watched, tcp, chan, udpErr, savedAddr, dups>>
      BY <2>2 DEF ReadFails
    <3> QED BY <3>1, <3>2, WatchedStable DEF Bookkeeping, TypeOK, ErrorAfterDeath
  <2> QED BY <2>1, <2>2, ReadBytesBookkeeping, ReadEofBookkeeping
<1>6. CASE \E side \in Side : PeerAction(side)
  BY <1>6, PeerBookkeeping DEF PeerAction
<1> QED BY <1>1, <1>2, <1>3, <1>4, <1>5, <1>6 DEF Next

\* Every step, a stuttering one included, keeps TableInv.
LEMMA TableStep ==
    ASSUME Inv, Next
    PROVE  TableInv'
<1> SUFFICES ASSUME NEW s \in Side, NEW u \in Uid, conns'[s][u] # NoConn
             PROVE  uidOf'[conns'[s][u]] = u
  BY DEF TableInv
<1>1. /\ conns \in [Side -> [Uid -> Conn \cup {NoConn}]]
      /\ uidOf \in [Conn -> Uid \cup {0}]
      /\ u # 0
  BY DEF Inv, Bookkeeping, TypeOK, Uid
<1>2. CASE conns'[s][u] = conns[s][u]
  BY <1>1, <1>2, UidsKept DEF Inv, TableInv
<1>3. CASE u = nextUid /\ conns'[s][u] \in Conn /\ uidOf' = [uidOf EXCEPT ![conns'[s][u]] = nextUid]
  BY <1>1, <1>3
<1>4. ASSUME s = "server",
             NEW i \in DOMAIN chan[s], chan[s][i].new, chan[s][i].uid = u,
             conns'[s][u] = chan[s][i].body.c
      PROVE  uidOf'[conns'[s][u]] = u
  <2>1. chan[s][i].body \in Body /\ (chan[s][i].body # Empty => uidOf[chan[s][i].body.c] = u)
    BY <1>4 DEF Inv, PacketInv
  <2>2. chan[s][i].body.c \in Conn /\ chan[s][i].body # Empty
    BY <2>1 DEF Body, Empty, Conn, NoConn
  <2> QED BY <1>1, <1>4, <2>1, <2>2, UidsKept DEF Inv
<1> QED BY <1>2, <1>3, <1>4, EntriesOrigin DEF Inv, EntryOrigin

\* Every step, a stuttering one included, keeps PacketInv.
LEMMA PacketStep ==
    ASSUME Inv, Next
    PROVE  PacketInv'
<1> SUFFICES ASSUME NEW s \in Side, NEW j \in DOMAIN chan'[s]
             PROVE  /\ chan'[s][j].new => s = "server" /\ chan'[s][j].body \in Body
                    /\ chan'[s][j].body # Empty => uidOf'[chan'[s][j].body.c] = chan'[s][j].uid
  BY DEF PacketInv
<1> DEFINE p == chan'[s][j]
<1>1. PacketOrigin(s, p)
  BY PacketsOrigin DEF Inv
<1>2. conns \in [Side -> [Uid -> Conn \cup {NoConn}]] /\ uidOf \in [Conn -> Uid \cup {0}]
  BY DEF Inv, Bookkeeping, TypeOK
<1>3. ASSUME NEW k \in DOMAIN chan[s], p = chan[s][k]
      PROVE  /\ p.new => s = "server" /\ p.body \in Body
             /\ p.body # Empty => uidOf'[p.body.c] = p.uid
  <2>1. p \in Packet
    BY <1>3, PacketType DEF Inv, Bookkeeping
  <2>2. /\ p.new => s = "server" /\ p.body \in Body
        /\ p.body # Empty => uidOf[p.body.c] = p.uid
    BY <1>3 DEF Inv, PacketInv
  <2>3. p.uid # 0 /\ (p.body # Empty => p.body.c \in Conn)
    BY <2>1 DEF Packet, Body, Uid
  <2> QED BY <2>2, <2>3, UidsKept DEF Inv
<1>4. ASSUME s = "server", p.uid = nextUid, NEW c \in Conn, p.body = Destination(c),
             uidOf' = [uidOf EXCEPT ![c] = nextUid]
      PROVE  p.body \in Body /\ uidOf'[p.body.c] = p.uid
  BY <1>2, <1>4, ConstantsAssumption DEF Destination, Body
<1>5. ASSUME ~p.new, p.uid \in Uid, conns[Other(s)][p.uid] \in Conn,
             NEW k \in 0 .. MaxChunks, p.body = Bytes(conns[Other(s)][p.uid], k)
      PROVE  uidOf'[p.body.c] = p.uid
  <2>1. Other(s) \in Side /\ p.uid # 0 /\ conns[Other(s)][p.uid] # NoConn
    BY <1>5 DEF Other, Side, Uid, Conn, NoConn
  <2>2. uidOf[conns[Other(s)][p.uid]] = p.uid
    BY <1>5, <2>1 DEF Inv, TableInv
  <2>3. p.body.c = conns[Other(s)][p.uid]
    BY <1>5 DEF Bytes
  <2> QED BY <1>5, <2>1, <2>2, <2>3, UidsKept DEF Inv
<1> HIDE DEF p
<1>6. /\ p.new => s = "server" /\ p.body \in Body
      /\ p.body # Empty => uidOf'[p.body.c] = p.uid
  BY <1>1, <1>3, <1>4, <1>5 DEF PacketOrigin
<1> QED BY <1>6 DEF p

\* The invariant holds in every reachable state, for all values of the constants.
THEOREM InvHolds == Spec => []Inv
<1>1. Init => Inv
  <2> SUFFICES ASSUME Init PROVE Inv
    OBVIOUS
  <2>1. TableInv /\ PacketInv
    BY DEF Init, TableInv, PacketInv
  <2> QED BY <2>1, InitBookkeeping DEF Inv
<1>2. Inv /\ [Next]_vars => Inv'
  <2> SUFFICES ASSUME Inv, [Next]_vars PROVE Inv'
    OBVIOUS
  <2>1. CASE Next
    BY <2>1, BookkeepingStep, TableStep, PacketStep DEF Inv
  <2>2. CASE UNCHANGED vars
    BY <2>2 DEF vars, Inv, Bookkeeping, TypeOK, AllWatched, Known, ErrorAfterDeath, TableInv, PacketInv
  <2> QED BY <2>1, <2>2
<1> QED BY <1>1, <1>2, PTL DEF Spec

\* Every variable always has its type: no handler of either splitter builds a packet,
\* a map entry or a stream out of anything but what the protocol is made of.
THEOREM TypeCorrect == Spec => []TypeOK
<1>1. Inv => TypeOK
  BY DEF Inv, Bookkeeping
<1> QED BY <1>1, InvHolds, PTL

\* In every instance, with any network and any number of client sessions, the
\* Epoller actions and the connections_ maps match.
THEOREM WatchedConnections == Spec => []AllWatched
<1>1. Inv => AllWatched
  BY DEF Inv, Bookkeeping
<1> QED BY <1>1, InvHolds, PTL

-----------------------------------------------------------------------------
(* What one step can do to a socket.                                       *)

\* Updating one field of one socket leaves the other fields and sockets alone.
LEMMA FieldUpdate ==
    ASSUME TypeOK, NEW side \in Side, NEW d, NEW st,
           NEW s \in Side, NEW c \in Conn
    PROVE  /\ [tcp EXCEPT ![side][d].st = st][s][c].got = tcp[s][c].got
           /\ [tcp EXCEPT ![side][d].st = st][s][c].st =
                IF s = side /\ c = d THEN st ELSE tcp[s][c].st
           /\ [tcp EXCEPT ![side][d].read = st][s][c].got = tcp[s][c].got
           /\ [tcp EXCEPT ![side][d].read = st][s][c].st = tcp[s][c].st
           /\ [tcp EXCEPT ![side][d].wrote = st][s][c].got = tcp[s][c].got
           /\ [tcp EXCEPT ![side][d].wrote = st][s][c].st = tcp[s][c].st
           /\ [tcp EXCEPT ![side][d].got = st][s][c].got =
                IF s = side /\ c = d THEN st ELSE tcp[s][c].got
           /\ [tcp EXCEPT ![side][d].got = st][s][c].st = tcp[s][c].st
<1>1. tcp \in [Side -> [Conn -> Socket]] /\ tcp[s][c] \in Socket
  BY DEF TypeOK
<1>2. ASSUME NEW t
      PROVE  [tcp EXCEPT ![side][d] = t][s][c] = IF s = side /\ c = d THEN t ELSE tcp[s][c]
  BY <1>1
<1> QED BY <1>1, <1>2 DEF Socket

\* The socket of every connection in the server's map has been connected.
MappedConnected ==
    \A u \in Uid : conns["server"][u] # NoConn => tcp["server"][conns["server"][u]].st # "none"

\* A living side takes packet i, which is data for connection d.
DataFor(side, i, d) ==
    LET p == chan[side][i]
    IN  /\ up[side] = "up" /\ i \in Deliverable(side)
        /\ ~p.new /\ p.body # Empty /\ p.uid \in Uid /\ conns[side][p.uid] = d

\* The ways in which a step changes a socket: its peer writes or it is read; its
\* state changes, never from "closed", and not from "none" on the server's side;
\* data is written to it; or a new connection takes its place.
CountChange == \E v : \E side \in Side, d \in Conn :
    tcp' = [tcp EXCEPT ![side][d].read = v] \/ tcp' = [tcp EXCEPT ![side][d].wrote = v]
StateChange == \E side \in Side, d \in Conn, v \in SocketState \ {"none"} :
    /\ tcp' = [tcp EXCEPT ![side][d].st = v]
    /\ side = "server" => tcp[side][d].st # "none"
    /\ tcp[side][d].st = "closed" => v = "closed"
DataChange == \E side \in Side, d \in Conn : \E i \in DOMAIN chan[side] :
    DataFor(side, i, d) /\ tcp' = [tcp EXCEPT ![side][d].got = Append(tcp[side][d].got, chan[side][i].body)]
NewClientSocket == \E d \in Conn : tcp' = [tcp EXCEPT !["client"][d] = NewSocket("open")]
SocketChange == tcp' = tcp \/ CountChange \/ StateChange \/ DataChange \/ NewClientSocket

\* close_connection changes at most the state of one socket.
LEMMA CloseChange ==
    ASSUME Inv, MappedConnected, NEW side \in Side, NEW uid \in Known(side),
           close_connection(side, uid)
    PROVE  SocketChange
<1> DEFINE d == conns[side][uid]
<1>1. d \in Conn /\ uid \in Uid /\ d # NoConn
  BY DEF Known, Inv, Bookkeeping, TypeOK
<1>2. CASE uid \in watched[side]
  <2>1. tcp' = [tcp EXCEPT ![side][d].st = "closed"]
    BY <1>2 DEF close_connection
  <2>2. side = "server" => tcp[side][d].st # "none"
    BY <1>1 DEF MappedConnected
  <2> HIDE DEF d
  <2>3. "closed" \in SocketState \ {"none"}
    BY DEF SocketState
  <2> QED BY <1>1, <2>1, <2>2, <2>3 DEF SocketChange, StateChange
<1>3. CASE uid \notin watched[side]
  BY <1>3 DEF close_connection, SocketChange
<1> QED BY <1>2, <1>3

\* Writing a body changes at most one socket, by that body or its state.
LEMMA WriteChange ==
    ASSUME Inv, NEW side \in Side, NEW i \in DOMAIN chan[side], i \in Deliverable(side), up[side] = "up",
           chan[side][i].uid \in Known(side), ~chan[side][i].new, chan[side][i].body # Empty,
           WriteAll(side, conns[side][chan[side][i].uid], chan[side][i].body)
    PROVE  SocketChange
<1> DEFINE p == chan[side][i]
           d == conns[side][p.uid]
<1>1. d \in Conn /\ p.uid \in Uid
  BY DEF Known, Inv, Bookkeeping, TypeOK
<1>2. CASE tcp' = [tcp EXCEPT ![side][d].got = Append(@, p.body)]
  BY <1>1, <1>2 DEF SocketChange, DataChange, DataFor
<1>3. CASE tcp[side][d].st = "gone" /\ \E st \in {"gone", "broken"} : tcp' = [tcp EXCEPT ![side][d].st = st]
  <2>1. PICK st \in {"gone", "broken"} : tcp' = [tcp EXCEPT ![side][d].st = st]
    BY <1>3
  <2>2. st \in SocketState \ {"none"} /\ tcp[side][d].st \notin {"none", "closed"}
    BY <1>3 DEF SocketState
  <2> HIDE DEF d
  <2> QED BY <1>1, <2>1, <2>2 DEF SocketChange, StateChange
<1>4. CASE tcp' = tcp
  BY <1>4 DEF SocketChange
<1> QED BY <1>2, <1>3, <1>4 DEF WriteAll

\* Every step changes the sockets in one of these ways, except that the server
\* connects and that a client restarts.
LEMMA SocketsChange ==
    ASSUME Inv, MappedConnected, Next, ~ServerConnects, ~ClientRestarts
    PROVE  SocketChange
<1>1. CASE tcp' = tcp
  BY <1>1 DEF SocketChange
<1>2. CASE ClientStep
  <2>1. CASE AcceptConnection
    BY <2>1 DEF AcceptConnection, SocketChange, NewClientSocket
  <2>2. CASE ClientCloses
    BY <2>2, CloseChange DEF ClientCloses, Side
  <2>3. CASE ClientForwards
    BY <2>3, WriteChange, DeliverableIndex DEF ClientForwards, ClientReads, Side
  <2> QED BY <1>1, <1>2, <2>1, <2>2, <2>3 DEF ClientStep, AcceptFails, ClientReadThrows, ClientIgnores
<1>3. CASE ServerStep
  <2>1. CASE ServerCloses
    BY <2>1, CloseChange DEF ServerCloses, Side
  <2>2. CASE ServerForwards
    BY <2>2, WriteChange, DeliverableIndex DEF ServerForwards, ServerReads, Side
  <2> QED BY <1>1, <1>3, <2>1, <2>2 DEF ServerStep, ServerDrops, ServerRefused, ServerAsserts
<1>4. CASE NetworkStep
  BY <1>1, <1>4 DEF NetworkStep, ServerUnreachable, ClientUnreachable, Lose, Duplicate
<1>5. CASE \E side \in Side : SocketStep(side)
  <2>1. PICK side \in Side, uid \in Uid : ReadBytes(side, uid) \/ ReadEof(side, uid) \/ ReadFails(side, uid)
    BY <1>5 DEF SocketStep
  <2> DEFINE d == conns[side][uid]
  <2>2. CASE ReadFails(side, uid)
    BY <1>1, <2>2 DEF ReadFails
  <2>3. ASSUME ReadBytes(side, uid) \/ ReadEof(side, uid)
        PROVE  d \in Conn
    <3>1. uid \in watched[side]
      BY <2>3 DEF ReadBytes, ReadEof, Dispatchable
    <3>2. watched[side] \subseteq Known(side)
      BY DEF Inv, Bookkeeping, AllWatched, Side
    <3> QED BY <3>1, <3>2 DEF Known, Inv, Bookkeeping, TypeOK
  <2>4. CASE ReadBytes(side, uid)
    <3>1. tcp' = [tcp EXCEPT ![side][d].read = tcp[side][d].read + 1]
      BY <2>4 DEF ReadBytes
    <3> HIDE DEF d
    <3> QED BY <2>3, <2>4, <3>1 DEF SocketChange, CountChange
  <2>5. CASE ReadEof(side, uid)
    <3>1. tcp' = [tcp EXCEPT ![side][d].st = "closed"] /\ tcp[side][d].st # "none"
      BY <2>5 DEF ReadEof
    <3> HIDE DEF d
    <3> QED BY <2>3, <2>5, <3>1 DEF SocketChange, StateChange, SocketState
  <2> QED BY <2>1, <2>2, <2>4, <2>5
<1>6. CASE \E side \in Side : PeerAction(side)
  <2>1. PICK side \in Side, d \in Conn : PeerWrites(side, d) \/ PeerShutsDown(side, d)
                                        \/ PeerCloses(side, d) \/ PeerResets(side, d)
    BY <1>6 DEF PeerAction
  <2>2. CASE PeerWrites(side, d)
    BY <2>2 DEF PeerWrites, SocketChange, CountChange
  <2>3. CASE PeerShutsDown(side, d) \/ PeerCloses(side, d) \/ PeerResets(side, d)
    <3>1. PICK v \in {"fin", "gone", "reset", "broken"} :
            tcp' = [tcp EXCEPT ![side][d].st = v] /\ tcp[side][d].st \notin {"none", "closed"}
      BY <2>3 DEF PeerShutsDown, PeerCloses, PeerResets, PeerStep
    <3> QED BY <3>1 DEF SocketChange, StateChange, SocketState
  <2> QED BY <2>1, <2>2, <2>3
<1> QED BY <1>2, <1>3, <1>4, <1>5, <1>6 DEF Next

-----------------------------------------------------------------------------
(* Isolation.                                                              *)

\* Within a session, no two connections are given the same uid.
UidsDistinct ==
    /\ \A c \in Conn : uidOf[c] < nextUid
    /\ \A c, d \in Conn : uidOf[c] = uidOf[d] /\ uidOf[c] # 0 => c = d

\* As long as koho-client is not started again, uids are only handed out once.
LEMMA UidsDistinctStep ==
    ASSUME Inv, UidsDistinct, Next, ~ClientRestarts
    PROVE  UidsDistinct'
<1>1. uidOf \in [Conn -> Uid \cup {0}] /\ nextUid \in Nat
  BY DEF Inv, Bookkeeping, TypeOK
<1>3. CASE AcceptConnection
  <2>1. PICK c \in Conn : uidOf' = [uidOf EXCEPT ![c] = nextUid] /\ nextUid' = nextUid + 1
    BY <1>3 DEF AcceptConnection
  <2>2. \A d \in Conn : uidOf[d] \in Nat /\ uidOf[d] < nextUid
    BY <1>1 DEF UidsDistinct, Uid
  <2> QED BY <1>1, <2>1, <2>2 DEF UidsDistinct
<1>4. CASE AcceptFails
  <2>1. uidOf' = uidOf /\ nextUid' = nextUid + 1
    BY <1>4 DEF AcceptFails
  <2>2. \A d \in Conn : uidOf[d] \in Nat
    BY <1>1 DEF Uid
  <2> QED BY <1>1, <2>1, <2>2 DEF UidsDistinct
<1>5. CASE ~AcceptConnection /\ ~AcceptFails
  <2>1. uidOf' = uidOf /\ nextUid' = nextUid
    BY <1>5, UidsUnchanged
  <2> QED BY <2>1 DEF UidsDistinct
<1> QED BY <1>3, <1>4, <1>5

\* What a connection has received after a step is what it had before, nothing, or
\* one more body, taken from a packet with its uid.
LEMMA StreamsOrigin ==
    ASSUME Inv, MappedConnected, Next, NEW s \in Side, NEW c \in Conn
    PROVE  \/ tcp'[s][c].got = tcp[s][c].got
           \/ tcp'[s][c].got = <<>>
           \/ \E i \in DOMAIN chan[s] :
                DataFor(s, i, c) /\ tcp'[s][c].got = Append(tcp[s][c].got, chan[s][i].body)
<1>1. TypeOK /\ tcp \in [Side -> [Conn -> Socket]]
  BY DEF Inv, Bookkeeping, TypeOK
<1>2. ASSUME NEW side \in Side, NEW d, tcp' = [tcp EXCEPT ![side][d] = NewSocket("open")]
      PROVE  tcp'[s][c].got = tcp[s][c].got \/ tcp'[s][c].got = <<>>
  BY <1>1, <1>2 DEF NewSocket
<1>3. CASE ServerConnects
  BY <1>2, <1>3 DEF ServerConnects, Side
<1>4. CASE ClientRestarts
  <2>1. tcp'[s][c] = tcp[s][c] \/ tcp'[s][c] = [tcp[s][c] EXCEPT !.st = "closed"]
    BY <1>1, <1>4 DEF ClientRestarts, Side
  <2>2. tcp[s][c] \in Socket
    BY <1>1
  <2> QED BY <2>1, <2>2 DEF Socket
<1>5. CASE CountChange \/ StateChange
  <2>0. PICK v : \E side \in Side, d \in Conn :
            \/ tcp' = [tcp EXCEPT ![side][d].read = v]
            \/ tcp' = [tcp EXCEPT ![side][d].wrote = v]
            \/ tcp' = [tcp EXCEPT ![side][d].st = v]
    BY <1>5 DEF CountChange, StateChange
  <2>1. PICK side \in Side, d \in Conn :
            \/ tcp' = [tcp EXCEPT ![side][d].read = v]
            \/ tcp' = [tcp EXCEPT ![side][d].wrote = v]
            \/ tcp' = [tcp EXCEPT ![side][d].st = v]
    BY <2>0
  <2>2. CASE tcp' = [tcp EXCEPT ![side][d].read = v]
    BY <1>1, <2>2, FieldUpdate
  <2>3. CASE tcp' = [tcp EXCEPT ![side][d].wrote = v]
    BY <1>1, <2>3, FieldUpdate
  <2>4. CASE tcp' = [tcp EXCEPT ![side][d].st = v]
    BY <1>1, <2>4, FieldUpdate
  <2> QED BY <2>1, <2>2, <2>3, <2>4
<1>6. CASE DataChange
  <2>1. PICK side \in Side, d \in Conn : \E i \in DOMAIN chan[side] :
          DataFor(side, i, d) /\ tcp' = [tcp EXCEPT ![side][d].got = Append(tcp[side][d].got, chan[side][i].body)]
    BY <1>6 DEF DataChange
  <2>2. PICK i \in DOMAIN chan[side] :
          DataFor(side, i, d) /\ tcp' = [tcp EXCEPT ![side][d].got = Append(tcp[side][d].got, chan[side][i].body)]
    BY <2>1
  <2>3. tcp'[s][c].got = IF s = side /\ c = d THEN Append(tcp[side][d].got, chan[side][i].body) ELSE tcp[s][c].got
    BY <1>1, <2>2, FieldUpdate
  <2> QED BY <2>2, <2>3
<1>7. CASE NewClientSocket
  BY <1>2, <1>7 DEF NewClientSocket, Side
<1>8. CASE tcp' = tcp
  BY <1>8
<1> QED BY <1>3, <1>4, <1>5, <1>6, <1>7, <1>8, SocketsChange DEF SocketChange

\* A destination's socket leaves the state "none" only when the server connects on
\* an announcement, and never returns to it; and so for leaving "closed".
LEMMA StateOrigin ==
    ASSUME Inv, MappedConnected, Next, NEW c \in Conn
    PROVE  /\ tcp["server"][c].st # "none" => tcp'["server"][c].st # "none"
           /\ tcp["server"][c].st \in {"none", "closed"} =>
                \/ tcp'["server"][c].st = tcp["server"][c].st
                \/ \E i \in DOMAIN chan["server"] :
                    /\ chan["server"][i].new /\ chan["server"][i].body.c = c
                    /\ chan' = Consumed("server", i)
<1>1. /\ TypeOK /\ "server" \in Side /\ "client" \in Side
      /\ tcp \in [Side -> [Conn -> Socket]] /\ "server" # "client"
  BY DEF Inv, Bookkeeping, TypeOK, Side
<1>2. CASE ServerConnects
  <2>1. PICK i \in DOMAIN chan["server"] :
            /\ chan["server"][i].new
            /\ chan' = Consumed("server", i)
            /\ tcp' = [tcp EXCEPT !["server"][chan["server"][i].body.c] = NewSocket("open")]
    BY <1>1, <1>2, DeliverableIndex DEF ServerConnects
  <2>2. tcp'["server"][c] = IF c = chan["server"][i].body.c THEN NewSocket("open") ELSE tcp["server"][c]
    BY <1>1, <2>1
  <2> QED BY <2>1, <2>2 DEF NewSocket
<1>3. CASE tcp'["server"] = tcp["server"]
  BY <1>3
<1>4. CASE ClientRestarts
  BY <1>1, <1>3, <1>4 DEF ClientRestarts
<1>5. CASE CountChange
  <2>0. PICK v : \E side \in Side, d \in Conn :
            \/ tcp' = [tcp EXCEPT ![side][d].read = v]
            \/ tcp' = [tcp EXCEPT ![side][d].wrote = v]
    BY <1>5 DEF CountChange
  <2>1. PICK side \in Side, d \in Conn :
            \/ tcp' = [tcp EXCEPT ![side][d].read = v]
            \/ tcp' = [tcp EXCEPT ![side][d].wrote = v]
    BY <2>0
  <2>2. CASE tcp' = [tcp EXCEPT ![side][d].read = v]
    BY <1>1, <2>2, FieldUpdate
  <2>3. CASE tcp' = [tcp EXCEPT ![side][d].wrote = v]
    BY <1>1, <2>3, FieldUpdate
  <2> QED BY <2>1, <2>2, <2>3
<1>6. CASE StateChange
  <2>1. PICK side \in Side, d \in Conn, v \in SocketState \ {"none"} :
            /\ tcp' = [tcp EXCEPT ![side][d].st = v]
            /\ side = "server" => tcp[side][d].st # "none"
            /\ tcp[side][d].st = "closed" => v = "closed"
    BY <1>6 DEF StateChange
  <2>2. tcp'["server"][c].st = IF "server" = side /\ c = d THEN v ELSE tcp["server"][c].st
    BY <1>1, <2>1, FieldUpdate
  <2> QED BY <2>1, <2>2
<1>7. CASE DataChange
  <2>1. PICK side \in Side, d \in Conn : \E i \in DOMAIN chan[side] :
          tcp' = [tcp EXCEPT ![side][d].got = Append(tcp[side][d].got, chan[side][i].body)]
    BY <1>7 DEF DataChange
  <2>2. tcp'["server"][c].st = tcp["server"][c].st
    <3>1. PICK i \in DOMAIN chan[side] :
            tcp' = [tcp EXCEPT ![side][d].got = Append(tcp[side][d].got, chan[side][i].body)]
      BY <2>1
    <3> QED BY <1>1, <3>1, FieldUpdate
  <2> QED BY <2>2
<1>8. CASE NewClientSocket
  BY <1>1, <1>3, <1>8 DEF NewClientSocket
<1>9. CASE tcp' = tcp
  BY <1>3, <1>9
<1> QED BY <1>2, <1>4, <1>5, <1>6, <1>7, <1>8, <1>9, SocketsChange DEF SocketChange

\* The server keeps only connected sockets in its map.
LEMMA MappedConnectedStep ==
    ASSUME Inv, MappedConnected, Next
    PROVE  MappedConnected'
<1> SUFFICES ASSUME NEW u \in Uid, conns'["server"][u] # NoConn
             PROVE  tcp'["server"][conns'["server"][u]].st # "none"
  BY DEF MappedConnected
<1>1. /\ conns \in [Side -> [Uid -> Conn \cup {NoConn}]] /\ "server" \in Side
      /\ tcp \in [Side -> [Conn -> Socket]] /\ "server" # "client"
  BY DEF Inv, Bookkeeping, TypeOK, Side
<1>2. CASE conns'["server"][u] = conns["server"][u]
  BY <1>1, <1>2, StateOrigin DEF MappedConnected
<1>3. CASE ServerConnects
  <2>1. PICK i \in Deliverable("server") : ServerConnects!(i)
    BY <1>3 DEF ServerConnects
  <2> DEFINE v == chan["server"][i].uid
             d == chan["server"][i].body.c
  <2>2. /\ conns' = [conns EXCEPT !["server"][v] = d]
        /\ tcp' = [tcp EXCEPT !["server"][d] = NewSocket("open")]
    BY <2>1
  <2>3. d \in Conn
    <3>1. i \in DOMAIN chan["server"] /\ chan["server"][i].new
      BY <1>1, <2>1, DeliverableIndex
    <3>2. chan["server"][i].body \in Body
      BY <1>1, <3>1 DEF Inv, PacketInv
    <3> QED BY <3>2 DEF Body
  <2> HIDE DEF v, d
  <2>4. CASE u = v
    <3>1. conns'["server"][u] = d /\ tcp'["server"][d] = NewSocket("open")
      BY <1>1, <2>2, <2>3, <2>4
    <3> QED BY <3>1 DEF NewSocket
  <2>5. CASE u # v
    <3>1. conns'["server"][u] = conns["server"][u]
      BY <1>1, <2>2, <2>5
    <3> QED BY <1>2, <3>1
  <2> QED BY <2>4, <2>5
<1>4. CASE ~ServerConnects
  <2> DEFINE Goal == conns'["server"][u] = conns["server"][u] \/ conns'["server"][u] = NoConn
  <2>1. ASSUME conns' = conns PROVE Goal
    BY <2>1
  <2>2. ASSUME conns'["server"] = conns["server"] PROVE Goal
    BY <2>2
  <2>3. ASSUME \E side, uid : conns' = [conns EXCEPT ![side][uid] = NoConn] PROVE Goal
    BY <1>1, <2>3
  <2>4. ASSUME AcceptConnection \/ ClientRestarts PROVE Goal
    BY <1>1, <2>2, <2>4 DEF AcceptConnection, ClientRestarts
  <2>5. ASSUME ClientStep \/ ServerStep PROVE Goal
    <3> HIDE DEF Goal
    <3>1. CASE AcceptFails \/ ClientReadThrows \/ ClientIgnores \/ ClientForwards
      BY <2>1, <3>1 DEF AcceptFails, ClientReadThrows, ClientIgnores, ClientForwards
    <3>2. CASE ClientCloses \/ ServerCloses
      BY <2>1, <2>3, <3>2 DEF ClientCloses, ServerCloses, close_connection
    <3>3. CASE ServerDrops \/ ServerRefused \/ ServerAsserts \/ ServerForwards
      BY <2>1, <3>3 DEF ServerDrops, ServerRefused, ServerAsserts, ServerForwards
    <3> QED BY <1>4, <2>4, <2>5, <3>1, <3>2, <3>3 DEF ClientStep, ServerStep
  <2>6. ASSUME NetworkStep PROVE Goal
    BY <2>1, <2>6 DEF NetworkStep, ServerUnreachable, ClientUnreachable, Lose, Duplicate
  <2>7. ASSUME \E side \in Side : SocketStep(side) PROVE Goal
    <3> HIDE DEF Goal
    <3>1. PICK side \in Side, uid \in Uid :
            ReadBytes(side, uid) \/ ReadEof(side, uid) \/ ReadFails(side, uid)
      BY <2>7 DEF SocketStep
    <3>2. CASE ReadBytes(side, uid) \/ ReadFails(side, uid)
      BY <2>1, <3>2 DEF ReadBytes, ReadFails
    <3>3. CASE ReadEof(side, uid)
      BY <2>3, <3>3 DEF ReadEof
    <3> QED BY <3>1, <3>2, <3>3
  <2>8. ASSUME \E side \in Side : PeerAction(side) PROVE Goal
    BY <2>1, <2>8 DEF PeerAction, PeerWrites, PeerShutsDown, PeerCloses, PeerResets, PeerStep
  <2>9. Goal
    BY <2>4, <2>5, <2>6, <2>7, <2>8 DEF Next
  <2> QED BY <1>2, <2>9
<1> QED BY <1>3, <1>4

\* No step writes bytes of one connection to another.
LEMMA IsolationStep ==
    ASSUME Inv, MappedConnected, UidsDistinct, NoCrossTalk, Next
    PROVE  NoCrossTalk'
<1> SUFFICES ASSUME NEW s \in Side, NEW c \in Conn, NEW m \in DOMAIN tcp'[s][c].got
             PROVE  tcp'[s][c].got[m].c = c
  BY DEF NoCrossTalk, Isolated
<1>1. \A j \in DOMAIN tcp[s][c].got : tcp[s][c].got[j].c = c
  BY DEF NoCrossTalk, Isolated
<1>2. CASE tcp'[s][c].got = tcp[s][c].got \/ tcp'[s][c].got = <<>>
  BY <1>1, <1>2
<1>3. CASE \E i \in DOMAIN chan[s] :
            DataFor(s, i, c) /\ tcp'[s][c].got = Append(tcp[s][c].got, chan[s][i].body)
  <2>1. PICK i \in DOMAIN chan[s] :
            DataFor(s, i, c) /\ tcp'[s][c].got = Append(tcp[s][c].got, chan[s][i].body)
    BY <1>3
  <2> DEFINE p == chan[s][i]
  <2>2. p.body \in Body /\ p.uid \in Uid /\ conns[s][p.uid] = c
    BY <2>1, PacketType DEF DataFor, Packet, Inv, Bookkeeping
  <2>3. uidOf[p.body.c] = p.uid /\ uidOf[c] = p.uid /\ p.uid # 0 /\ p.body.c \in Conn
    BY <2>1, <2>2 DEF DataFor, Inv, PacketInv, TableInv, Body, Uid, Conn, NoConn
  <2>4. p.body.c = c
    BY <2>3 DEF UidsDistinct
  <2>5. tcp[s][c].got \in Seq(Body)
    BY DEF Inv, Bookkeeping, TypeOK, Socket
  <2>6. tcp'[s][c].got = Append(tcp[s][c].got, p.body)
    BY <2>1
  <2> HIDE DEF p
  <2>7. \/ m \in DOMAIN tcp[s][c].got /\ tcp'[s][c].got[m] = tcp[s][c].got[m]
        \/ tcp'[s][c].got[m] = p.body
    BY <2>5, <2>6
  <2> QED BY <1>1, <2>4, <2>7
<1> QED BY <1>2, <1>3, StreamsOrigin

IsolationInv == Inv /\ MappedConnected /\ UidsDistinct /\ NoCrossTalk

\* The initial state satisfies the invariants.
LEMMA InitInv == Init => Inv /\ MappedConnected
<1> SUFFICES ASSUME Init PROVE Inv /\ MappedConnected
  OBVIOUS
<1>1. TableInv /\ PacketInv /\ MappedConnected
  BY DEF Init, TableInv, PacketInv, MappedConnected, Side
<1> QED BY <1>1, InitBookkeeping DEF Inv

\* Every step keeps the invariant of types, maps and packets.
LEMMA InvStep ==
    ASSUME Inv, MappedConnected, [Next]_vars
    PROVE  Inv' /\ MappedConnected'
<1>1. CASE Next
  BY <1>1, BookkeepingStep, TableStep, PacketStep, MappedConnectedStep DEF Inv
<1>2. CASE UNCHANGED vars
  BY <1>2 DEF vars, Inv, Bookkeeping, TypeOK, AllWatched, Known, ErrorAfterDeath, TableInv,
              PacketInv, MappedConnected
<1> QED BY <1>1, <1>2

\* In one session of koho-client, whatever the network loses, reorders or
\* duplicates and however the TCP peers behave, no connection is ever written
\* bytes that were read from another one: get_connection_uid never hands out a
\* uid twice, and the uid is enough to tell the packets apart.
THEOREM Isolation == ASSUME MaxSessions = 1 PROVE Spec => []NoCrossTalk
<1>1. Init => IsolationInv
  <2> SUFFICES ASSUME Init PROVE IsolationInv
    OBVIOUS
  <2>1. UidsDistinct
    BY DEF Init, UidsDistinct
  <2>2. NoCrossTalk
    BY DEF Init, NoCrossTalk, Isolated, NewSocket
  <2> QED BY <2>1, <2>2, InitInv DEF IsolationInv
<1>2. IsolationInv /\ [Next]_vars => IsolationInv'
  <2> SUFFICES ASSUME IsolationInv, [Next]_vars PROVE IsolationInv'
    OBVIOUS
  <2>1. CASE Next
    <3>1. ~ClientRestarts
      BY DEF ClientRestarts, IsolationInv, Inv, Bookkeeping, TypeOK, Session
    <3> QED BY <2>1, <3>1, InvStep, UidsDistinctStep, IsolationStep DEF IsolationInv
  <2>2. CASE UNCHANGED vars
    BY <2>2, InvStep DEF vars, IsolationInv, UidsDistinct, NoCrossTalk, Isolated
  <2> QED BY <2>1, <2>2
<1>3. IsolationInv => NoCrossTalk
  BY DEF IsolationInv
<1> QED BY <1>1, <1>2, <1>3, PTL DEF Spec

-----------------------------------------------------------------------------
(* Announcements: a destination is dialled once.                           *)

\* As long as nothing was duplicated, an accepted connection has at most one
\* announcement on its way, and none once its destination was dialled.
AnnouncedOnce ==
    dups = 0 =>
        \A i \in DOMAIN chan["server"] :
            LET p == chan["server"][i]
            IN  p.new => /\ tcp["server"][p.body.c].st = "none"
                         /\ \A j \in DOMAIN chan["server"] :
                            chan["server"][j].new /\ chan["server"][j].body.c = p.body.c => i = j

\* Only connections that were accepted are dialled.
DialledAccepted == \A c \in Conn : tcp["server"][c].st # "none" => uidOf[c] # 0

\* What a step does to the datagrams on their way to the server, unless the network
\* duplicates one: it leaves them alone, one is taken, or one is sent, which
\* announces a connection only if that was just accepted.
TakenFromServer == \E i \in DOMAIN chan["server"] : chan'["server"] = RemoveAt(chan["server"], i)
DataToServer == \E p \in Packet : ~p.new /\ chan'["server"] = Append(chan["server"], p)
AnnouncedToServer ==
    \E p \in Packet, c \in Conn :
        /\ NextToArrive(c) /\ p.new /\ p.body.c = c
        /\ chan'["server"] = Append(chan["server"], p)
        /\ tcp'["server"] = tcp["server"]

\* chan'[side] is unchanged and a packet is appended for the other side, or dropped
\* by an AutoSocket that has heard from nobody.
SentTo(side, new, uid, body, channels) ==
    /\ channels[side] = chan[side]
    /\ \/ channels[Other(side)] = chan[Other(side)] /\ side = "server" /\ savedAddr = NoAddr
       \/ \E p \in Packet : /\ p.new <=> new
                           /\ p.uid = uid /\ p.body = body
                           /\ channels[Other(side)] = Append(chan[Other(side)], p)

\* What a side sends goes to the other side.
LEMMA TransmitTo ==
    ASSUME TypeOK, NEW side \in Side, NEW new \in BOOLEAN, NEW uid \in Uid, NEW body \in Body \cup {Empty}
    PROVE  SentTo(side, new, uid, body, Transmit(side, new, uid, body))
<1> DEFINE addr == IF side = "client" THEN session ELSE savedAddr
           p == [addr |-> addr, new |-> new, uid |-> uid, body |-> body]
<1>1. chan \in [Side -> Seq(Packet)] /\ Other(side) \in Side /\ Other(side) # side
  BY DEF TypeOK, Other, Side
<1>2. CASE addr = NoAddr
  <2>1. side = "server" /\ savedAddr = NoAddr
    BY <1>2 DEF TypeOK, Session, NoAddr, Side
  <2> QED BY <1>2, <2>1 DEF Transmit, SentTo
<1>3. CASE addr # NoAddr
  <2>1. p \in Packet /\ (p.new <=> new) /\ p.uid = uid /\ p.body = body
    BY <1>3 DEF TypeOK, Packet, Session, NoAddr
  <2>2. Transmit(side, new, uid, body) = [chan EXCEPT ![Other(side)] = Append(@, p)]
    BY <1>3 DEF Transmit
  <2> HIDE DEF p
  <2>3. /\ Transmit(side, new, uid, body)[side] = chan[side]
        /\ Transmit(side, new, uid, body)[Other(side)] = Append(chan[Other(side)], p)
    BY <1>1, <2>2
  <2> QED BY <2>1, <2>3 DEF SentTo
<1> QED BY <1>2, <1>3

\* Taking a datagram takes it from one side.
LEMMA ConsumedAt ==
    ASSUME TypeOK, NEW side \in Side, NEW i
    PROVE  /\ Consumed(side, i)[side] = RemoveAt(chan[side], i)
           /\ Consumed(side, i)[Other(side)] = chan[Other(side)]
  BY DEF TypeOK, Consumed, Other, Side

\* Every step that duplicates nothing is one of these.
LEMMA ServerChannel ==
    ASSUME Inv, Next, dups' = 0
    PROVE  \/ chan'["server"] = chan["server"]
           \/ TakenFromServer \/ DataToServer \/ AnnouncedToServer
<1>0. /\ TypeOK /\ "server" \in Side /\ "client" \in Side
      /\ Other("client") = "server" /\ Other("server") = "client" /\ "client" # "server"
      /\ chan \in [Side -> Seq(Packet)]
  BY DEF Inv, Bookkeeping, TypeOK, Side, Other
<1>1. CASE \E i \in DOMAIN chan["server"] : chan' = Consumed("server", i)
  BY <1>0, <1>1, ConsumedAt DEF TakenFromServer
<1>2. CASE chan' = chan \/ \E i : chan' = Consumed("client", i)
  BY <1>0, <1>2, ConsumedAt
<1>3. CASE AcceptConnection
  <2> PICK c \in Conn : AcceptConnection!(c)
    BY <1>3 DEF AcceptConnection
  <2>1. nextUid \in Uid /\ Destination(c) \in Body /\ Destination(c).c = c
    BY <1>0, ConstantsAssumption DEF TypeOK, Uid, Destination, Body
  <2>2. CASE chan' = chan
    BY <1>2, <2>2
  <2>3. CASE chan' = Transmit("client", TRUE, nextUid, Destination(c))
    <3>1. \/ chan'["server"] = chan["server"]
          \/ \E p \in Packet : /\ p.new /\ p.uid = nextUid /\ p.body = Destination(c)
                              /\ chan'["server"] = Append(chan["server"], p)
      <4>1. SentTo("client", TRUE, nextUid, Destination(c), chan')
        BY <1>0, <2>1, <2>3, TransmitTo
      <4> QED BY <1>0, <4>1 DEF SentTo
    <3>2. tcp'["server"] = tcp["server"]
      BY <1>0 DEF TypeOK
    <3> QED BY <2>1, <3>1, <3>2 DEF AnnouncedToServer
  <2> QED BY <2>2, <2>3
<1>4. CASE ClientStep
  BY <1>2, <1>3, <1>4 DEF ClientStep, AcceptFails, ClientReadThrows, ClientIgnores, ClientCloses,
                          ClientForwards, ClientReads
<1>5. CASE ServerStep
  <2>1. CASE ServerRefused
    <3>1. PICK i \in DOMAIN chan["server"] :
            chan' = Consumed("server", i) \/ \E q : chan' = [Consumed("server", i) EXCEPT !["client"] = q]
      BY <1>0, <2>1, DeliverableIndex DEF ServerRefused
    <3>2. chan'["server"] = Consumed("server", i)["server"]
      BY <1>0, <3>1 DEF Consumed
    <3> QED BY <1>0, <3>2, ConsumedAt DEF TakenFromServer
  <2> QED BY <1>0, <1>1, <1>5, <2>1, DeliverableIndex
             DEF ServerStep, ServerDrops, ServerConnects, ServerAsserts, ServerCloses, ServerForwards
<1>6. CASE NetworkStep
  <2>1. ~Duplicate("client") /\ ~Duplicate("server")
    BY <1>0, ConstantsAssumption DEF Duplicate, TypeOK
  <2> QED BY <1>0, <1>1, <1>2, <1>6, <2>1, DeliverableIndex
             DEF NetworkStep, ServerUnreachable, ClientUnreachable, Lose, Side
<1>7. CASE \E side \in Side : SocketStep(side)
  <2>1. PICK side \in Side, uid \in Uid :
          ReadBytes(side, uid) \/ ReadEof(side, uid) \/ ReadFails(side, uid)
    BY <1>7 DEF SocketStep
  <2>2. CASE chan' = chan
    BY <1>2, <2>2
  <2>3. ASSUME NEW body \in Body \cup {Empty}, chan' = Transmit(side, FALSE, uid, body)
        PROVE  chan'["server"] = chan["server"] \/ DataToServer
    <3>1. /\ chan'[side] = chan[side]
          /\ \/ chan'[Other(side)] = chan[Other(side)]
             \/ \E p \in Packet : /\ ~p.new /\ p.uid = uid /\ p.body = body
                                 /\ chan'[Other(side)] = Append(chan[Other(side)], p)
      <4>1. SentTo(side, FALSE, uid, body, chan')
        BY <1>0, <2>3, TransmitTo
      <4> QED BY <1>0, <4>1 DEF SentTo
    <3> QED BY <1>0, <3>1 DEF Side, DataToServer
  <2>4. CASE ReadBytes(side, uid)
    <3> DEFINE c == conns[side][uid]
               k == tcp[side][c].read + 1
    <3>1. c \in Conn /\ tcp[side][c] \in Socket
      BY <2>4 DEF Inv, Bookkeeping, ReadBytes, Dispatchable, AllWatched, Known, TypeOK, Side
    <3>2. k \in 0 .. MaxChunks
      <4>1. tcp[side][c].read \in 0 .. MaxChunks /\ tcp[side][c].wrote \in 0 .. MaxChunks
        BY <3>1 DEF Socket
      <4>2. tcp[side][c].read < tcp[side][c].wrote
        BY <2>4 DEF ReadBytes
      <4> HIDE DEF c
      <4> QED BY <4>1, <4>2, ConstantsAssumption
    <3>3. chan' = chan \/ chan' = Transmit(side, FALSE, uid, Bytes(c, k))
      BY <2>4 DEF ReadBytes
    <3> HIDE DEF c, k
    <3> QED BY <2>2, <2>3, <3>1, <3>2, <3>3 DEF Bytes, Body
  <2>5. CASE ReadEof(side, uid)
    BY <2>2, <2>3, <2>5 DEF ReadEof
  <2> QED BY <2>1, <2>2, <2>4, <2>5 DEF ReadFails
<1>8. CASE ClientRestarts \/ \E side \in Side : PeerAction(side)
  BY <1>2, <1>8 DEF ClientRestarts, PeerAction, PeerWrites, PeerShutsDown, PeerCloses,
                    PeerResets, PeerStep
<1> QED BY <1>4, <1>5, <1>6, <1>7, <1>8 DEF Next

\* Every step keeps DialledAccepted: the server dials on an announcement.
LEMMA DialledAcceptedStep ==
    ASSUME Inv, MappedConnected, DialledAccepted, Next
    PROVE  DialledAccepted'
<1> SUFFICES ASSUME NEW c \in Conn, tcp'["server"][c].st # "none"
             PROVE  uidOf'[c] # 0
  BY DEF DialledAccepted
<1>1. ASSUME uidOf[c] # 0 PROVE uidOf'[c] # 0
  BY <1>1, UidsKept DEF Inv
<1>2. CASE tcp["server"][c].st # "none"
  BY <1>1, <1>2 DEF DialledAccepted
<1>3. CASE tcp["server"][c].st = "none"
  <2>1. PICK i \in DOMAIN chan["server"] : chan["server"][i].new /\ chan["server"][i].body.c = c
    BY <1>3, StateOrigin
  <2>2. "server" \in Side /\ chan["server"][i] \in Packet
    BY PacketType DEF Inv, Bookkeeping, Side
  <2>3. chan["server"][i].body \in Body /\ chan["server"][i].body # Empty
    BY <2>1, <2>2 DEF Inv, PacketInv, Body, Empty, Conn, NoConn
  <2>4. uidOf[c] = chan["server"][i].uid
    BY <2>1, <2>2, <2>3 DEF Inv, PacketInv
  <2> QED BY <1>1, <2>2, <2>4 DEF Packet, Uid
<1> QED BY <1>2, <1>3

\* A connection that was not accepted has no announcement on its way.
LEMMA NotAnnounced ==
    ASSUME Inv, NEW c \in Conn, uidOf[c] = 0, NEW i \in DOMAIN chan["server"], chan["server"][i].new
    PROVE  chan["server"][i].body.c # c
<1>1. "server" \in Side /\ chan["server"][i] \in Packet
  BY PacketType DEF Inv, Bookkeeping, Side
<1>2. chan["server"][i].body \in Body /\ chan["server"][i].body # Empty
  BY <1>1 DEF Inv, PacketInv, Body, Empty, Conn, NoConn
<1>3. uidOf[chan["server"][i].body.c] = chan["server"][i].uid
  BY <1>1, <1>2 DEF Inv, PacketInv
<1> QED BY <1>1, <1>3 DEF Packet, Uid

\* The counts of sessions and duplicates never go down.
LEMMA CountersGrow ==
    ASSUME Next
    PROVE  /\ dups' = dups \/ dups' = dups + 1
           /\ session' = session \/ (ClientRestarts /\ session' = session + 1)
<1>1. CASE ClientStep
  BY <1>1 DEF ClientStep, AcceptConnection, AcceptFails, ClientReadThrows, ClientIgnores,
              ClientCloses, ClientForwards, ClientReads
<1>2. CASE ServerStep
  <2>1. CASE ServerDrops \/ ServerConnects \/ ServerAsserts
    BY <2>1 DEF ServerDrops, ServerConnects, ServerAsserts, ServerReads
  <2>2. CASE ServerRefused
    BY <2>2 DEF ServerRefused, ServerReads
  <2>3. CASE ServerCloses \/ ServerForwards
    BY <2>3 DEF ServerCloses, ServerForwards, ServerReads
  <2> QED BY <1>2, <2>1, <2>2, <2>3 DEF ServerStep
<1>3. CASE NetworkStep
  BY <1>3 DEF NetworkStep, ServerUnreachable, ClientUnreachable, Lose, Duplicate
<1>4. CASE \E side \in Side : SocketStep(side)
  <2>1. PICK side \in Side, uid \in Uid :
          ReadBytes(side, uid) \/ ReadEof(side, uid) \/ ReadFails(side, uid)
    BY <1>4 DEF SocketStep
  <2>2. CASE ReadBytes(side, uid)
    BY <2>2 DEF ReadBytes
  <2>3. CASE ReadEof(side, uid)
    BY <2>3 DEF ReadEof
  <2>4. CASE ReadFails(side, uid)
    BY <2>4 DEF ReadFails
  <2> QED BY <2>1, <2>2, <2>3, <2>4
<1>5. CASE ClientRestarts
  BY <1>5 DEF ClientRestarts
<1>6. CASE \E side \in Side : PeerAction(side)
  BY <1>6 DEF PeerAction, PeerWrites, PeerShutsDown, PeerCloses, PeerResets, PeerStep
<1> QED BY <1>1, <1>2, <1>3, <1>4, <1>5, <1>6 DEF Next

\* Every step keeps AnnouncedOnce: a connection is announced when it is accepted, and
\* the announcement is gone when its destination is dialled.
LEMMA AnnouncedOnceStep ==
    ASSUME Inv, MappedConnected, DialledAccepted, AnnouncedOnce, Next
    PROVE  AnnouncedOnce'
<1> SUFFICES ASSUME dups' = 0 PROVE AnnouncedOnce'
  BY DEF AnnouncedOnce
<1> DEFINE old == chan["server"]
           new == chan'["server"]
<1>1. old \in Seq(Packet) /\ dups = 0 /\ "server" \in Side /\ TypeOK
  <2>1. dups \in Nat /\ (dups' = dups \/ dups' = dups + 1)
    BY CountersGrow, ConstantsAssumption DEF Inv, Bookkeeping, TypeOK
  <2> QED BY <2>1 DEF Inv, Bookkeeping, TypeOK, Side
<1>2. \A i, j \in DOMAIN old : old[i].new /\ old[j].new /\ old[i].body.c = old[j].body.c => i = j
  BY <1>1 DEF AnnouncedOnce
<1>3. \A i \in DOMAIN old : old[i].new => tcp["server"][old[i].body.c].st = "none" /\ old[i].body.c \in Conn
  BY <1>1 DEF AnnouncedOnce, Inv, PacketInv, Body
<1> HIDE DEF old, new
\* The destination of an announcement that stays on its way is not dialled by this step.
<1>4. ASSUME NEW i \in DOMAIN old, old[i].new,
             \A k \in DOMAIN old : chan' = Consumed("server", k) => k # i
      PROVE  tcp'["server"][old[i].body.c].st = "none"
  <2>1. CASE tcp'["server"][old[i].body.c].st = tcp["server"][old[i].body.c].st
    BY <1>3, <1>4, <2>1
  <2>2. CASE \E k \in DOMAIN old : /\ old[k].new /\ old[k].body.c = old[i].body.c
                                  /\ chan' = Consumed("server", k)
    BY <1>2, <1>4, <2>2
  <2> QED BY <1>3, <1>4, <2>1, <2>2, StateOrigin DEF old
<1>5. CASE new = old
  <2>1. \A k \in DOMAIN old : chan' # Consumed("server", k)
    <3> SUFFICES ASSUME NEW k \in DOMAIN old, chan' = Consumed("server", k) PROVE FALSE
      OBVIOUS
    <3>1. new = RemoveAt(old, k)
      BY <1>1, ConsumedAt DEF old, new
    <3>2. k \in 1 .. Len(old) /\ Len(old) \in Nat
      BY <1>1
    <3>3. Len(RemoveAt(old, k)) = Len(old) - 1
      BY <1>1, <3>2, RemoveAtElements
    <3>4. Len(old) = Len(old) - 1
      BY <1>5, <3>1, <3>3, Zenon
    <3> QED BY <3>2, <3>4
  <2>2. \A i \in DOMAIN old : old[i].new => tcp'["server"][old[i].body.c].st = "none"
    BY <1>4, <2>1
  <2> QED BY <1>2, <1>5, <2>2 DEF AnnouncedOnce, new
<1>6. CASE TakenFromServer
  <2>1. PICK k \in DOMAIN old : new = RemoveAt(old, k)
    BY <1>6 DEF TakenFromServer, old, new
  <2> DEFINE from(j) == IF j < k THEN j ELSE j + 1
  <2>2. /\ new \in Seq(Packet) /\ Len(new) = Len(old) - 1 /\ k \in 1 .. Len(old)
        /\ \A j \in 1 .. Len(old) - 1 : new[j] = IF j < k THEN old[j] ELSE old[j + 1]
    <3>1. k \in 1 .. Len(old)
      BY <1>1
    <3> QED BY <1>1, <2>1, <3>1, RemoveAtElements
  <2>3. \A j \in DOMAIN new : from(j) \in DOMAIN old /\ new[j] = old[from(j)] /\ from(j) # k
    BY <1>1, <2>2
  <2>4. \A i, j \in DOMAIN new : from(i) = from(j) => i = j
    BY <2>2
  <2> HIDE DEF from
  <2>5. ASSUME NEW j \in DOMAIN new, new[j].new
        PROVE  tcp'["server"][new[j].body.c].st = "none"
    <3>1. CASE chan' = Consumed("server", from(j))
      \* Two equal announcements would have been needed.
      <4>1. new = RemoveAt(old, from(j))
        BY <1>1, <3>1, ConsumedAt DEF old, new
      <4>2. \A m \in 1 .. Len(old) - 1 : new[m] = IF m < from(j) THEN old[m] ELSE old[m + 1]
        <5>1. from(j) \in 1 .. Len(old)
          BY <1>1, <2>3, <2>5
        <5> QED BY <1>1, <4>1, <5>1, RemoveAtElements
      <4>3. j \in 1 .. Len(old) - 1 /\ old[from(j)] = new[j]
        BY <2>2, <2>3, <2>5
      <4>4. \E m \in DOMAIN old : m # from(j) /\ old[m] = new[j]
        <5>1. CASE j < from(j)
          BY <1>1, <4>2, <4>3, <5>1
        <5>2. CASE ~(j < from(j))
          BY <1>1, <4>2, <4>3, <5>2, <2>2 DEF from
        <5> QED BY <5>1, <5>2
      <4> QED BY <1>2, <2>3, <2>5, <4>3, <4>4
    <3>2. CASE \A m \in DOMAIN old : chan' = Consumed("server", m) => m # from(j)
      BY <1>4, <2>3, <2>5, <3>2
    <3> QED BY <3>1, <3>2
  <2>6. \A i, j \in DOMAIN new : new[i].new /\ new[j].new /\ new[i].body.c = new[j].body.c => i = j
    BY <1>2, <2>3, <2>4
  <2> QED BY <2>5, <2>6 DEF AnnouncedOnce, new
<1>7. ASSUME NEW p \in Packet, new = Append(old, p)
      PROVE  /\ \A i \in DOMAIN old : old[i].new => tcp'["server"][old[i].body.c].st = "none"
             /\ \A j \in DOMAIN new : (j \in DOMAIN old /\ new[j] = old[j]) \/ (j = Len(old) + 1 /\ new[j] = p)
  <2>1. Len(new) = Len(old) + 1 /\ Len(old) \in Nat
    BY <1>1, <1>7
  <2>2. \A k \in DOMAIN old : chan' # Consumed("server", k)
    <3> SUFFICES ASSUME NEW k \in DOMAIN old, chan' = Consumed("server", k) PROVE FALSE
      OBVIOUS
    <3>1. new = RemoveAt(old, k)
      BY <1>1, ConsumedAt DEF old, new
    <3>2. Len(RemoveAt(old, k)) = Len(old) - 1
      BY <1>1, RemoveAtElements
    <3> QED BY <2>1, <3>1, <3>2
  <2> QED BY <1>1, <1>4, <1>7, <2>2
<1>8. CASE DataToServer
  <2>1. PICK p \in Packet : ~p.new /\ new = Append(old, p)
    BY <1>8 DEF DataToServer, old, new
  <2> QED BY <1>2, <1>7, <2>1 DEF AnnouncedOnce, new
<1>9. CASE AnnouncedToServer
  <2>1. PICK p \in Packet, c \in Conn :
            /\ NextToArrive(c) /\ p.new /\ p.body.c = c
            /\ new = Append(old, p)
            /\ tcp'["server"] = tcp["server"]
    BY <1>9 DEF AnnouncedToServer, old, new
  <2>2. uidOf[c] = 0 /\ tcp'["server"][c].st = "none"
    BY <2>1 DEF NextToArrive, DialledAccepted
  <2>3. \A i \in DOMAIN old : old[i].new => old[i].body.c # c
    BY <2>2, NotAnnounced DEF old
  <2> QED BY <1>2, <1>7, <2>1, <2>2, <2>3 DEF AnnouncedOnce, new
<1> QED BY <1>5, <1>6, <1>8, <1>9, ServerChannel DEF old, new

\* What holds whatever the network does, for any number of sessions.
DialInv == Inv /\ MappedConnected /\ DialledAccepted /\ AnnouncedOnce

\* DialInv is inductive.
LEMMA DialInvStep ==
    ASSUME DialInv, [Next]_vars
    PROVE  DialInv'
<1>1. CASE Next
  BY <1>1, InvStep, DialledAcceptedStep, AnnouncedOnceStep DEF DialInv
<1>2. CASE UNCHANGED vars
  BY <1>2, InvStep DEF DialInv, vars, DialledAccepted, AnnouncedOnce
<1> QED BY <1>1, <1>2

\* DialInv holds at the start.
LEMMA InitDialInv == Init => DialInv
  BY InitInv DEF Init, DialInv, DialledAccepted, AnnouncedOnce, NewSocket, Side

\* For any network that loses and reorders but does not duplicate, and any number of
\* sessions of koho-client: the server opens at most one connection for each
\* announcement of handle_new_tcp_connection, since a closed one is never opened again.
THEOREM DialledOnce == Spec => NeverRedialled
<1> DEFINE A == dups = 0 => \A c \in Conn : tcp["server"][c].st = "closed" => tcp'["server"][c].st = "closed"
<1>1. DialInv /\ [Next]_vars => [A]_vars
  <2> SUFFICES ASSUME DialInv, Next, dups = 0, NEW c \in Conn, tcp["server"][c].st = "closed"
               PROVE  tcp'["server"][c].st = "closed"
    OBVIOUS
  <2>1. \A i \in DOMAIN chan["server"] :
            ~(chan["server"][i].new /\ chan["server"][i].body.c = c)
    BY DEF DialInv, AnnouncedOnce
  <2> QED BY <2>1, StateOrigin DEF DialInv
<1> QED BY <1>1, InitDialInv, DialInvStep, PTL DEF Spec, NeverRedialled

-----------------------------------------------------------------------------
(* The server's assertion.                                                 *)

\* Only a failed assertion puts the server into the state "assert".
LEMMA AssertOrigin ==
    ASSUME Inv, Next, ~ServerAsserts, up'["server"] = "assert"
    PROVE  up["server"] = "assert"
<1>0. up \in [Side -> Status] /\ "server" \in Side /\ "client" \in Side /\ "server" # "client"
  BY DEF Inv, Bookkeeping, TypeOK, Side
<1>1. CASE up' = up
  BY <1>1
<1>2. CASE \E st : up' = [up EXCEPT !["client"] = st]
  BY <1>0, <1>2
<1>3. CASE \E s \in Side, st \in {"up", "threw", "sigpipe"} : up' = [up EXCEPT ![s] = st]
  BY <1>0, <1>3
<1>4. ASSUME NEW s \in Side, NEW u, close_connection(s, u) PROVE up["server"] = "assert"
  BY <1>1, <1>3, <1>4 DEF close_connection
<1>5. ASSUME NEW s \in Side, NEW c, NEW b, WriteAll(s, c, b) PROVE up["server"] = "assert"
  BY <1>1, <1>3, <1>5 DEF WriteAll
<1>6. CASE ClientStep
  <2>1. CASE AcceptConnection \/ AcceptFails
    BY <1>1, <2>1 DEF AcceptConnection, AcceptFails
  <2>2. CASE ClientReadThrows \/ ClientIgnores
    BY <1>2, <2>2 DEF ClientReadThrows, ClientIgnores
  <2>3. CASE ClientCloses
    BY <1>0, <1>4, <2>3 DEF ClientCloses
  <2>4. CASE ClientForwards
    BY <1>0, <1>5, <2>4 DEF ClientForwards
  <2> QED BY <1>6, <2>1, <2>2, <2>3, <2>4 DEF ClientStep
<1>7. CASE ServerStep
  <2>1. CASE ServerDrops \/ ServerConnects
    BY <1>1, <2>1 DEF ServerDrops, ServerConnects
  <2>2. CASE ServerRefused
    BY <1>0, <1>1, <1>3, <2>2 DEF ServerRefused
  <2>3. CASE ServerCloses
    BY <1>0, <1>4, <2>3 DEF ServerCloses
  <2>4. CASE ServerForwards
    BY <1>0, <1>5, <2>4 DEF ServerForwards
  <2> QED BY <1>7, <2>1, <2>2, <2>3, <2>4 DEF ServerStep
<1>8. CASE NetworkStep
  BY <1>1, <1>8 DEF NetworkStep, ServerUnreachable, ClientUnreachable, Lose, Duplicate
<1>9. CASE \E side \in Side : SocketStep(side)
  <2>1. PICK side \in Side, uid \in Uid :
          ReadBytes(side, uid) \/ ReadEof(side, uid) \/ ReadFails(side, uid)
    BY <1>9 DEF SocketStep
  <2>2. CASE ReadBytes(side, uid)
    BY <1>1, <1>3, <2>2 DEF ReadBytes
  <2>3. CASE ReadEof(side, uid)
    BY <1>1, <1>3, <2>3 DEF ReadEof
  <2>4. CASE ReadFails(side, uid)
    BY <1>1, <1>3, <2>4 DEF ReadFails
  <2> QED BY <2>1, <2>2, <2>3, <2>4
<1>10. CASE ClientRestarts
  BY <1>2, <1>10 DEF ClientRestarts
<1>11. CASE \E side \in Side : PeerAction(side)
  BY <1>1, <1>11 DEF PeerAction, PeerWrites, PeerShutsDown, PeerCloses, PeerResets, PeerStep
<1> QED BY <1>6, <1>7, <1>8, <1>9, <1>10, <1>11 DEF Next

AssertInv == DialInv /\ (session = 1 => UidsDistinct) /\ ServerAssertHolds

\* The assertion does not fail on the announcements of one session.
LEMMA AssertionHolds ==
    ASSUME AssertInv, ServerAsserts, dups = 0, session = 1
    PROVE  FALSE
<1> USE DEF AssertInv, DialInv
<1>1. "server" \in Side
  BY DEF Side
<1>2. PICK i \in DOMAIN chan["server"] : chan["server"][i].uid \in Known("server") /\ chan["server"][i].new
  BY <1>1, DeliverableIndex DEF ServerAsserts
<1> DEFINE p == chan["server"][i]
           d == conns["server"][p.uid]
<1>3. p.body \in Body /\ p.body # Empty /\ p.body.c \in Conn
  BY <1>1, <1>2 DEF Inv, PacketInv, Body, Empty, Conn, NoConn
<1>4. uidOf[p.body.c] = p.uid /\ tcp["server"][p.body.c].st = "none"
  BY <1>1, <1>2, <1>3 DEF Inv, PacketInv, AnnouncedOnce
<1>5. p.uid \in Uid /\ d # NoConn /\ d \in Conn /\ uidOf[d] = p.uid /\ p.uid # 0
  <2>1. p.uid \in Uid /\ d # NoConn
    BY <1>2 DEF Known
  <2>2. d \in Conn \cup {NoConn}
    BY <1>1, <2>1 DEF Inv, Bookkeeping, TypeOK
  <2>3. uidOf[d] = p.uid
    BY <1>1, <2>1 DEF Inv, TableInv
  <2> QED BY <2>1, <2>2, <2>3 DEF Uid
<1>6. tcp["server"][d].st # "none"
  BY <1>5 DEF MappedConnected
<1> QED BY <1>3, <1>4, <1>5, <1>6 DEF UidsDistinct

\* For any network, any TCP peers and any failing send: the assertion in
\* receive_packet_from_splitter_client that a packet for a known uid is not an
\* announcement fails only after the network has duplicated a datagram, or after
\* koho-client was started again and counts uids from 1.
THEOREM AssertionSafe == Spec => []ServerAssertHolds
<1>1. Init => AssertInv
  <2> SUFFICES ASSUME Init PROVE AssertInv
    OBVIOUS
  <2>1. UidsDistinct
    BY DEF Init, UidsDistinct
  <2>2. ServerAssertHolds
    BY DEF Init, ServerAssertHolds, Side
  <2> QED BY <2>1, <2>2, InitDialInv DEF AssertInv
<1>2. AssertInv /\ [Next]_vars => AssertInv'
  <2> SUFFICES ASSUME AssertInv, [Next]_vars PROVE AssertInv'
    OBVIOUS
  <2>1. CASE UNCHANGED vars
    BY <2>1, DialInvStep DEF vars, AssertInv, UidsDistinct, ServerAssertHolds
  <2>2. CASE Next
    <3>0. session \in Nat /\ dups \in Nat /\ session > 0
      BY ConstantsAssumption DEF AssertInv, DialInv, Inv, Bookkeeping, TypeOK, Session
    <3>1. DialInv'
      BY DialInvStep DEF AssertInv
    <3>2. session' = 1 => UidsDistinct'
      <4> SUFFICES ASSUME session' = 1 PROVE UidsDistinct'
        OBVIOUS
      <4>1. ~ClientRestarts /\ session = 1
        <5>1. ClientRestarts => session' = session + 1
          BY DEF ClientRestarts
        <5>2. session' = session \/ session' = session + 1
          BY <2>2, CountersGrow
        <5> QED BY <3>0, <5>1, <5>2
      <4> QED BY <2>2, <4>1, UidsDistinctStep DEF AssertInv, DialInv
    <3>3. ServerAssertHolds'
      <4> SUFFICES ASSUME up'["server"] = "assert" PROVE dups' > 0 \/ session' > 1
        BY DEF ServerAssertHolds
      <4>1. dups > 0 \/ session > 1
        <5>1. CASE ServerAsserts
          BY <3>0, <5>1, AssertionHolds
        <5>2. CASE ~ServerAsserts
          BY <2>2, <5>2, AssertOrigin DEF AssertInv, DialInv, ServerAssertHolds
        <5> QED BY <5>1, <5>2
      <4> QED BY <2>2, <3>0, <4>1, CountersGrow
    <3> QED BY <3>1, <3>2, <3>3 DEF AssertInv
  <2> QED BY <2>1, <2>2
<1>3. AssertInv => ServerAssertHolds
  BY DEF AssertInv
<1> QED BY <1>1, <1>2, <1>3, PTL DEF Spec

-----------------------------------------------------------------------------
(***************************************************************************)
(* The wire.  A field has eight bytes, so the recursive functions that     *)
(* write and read it are followed byte by byte: q[i] is the number without *)
(* its last i bytes, which is what each of them computes in its i-th step. *)
(***************************************************************************)

\* q[i] is n without its last i bytes.
Shifts(n, q) ==
    /\ q \in [0 .. 8 -> Nat] /\ q[0] = n
    /\ \A i \in 1 .. 8 : q[i] = q[i - 1] \div 256

LEMMA ShiftsExist ==
    ASSUME NEW n \in Nat
    PROVE  \E q : Shifts(n, q)
<1>1. \A m \in Nat : m \div 256 \in Nat
  OBVIOUS
<1>2. PICK a \in Nat, b \in Nat, c \in Nat, d \in Nat :
        a = n \div 256 /\ b = a \div 256 /\ c = b \div 256 /\ d = c \div 256
  BY <1>1
<1>3. PICK e \in Nat, f \in Nat, g \in Nat, h \in Nat :
        e = d \div 256 /\ f = e \div 256 /\ g = f \div 256 /\ h = g \div 256
  BY <1>1
<1> DEFINE q == [i \in 0 .. 8 |-> IF i = 0 THEN n ELSE IF i = 1 THEN a ELSE IF i = 2 THEN b
                                  ELSE IF i = 3 THEN c ELSE IF i = 4 THEN d ELSE IF i = 5 THEN e
                                  ELSE IF i = 6 THEN f ELSE IF i = 7 THEN g ELSE h]
<1>4. q \in [0 .. 8 -> Nat] /\ q[0] = n
  OBVIOUS
<1>5. /\ q[1] = q[0] \div 256 /\ q[2] = q[1] \div 256 /\ q[3] = q[2] \div 256 /\ q[4] = q[3] \div 256
      /\ q[5] = q[4] \div 256 /\ q[6] = q[5] \div 256 /\ q[7] = q[6] \div 256 /\ q[8] = q[7] \div 256
  <2>1. /\ q[0] = n /\ q[1] = a /\ q[2] = b /\ q[3] = c /\ q[4] = d
        /\ q[5] = e /\ q[6] = f /\ q[7] = g /\ q[8] = h
    OBVIOUS
  <2> HIDE DEF q
  <2>2. q[1] = q[0] \div 256 /\ q[2] = q[1] \div 256
    BY <1>2, <2>1, Zenon
  <2>3. q[3] = q[2] \div 256 /\ q[4] = q[3] \div 256
    BY <1>2, <2>1, Zenon
  <2>4. q[5] = q[4] \div 256 /\ q[6] = q[5] \div 256
    BY <1>3, <2>1, Zenon
  <2>5. q[7] = q[6] \div 256 /\ q[8] = q[7] \div 256
    BY <1>3, <2>1, Zenon
  <2> QED BY <2>2, <2>3, <2>4, <2>5, Zenon
<1> HIDE DEF q
<1>6. ASSUME NEW i \in 1 .. 8 PROVE q[i] = q[i - 1] \div 256
  <2>1. i = 1 \/ i = 2 \/ i = 3 \/ i = 4 \/ i = 5 \/ i = 6 \/ i = 7 \/ i = 8
    OBVIOUS
  <2>2. CASE i = 1
    <3>1. i - 1 = 0
      BY <2>2
    <3> QED BY <1>5, <2>2, <3>1, Zenon
  <2>3. CASE i = 2
    <3>1. i - 1 = 1
      BY <2>3
    <3> QED BY <1>5, <2>3, <3>1, Zenon
  <2>4. CASE i = 3
    <3>1. i - 1 = 2
      BY <2>4
    <3> QED BY <1>5, <2>4, <3>1, Zenon
  <2>5. CASE i = 4
    <3>1. i - 1 = 3
      BY <2>5
    <3> QED BY <1>5, <2>5, <3>1, Zenon
  <2>6. CASE i = 5
    <3>1. i - 1 = 4
      BY <2>6
    <3> QED BY <1>5, <2>6, <3>1, Zenon
  <2>7. CASE i = 6
    <3>1. i - 1 = 5
      BY <2>7
    <3> QED BY <1>5, <2>7, <3>1, Zenon
  <2>8. CASE i = 7
    <3>1. i - 1 = 6
      BY <2>8
    <3> QED BY <1>5, <2>8, <3>1, Zenon
  <2>9. CASE i = 8
    <3>1. i - 1 = 7
      BY <2>9
    <3> QED BY <1>5, <2>9, <3>1, Zenon
  <2> QED BY <2>1, <2>2, <2>3, <2>4, <2>5, <2>6, <2>7, <2>8, <2>9
<1> QED BY <1>4, <1>6 DEF Shifts

LEMMA ShiftedIs ==
    ASSUME NEW n \in Nat, NEW q, Shifts(n, q), NEW k \in 0 .. 8
    PROVE  Shifted(n, k) = q[k]
<1> DEFINE P(f) == f = [i \in 0 .. k |-> IF i = 0 THEN n ELSE f[i - 1] \div ByteValues]
           f == CHOOSE f : P(f)
<1>1. Shifted(n, k) = f[k]
  BY DEF Shifted
<1>2. P(f)
  <2> DEFINE w == [i \in 0 .. k |-> q[i]]
  <2>1. \A i \in 0 .. k : w[i] = IF i = 0 THEN n ELSE w[i - 1] \div 256
    <3>1. \A i \in 0 .. k : i = 0 \/ (i \in 1 .. 8 /\ i - 1 \in 0 .. k)
      OBVIOUS
    <3>2. q[0] = n /\ \A i \in 1 .. 8 : q[i] = q[i - 1] \div 256
      BY DEF Shifts
    <3> QED BY <3>1, <3>2
  <2>2. P(w)
    <3>1. w = [i \in 0 .. k |-> w[i]]
      OBVIOUS
    <3> HIDE DEF w
    <3> QED BY <2>1, <3>1 DEF ByteValues
  <2> HIDE DEF P
  <2> QED BY <2>2
<1> HIDE DEF f
<1>3. f[0] = n /\ \A i \in 1 .. 8 : i <= k => f[i] = f[i - 1] \div 256
  BY <1>2 DEF ByteValues
<1>4. q[0] = n /\ \A i \in 1 .. 8 : q[i] = q[i - 1] \div 256
  BY DEF Shifts
<1> HIDE DEF P
<1>5. 1 <= k => f[1] = q[1]
  BY <1>3, <1>4
<1>6. 2 <= k => f[2] = q[2]
  BY <1>3, <1>4, <1>5
<1>7. 3 <= k => f[3] = q[3]
  BY <1>3, <1>4, <1>6
<1>8. 4 <= k => f[4] = q[4]
  BY <1>3, <1>4, <1>7
<1>9. 5 <= k => f[5] = q[5]
  BY <1>3, <1>4, <1>8
<1>10. 6 <= k => f[6] = q[6]
  BY <1>3, <1>4, <1>9
<1>11. 7 <= k => f[7] = q[7]
  BY <1>3, <1>4, <1>10
<1>12. 8 <= k => f[8] = q[8]
  BY <1>3, <1>4, <1>11
<1> QED BY <1>1, <1>3, <1>4, <1>5, <1>6, <1>7, <1>8, <1>9, <1>10, <1>11, <1>12

\* What fits into a field has no more than eight bytes.
FieldLimit == 18446744073709551616

LEMMA NothingBeyond ==
    ASSUME NEW n \in Nat, n < FieldLimit, NEW q, Shifts(n, q)
    PROVE  q[8] = 0
<1>1. /\ q[0] = n /\ q[0] \in Nat /\ q[1] \in Nat /\ q[2] \in Nat /\ q[3] \in Nat /\ q[4] \in Nat
      /\ q[5] \in Nat /\ q[6] \in Nat /\ q[7] \in Nat /\ q[8] \in Nat
  BY DEF Shifts
<1>2. \A i \in 1 .. 8 : q[i] * 256 <= q[i - 1]
  <2>1. \A m \in Nat : (m \div 256) * 256 <= m
    OBVIOUS
  <2>2. ASSUME NEW i \in 1 .. 8 PROVE q[i - 1] \in Nat /\ q[i] = q[i - 1] \div 256
    BY DEF Shifts
  <2> QED BY <2>1, <2>2
<1>3. /\ q[1] * 256 <= q[0] /\ q[2] * 256 <= q[1] /\ q[3] * 256 <= q[2] /\ q[4] * 256 <= q[3]
      /\ q[5] * 256 <= q[4] /\ q[6] * 256 <= q[5] /\ q[7] * 256 <= q[6] /\ q[8] * 256 <= q[7]
  BY <1>2
<1>4. q[8] * 18446744073709551616 <= n
  BY <1>1, <1>3
<1> QED BY <1>1, <1>4 DEF FieldLimit

\* The bytes of a field, wherever it stands in a wire, are read as the number that was written.
LEMMA FieldDecodes ==
    ASSUME NEW m \in Nat, m < FieldLimit, NEW n \in Nat, NEW wire,
           \A j \in 1 .. 8 : wire[n * 8 + j] = put_header_field(m)[j]
    PROVE  get_header_field(n, wire) = m
<1>1. PICK q : Shifts(m, q)
  BY ShiftsExist
<1>2. \A j \in 1 .. 8 : wire[n * 8 + j] = q[8 - j] % 256
  <2> SUFFICES ASSUME NEW j \in 1 .. 8 PROVE wire[n * 8 + j] = q[8 - j] % 256
    OBVIOUS
  <2>1. Shifted(m, 8 - j) = q[8 - j]
    <3>1. 8 - j \in 0 .. 8
      OBVIOUS
    <3> QED BY <1>1, <3>1, ShiftedIs
  <2>2. put_header_field(m)[j] = Shifted(m, 8 - j) % 256
    BY DEF put_header_field, FieldSize, ByteValues
  <2> QED BY <2>1, <2>2
<1> DEFINE P(v) == v = [k \in 0 .. FieldSize |->
                          IF k = 0 THEN 0 ELSE v[k - 1] * ByteValues + wire[n * FieldSize + k]]
           v == CHOOSE v : P(v)
<1>4. get_header_field(n, wire) = v[8]
  BY DEF get_header_field, FieldSize
<1>5. q[8] = 0 /\ \A j \in 1 .. 8 : q[8 - j] = q[8 - (j - 1)] * 256 + wire[n * 8 + j]
  <2>1. q[8] = 0
    BY <1>1, NothingBeyond
  <2>2. ASSUME NEW j \in 1 .. 8 PROVE q[8 - j] = q[8 - (j - 1)] * 256 + wire[n * 8 + j]
    <3>1. \A x \in Nat : x = (x \div 256) * 256 + (x % 256)
      OBVIOUS
    <3>2. 8 - j \in 0 .. 7 /\ 8 - (j - 1) \in 1 .. 8 /\ 8 - (j - 1) - 1 = 8 - j
      OBVIOUS
    <3>3. q[8 - j] \in Nat /\ q[8 - (j - 1)] = q[8 - j] \div 256
      <4>1. q \in [0 .. 8 -> Nat] /\ \A i \in 1 .. 8 : q[i] = q[i - 1] \div 256
        BY <1>1 DEF Shifts
      <4>2. q[8 - (j - 1)] = q[(8 - (j - 1)) - 1] \div 256
        BY <3>2, <4>1, Zenon
      <4> QED BY <3>2, <4>1, <4>2
    <3>4. q[8 - j] = q[8 - (j - 1)] * 256 + (q[8 - j] % 256)
      BY <3>1, <3>3
    <3> QED BY <1>2, <3>4, Zenon
  <2> QED BY <2>1, <2>2
<1>6. P(v)
  <2> DEFINE w == [k \in 0 .. 8 |-> q[8 - k]]
  <2>1. ASSUME NEW k \in 0 .. 8 PROVE w[k] = IF k = 0 THEN 0 ELSE w[k - 1] * 256 + wire[n * 8 + k]
    <3>1. CASE k = 0
      BY <1>5, <3>1
    <3>2. CASE k \in 1 .. 8
      BY <1>5, <3>2
    <3> QED BY <3>1, <3>2
  <2>2. P(w)
    <3>1. DOMAIN w = 0 .. 8 /\ w = [k \in 0 .. 8 |-> w[k]]
      OBVIOUS
    <3> HIDE DEF w
    <3> QED BY <2>1, <3>1 DEF FieldSize, ByteValues
  <2> HIDE DEF P
  <2> QED BY <2>2
<1> HIDE DEF v
<1>7. v[0] = 0 /\ \A k \in 1 .. 8 : v[k] = v[k - 1] * 256 + wire[n * 8 + k]
  BY <1>6 DEF FieldSize, ByteValues
<1> HIDE DEF P
<1>8. v[1] = q[7]
  BY <1>5, <1>7
<1>9. v[2] = q[6]
  BY <1>5, <1>7, <1>8
<1>10. v[3] = q[5]
  BY <1>5, <1>7, <1>9
<1>11. v[4] = q[4]
  BY <1>5, <1>7, <1>10
<1>12. v[5] = q[3]
  BY <1>5, <1>7, <1>11
<1>13. v[6] = q[2]
  BY <1>5, <1>7, <1>12
<1>14. v[7] = q[1]
  BY <1>5, <1>7, <1>13
<1>15. v[8] = q[0]
  BY <1>5, <1>7, <1>14
<1> QED BY <1>1, <1>4, <1>15 DEF Shifts

\* The other side parses what was sent.
LEMMA PacketDecodes ==
    ASSUME NEW new \in BOOLEAN, NEW uid \in Nat, uid < FieldLimit, NEW S, NEW body \in Seq(S)
    PROVE  /\ Parsable(toString(new, uid, body))
           /\ Parsed(toString(new, uid, body)) = [new |-> new, uid |-> uid, body |-> body]
<1> DEFINE a == put_header_field(Flag(new))
           b == put_header_field(uid)
           T == Nat \cup S
           wire == toString(new, uid, body)
<1>1. Flag(new) \in Nat /\ Flag(new) < FieldLimit /\ (Flag(new) # 0 <=> new)
  BY DEF Flag, FieldLimit
<1>2. ASSUME NEW n \in Nat PROVE put_header_field(n) \in Seq(T) /\ Len(put_header_field(n)) = 8
  <2>1. ASSUME NEW k \in 1 .. 8 PROVE Shifted(n, 8 - k) % 256 \in T
    <3>1. PICK q : Shifts(n, q)
      BY ShiftsExist
    <3>2. 8 - k \in 0 .. 8
      OBVIOUS
    <3>3. Shifted(n, 8 - k) = q[8 - k] /\ q[8 - k] \in Nat
      <4>1. Shifted(n, 8 - k) = q[8 - k]
        BY <3>1, <3>2, ShiftedIs
      <4> QED BY <3>1, <3>2, <4>1 DEF Shifts
    <3> QED BY <3>3
  <2> HIDE DEF T
  <2> QED BY <2>1 DEF put_header_field, FieldSize, ByteValues
<1>3. a \in Seq(T) /\ Len(a) = 8 /\ b \in Seq(T) /\ Len(b) = 8 /\ body \in Seq(T)
  <2>1. body \in Seq(T)
    OBVIOUS
  <2> QED BY <1>1, <1>2, <2>1
<1>4. wire = (a \o b) \o body
  BY DEF toString
<1> HIDE DEF a, b, T, wire
<1>5. /\ a \o b \in Seq(T) /\ Len(a \o b) = 16
      /\ \A i \in 1 .. 16 : (a \o b)[i] = IF i <= 8 THEN a[i] ELSE b[i - 8]
  <2>1. /\ a \o b \in Seq(T) /\ Len(a \o b) = Len(a) + Len(b)
        /\ \A i \in 1 .. Len(a) + Len(b) : (a \o b)[i] = IF i <= Len(a) THEN a[i] ELSE b[i - Len(a)]
    BY <1>3, ConcatProperties, ZenonT(60)
  <2> QED BY <1>3, <2>1
<1>6. /\ wire \in Seq(T) /\ Len(wire) = 16 + Len(body) /\ Len(body) \in Nat
      /\ \A i \in 1 .. 16 + Len(body) : wire[i] = IF i <= 16 THEN (a \o b)[i] ELSE body[i - 16]
  <2>1. /\ wire \in Seq(T) /\ Len(wire) = Len(a \o b) + Len(body)
        /\ \A i \in 1 .. Len(a \o b) + Len(body) :
             wire[i] = IF i <= Len(a \o b) THEN (a \o b)[i] ELSE body[i - Len(a \o b)]
    BY <1>3, <1>4, <1>5, ConcatProperties, ZenonT(60)
  <2> QED BY <1>3, <1>5, <2>1
<1>7. Parsable(wire)
  BY <1>6 DEF Parsable, FieldSize
<1>8. get_header_field(0, wire) = Flag(new)
  <2>1. ASSUME NEW j \in 1 .. 8 PROVE wire[0 * 8 + j] = a[j]
    <3>1. 0 * 8 + j = j /\ j \in 1 .. 16 /\ j \in 1 .. 16 + Len(body) /\ j <= 8 /\ j <= 16
      BY <1>6
    <3>2. wire[j] = (a \o b)[j] /\ (a \o b)[j] = a[j]
      BY <1>5, <1>6, <3>1
    <3> QED BY <3>1, <3>2
  <2> QED BY <1>1, <2>1, FieldDecodes DEF a
<1>9. get_header_field(1, wire) = uid
  <2>1. ASSUME NEW j \in 1 .. 8 PROVE wire[1 * 8 + j] = b[j]
    <3>1. /\ 1 * 8 + j = 8 + j /\ 8 + j \in 1 .. 16 /\ 8 + j \in 1 .. 16 + Len(body)
          /\ ~(8 + j <= 8) /\ 8 + j <= 16 /\ (8 + j) - 8 = j
      BY <1>6
    <3>2. wire[8 + j] = (a \o b)[8 + j] /\ (a \o b)[8 + j] = b[(8 + j) - 8]
      BY <1>5, <1>6, <3>1
    <3> QED BY <3>1, <3>2
  <2> QED BY <2>1, FieldDecodes DEF b
<1>10. SubSeq(wire, 17, Len(wire)) = body
  <2>1. /\ SubSeq(wire, 17, Len(wire)) \in Seq(T) /\ Len(SubSeq(wire, 17, Len(wire))) = Len(body)
        /\ \A i \in 1 .. Len(body) : SubSeq(wire, 17, Len(wire))[i] = wire[i + 16]
    BY <1>6
  <2>2. \A i \in 1 .. Len(body) : wire[i + 16] = body[i]
    BY <1>6
  <2>3. \A i \in 1 .. Len(body) : SubSeq(wire, 17, Len(wire))[i] = body[i]
    BY <2>1, <2>2
  <2> QED BY <1>3, <2>1, <2>3, SeqEqual
<1>11. Parsed(wire) = [new |-> new, uid |-> uid, body |-> body]
  <2>1. (get_header_field(0, wire) # 0) = new
    BY <1>1, <1>8
  <2>2. sizeof_Header + 1 = 17
    BY DEF sizeof_Header, FieldSize
  <2>3. SubSeq(wire, sizeof_Header + 1, Len(wire)) = body
    BY <1>10, <2>2
  <2> QED BY <1>9, <2>1, <2>3, Zenon DEF Parsed
<1> QED BY <1>7, <1>11 DEF wire

LEMMA StringOfBody ==
    ASSUME NEW body
    PROVE  BodyString(body) \in Seq({body})
<1>1. <<>> \in Seq({body}) /\ <<body>> \in Seq({body})
  OBVIOUS
<1>2. BodyString(body) = <<>> \/ BodyString(body) = <<body>>
  BY Zenon DEF BodyString
<1> QED BY <1>1, <1>2

\* Every packet on its way is parsed by the other side as the packet that was sent, whatever the
\* network and the processes do, as long as uids fit into the 64 bits of their field.
THEOREM PacketsAlwaysDecode == ASSUME MaxUid < FieldLimit PROVE Spec => []PacketsDecode
<1>1. ASSUME TypeOK PROVE PacketsDecode
  <2> SUFFICES ASSUME NEW side \in Side, NEW i \in DOMAIN chan[side]
               PROVE  LET p == chan[side][i]
                          wire == toString(p.new, p.uid, BodyString(p.body))
                      IN  /\ Parsable(wire)
                          /\ Parsed(wire) = [new |-> p.new, uid |-> p.uid, body |-> BodyString(p.body)]
    BY DEF PacketsDecode
  <2>1. chan[side][i] \in Packet
    BY <1>1 DEF TypeOK
  <2>2. /\ chan[side][i].new \in BOOLEAN /\ chan[side][i].uid \in Nat
        /\ chan[side][i].uid < FieldLimit
    BY <2>1, ConstantsAssumption DEF Packet, Uid, FieldLimit
  <2>3. BodyString(chan[side][i].body) \in Seq({chan[side][i].body})
    BY StringOfBody
  <2> QED BY <2>2, <2>3, PacketDecodes
<1> QED BY <1>1, TypeCorrect, PTL

-----------------------------------------------------------------------------
(***************************************************************************)
(* The splitters over a path that neither loses, reorders nor duplicates,  *)
(* with any number of connections, uids and chunks, any TCP peers and any  *)
(* failing send: in one session, each connection is a pair of byte pipes;  *)
(* in any number of sessions, destinations get their own bytes only.       *)
(*                                                                         *)
(* Packets carry no number.  What makes the stream that arrives the one    *)
(* that was sent is what is on its way: the pieces of a connection in a    *)
(* channel, taking the announcement for piece 0, are in order (Rising),    *)
(* the next one the receiver awaits comes first and none is missing after  *)
(* it (Gapless), and while the sender lives or its end of file is on its   *)
(* way, every piece it has read is there (Complete).                       *)
(***************************************************************************)
-----------------------------------------------------------------------------
(* Pieces of one connection in a channel.                                  *)

\* In channel ch, the pieces of connection c are in order and none is beyond r.
Rising(ch, c, r) ==
    \A i \in DOMAIN ch : ch[i].body.c = c =>
        /\ ch[i].body.k <= r
        /\ \A j \in DOMAIN ch : j < i /\ ch[j].body.c = c => ch[j].body.k < ch[i].body.k

\* Pieces e to r of connection c are in channel ch.
Complete(ch, c, e, r) ==
    \A k \in Nat : e <= k /\ k <= r => \E i \in DOMAIN ch : ch[i].body.c = c /\ ch[i].body.k = k

\* The pieces of connection c in ch start with e, and none is missing.
Gapless(ch, c, e) ==
    \A i \in DOMAIN ch : ch[i].body.c = c => ch[i].body.k >= e /\ Complete(ch, c, e, ch[i].body.k)

\* What a packet's body is made of.
LEMMA BodyFields ==
    ASSUME NEW p \in Packet
    PROVE  /\ p.body.c \in Nat /\ p.body.k \in Nat
           /\ p.body.c \in Conn <=> p.body # Empty
           /\ p.body.c \in Conn => p.body \in Body
           /\ p.uid \in Uid
<1>1. p.body \in Body \cup {Empty} /\ p.uid \in Uid
  BY DEF Packet
<1>2. CASE p.body \in Body
  <2>1. p.body.c \in Conn /\ p.body.k \in Nat /\ p.body.c \in Nat
    BY <1>2, ConstantsAssumption DEF Body, Conn
  <2>2. p.body # Empty
    BY <2>1 DEF Empty, Conn, NoConn
  <2> QED BY <1>1, <1>2, <2>1, <2>2
<1>3. CASE p.body = Empty
  <2>1. p.body.c = 0 /\ p.body.k = 0
    BY <1>3 DEF Empty, NoConn
  <2>2. 0 \notin Conn
    BY DEF Conn
  <2> QED BY <1>1, <1>3, <2>1, <2>2
<1> QED BY <1>1, <1>2, <1>3

\* What is left when the first packet is taken.
LEMMA TakeFirst ==
    ASSUME NEW ch \in Seq(Packet), 1 \in DOMAIN ch
    PROVE  /\ RemoveAt(ch, 1) \in Seq(Packet)
           /\ \A j \in DOMAIN RemoveAt(ch, 1) : /\ j \in Nat /\ j + 1 \in DOMAIN ch
                                                /\ RemoveAt(ch, 1)[j] = ch[j + 1]
           /\ \A i \in DOMAIN ch : i # 1 => /\ i \in Nat /\ i > 1 /\ i - 1 \in DOMAIN RemoveAt(ch, 1)
                                            /\ ch[i] = RemoveAt(ch, 1)[i - 1]
<1> DEFINE t == RemoveAt(ch, 1)
<1>1. 1 \in 1 .. Len(ch) /\ Len(ch) \in Nat
  OBVIOUS
<1>2. t \in Seq(Packet) /\ Len(t) = Len(ch) - 1
      /\ \A j \in 1 .. Len(ch) - 1 : t[j] = IF j < 1 THEN ch[j] ELSE ch[j + 1]
  BY <1>1, RemoveAtElements
<1> HIDE DEF t
<1>3. \A j \in DOMAIN t : j \in Nat /\ j + 1 \in DOMAIN ch /\ t[j] = ch[j + 1]
  BY <1>1, <1>2
<1>4. \A i \in DOMAIN ch : i # 1 => i \in Nat /\ i > 1 /\ i - 1 \in DOMAIN t /\ ch[i] = t[i - 1]
  BY <1>1, <1>2
<1> QED BY <1>2, <1>3, <1>4 DEF t

\* What is there when a packet is sent.
LEMMA SendLast ==
    ASSUME NEW ch \in Seq(Packet), NEW p \in Packet
    PROVE  /\ Append(ch, p) \in Seq(Packet)
           /\ \A i \in DOMAIN ch : /\ i \in Nat /\ i < Len(ch) + 1
                                   /\ i \in DOMAIN Append(ch, p) /\ Append(ch, p)[i] = ch[i]
           /\ Len(ch) + 1 \in DOMAIN Append(ch, p) /\ Append(ch, p)[Len(ch) + 1] = p
           /\ \A i \in DOMAIN Append(ch, p) : i \in DOMAIN ch \/ i = Len(ch) + 1
  OBVIOUS

\* Taking any packet keeps the order.
LEMMA TakeRising ==
    ASSUME NEW ch \in Seq(Packet), 1 \in DOMAIN ch, NEW c, NEW r, Rising(ch, c, r)
    PROVE  Rising(RemoveAt(ch, 1), c, r)
<1> DEFINE t == RemoveAt(ch, 1)
<1>1. \A j \in DOMAIN t : j \in Nat /\ j + 1 \in DOMAIN ch /\ t[j] = ch[j + 1]
  BY TakeFirst
<1> HIDE DEF t
<1>2. Rising(t, c, r)
  BY <1>1 DEF Rising
<1> QED BY <1>2 DEF t

\* Taking a packet of another connection keeps the pieces of this one.
LEMMA TakeOther ==
    ASSUME NEW ch \in Seq(Packet), 1 \in DOMAIN ch, NEW c, ch[1].body.c # c, NEW e \in Nat
    PROVE  /\ \A r \in Nat : Complete(ch, c, e, r) => Complete(RemoveAt(ch, 1), c, e, r)
           /\ Gapless(ch, c, e) => Gapless(RemoveAt(ch, 1), c, e)
<1> DEFINE t == RemoveAt(ch, 1)
<1>1. /\ \A j \in DOMAIN t : j \in Nat /\ j + 1 \in DOMAIN ch /\ t[j] = ch[j + 1]
      /\ \A i \in DOMAIN ch : i # 1 => i - 1 \in DOMAIN t /\ ch[i] = t[i - 1]
      /\ t \in Seq(Packet)
  BY TakeFirst
<1> HIDE DEF t
<1>2. ASSUME NEW r, Complete(ch, c, e, r) PROVE Complete(t, c, e, r)
  <2> SUFFICES ASSUME NEW k \in Nat, e <= k, k <= r
               PROVE  \E i \in DOMAIN t : t[i].body.c = c /\ t[i].body.k = k
    BY DEF Complete
  <2>1. PICK i \in DOMAIN ch : ch[i].body.c = c /\ ch[i].body.k = k
    BY <1>2 DEF Complete
  <2> QED BY <1>1, <2>1
<1>3. Gapless(ch, c, e) => Gapless(t, c, e)
  BY <1>1, <1>2 DEF Gapless
<1> QED BY <1>2, <1>3 DEF t

\* The first packet, if it is a piece of c, is the piece that is awaited.
LEMMA TakePiece ==
    ASSUME NEW ch \in Seq(Packet), 1 \in DOMAIN ch, NEW c, ch[1].body.c = c, NEW e \in Nat,
           NEW r \in Nat, Rising(ch, c, r), Gapless(ch, c, e)
    PROVE  /\ ch[1].body.k = e
           /\ Gapless(RemoveAt(ch, 1), c, e + 1)
           /\ Complete(ch, c, e, r) => Complete(RemoveAt(ch, 1), c, e + 1, r)
<1> DEFINE t == RemoveAt(ch, 1)
<1>1. /\ \A j \in DOMAIN t : j \in Nat /\ j + 1 \in DOMAIN ch /\ j + 1 # 1 /\ t[j] = ch[j + 1]
      /\ \A i \in DOMAIN ch : i # 1 => i \in Nat /\ 1 < i /\ i - 1 \in DOMAIN t /\ ch[i] = t[i - 1]
      /\ t \in Seq(Packet)
  <2>1. \A j \in Nat : j + 1 = 1 => j = 0
    OBVIOUS
  <2>2. 0 \notin DOMAIN t
    BY TakeFirst
  <2> QED BY <2>1, <2>2, TakeFirst
<1> HIDE DEF t
<1>2. \A i \in DOMAIN ch : ch[i].body.k \in Nat
  BY BodyFields
<1>3. \A i \in DOMAIN ch : i # 1 /\ ch[i].body.c = c => ch[1].body.k < ch[i].body.k
  BY <1>1 DEF Rising
<1>4. ch[1].body.k = e
  <2>1. ch[1].body.k >= e /\ Complete(ch, c, e, ch[1].body.k)
    BY DEF Gapless
  <2>2. PICK i \in DOMAIN ch : ch[i].body.c = c /\ ch[i].body.k = e
    BY <1>2, <2>1 DEF Complete
  <2> QED BY <1>2, <1>3, <2>1, <2>2
<1>5. ASSUME NEW m \in Nat, Complete(ch, c, e, m) PROVE Complete(t, c, e + 1, m)
  <2> SUFFICES ASSUME NEW k \in Nat, e + 1 <= k, k <= m
               PROVE  \E i \in DOMAIN t : t[i].body.c = c /\ t[i].body.k = k
    BY DEF Complete
  <2>1. PICK i \in DOMAIN ch : ch[i].body.c = c /\ ch[i].body.k = k
    BY <1>5 DEF Complete
  <2>2. i # 1
    BY <1>4, <2>1
  <2> QED BY <1>1, <2>1, <2>2
<1>6. Gapless(t, c, e + 1)
  <2> SUFFICES ASSUME NEW j \in DOMAIN t, t[j].body.c = c
               PROVE  t[j].body.k >= e + 1 /\ Complete(t, c, e + 1, t[j].body.k)
    BY DEF Gapless
  <2>1. /\ j + 1 \in DOMAIN ch /\ j + 1 # 1 /\ t[j] = ch[j + 1]
        /\ t[j].body.k \in Nat
    BY <1>1, <1>2
  <2>2. Complete(ch, c, e, t[j].body.k)
    BY <2>1 DEF Gapless
  <2>3. t[j].body.k >= e + 1
    BY <1>2, <1>3, <1>4, <2>1
  <2> QED BY <1>5, <2>1, <2>2, <2>3
<1> QED BY <1>4, <1>5, <1>6 DEF t

\* Sending a packet of another connection, or an end of file, keeps everything.
LEMMA SendOther ==
    ASSUME NEW ch \in Seq(Packet), NEW p \in Packet, NEW c, p.body.c # c, NEW e \in Nat, NEW r \in Nat
    PROVE  /\ Rising(ch, c, r) => Rising(Append(ch, p), c, r)
           /\ Complete(ch, c, e, r) => Complete(Append(ch, p), c, e, r)
           /\ Gapless(ch, c, e) => Gapless(Append(ch, p), c, e)
<1> DEFINE a == Append(ch, p)
           n == Len(ch) + 1
<1>1. /\ \A i \in DOMAIN ch : i \in DOMAIN a /\ a[i] = ch[i]
      /\ a[n] = p
      /\ \A i \in DOMAIN a : i \in DOMAIN ch \/ i = n
  BY SendLast
<1> HIDE DEF a, n
<1>2. Rising(ch, c, r) => Rising(a, c, r)
  BY <1>1 DEF Rising
<1>3. \A m : Complete(ch, c, e, m) => Complete(a, c, e, m)
  BY <1>1 DEF Complete
<1>4. Gapless(ch, c, e) => Gapless(a, c, e)
  BY <1>1, <1>3 DEF Gapless
<1> QED BY <1>2, <1>3, <1>4 DEF a

\* Sending the next piece.
LEMMA SendPiece ==
    ASSUME NEW ch \in Seq(Packet), NEW p \in Packet, NEW c, NEW e \in Nat, NEW r \in Nat,
           p.body.c = c, p.body.k = r + 1, e <= r + 1, Rising(ch, c, r)
    PROVE  /\ Rising(Append(ch, p), c, r + 1)
           /\ Complete(ch, c, e, r) => Complete(Append(ch, p), c, e, r + 1)
           /\ Gapless(ch, c, e) /\ Complete(ch, c, e, r) => Gapless(Append(ch, p), c, e)
<1> DEFINE a == Append(ch, p)
           n == Len(ch) + 1
<1>1. /\ \A i \in DOMAIN ch : i \in Nat /\ i < n /\ i \in DOMAIN a /\ a[i] = ch[i]
      /\ n \in DOMAIN a /\ a[n] = p /\ n \in Nat
      /\ \A i \in DOMAIN a : i \in DOMAIN ch \/ i = n
  BY SendLast
<1>2. \A i \in DOMAIN ch : ch[i].body.k \in Nat
  BY BodyFields
<1> HIDE DEF a, n
<1>3. Rising(a, c, r + 1)
  <2> SUFFICES ASSUME NEW i \in DOMAIN a, a[i].body.c = c
               PROVE  /\ a[i].body.k <= r + 1
                      /\ \A j \in DOMAIN a : j < i /\ a[j].body.c = c => a[j].body.k < a[i].body.k
    BY DEF Rising
  <2>1. CASE i = n
    BY <1>1, <1>2, <2>1 DEF Rising
  <2>2. CASE i \in DOMAIN ch
    BY <1>1, <1>2, <2>2 DEF Rising
  <2> QED BY <1>1, <2>1, <2>2
<1>4. \A m : Complete(ch, c, e, m) => Complete(a, c, e, m)
  BY <1>1 DEF Complete
<1>5. Complete(ch, c, e, r) => Complete(a, c, e, r + 1)
  <2> SUFFICES ASSUME Complete(ch, c, e, r), NEW k \in Nat, e <= k, k <= r + 1
               PROVE  \E i \in DOMAIN a : a[i].body.c = c /\ a[i].body.k = k
    BY DEF Complete
  <2>1. CASE k = r + 1
    BY <1>1, <2>1
  <2>2. CASE k <= r
    BY <1>1, <2>2 DEF Complete
  <2> QED BY <2>1, <2>2
<1>6. Gapless(ch, c, e) /\ Complete(ch, c, e, r) => Gapless(a, c, e)
  BY <1>1, <1>4, <1>5 DEF Gapless
<1> QED BY <1>3, <1>5, <1>6 DEF a

\* The announcement is the first piece of a connection.
LEMMA SendFirst ==
    ASSUME NEW ch \in Seq(Packet), NEW p \in Packet, NEW c, \A i \in DOMAIN ch : ch[i].body.c # c,
           p.body.c = c, p.body.k = 0
    PROVE  Rising(Append(ch, p), c, 0) /\ Gapless(Append(ch, p), c, 0) /\ Complete(Append(ch, p), c, 0, 0)
<1> DEFINE a == Append(ch, p)
           n == Len(ch) + 1
<1>1. /\ \A i \in DOMAIN ch : i \in DOMAIN a /\ a[i] = ch[i]
      /\ n \in DOMAIN a /\ a[n] = p /\ n \in Nat /\ ~(n < n)
      /\ \A i \in DOMAIN a : i \in DOMAIN ch \/ i = n
  BY SendLast
<1> HIDE DEF a, n
<1>2. Complete(a, c, 0, 0)
  BY <1>1 DEF Complete
<1>3. Rising(a, c, 0) /\ Gapless(a, c, 0)
  BY <1>1, <1>2 DEF Rising, Gapless
<1> QED BY <1>2, <1>3 DEF a

\* A channel whose first packet is followed by no piece of c has no piece that is awaited.
LEMMA AllDelivered ==
    ASSUME NEW ch, NEW c, \A i \in DOMAIN ch : ch[i].body.c # c, NEW e \in Nat, NEW r \in Nat,
           Complete(ch, c, e, r)
    PROVE  r < e
  BY DEF Complete

-----------------------------------------------------------------------------
(* The invariant of a reliable path, in one session of koho-client.        *)

Reliable == ~MayLose /\ ~MayReorder /\ MaxDups = 0
OneSession == MaxSessions = 1

\* An end of file for uid u is on its way to side s.
Ends(s, u) == \E i \in DOMAIN chan[s] : chan[s][i].body = Empty /\ chan[s][i].uid = u

\* Connection c has an announcement on its way.
Announced(c) == \E i \in DOMAIN chan["server"] : chan["server"][i].new /\ chan["server"][i].body.c = c

\* Side s will write the next piece of connection c, when it comes: its socket takes bytes, or
\* its announcement is on its way.
Awaits(s, c) ==
    /\ up[s] = "up"
    /\ \/ tcp[s][c].st \in {"open", "fin"}
       \/ s = "server" /\ tcp[s][c].st = "none" /\ Announced(c)

\* The piece that side s awaits.
Expect(s, c) == IF tcp[s][c].st = "none" THEN 0 ELSE Len(tcp[s][c].got) + 1

\* The pieces of connection c on their way to side s.
Flow(s, c) ==
    /\ Rising(chan[s], c, tcp[Other(s)][c].read)
    /\ Len(tcp[s][c].got) <= tcp[Other(s)][c].read
    /\ Awaits(s, c) => Gapless(chan[s], c, Expect(s, c))
    /\ Awaits(s, c) /\ (up[Other(s)] = "up" \/ Ends(s, uidOf[c])) =>
            Complete(chan[s], c, Expect(s, c), tcp[Other(s)][c].read)

\* Every packet has a uid already handed out; the announcement of a connection is its piece 0.
PacketsKnown ==
    \A s \in Side : \A i \in DOMAIN chan[s] :
        LET p == chan[s][i]
        IN  p.uid < nextUid /\ (p.body # Empty => (p.new <=> p.body.k = 0)) /\ (p.body = Empty => ~p.new)

\* The maps hold the sockets that are neither unborn nor closed, under the uids they were given.
SocketsMapped ==
    /\ \A s \in Side, c \in Conn :
        tcp[s][c].st \notin {"none", "closed"} => uidOf[c] \in Uid /\ conns[s][uidOf[c]] = c
    /\ \A s \in Side, u \in Uid :
        conns[s][u] # NoConn => tcp[s][conns[s][u]].st \notin {"none", "closed"}

\* A socket is unborn until its connection is accepted, or its destination dialled, and the server
\* dials only after it has heard from the client.
SocketsBorn ==
    /\ \A s \in Side, c \in Conn :
        tcp[s][c].st = "none" => tcp[s][c].read = 0 /\ tcp[s][c].wrote = 0 /\ tcp[s][c].got = <<>>
    /\ \A c \in Conn : tcp["client"][c].st = "none" <=> uidOf[c] = 0
    /\ \A c \in Conn : tcp["server"][c].st # "none" => savedAddr # NoAddr

\* An end of file is the last packet of its uid: its sender has closed, or never opened, the
\* connection and will not open it.
EofLast ==
    \A s \in Side : \A i \in DOMAIN chan[s] : chan[s][i].body = Empty =>
        LET u == chan[s][i].uid
        IN  /\ conns[Other(s)][u] = NoConn
            /\ \A j \in DOMAIN chan[s] : i < j => chan[s][j].uid # u
            /\ s = "client" => \A j \in DOMAIN chan["server"] :
                                ~(chan["server"][j].new /\ chan["server"][j].uid = u)

Flows == \A s \in Side, c \in Conn : Flow(s, c)

Base == DialInv /\ UidsDistinct
PathInv == PacketsKnown /\ SocketsMapped /\ SocketsBorn /\ EofLast /\ Flows
StreamsInv == Base /\ PathInv /\ StreamIntact

-----------------------------------------------------------------------------
(* The kinds of steps over a reliable path.                                *)

SavedKept == savedAddr' = NoAddr => savedAddr = NoAddr

\* The first packet to side is taken.
Takes(side) == 1 \in DOMAIN chan[side] /\ chan' = Consumed(side, 1)

\* It is ignored, or the process is dead or dies.
Ignored(side) ==
    /\ Takes(side)
    /\ UNCHANGED <<nextUid, uidOf, conns, watched, tcp>> /\ SavedKept
    /\ up'[Other(side)] = up[Other(side)]
    /\ up'[side] = "up" => /\ up[side] = "up"
                           /\ ~chan[side][1].new /\ chan[side][1].uid \notin Known(side)

\* It is written to its connection.
Forwarded(side) ==
    /\ Takes(side) /\ up[side] = "up"
    /\ UNCHANGED <<nextUid, uidOf, conns, watched>> /\ SavedKept
    /\ ~chan[side][1].new /\ chan[side][1].body # Empty /\ chan[side][1].uid \in Known(side)
    /\ WriteAll(side, conns[side][chan[side][1].uid], chan[side][1].body)

\* It closes its connection.
Closed(side) ==
    /\ Takes(side) /\ up[side] = "up"
    /\ UNCHANGED <<nextUid, uidOf>> /\ SavedKept
    /\ ~chan[side][1].new /\ chan[side][1].body = Empty /\ chan[side][1].uid \in Known(side)
    /\ close_connection(side, chan[side][1].uid)

\* It announces a connection, and the destination accepts or refuses.
Dialled ==
    LET p == chan["server"][1]
    IN  /\ Takes("server") /\ up["server"] = "up" /\ up' = up
        /\ UNCHANGED <<nextUid, uidOf>> /\ savedAddr' = p.addr
        /\ p.new /\ p.uid \notin Known("server")
        /\ conns' = [conns EXCEPT !["server"][p.uid] = p.body.c]
        /\ watched' = [watched EXCEPT !["server"] = @ \cup {p.uid}]
        /\ tcp' = [tcp EXCEPT !["server"][p.body.c] = NewSocket("open")]
Refused ==
    LET p == chan["server"][1]
    IN  /\ 1 \in DOMAIN chan["server"] /\ up["server"] = "up" /\ up' = up
        /\ UNCHANGED <<nextUid, uidOf, conns, watched, tcp>> /\ SavedKept
        /\ p.new /\ p.uid \notin Known("server")
        /\ chan'["server"] = RemoveAt(chan["server"], 1)
        /\ \E q \in Packet : /\ ~q.new /\ q.uid = p.uid /\ q.body = Empty
                             /\ chan'["client"] = Append(chan["client"], q)

\* A process dies, or a uid is wasted.
Quiet ==
    /\ UNCHANGED <<uidOf, conns, watched, tcp, chan, savedAddr>>
    /\ nextUid' = nextUid \/ nextUid' = nextUid + 1
    /\ \A s \in Side : up'[s] = "up" => up[s] = "up"

\* Every step is one of these.
LEMMA StepKinds ==
    ASSUME Base, Reliable, OneSession, Next
    PROVE  \/ \E side \in Side : Ignored(side) \/ Forwarded(side) \/ Closed(side)
           \/ Dialled \/ Refused \/ Quiet
           \/ AcceptConnection
           \/ \E side \in Side, uid \in Uid : ReadBytes(side, uid) \/ ReadEof(side, uid)
           \/ \E side \in Side : PeerAction(side)
<1>0. /\ TypeOK /\ "server" \in Side /\ "client" \in Side /\ "server" # "client"
      /\ Other("client") = "server" /\ Other("server") = "client"
      /\ chan \in [Side -> Seq(Packet)] /\ up \in [Side -> Status] /\ session = 1
  BY DEF Base, DialInv, Inv, Bookkeeping, TypeOK, Side, Other, OneSession, Session
<1>1. \A side \in Side : \A i \in Deliverable(side) : i = 1 /\ 1 \in DOMAIN chan[side] /\ chan[side][1] \in Packet
  BY <1>0, PacketType DEF Deliverable, Reliable
<1>2. \A side \in Side : 1 \in DOMAIN chan[side] => chan[side][1].addr = session /\ chan[side][1].addr # NoAddr
  <2> SUFFICES ASSUME NEW side \in Side, 1 \in DOMAIN chan[side]
               PROVE  chan[side][1].addr = session /\ chan[side][1].addr # NoAddr
    OBVIOUS
  <2>1. chan[side][1].addr \in 1 .. 1
    BY <1>0, PacketType DEF Packet, Session, OneSession
  <2> QED BY <1>0, <2>1 DEF NoAddr
<1>3. CASE ClientStep
  <2>1. CASE AcceptConnection
    BY <2>1
  <2>2. CASE AcceptFails \/ ClientReadThrows
    BY <1>0, <2>2 DEF AcceptFails, ClientReadThrows, Quiet
  <2>3. CASE ClientIgnores
    <3>1. /\ Takes("client") /\ UNCHANGED <<nextUid, uidOf, conns, watched, tcp, savedAddr>> /\ up["client"] = "up"
          /\ chan["client"][1].new \/ chan["client"][1].uid \notin Known("client")
          /\ up' = [up EXCEPT !["client"] = IF chan["client"][1].new THEN "assert" ELSE "up"]
      BY <1>0, <1>1, <2>3 DEF ClientIgnores, ClientReads, Takes
    <3> QED BY <1>0, <3>1 DEF Ignored, SavedKept
  <2>4. CASE ClientCloses
    <3>1. Closed("client")
      BY <1>0, <1>1, <2>4 DEF ClientCloses, ClientReads, Takes, Closed, SavedKept
    <3> QED BY <1>0, <3>1
  <2>5. CASE ClientForwards
    <3>1. Forwarded("client")
      BY <1>0, <1>1, <2>5 DEF ClientForwards, ClientReads, Takes, Forwarded, SavedKept
    <3> QED BY <1>0, <3>1
  <2> QED BY <1>3, <2>1, <2>2, <2>3, <2>4, <2>5 DEF ClientStep
<1>4. CASE ServerStep
  <2>1. CASE ServerDrops
    <3>1. Ignored("server")
      BY <1>0, <1>1, <1>2, <2>1 DEF ServerDrops, ServerReads, Takes, Ignored, SavedKept
    <3> QED BY <1>0, <3>1
  <2>2. CASE ServerConnects
    <3>1. Dialled
      BY <1>0, <1>1, <1>2, <2>2 DEF ServerConnects, ServerReads, Takes, Dialled
    <3> QED BY <3>1
  <2>3. CASE ServerRefused
    <3> DEFINE p == chan["server"][1]
               back == [addr |-> p.addr, new |-> FALSE, uid |-> p.uid, body |-> Empty]
    <3>1. /\ 1 \in DOMAIN chan["server"] /\ up["server"] = "up"
          /\ UNCHANGED <<nextUid, uidOf, conns, watched, tcp>> /\ savedAddr' = p.addr
          /\ p.new /\ p.uid \notin Known("server")
          /\ \/ /\ chan' = [Consumed("server", 1) EXCEPT !["client"] = Append(@, back)]
                /\ up' = up
             \/ Takes("server") /\ up' = [up EXCEPT !["server"] = "threw"]
      BY <1>0, <1>1, <2>3 DEF ServerRefused, ServerReads, Takes
    <3>2. CASE Takes("server") /\ up' = [up EXCEPT !["server"] = "threw"]
      <4>1. Ignored("server")
        BY <1>0, <1>2, <3>1, <3>2 DEF Ignored, SavedKept
      <4> QED BY <1>0, <4>1
    <3>3. CASE chan' = [Consumed("server", 1) EXCEPT !["client"] = Append(@, back)] /\ up' = up
      <4>1. back \in Packet /\ ~back.new /\ back.uid = p.uid /\ back.body = Empty
        BY <1>0, <3>1, PacketType DEF Packet
      <4> HIDE DEF back
      <4>2. /\ Consumed("server", 1)["server"] = RemoveAt(chan["server"], 1)
            /\ Consumed("server", 1)["client"] = chan["client"]
        BY <1>0, ConsumedAt
      <4>3. Consumed("server", 1) \in [Side -> Seq(Packet)]
        BY <1>0, <3>1, ConsumedType
      <4>4. chan'["server"] = RemoveAt(chan["server"], 1) /\ chan'["client"] = Append(chan["client"], back)
        BY <1>0, <3>3, <4>2, <4>3
      <4>5. SavedKept
        BY <1>0, <1>2, <3>1 DEF SavedKept
      <4>6. \E q \in Packet : /\ ~q.new /\ q.uid = p.uid /\ q.body = Empty
                               /\ chan'["client"] = Append(chan["client"], q)
        BY <4>1, <4>4
      <4>7. Refused
        BY <3>1, <3>3, <4>4, <4>5, <4>6 DEF Refused
      <4> QED BY <4>7
    <3> QED BY <3>1, <3>2, <3>3
  <2>4. CASE ServerAsserts
    <3>1. Ignored("server")
      BY <1>0, <1>1, <1>2, <2>4 DEF ServerAsserts, ServerReads, Takes, Ignored, SavedKept
    <3> QED BY <1>0, <3>1
  <2>5. CASE ServerCloses
    <3>1. Closed("server")
      BY <1>0, <1>1, <1>2, <2>5 DEF ServerCloses, ServerReads, Takes, Closed, SavedKept
    <3> QED BY <1>0, <3>1
  <2>6. CASE ServerForwards
    <3>1. Forwarded("server")
      BY <1>0, <1>1, <1>2, <2>6 DEF ServerForwards, ServerReads, Takes, Forwarded, SavedKept
    <3> QED BY <1>0, <3>1
  <2> QED BY <1>4, <2>1, <2>2, <2>3, <2>4, <2>5, <2>6 DEF ServerStep
<1>5. CASE NetworkStep
  <2>1. ~Lose("client") /\ ~Lose("server")
    BY DEF Lose, Reliable
  <2>2. ~Duplicate("client") /\ ~Duplicate("server")
    BY <1>0 DEF Duplicate, Reliable, TypeOK
  <2>3. CASE ServerUnreachable
    <3>1. Ignored("server")
      BY <1>0, <1>1, <2>3 DEF ServerUnreachable, Takes, Ignored, SavedKept
    <3> QED BY <1>0, <3>1
  <2>4. CASE ClientUnreachable
    <3>1. Ignored("client")
      BY <1>0, <1>1, <1>2, <2>4 DEF ClientUnreachable, Takes, Ignored, SavedKept
    <3> QED BY <1>0, <3>1
  <2> QED BY <1>5, <2>1, <2>2, <2>3, <2>4 DEF NetworkStep, Side
<1>6. CASE ClientRestarts
  BY <1>0, <1>6 DEF ClientRestarts, OneSession
<1>7. CASE \E side \in Side : SocketStep(side)
  <2>1. PICK side \in Side, uid \in Uid :
          ReadBytes(side, uid) \/ ReadEof(side, uid) \/ ReadFails(side, uid)
    BY <1>7 DEF SocketStep
  <2>2. CASE ReadFails(side, uid)
    BY <1>0, <2>2 DEF ReadFails, Quiet
  <2> QED BY <2>1, <2>2
<1> QED BY <1>3, <1>4, <1>5, <1>6, <1>7 DEF Next

-----------------------------------------------------------------------------
(* The same steps, seen from the sockets and the map entries they change.  *)

\* Of all sockets, only that of connection d on side changes, to these fields.
OneSocket(side, d, st, read, wrote, got) ==
    /\ \A s \in Side, c \in Conn : s # side \/ c # d => tcp'[s][c] = tcp[s][c]
    /\ tcp'[side][d].st = st /\ tcp'[side][d].read = read
    /\ tcp'[side][d].wrote = wrote /\ tcp'[side][d].got = got

LEMMA OneSocketUpdate ==
    ASSUME TypeOK, NEW side \in Side, NEW d \in Conn, NEW v
    PROVE  LET t == tcp[side][d]
           IN  /\ tcp' = [tcp EXCEPT ![side][d].st = v] => OneSocket(side, d, v, t.read, t.wrote, t.got)
               /\ tcp' = [tcp EXCEPT ![side][d].read = v] => OneSocket(side, d, t.st, v, t.wrote, t.got)
               /\ tcp' = [tcp EXCEPT ![side][d].wrote = v] => OneSocket(side, d, t.st, t.read, v, t.got)
               /\ tcp' = [tcp EXCEPT ![side][d].got = v] => OneSocket(side, d, t.st, t.read, t.wrote, v)
               /\ tcp' = [tcp EXCEPT ![side][d] = NewSocket("open")] => OneSocket(side, d, "open", 0, 0, <<>>)
<1> DEFINE t == tcp[side][d]
<1>1. tcp \in [Side -> [Conn -> Socket]] /\ t \in Socket
  BY DEF TypeOK
<1>2. \A w : tcp' = [tcp EXCEPT ![side][d] = w] =>
        /\ \A s \in Side, c \in Conn : s # side \/ c # d => tcp'[s][c] = tcp[s][c]
        /\ tcp'[side][d] = w
  BY <1>1
<1>3. /\ tcp' = [tcp EXCEPT ![side][d].st = v] => tcp' = [tcp EXCEPT ![side][d] = [t EXCEPT !.st = v]]
      /\ tcp' = [tcp EXCEPT ![side][d].read = v] => tcp' = [tcp EXCEPT ![side][d] = [t EXCEPT !.read = v]]
      /\ tcp' = [tcp EXCEPT ![side][d].wrote = v] => tcp' = [tcp EXCEPT ![side][d] = [t EXCEPT !.wrote = v]]
      /\ tcp' = [tcp EXCEPT ![side][d].got = v] => tcp' = [tcp EXCEPT ![side][d] = [t EXCEPT !.got = v]]
  BY <1>1
<1> HIDE DEF t
<1>4. /\ tcp' = [tcp EXCEPT ![side][d].st = v] => OneSocket(side, d, v, t.read, t.wrote, t.got)
      /\ tcp' = [tcp EXCEPT ![side][d].read = v] => OneSocket(side, d, t.st, v, t.wrote, t.got)
      /\ tcp' = [tcp EXCEPT ![side][d].wrote = v] => OneSocket(side, d, t.st, t.read, v, t.got)
      /\ tcp' = [tcp EXCEPT ![side][d].got = v] => OneSocket(side, d, t.st, t.read, t.wrote, v)
  BY <1>1, <1>2, <1>3 DEF OneSocket, Socket
<1>5. tcp' = [tcp EXCEPT ![side][d] = NewSocket("open")] => OneSocket(side, d, "open", 0, 0, <<>>)
  <2> DEFINE w == NewSocket("open")
  <2>1. w.st = "open" /\ w.read = 0 /\ w.wrote = 0 /\ w.got = <<>>
    BY DEF NewSocket
  <2> HIDE DEF w
  <2>2. tcp' = [tcp EXCEPT ![side][d] = w] => OneSocket(side, d, "open", 0, 0, <<>>)
    BY <1>2, <2>1 DEF OneSocket
  <2> QED BY <2>2 DEF w
<1> QED BY <1>4, <1>5 DEF t

\* Of all map entries, only that of uid u on side changes, to c.
OneEntry(side, u, c) ==
    \A s \in Side, v \in Uid : conns'[s][v] = IF s = side /\ v = u THEN c ELSE conns[s][v]

LEMMA OneEntryUpdate ==
    ASSUME TypeOK, NEW side \in Side, NEW u \in Uid, NEW c, conns' = [conns EXCEPT ![side][u] = c]
    PROVE  OneEntry(side, u, c)
  BY DEF TypeOK, OneEntry

\* The first packet to side is for connection c, which takes it.
Delivered(side, c) ==
    LET p == chan[side][1]
        t == tcp[side][c]
    IN  /\ Takes(side) /\ up[side] = "up" /\ up' = up
        /\ UNCHANGED <<nextUid, uidOf, conns, watched>> /\ SavedKept
        /\ ~p.new /\ p.body # Empty /\ p.body.c = c /\ conns[side][p.uid] = c /\ p.uid = uidOf[c]
        /\ t.st \in {"open", "fin"}
        /\ OneSocket(side, c, t.st, t.read, t.wrote, Append(t.got, p.body))

\* Its peer is gone: the bytes are lost, or the process dies.
Discarded(side, c) ==
    LET p == chan[side][1]
        t == tcp[side][c]
    IN  /\ Takes(side) /\ up[side] = "up"
        /\ up'[Other(side)] = up[Other(side)] /\ up'[side] \in Status
        /\ UNCHANGED <<nextUid, uidOf, conns, watched>> /\ SavedKept
        /\ ~p.new /\ p.body # Empty /\ p.body.c = c /\ conns[side][p.uid] = c /\ p.uid = uidOf[c]
        /\ t.st \in {"gone", "broken", "reset"}
        /\ \E st \in {"gone", "broken", "reset"} : OneSocket(side, c, st, t.read, t.wrote, t.got)

\* The first packet to side is the end of file that closes connection c, known as u.
Ended(side, u, c) ==
    LET p == chan[side][1]
        t == tcp[side][c]
    IN  /\ Takes(side) /\ up[side] = "up" /\ up' = up
        /\ UNCHANGED <<nextUid, uidOf>> /\ SavedKept
        /\ ~p.new /\ p.body = Empty /\ p.uid = u /\ conns[side][u] = c /\ u = uidOf[c]
        /\ watched' = [watched EXCEPT ![side] = @ \ {u}]
        /\ OneEntry(side, u, NoConn)
        /\ OneSocket(side, c, "closed", t.read, t.wrote, t.got)

\* What is in the maps, and what comes for it.
LEMMA MapFacts ==
    ASSUME Base
    PROVE  /\ TypeOK /\ Inv
           /\ \A s \in Side, u \in Uid : conns[s][u] # NoConn => conns[s][u] \in Conn /\ uidOf[conns[s][u]] = u
           /\ \A s \in Side : \A i \in DOMAIN chan[s] :
                /\ chan[s][i] \in Packet /\ chan[s][i].uid \in Uid
                /\ chan[s][i].body # Empty => /\ chan[s][i].body \in Body /\ chan[s][i].body.c \in Conn
                                              /\ uidOf[chan[s][i].body.c] = chan[s][i].uid
                /\ chan[s][i].new => s = "server" /\ chan[s][i].body # Empty
<1>1. TypeOK /\ Inv
  BY DEF Base, DialInv, Inv, Bookkeeping
<1>2. \A s \in Side, u \in Uid : conns[s][u] # NoConn => conns[s][u] \in Conn /\ uidOf[conns[s][u]] = u
  BY <1>1 DEF Inv, TableInv, TypeOK
<1>3. ASSUME NEW s \in Side, NEW i \in DOMAIN chan[s]
      PROVE  /\ chan[s][i] \in Packet /\ chan[s][i].uid \in Uid
             /\ chan[s][i].body # Empty => /\ chan[s][i].body \in Body /\ chan[s][i].body.c \in Conn
                                           /\ uidOf[chan[s][i].body.c] = chan[s][i].uid
             /\ chan[s][i].new => s = "server" /\ chan[s][i].body # Empty
  <2>1. chan[s][i] \in Packet
    BY <1>1, <1>3, PacketType
  <2>2. /\ chan[s][i].new => s = "server" /\ chan[s][i].body \in Body
        /\ chan[s][i].body # Empty => uidOf[chan[s][i].body.c] = chan[s][i].uid
    BY <1>1, <1>3 DEF Inv, PacketInv
  <2>3. \A b \in Body : b.c \in Conn /\ b # Empty
    BY DEF Body, Empty, Conn, NoConn
  <2>4. chan[s][i].uid \in Uid /\ chan[s][i].body \in Body \cup {Empty}
    BY <2>1 DEF Packet
  <2> QED BY <2>1, <2>2, <2>3, <2>4
<1> QED BY <1>1, <1>2, <1>3

\* A packet that is written to a connection.
LEMMA ForwardedView ==
    ASSUME Base, NEW side \in Side, Forwarded(side)
    PROVE  \E c \in Conn : Delivered(side, c) \/ Discarded(side, c)
<1> DEFINE p == chan[side][1]
           c == conns[side][p.uid]
<1>1. /\ TypeOK /\ 1 \in DOMAIN chan[side] /\ p \in Packet /\ p.uid \in Uid /\ p.body # Empty
      /\ p.uid \in Known(side)
  BY MapFacts DEF Forwarded, Takes
<1>2. c \in Conn /\ uidOf[c] = p.uid /\ p.uid # 0
  BY <1>1, MapFacts DEF Known, Uid
<1>3. p.body.c \in Conn /\ uidOf[p.body.c] = p.uid
  BY <1>1, MapFacts
<1>4. p.body.c = c
  BY <1>2, <1>3 DEF Base, UidsDistinct
<1>5. /\ Takes(side) /\ up[side] = "up" /\ UNCHANGED <<nextUid, uidOf, conns, watched>> /\ SavedKept
      /\ ~p.new /\ WriteAll(side, c, p.body)
  BY DEF Forwarded
<1>6. up \in [Side -> Status] /\ Other(side) \in Side /\ Other(side) # side
  BY <1>1 DEF TypeOK, Other, Side
<1> HIDE DEF p, c
<1>7. CASE tcp[side][c].st \in {"open", "fin"} /\ tcp' = [tcp EXCEPT ![side][c].got = Append(@, p.body)] /\ up' = up
  <2>1. OneSocket(side, c, tcp[side][c].st, tcp[side][c].read, tcp[side][c].wrote, Append(tcp[side][c].got, p.body))
    BY <1>1, <1>2, <1>7, OneSocketUpdate
  <2>2. Delivered(side, c)
    BY <1>1, <1>2, <1>4, <1>5, <1>7, <2>1 DEF Delivered, p, c
  <2> QED BY <1>2, <2>2
<1>8. ASSUME NEW st \in {"gone", "broken", "reset"}, tcp[side][c].st \in {"gone", "broken", "reset"},
             tcp' = [tcp EXCEPT ![side][c].st = st], up'[Other(side)] = up[Other(side)], up'[side] \in Status
      PROVE  Discarded(side, c)
  <2>1. OneSocket(side, c, st, tcp[side][c].read, tcp[side][c].wrote, tcp[side][c].got)
    BY <1>1, <1>2, <1>8, OneSocketUpdate
  <2> QED BY <1>1, <1>2, <1>4, <1>5, <1>8, <2>1 DEF Discarded, p, c
<1>9. CASE tcp[side][c].st = "gone" /\ up' = up /\ \E st \in {"gone", "broken"} : tcp' = [tcp EXCEPT ![side][c].st = st]
  BY <1>2, <1>6, <1>8, <1>9
<1>10. CASE tcp[side][c].st \in {"broken", "reset"} /\ tcp' = tcp /\ \E w \in {"sigpipe", "threw"} : up' = [up EXCEPT ![side] = w]
  <2>1. up'[Other(side)] = up[Other(side)] /\ up'[side] \in Status
    BY <1>6, <1>10 DEF Status
  <2>2. tcp[side][c] \in Socket /\ tcp \in [Side -> [Conn -> Socket]]
    BY <1>1, <1>2 DEF TypeOK
  <2>3. OneSocket(side, c, tcp[side][c].st, tcp[side][c].read, tcp[side][c].wrote, tcp[side][c].got)
    BY <1>10 DEF OneSocket
  <2>4. Discarded(side, c)
    BY <1>1, <1>2, <1>4, <1>5, <1>10, <2>1, <2>3 DEF Discarded, p, c
  <2> QED BY <1>2, <2>4
<1> QED BY <1>5, <1>7, <1>9, <1>10 DEF WriteAll

\* A packet that closes its connection.
LEMMA ClosedView ==
    ASSUME Base, NEW side \in Side, Closed(side)
    PROVE  Ignored(side) \/ \E u \in Uid, c \in Conn : Ended(side, u, c)
<1> DEFINE p == chan[side][1]
           u == p.uid
           c == conns[side][u]
<1>1. /\ TypeOK /\ 1 \in DOMAIN chan[side] /\ p \in Packet /\ u \in Uid /\ u \in Known(side)
  BY MapFacts DEF Closed, Takes
<1>2. c \in Conn /\ uidOf[c] = u
  BY <1>1, MapFacts DEF Known
<1>3. /\ Takes(side) /\ up[side] = "up" /\ UNCHANGED <<nextUid, uidOf>> /\ SavedKept
      /\ ~p.new /\ p.body = Empty /\ close_connection(side, u)
  BY DEF Closed
<1>4. up \in [Side -> Status] /\ Other(side) \in Side /\ Other(side) # side
  BY <1>1 DEF TypeOK, Other, Side
<1> HIDE DEF p, u, c
<1>5. CASE u \in watched[side]
  <2>1. /\ watched' = [watched EXCEPT ![side] = @ \ {u}] /\ up' = up
        /\ tcp' = [tcp EXCEPT ![side][c].st = "closed"] /\ conns' = [conns EXCEPT ![side][u] = NoConn]
    BY <1>3, <1>5 DEF close_connection, c
  <2>2. OneSocket(side, c, "closed", tcp[side][c].read, tcp[side][c].wrote, tcp[side][c].got)
    BY <1>1, <1>2, <2>1, OneSocketUpdate
  <2>3. OneEntry(side, u, NoConn)
    BY <1>1, <2>1, OneEntryUpdate
  <2>4. Ended(side, u, c)
    BY <1>1, <1>2, <1>3, <2>1, <2>2, <2>3 DEF Ended, p, u, c
  <2> QED BY <1>1, <1>2, <2>4
<1>6. CASE u \notin watched[side]
  <2>1. up' = [up EXCEPT ![side] = "threw"] /\ UNCHANGED <<watched, tcp, conns>>
    BY <1>3, <1>6 DEF close_connection
  <2> QED BY <1>3, <1>4, <2>1 DEF Ignored
<1> QED BY <1>5, <1>6

\* The first packet to the server announces connection c, and its destination accepts.
DialledTo(c) ==
    LET p == chan["server"][1]
    IN  /\ Takes("server") /\ up["server"] = "up" /\ up' = up
        /\ UNCHANGED <<nextUid, uidOf>> /\ savedAddr' # NoAddr
        /\ p.new /\ p.body.c = c /\ p.uid = uidOf[c] /\ p.uid \notin Known("server")
        /\ tcp["server"][c].st = "none"
        /\ watched' = [watched EXCEPT !["server"] = @ \cup {uidOf[c]}]
        /\ OneEntry("server", uidOf[c], c)
        /\ OneSocket("server", c, "open", 0, 0, <<>>)

\* Connection c is accepted, and announced unless the announcement cannot be sent.
Accepted(c) ==
    /\ up["client"] = "up" /\ up' = up /\ savedAddr' = savedAddr
    /\ uidOf[c] = 0 /\ nextUid \in Uid
    /\ nextUid' = nextUid + 1 /\ uidOf' = [uidOf EXCEPT ![c] = nextUid]
    /\ OneEntry("client", nextUid, c)
    /\ OneSocket("client", c, "open", 0, 0, <<>>)
    /\ chan'["client"] = chan["client"]
    /\ \/ /\ watched' = [watched EXCEPT !["client"] = @ \cup {nextUid}]
          /\ \E q \in Packet : /\ q.new /\ q.uid = nextUid /\ q.body = Destination(c)
                               /\ chan'["server"] = Append(chan["server"], q)
       \/ watched' = watched /\ chan' = chan

\* The next piece of connection c is read, and sent unless the send fails.
Piece(side, u, c) ==
    LET t == tcp[side][c]
    IN  /\ up[side] = "up" /\ u \in watched[side] /\ conns[side][u] = c /\ u = uidOf[c]
        /\ UNCHANGED <<nextUid, uidOf, conns, watched, savedAddr>>
        /\ t.st \notin {"none", "closed"} /\ t.read < t.wrote
        /\ OneSocket(side, c, t.st, t.read + 1, t.wrote, t.got)
        /\ chan'[side] = chan[side]
        /\ \/ /\ up' = up
              /\ \E q \in Packet : /\ ~q.new /\ q.uid = u /\ q.body = Bytes(c, t.read + 1)
                                   /\ chan'[Other(side)] = Append(chan[Other(side)], q)
           \/ chan' = chan /\ up'[side] # "up" /\ up'[Other(side)] = up[Other(side)]

\* The end of file of connection c is read and the connection closed; the other side is told
\* unless the send fails.
EofRead(side, u, c) ==
    LET t == tcp[side][c]
    IN  /\ up[side] = "up" /\ u \in watched[side] /\ conns[side][u] = c /\ u = uidOf[c]
        /\ UNCHANGED <<nextUid, uidOf, savedAddr>>
        /\ t.st \in {"fin", "gone", "broken"} /\ t.read = t.wrote
        /\ watched' = [watched EXCEPT ![side] = @ \ {u}]
        /\ OneEntry(side, u, NoConn)
        /\ OneSocket(side, c, "closed", t.read, t.wrote, t.got)
        /\ chan'[side] = chan[side] /\ up'[Other(side)] = up[Other(side)]
        /\ \/ \E q \in Packet : /\ ~q.new /\ q.uid = u /\ q.body = Empty
                                /\ chan'[Other(side)] = Append(chan[Other(side)], q)
           \/ chan' = chan /\ up'[side] # "up"

\* The TCP peer of an open connection writes, or ends the connection.
PeerMoved(side, c) ==
    LET t == tcp[side][c]
    IN  /\ UNCHANGED <<nextUid, uidOf, up, conns, watched, chan, savedAddr>>
        /\ \/ /\ t.st = "open" /\ t.wrote < MaxChunks
              /\ OneSocket(side, c, t.st, t.read, t.wrote + 1, t.got)
           \/ /\ t.st \in {"open", "fin"}
              /\ \E st \in {"fin", "gone", "broken", "reset"} : OneSocket(side, c, st, t.read, t.wrote, t.got)

LEMMA DialledView ==
    ASSUME Base, Reliable, Dialled
    PROVE  \E c \in Conn : DialledTo(c)
<1> DEFINE p == chan["server"][1]
           c == p.body.c
<1>0. "server" \in Side
  BY DEF Side
<1>1. /\ TypeOK /\ 1 \in DOMAIN chan["server"] /\ p \in Packet /\ p.uid \in Uid /\ p.body # Empty
      /\ c \in Conn /\ uidOf[c] = p.uid
  BY <1>0, MapFacts DEF Dialled, Takes
<1>2. /\ Takes("server") /\ up["server"] = "up" /\ up' = up
      /\ UNCHANGED <<nextUid, uidOf>> /\ savedAddr' = p.addr
      /\ p.new /\ p.uid \notin Known("server")
      /\ conns' = [conns EXCEPT !["server"][p.uid] = c]
      /\ watched' = [watched EXCEPT !["server"] = @ \cup {p.uid}]
      /\ tcp' = [tcp EXCEPT !["server"][c] = NewSocket("open")]
  BY DEF Dialled
<1>3. p.addr # NoAddr
  BY <1>1 DEF Packet, Session, NoAddr
<1>4. dups = 0
  BY <1>1 DEF Reliable, TypeOK
<1>5. tcp["server"][c].st = "none"
  BY <1>1, <1>2, <1>4 DEF Base, DialInv, AnnouncedOnce
<1> HIDE DEF c, p
<1>6. OneSocket("server", c, "open", 0, 0, <<>>)
  BY <1>0, <1>1, <1>2, OneSocketUpdate
<1>7. OneEntry("server", p.uid, c)
  BY <1>0, <1>1, <1>2, OneEntryUpdate
<1>8. DialledTo(c)
  BY <1>1, <1>2, <1>3, <1>5, <1>6, <1>7 DEF DialledTo, p, c
<1> QED BY <1>1, <1>8

LEMMA AcceptedView ==
    ASSUME Base, AcceptConnection
    PROVE  \E c \in Conn : Accepted(c)
<1>0. /\ "client" \in Side /\ TypeOK /\ Other("client") = "server" /\ "client" # "server"
  BY MapFacts DEF Side, Other
<1>1. PICK c \in Conn :
        /\ up["client"] = "up" /\ NextToArrive(c) /\ nextUid <= MaxUid
        /\ conns' = [conns EXCEPT !["client"][nextUid] = c]
        /\ tcp' = [tcp EXCEPT !["client"][c] = NewSocket("open")]
        /\ nextUid' = nextUid + 1
        /\ uidOf' = [uidOf EXCEPT ![c] = nextUid]
        /\ \/ /\ SendWorks("client")
              /\ chan' = Transmit("client", TRUE, nextUid, Destination(c))
              /\ watched' = [watched EXCEPT !["client"] = @ \cup {nextUid}]
              /\ udpErr' = udpErr
           \/ /\ SendThrows("client")
              /\ udpErr' = FALSE
              /\ UNCHANGED <<chan, watched>>
        /\ UNCHANGED <<session, up, savedAddr, dups>>
  BY DEF AcceptConnection
<1>2. nextUid \in Uid /\ uidOf[c] = 0
  BY <1>0, <1>1 DEF TypeOK, Uid, NextToArrive
<1>3. OneSocket("client", c, "open", 0, 0, <<>>)
  BY <1>0, <1>1, OneSocketUpdate
<1>4. OneEntry("client", nextUid, c)
  BY <1>0, <1>1, <1>2, OneEntryUpdate
<1>5. CASE chan' = Transmit("client", TRUE, nextUid, Destination(c)) /\ watched' = [watched EXCEPT !["client"] = @ \cup {nextUid}]
  <2>1. Destination(c) \in Body \cup {Empty} /\ TRUE \in BOOLEAN
    BY ConstantsAssumption DEF Destination, Body
  <2>2. SentTo("client", TRUE, nextUid, Destination(c), chan')
    BY <1>0, <1>2, <1>5, <2>1, TransmitTo
  <2>3. /\ chan'["client"] = chan["client"]
        /\ \E q \in Packet : /\ q.new /\ q.uid = nextUid /\ q.body = Destination(c)
                             /\ chan'["server"] = Append(chan["server"], q)
    BY <1>0, <2>2 DEF SentTo
  <2>4. Accepted(c)
    BY <1>1, <1>2, <1>3, <1>4, <1>5, <2>3 DEF Accepted
  <2> QED BY <2>4
<1>6. CASE chan' = chan /\ watched' = watched
  <2>1. Accepted(c)
    BY <1>1, <1>2, <1>3, <1>4, <1>6 DEF Accepted
  <2> QED BY <2>1
<1> QED BY <1>1, <1>5, <1>6

\* What a splitter holds and reads from.
LEMMA HeldFacts ==
    ASSUME Base, PathInv, NEW side \in Side, NEW uid \in Uid, Dispatchable(side, uid)
    PROVE  LET c == conns[side][uid]
           IN  /\ c \in Conn /\ uid = uidOf[c] /\ tcp[side][c] \in Socket
               /\ tcp[side][c].st \notin {"none", "closed"} /\ uid \in watched[side] /\ up[side] = "up"
               /\ ~(side = "server" /\ savedAddr = NoAddr)
<1> DEFINE c == conns[side][uid]
<1>1. uid \in watched[side] /\ up[side] = "up"
  BY DEF Dispatchable
<1>2. uid \in Known(side)
  BY <1>1 DEF Base, DialInv, Inv, Bookkeeping, AllWatched, Side
<1>3. c # NoConn
  BY <1>2 DEF Known
<1>4. c \in Conn /\ uid = uidOf[c]
  BY <1>3, MapFacts
<1>5. tcp[side][c].st \notin {"none", "closed"}
  BY <1>3 DEF PathInv, SocketsMapped
<1>6. ~(side = "server" /\ savedAddr = NoAddr)
  BY <1>4, <1>5 DEF PathInv, SocketsBorn
<1>7. tcp[side][c] \in Socket
  BY <1>4, MapFacts DEF TypeOK
<1> QED BY <1>1, <1>4, <1>5, <1>6, <1>7

LEMMA PieceView ==
    ASSUME Base, PathInv, NEW side \in Side, NEW uid \in Uid, ReadBytes(side, uid)
    PROVE  \E c \in Conn : Piece(side, uid, c)
<1> DEFINE c == conns[side][uid]
           t == tcp[side][c]
<1>0. TypeOK /\ Other(side) \in Side /\ Other(side) # side /\ up \in [Side -> Status]
  BY MapFacts DEF Side, Other, TypeOK
<1>1. /\ c \in Conn /\ uid = uidOf[c] /\ t \in Socket
      /\ t.st \notin {"none", "closed"} /\ uid \in watched[side] /\ up[side] = "up"
      /\ ~(side = "server" /\ savedAddr = NoAddr)
  BY HeldFacts DEF ReadBytes
<1>2. /\ t.read < t.wrote
      /\ tcp' = [tcp EXCEPT ![side][c].read = @ + 1]
      /\ \/ /\ SendWorks(side)
            /\ chan' = Transmit(side, FALSE, uid, Bytes(c, t.read + 1))
            /\ UNCHANGED <<up, udpErr>>
         \/ /\ SendThrows(side)
            /\ up' = [up EXCEPT ![side] = "threw"]
            /\ udpErr' = ErrorReported(side)
            /\ chan' = chan
      /\ UNCHANGED <<session, nextUid, uidOf, conns, watched, savedAddr, dups>>
  BY DEF ReadBytes
<1>3. t.read + 1 \in 0 .. MaxChunks
  BY <1>1, <1>2, ConstantsAssumption DEF Socket
<1>4. conns[side][uid] = c
  OBVIOUS
<1> HIDE DEF c
<1>5. OneSocket(side, c, t.st, t.read + 1, t.wrote, t.got)
  BY <1>0, <1>1, <1>2, OneSocketUpdate
<1> HIDE DEF t
<1>6. CASE chan' = Transmit(side, FALSE, uid, Bytes(c, t.read + 1)) /\ up' = up
  <2>1. Bytes(c, t.read + 1) \in Body \cup {Empty} /\ FALSE \in BOOLEAN
    BY <1>1, <1>3 DEF Bytes, Body
  <2>2. SentTo(side, FALSE, uid, Bytes(c, t.read + 1), chan')
    BY <1>0, <1>6, <2>1, TransmitTo
  <2>3. /\ chan'[side] = chan[side]
        /\ \E q \in Packet : /\ ~q.new /\ q.uid = uid /\ q.body = Bytes(c, t.read + 1)
                             /\ chan'[Other(side)] = Append(chan[Other(side)], q)
    BY <1>0, <1>1, <2>2 DEF SentTo
  <2>4. Piece(side, uid, c)
    BY <1>1, <1>2, <1>4, <1>5, <1>6, <2>3 DEF Piece, t
  <2> QED BY <1>1, <2>4
<1>7. CASE up' = [up EXCEPT ![side] = "threw"] /\ chan' = chan
  <2>1. up'[side] # "up" /\ up'[Other(side)] = up[Other(side)]
    BY <1>0, <1>7
  <2>2. Piece(side, uid, c)
    BY <1>1, <1>2, <1>4, <1>5, <1>7, <2>1 DEF Piece, t
  <2> QED BY <1>1, <2>2
<1> QED BY <1>2, <1>6, <1>7

LEMMA EofView ==
    ASSUME Base, PathInv, NEW side \in Side, NEW uid \in Uid, ReadEof(side, uid)
    PROVE  \E c \in Conn : EofRead(side, uid, c)
<1> DEFINE c == conns[side][uid]
           t == tcp[side][c]
<1>0. TypeOK /\ Other(side) \in Side /\ Other(side) # side /\ up \in [Side -> Status]
  BY MapFacts DEF Side, Other, TypeOK
<1>1. /\ c \in Conn /\ uid = uidOf[c] /\ t \in Socket
      /\ uid \in watched[side] /\ up[side] = "up"
      /\ ~(side = "server" /\ savedAddr = NoAddr)
  BY HeldFacts DEF ReadEof
<1>2. /\ t.st \in {"fin", "gone", "broken"} /\ t.read = t.wrote
      /\ tcp' = [tcp EXCEPT ![side][c].st = "closed"]
      /\ watched' = [watched EXCEPT ![side] = @ \ {uid}]
      /\ conns' = [conns EXCEPT ![side][uid] = NoConn]
      /\ \/ /\ chan' = Transmit(side, FALSE, uid, Empty)
            /\ \E busy \in {"up", "threw"} : up' = [up EXCEPT ![side] = busy]
         \/ /\ up' = [up EXCEPT ![side] = "threw"]
            /\ chan' = chan
      /\ UNCHANGED <<nextUid, uidOf, savedAddr>>
  BY DEF ReadEof
<1>4. conns[side][uid] = c
  OBVIOUS
<1> HIDE DEF c
<1>5. OneSocket(side, c, "closed", t.read, t.wrote, t.got)
  BY <1>0, <1>1, <1>2, OneSocketUpdate
<1>6. OneEntry(side, uid, NoConn)
  BY <1>0, <1>2, OneEntryUpdate
<1> HIDE DEF t
<1>7. up'[Other(side)] = up[Other(side)]
  BY <1>0, <1>2
<1>8. CASE chan' = Transmit(side, FALSE, uid, Empty)
  <2>1. SentTo(side, FALSE, uid, Empty, chan')
    BY <1>0, <1>8, TransmitTo
  <2>2. /\ chan'[side] = chan[side]
        /\ \E q \in Packet : /\ ~q.new /\ q.uid = uid /\ q.body = Empty
                             /\ chan'[Other(side)] = Append(chan[Other(side)], q)
    BY <1>0, <1>1, <2>1 DEF SentTo
  <2>3. EofRead(side, uid, c)
    BY <1>1, <1>2, <1>4, <1>5, <1>6, <1>7, <2>2 DEF EofRead, t
  <2> QED BY <1>1, <2>3
<1>9. CASE up' = [up EXCEPT ![side] = "threw"] /\ chan' = chan
  <2>1. up'[side] # "up"
    BY <1>0, <1>9
  <2>2. EofRead(side, uid, c)
    BY <1>1, <1>2, <1>4, <1>5, <1>6, <1>7, <1>9, <2>1 DEF EofRead, t
  <2> QED BY <1>1, <2>2
<1> QED BY <1>2, <1>8, <1>9

LEMMA PeerView ==
    ASSUME TypeOK, NEW side \in Side, PeerAction(side)
    PROVE  \E c \in Conn : PeerMoved(side, c)
<1>1. PICK c \in Conn : PeerWrites(side, c) \/ PeerShutsDown(side, c) \/ PeerCloses(side, c) \/ PeerResets(side, c)
  BY DEF PeerAction
<1>2. CASE PeerWrites(side, c)
  <2>1. OneSocket(side, c, tcp[side][c].st, tcp[side][c].read, tcp[side][c].wrote + 1, tcp[side][c].got)
    BY <1>2, OneSocketUpdate DEF PeerWrites
  <2> QED BY <1>2, <2>1 DEF PeerWrites, PeerMoved
<1>3. CASE \E from \in {"open", "fin"}, st \in {"fin", "gone", "broken", "reset"} : PeerStep(side, c, from, st)
  <2>1. PICK from \in {"open", "fin"}, st \in {"fin", "gone", "broken", "reset"} : PeerStep(side, c, from, st)
    BY <1>3
  <2>2. OneSocket(side, c, st, tcp[side][c].read, tcp[side][c].wrote, tcp[side][c].got)
    BY <2>1, OneSocketUpdate DEF PeerStep
  <2> QED BY <2>1, <2>2 DEF PeerStep, PeerMoved
<1>4. CASE PeerShutsDown(side, c) \/ PeerCloses(side, c) \/ PeerResets(side, c)
  BY <1>3, <1>4 DEF PeerShutsDown, PeerCloses, PeerResets
<1> QED BY <1>1, <1>2, <1>4

\* Every step is one of these.
Step ==
    \/ \E side \in Side : Ignored(side)
    \/ \E side \in Side, c \in Conn : Delivered(side, c) \/ Discarded(side, c) \/ PeerMoved(side, c)
    \/ \E side \in Side, u \in Uid, c \in Conn : Ended(side, u, c) \/ Piece(side, u, c) \/ EofRead(side, u, c)
    \/ \E c \in Conn : DialledTo(c) \/ Accepted(c)
    \/ Refused \/ Quiet

LEMMA Steps ==
    ASSUME Base, PathInv, Reliable, OneSession, Next
    PROVE  Step
<1>1. CASE \E side \in Side : Ignored(side) \/ Forwarded(side) \/ Closed(side)
  BY <1>1, ForwardedView, ClosedView DEF Step
<1>2. CASE Dialled
  BY <1>2, DialledView DEF Step
<1>3. CASE AcceptConnection
  BY <1>3, AcceptedView DEF Step
<1>4. CASE \E side \in Side, uid \in Uid : ReadBytes(side, uid) \/ ReadEof(side, uid)
  BY <1>4, PieceView, EofView DEF Step
<1>5. CASE \E side \in Side : PeerAction(side)
  BY <1>5, MapFacts, PeerView DEF Step
<1> QED BY <1>1, <1>2, <1>3, <1>4, <1>5, StepKinds DEF Step

-----------------------------------------------------------------------------
(* What a step does to the pieces of one connection.                       *)

\* A socket that does not begin to take bytes.
SocketLater(s, c) ==
    /\ tcp'[s][c].st \in {"open", "fin"} => tcp[s][c].st \in {"open", "fin"}
    /\ tcp'[s][c].st = "none" <=> tcp[s][c].st = "none"

UpLater == \A s \in Side : up'[s] = "up" => up[s] = "up"

\* Nothing of connection c is sent to side s, and nothing that it awaits is taken.
OtherTraffic(s, c) ==
    \/ chan'[s] = chan[s]
    \/ /\ 1 \in DOMAIN chan[s] /\ chan'[s] = RemoveAt(chan[s], 1)
       /\ chan[s][1].body.c # c \/ ~Awaits(s, c)'
    \/ \E q \in Packet : /\ chan'[s] = Append(chan[s], q) /\ q.body.c # c
                         /\ q.body = Empty /\ q.uid = uidOf[c] => up[Other(s)] = "up"

\* The numbers of a flow.
LEMMA FlowTypes ==
    ASSUME TypeOK, NEW s \in Side, NEW c \in Conn
    PROVE  /\ Other(s) \in Side /\ Other(s) # s /\ Other(Other(s)) = s
           /\ Expect(s, c) \in Nat /\ Len(tcp[s][c].got) \in Nat /\ tcp[Other(s)][c].read \in Nat
           /\ Expect(s, c) <= Len(tcp[s][c].got) + 1
           /\ chan[s] \in Seq(Packet) /\ tcp[s][c] \in Socket /\ tcp[Other(s)][c] \in Socket
<1>1. Other(s) \in Side /\ Other(s) # s /\ Other(Other(s)) = s
  BY DEF Other, Side
<1>2. chan[s] \in Seq(Packet) /\ tcp[s][c] \in Socket /\ tcp[Other(s)][c] \in Socket
  BY <1>1 DEF TypeOK
<1>3. tcp[Other(s)][c].read \in Nat
  BY <1>2, ConstantsAssumption DEF Socket
<1>4. Len(tcp[s][c].got) \in Nat
  <2>1. tcp[s][c].got \in Seq(Body)
    BY <1>2 DEF Socket
  <2> QED BY <2>1
<1> QED BY <1>1, <1>2, <1>3, <1>4 DEF Expect

\* No packet, no piece, no end of file appears when a packet is taken.
LEMMA TakenOrigin ==
    ASSUME TypeOK, NEW s \in Side, 1 \in DOMAIN chan[s], chan'[s] = RemoveAt(chan[s], 1)
    PROVE  \A i \in DOMAIN chan'[s] : \E j \in DOMAIN chan[s] : j # 1 /\ chan'[s][i] = chan[s][j]
<1>1. chan[s] \in Seq(Packet)
  BY DEF TypeOK
<1>2. \A j \in DOMAIN chan'[s] : j \in Nat /\ j + 1 \in DOMAIN chan[s] /\ chan'[s][j] = chan[s][j + 1]
  BY <1>1, TakeFirst
<1>3. 0 \notin DOMAIN chan'[s]
  BY <1>1, TakeFirst
<1>4. \A j \in Nat : j + 1 = 1 => j = 0
  OBVIOUS
<1> QED BY <1>2, <1>3, <1>4

\* One packet more when one is sent.
LEMMA SentOrigin ==
    ASSUME TypeOK, NEW s \in Side, NEW q \in Packet, chan'[s] = Append(chan[s], q)
    PROVE  /\ \A i \in DOMAIN chan'[s] : (i \in DOMAIN chan[s] /\ chan'[s][i] = chan[s][i])
                                            \/ (chan'[s][i] = q /\ i = Len(chan[s]) + 1)
           /\ \A i \in DOMAIN chan[s] : i \in DOMAIN chan'[s] /\ chan'[s][i] = chan[s][i] /\ i < Len(chan[s]) + 1
           /\ Len(chan[s]) + 1 \in DOMAIN chan'[s] /\ chan'[s][Len(chan[s]) + 1] = q
<1>1. chan[s] \in Seq(Packet)
  BY DEF TypeOK
<1> QED BY <1>1, SendLast

\* Other traffic leaves the flow as it is.
LEMMA FlowStable ==
    ASSUME TypeOK, NEW s \in Side, NEW c \in Conn, Flow(s, c), UpLater,
           SocketLater(s, c), tcp'[s][c].got = tcp[s][c].got,
           tcp'[Other(s)][c].read = tcp[Other(s)][c].read, uidOf'[c] = uidOf[c],
           OtherTraffic(s, c)
    PROVE  Flow(s, c)'
<1> DEFINE e == Expect(s, c)
           r == tcp[Other(s)][c].read
<1>0. /\ Other(s) \in Side /\ e \in Nat /\ r \in Nat /\ chan[s] \in Seq(Packet)
  BY FlowTypes
<1>1. Expect(s, c)' = e
  BY DEF Expect, SocketLater
<1>2. /\ \A i \in DOMAIN chan'[s] : \/ \E j \in DOMAIN chan[s] : chan'[s][i] = chan[s][j]
                                    \/ /\ chan'[s][i].body.c # c
                                       /\ chan'[s][i].body = Empty /\ chan'[s][i].uid = uidOf[c] => up[Other(s)] = "up"
  BY TakenOrigin, SentOrigin DEF OtherTraffic
<1>3. Awaits(s, c)' => Awaits(s, c)
  <2>1. s = "server" /\ Announced(c)' => Announced(c)
    BY <1>2 DEF Announced
  <2> QED BY <2>1 DEF Awaits, SocketLater, UpLater
<1>4. up'[Other(s)] = "up" \/ Ends(s, uidOf[c])' => up[Other(s)] = "up" \/ Ends(s, uidOf[c])
  BY <1>0, <1>2 DEF Ends, UpLater
<1>5. /\ Rising(chan[s], c, r) /\ Len(tcp[s][c].got) <= r
      /\ Awaits(s, c) => Gapless(chan[s], c, e)
      /\ Awaits(s, c) /\ (up[Other(s)] = "up" \/ Ends(s, uidOf[c])) => Complete(chan[s], c, e, r)
  BY DEF Flow
<1> HIDE DEF e, r
<1>6. /\ Rising(chan'[s], c, r)
      /\ Awaits(s, c)' /\ Gapless(chan[s], c, e) => Gapless(chan'[s], c, e)
      /\ Awaits(s, c)' /\ Complete(chan[s], c, e, r) => Complete(chan'[s], c, e, r)
  <2>1. CASE chan'[s] = chan[s]
    BY <1>5, <2>1
  <2>2. CASE 1 \in DOMAIN chan[s] /\ chan'[s] = RemoveAt(chan[s], 1) /\ (chan[s][1].body.c # c \/ ~Awaits(s, c)')
    BY <1>0, <1>5, <2>2, TakeRising, TakeOther
  <2>3. CASE \E q \in Packet : chan'[s] = Append(chan[s], q) /\ q.body.c # c
    BY <1>0, <1>5, <2>3, SendOther
  <2> QED BY <2>1, <2>2, <2>3 DEF OtherTraffic
<1>7. /\ Rising(chan[s], c, tcp[Other(s)][c].read)'
      /\ Len(tcp[s][c].got)' <= tcp'[Other(s)][c].read
  BY <1>5, <1>6 DEF r
<1>8. Awaits(s, c)' => Gapless(chan[s], c, Expect(s, c))'
  BY <1>1, <1>3, <1>5, <1>6
<1>9. Awaits(s, c)' /\ (up'[Other(s)] = "up" \/ Ends(s, uidOf[c])') =>
            Complete(chan[s], c, Expect(s, c), tcp[Other(s)][c].read)'
  BY <1>1, <1>3, <1>4, <1>5, <1>6 DEF r
<1> QED BY <1>7, <1>8, <1>9 DEF Flow

\* The piece that is awaited arrives, or the announcement.
LEMMA FlowNext ==
    ASSUME TypeOK, NEW s \in Side, NEW c \in Conn, Flow(s, c), UpLater,
           1 \in DOMAIN chan[s], chan'[s] = RemoveAt(chan[s], 1), chan[s][1].body.c = c, Awaits(s, c),
           Expect(s, c)' = Expect(s, c) + 1, Len(tcp'[s][c].got) <= tcp[Other(s)][c].read,
           tcp'[Other(s)][c].read = tcp[Other(s)][c].read, uidOf'[c] = uidOf[c]
    PROVE  Flow(s, c)'
<1> DEFINE e == Expect(s, c)
           r == tcp[Other(s)][c].read
<1>0. /\ Other(s) \in Side /\ e \in Nat /\ r \in Nat /\ chan[s] \in Seq(Packet)
  BY FlowTypes
<1>1. \A i \in DOMAIN chan'[s] : \E j \in DOMAIN chan[s] : chan'[s][i] = chan[s][j]
  BY TakenOrigin
<1>2. up'[Other(s)] = "up" \/ Ends(s, uidOf[c])' => up[Other(s)] = "up" \/ Ends(s, uidOf[c])
  BY <1>0, <1>1 DEF Ends, UpLater
<1>3. /\ Rising(chan[s], c, r) /\ Gapless(chan[s], c, e)
      /\ up[Other(s)] = "up" \/ Ends(s, uidOf[c]) => Complete(chan[s], c, e, r)
  BY DEF Flow
<1> HIDE DEF e, r
<1>4. /\ Rising(chan'[s], c, r) /\ Gapless(chan'[s], c, e + 1)
      /\ Complete(chan[s], c, e, r) => Complete(chan'[s], c, e + 1, r)
  BY <1>0, <1>3, TakeRising, TakePiece
<1>5. /\ Rising(chan[s], c, tcp[Other(s)][c].read)'
      /\ Len(tcp[s][c].got)' <= tcp'[Other(s)][c].read
      /\ Gapless(chan[s], c, Expect(s, c))'
  BY <1>4 DEF e, r
<1>6. up'[Other(s)] = "up" \/ Ends(s, uidOf[c])' => Complete(chan[s], c, Expect(s, c), tcp[Other(s)][c].read)'
  BY <1>2, <1>3, <1>4 DEF e, r
<1> QED BY <1>5, <1>6 DEF Flow

\* The next piece is sent.
LEMMA FlowSent ==
    ASSUME TypeOK, NEW s \in Side, NEW c \in Conn, Flow(s, c), UpLater, up[Other(s)] = "up",
           NEW q \in Packet, chan'[s] = Append(chan[s], q), ~q.new,
           q.body = Bytes(c, tcp[Other(s)][c].read + 1),
           tcp'[s][c] = tcp[s][c], tcp'[Other(s)][c].read = tcp[Other(s)][c].read + 1
    PROVE  Flow(s, c)'
<1> DEFINE e == Expect(s, c)
           r == tcp[Other(s)][c].read
           n == Len(tcp[s][c].got)
<1>0. /\ e \in Nat /\ r \in Nat /\ n \in Nat /\ e <= n + 1 /\ chan[s] \in Seq(Packet)
  BY FlowTypes
<1>1. Expect(s, c)' = e /\ q.body.c = c /\ q.body.k = r + 1
  BY DEF Expect, Bytes
<1>2. Awaits(s, c)' => Awaits(s, c)
  <2>1. \A i \in DOMAIN chan'[s] : chan'[s][i].new => \E j \in DOMAIN chan[s] : chan'[s][i] = chan[s][j]
    BY SentOrigin
  <2>2. s = "server" /\ Announced(c)' => Announced(c)
    BY <2>1 DEF Announced
  <2> QED BY <2>2 DEF Awaits, UpLater
<1>3. /\ Rising(chan[s], c, r) /\ n <= r
      /\ Awaits(s, c) => Gapless(chan[s], c, e) /\ Complete(chan[s], c, e, r)
  BY DEF Flow
<1> HIDE DEF e, r, n
<1>4. e <= r + 1 /\ n <= r + 1
  BY <1>0, <1>3
<1>5. /\ Rising(chan'[s], c, r + 1)
      /\ Awaits(s, c)' => Gapless(chan'[s], c, e) /\ Complete(chan'[s], c, e, r + 1)
  BY <1>0, <1>1, <1>2, <1>3, <1>4, SendPiece
<1>6. /\ Rising(chan[s], c, tcp[Other(s)][c].read)'
      /\ Len(tcp[s][c].got)' <= tcp'[Other(s)][c].read
  BY <1>4, <1>5 DEF n, r
<1>7. Awaits(s, c)' => Gapless(chan[s], c, Expect(s, c))' /\ Complete(chan[s], c, Expect(s, c), tcp[Other(s)][c].read)'
  BY <1>1, <1>5 DEF r
<1> QED BY <1>6, <1>7 DEF Flow

\* The next piece is lost, and its sender with it.
LEMMA FlowLost ==
    ASSUME TypeOK, NEW s \in Side, NEW c \in Conn, Flow(s, c), UpLater, up'[Other(s)] # "up",
           ~Ends(s, uidOf[c]), chan'[s] = chan[s], uidOf' = uidOf,
           tcp'[s][c] = tcp[s][c], tcp'[Other(s)][c].read = tcp[Other(s)][c].read + 1
    PROVE  Flow(s, c)'
<1> DEFINE e == Expect(s, c)
           r == tcp[Other(s)][c].read
           n == Len(tcp[s][c].got)
<1>0. /\ r \in Nat /\ n \in Nat /\ chan[s] \in Seq(Packet)
  BY FlowTypes
<1>1. Expect(s, c)' = e
  BY DEF Expect
<1>2. Awaits(s, c)' => Awaits(s, c)
  <2>1. s = "server" /\ Announced(c)' => Announced(c)
    BY DEF Announced
  <2> QED BY <2>1 DEF Awaits, UpLater
<1>3. /\ Rising(chan[s], c, r) /\ n <= r
      /\ Awaits(s, c) => Gapless(chan[s], c, e)
  BY DEF Flow
<1>4. ~(up'[Other(s)] = "up" \/ Ends(s, uidOf[c])')
  BY DEF Ends
<1>5. \A i \in DOMAIN chan[s] : chan[s][i].body.k \in Nat
  BY <1>0, BodyFields
<1> HIDE DEF e, r, n
<1>6. Rising(chan[s], c, r + 1) /\ n <= r + 1
  BY <1>0, <1>3, <1>5 DEF Rising
<1>7. /\ Rising(chan[s], c, tcp[Other(s)][c].read)'
      /\ Len(tcp[s][c].got)' <= tcp'[Other(s)][c].read
  BY <1>6 DEF n, r
<1>8. Awaits(s, c)' => Gapless(chan[s], c, Expect(s, c))'
  BY <1>1, <1>2, <1>3
<1> QED BY <1>4, <1>7, <1>8 DEF Flow

\* A connection is accepted, of which nothing is on its way but its announcement, if that was sent.
LEMMA FlowBegun ==
    ASSUME TypeOK, NEW s \in Side, NEW c \in Conn, \A i \in DOMAIN chan[s] : chan[s][i].body.c # c,
           tcp'[Other(s)][c].read = 0, tcp'[s][c].got = <<>>,
           tcp'[s][c].st = IF s = "client" THEN "open" ELSE "none",
           \/ chan'[s] = chan[s]
           \/ s = "server" /\ \E q \in Packet : q.body = Destination(c) /\ chan'[s] = Append(chan[s], q)
    PROVE  Flow(s, c)'
<1>0. chan[s] \in Seq(Packet) /\ Len(tcp'[s][c].got) = 0
  BY FlowTypes
<1>1. Expect(s, c)' = IF s = "client" THEN 1 ELSE 0
  BY DEF Expect
<1>2. CASE chan'[s] = chan[s]
  <2>1. Rising(chan'[s], c, 0) /\ Gapless(chan'[s], c, 1) /\ Complete(chan'[s], c, 1, 0)
    BY <1>2 DEF Rising, Gapless, Complete
  <2>2. s # "client" => ~Awaits(s, c)'
    BY <1>2 DEF Awaits, Announced, Side
  <2> QED BY <1>0, <1>1, <2>1, <2>2 DEF Flow
<1>3. CASE s = "server" /\ \E q \in Packet : q.body = Destination(c) /\ chan'[s] = Append(chan[s], q)
  <2>1. PICK q \in Packet : q.body = Destination(c) /\ chan'[s] = Append(chan[s], q)
    BY <1>3
  <2>2. q.body.c = c /\ q.body.k = 0
    BY <2>1 DEF Destination
  <2>3. Rising(chan'[s], c, 0) /\ Gapless(chan'[s], c, 0) /\ Complete(chan'[s], c, 0, 0)
    BY <1>0, <2>1, <2>2, SendFirst
  <2> QED BY <1>0, <1>1, <1>3, <2>3 DEF Flow
<1> QED BY <1>2, <1>3

-----------------------------------------------------------------------------
(* Every step keeps the flows.                                             *)

LEMMA TakesAt ==
    ASSUME TypeOK, NEW side \in Side, Takes(side)
    PROVE  /\ 1 \in DOMAIN chan[side] /\ chan'[side] = RemoveAt(chan[side], 1)
           /\ chan'[Other(side)] = chan[Other(side)]
           /\ \A s \in Side : s = side \/ s = Other(side)
  BY ConsumedAt DEF Takes, Other, Side

\* The steps in which no socket begins to take bytes and none is read or written.
SocketsLater == \A s \in Side, c \in Conn : /\ SocketLater(s, c) /\ tcp'[s][c].got = tcp[s][c].got
                                           /\ tcp'[s][c].read = tcp[s][c].read

LEMMA OneSocketLater ==
    ASSUME NEW side \in Side, NEW d \in Conn, NEW st, NEW wrote,
           OneSocket(side, d, st, tcp[side][d].read, wrote, tcp[side][d].got),
           st # "none", tcp[side][d].st # "none", st \in {"open", "fin"} => tcp[side][d].st \in {"open", "fin"}
    PROVE  SocketsLater
<1> SUFFICES ASSUME NEW s \in Side, NEW c \in Conn
             PROVE  SocketLater(s, c) /\ tcp'[s][c].got = tcp[s][c].got /\ tcp'[s][c].read = tcp[s][c].read
  BY DEF SocketsLater
<1>1. CASE s = side /\ c = d
  BY <1>1 DEF OneSocket, SocketLater
<1>2. CASE s # side \/ c # d
  BY <1>2 DEF OneSocket, SocketLater
<1> QED BY <1>1, <1>2

\* A step that takes the first packet to side, which nobody awaits.
LEMMA FlowsTaken ==
    ASSUME TypeOK, Flows, NEW side \in Side, Takes(side), SocketsLater, UpLater, uidOf' = uidOf,
           \A c \in Conn : chan[side][1].body.c # c \/ ~Awaits(side, c)'
    PROVE  Flows'
<1> SUFFICES ASSUME NEW s \in Side, NEW c \in Conn PROVE Flow(s, c)'
  BY DEF Flows
<1>1. OtherTraffic(s, c)
  BY TakesAt DEF OtherTraffic
<1>2. Other(s) \in Side
  BY FlowTypes
<1> QED BY <1>1, <1>2, FlowStable DEF Flows, SocketsLater

LEMMA FlowsIgnored ==
    ASSUME Base, PathInv, NEW side \in Side, Ignored(side)
    PROVE  Flows'
<1> DEFINE p == chan[side][1]
<1>1. /\ TypeOK /\ Takes(side) /\ UNCHANGED <<uidOf, conns, tcp>>
      /\ up'[Other(side)] = up[Other(side)]
      /\ up'[side] = "up" => up[side] = "up" /\ ~p.new /\ p.uid \notin Known(side)
  BY MapFacts DEF Ignored
<1>2. SocketsLater
  BY <1>1 DEF SocketsLater, SocketLater
<1>3. UpLater
  BY <1>1, TakesAt DEF UpLater
<1>4. ASSUME NEW c \in Conn, p.body.c = c, Awaits(side, c)' PROVE FALSE
  <2>0. 1 \in DOMAIN chan[side] /\ chan[side] \in Seq(Packet) /\ p \in Packet
    BY <1>1, MapFacts DEF Takes, TypeOK
  <2>1. p.body # Empty /\ p.uid = uidOf[c] /\ uidOf[c] \in Uid /\ p.body.k \in Nat
    BY <1>4, <2>0, MapFacts, BodyFields
  <2>2. uidOf[c] \notin Known(side)
    BY <1>1, <1>4, <2>1 DEF Awaits
  <2>3. CASE tcp[side][c].st \in {"open", "fin"}
    BY <2>1, <2>2, <2>3 DEF PathInv, SocketsMapped, Known, Conn, NoConn
  <2>4. CASE side = "server" /\ Announced(c)'
    <3>1. PICK i \in DOMAIN chan'[side] : chan'[side][i].new /\ chan'[side][i].body.c = c
      BY <2>4 DEF Announced
    <3>2. i \in Nat /\ i + 1 \in DOMAIN chan[side] /\ chan'[side][i] = chan[side][i + 1] /\ 1 < i + 1
      <4>1. chan'[side] = RemoveAt(chan[side], 1)
        BY <1>1, TakesAt
      <4>2. i \in Nat /\ i + 1 \in DOMAIN chan[side] /\ chan'[side][i] = chan[side][i + 1] /\ 0 \notin DOMAIN chan'[side]
        BY <2>0, <4>1, TakeFirst
      <4> QED BY <4>2
    <3>3. chan[side][i + 1].body # Empty /\ chan[side][i + 1] \in Packet
      BY <3>1, <3>2, MapFacts
    <3>4. chan[side][i + 1].body.k = 0
      BY <3>1, <3>2, <3>3 DEF PathInv, PacketsKnown
    <3>5. p.body.k < chan[side][i + 1].body.k
      BY <1>4, <2>0, <3>1, <3>2 DEF PathInv, Flows, Flow, Rising
    <3> QED BY <2>1, <3>4, <3>5
  <2> QED BY <1>1, <1>4, <2>3, <2>4 DEF Awaits
<1> QED BY <1>1, <1>2, <1>3, <1>4, FlowsTaken DEF PathInv

LEMMA FlowsDiscarded ==
    ASSUME Base, PathInv, NEW side \in Side, NEW d \in Conn, Discarded(side, d)
    PROVE  Flows'
<1>1. PICK st \in {"gone", "broken", "reset"} :
        OneSocket(side, d, st, tcp[side][d].read, tcp[side][d].wrote, tcp[side][d].got)
  BY DEF Discarded
<1>2. /\ TypeOK /\ Takes(side) /\ uidOf' = uidOf /\ up[side] = "up" /\ up'[Other(side)] = up[Other(side)]
      /\ chan[side][1].body.c = d /\ tcp[side][d].st \in {"gone", "broken", "reset"}
  BY MapFacts DEF Discarded
<1>3. SocketsLater
  BY <1>1, <1>2, OneSocketLater
<1>4. UpLater
  BY <1>2, TakesAt DEF UpLater
<1>5. \A c \in Conn : chan[side][1].body.c # c \/ ~Awaits(side, c)'
  BY <1>1, <1>2 DEF Awaits, OneSocket
<1> QED BY <1>2, <1>3, <1>4, <1>5, FlowsTaken DEF PathInv

LEMMA FlowsEnded ==
    ASSUME Base, PathInv, NEW side \in Side, NEW u \in Uid, NEW d \in Conn, Ended(side, u, d)
    PROVE  Flows'
<1>1. /\ OneSocket(side, d, "closed", tcp[side][d].read, tcp[side][d].wrote, tcp[side][d].got)
      /\ TypeOK /\ Takes(side) /\ uidOf' = uidOf /\ up' = up /\ chan[side][1].body = Empty
      /\ conns[side][u] = d
  BY MapFacts DEF Ended
<1>2. tcp[side][d].st # "none"
  BY <1>1 DEF PathInv, SocketsMapped, Conn, NoConn
<1>3. SocketsLater
  BY <1>1, <1>2, OneSocketLater
<1>4. \A c \in Conn : chan[side][1].body.c # c
  BY <1>1 DEF Empty, Conn, NoConn
<1> QED BY <1>1, <1>3, <1>4, FlowsTaken DEF PathInv, UpLater

LEMMA FlowsQuiet ==
    ASSUME Base, PathInv, Quiet \/ \E side \in Side, c \in Conn : PeerMoved(side, c)
    PROVE  Flows'
<1> SUFFICES ASSUME NEW s \in Side, NEW c \in Conn PROVE Flow(s, c)'
  BY DEF Flows
<1>1. TypeOK /\ Other(s) \in Side
  BY MapFacts, FlowTypes
<1>2. chan' = chan /\ uidOf' = uidOf /\ UpLater
  BY DEF Quiet, PeerMoved, UpLater
<1>3. SocketsLater
  <2>1. CASE Quiet
    BY <2>1 DEF Quiet, SocketsLater, SocketLater
  <2>2. ASSUME NEW side \in Side, NEW d \in Conn, PeerMoved(side, d) PROVE SocketsLater
    <3>1. tcp[side][d].st \in {"open", "fin"}
          /\ \E st \in {"open", "fin", "gone", "broken", "reset"} : \E w :
                OneSocket(side, d, st, tcp[side][d].read, w, tcp[side][d].got)
      BY <2>2 DEF PeerMoved
    <3> QED BY <3>1, OneSocketLater
  <2> QED BY <2>1, <2>2
<1>4. OtherTraffic(s, c)
  BY <1>2 DEF OtherTraffic
<1> QED BY <1>1, <1>2, <1>3, <1>4, FlowStable DEF PathInv, Flows, SocketsLater

LEMMA FlowsRefused ==
    ASSUME Base, PathInv, Refused
    PROVE  Flows'
<1> SUFFICES ASSUME NEW s \in Side, NEW c \in Conn PROVE Flow(s, c)'
  BY DEF Flows
<1>1. TypeOK /\ Other(s) \in Side /\ "server" \in Side
  BY MapFacts, FlowTypes DEF Side
<1>2. uidOf' = uidOf /\ UpLater /\ tcp' = tcp /\ up' = up /\ up["server"] = "up" /\ 1 \in DOMAIN chan["server"]
      /\ chan'["server"] = RemoveAt(chan["server"], 1) /\ chan["server"][1].new
      /\ \E q \in Packet : q.body = Empty /\ chan'["client"] = Append(chan["client"], q)
  BY DEF Refused, UpLater
<1>3. ASSUME s = "server", chan["server"][1].body.c = c, Announced(c)' PROVE FALSE
  <2>1. PICK i \in DOMAIN chan'[s] : chan'[s][i].new /\ chan'[s][i].body.c = c
    BY <1>3 DEF Announced
  <2>2. PICK j \in DOMAIN chan[s] : j # 1 /\ chan'[s][i] = chan[s][j]
    BY <1>1, <1>2, <1>3, <2>1, TakenOrigin
  <2>3. chan[s][j].body # Empty /\ chan[s][1].body # Empty /\ chan[s][j] \in Packet /\ chan[s][1] \in Packet
        /\ chan[s] \in Seq(Packet)
    BY <1>1, <1>2, <1>3, <2>1, <2>2, MapFacts DEF TypeOK
  <2>4. chan[s][j].body.k = 0 /\ chan[s][1].body.k = 0
    BY <1>1, <1>2, <1>3, <2>1, <2>2, <2>3 DEF PathInv, PacketsKnown
  <2>5. chan[s][1].body.k < chan[s][j].body.k
    <3>1. j \in Nat /\ 1 < j /\ 1 \in DOMAIN chan[s]
      BY <1>2, <1>3, <2>2, <2>3
    <3> QED BY <1>3, <2>1, <2>2, <3>1 DEF PathInv, Flows, Flow, Rising
  <2> QED BY <2>4, <2>5
<1>4. s = "server" => (chan["server"][1].body.c # c \/ ~Awaits(s, c)')
  <2> SUFFICES ASSUME s = "server", chan["server"][1].body.c = c, Awaits(s, c)' PROVE FALSE
    OBVIOUS
  <2>1. tcp[s][c].st \in {"open", "fin"}
    BY <1>2, <1>3 DEF Awaits
  <2>2. uidOf[c] = chan["server"][1].uid /\ uidOf[c] \in Uid /\ conns[s][uidOf[c]] = c
    BY <1>1, <1>2, <2>1, MapFacts, BodyFields DEF PathInv, SocketsMapped
  <2>3. chan["server"][1].uid \notin Known("server")
    BY DEF Refused
  <2> QED BY <2>2, <2>3 DEF Known, Conn, NoConn
<1>5. OtherTraffic(s, c)
  <2>1. CASE s = "server"
    BY <1>2, <1>4, <2>1 DEF OtherTraffic
  <2>2. CASE s = "client"
    <3>1. Other(s) = "server" /\ Empty.c # c
      BY <2>2 DEF Other, Empty, Conn, NoConn
    <3> QED BY <1>2, <2>2, <3>1 DEF OtherTraffic
  <2> QED BY <2>1, <2>2 DEF Side
<1> QED BY <1>1, <1>2, <1>5, FlowStable DEF PathInv, Flows, SocketLater

\* The piece that is written is the one after those that were written before.
LEMMA DeliveredNext ==
    ASSUME Base, PathInv, NEW side \in Side, NEW d \in Conn, Delivered(side, d)
    PROVE  /\ Awaits(side, d) /\ Expect(side, d) = Len(tcp[side][d].got) + 1
           /\ chan[side][1].body = Bytes(d, Len(tcp[side][d].got) + 1)
           /\ Len(tcp[side][d].got) + 1 <= tcp[Other(side)][d].read
<1> DEFINE p == chan[side][1]
           n == Len(tcp[side][d].got)
           r == tcp[Other(side)][d].read
<1>1. /\ TypeOK /\ 1 \in DOMAIN chan[side] /\ p.body.c = d /\ tcp[side][d].st \in {"open", "fin"} /\ up[side] = "up"
      /\ p.body # Empty
  BY MapFacts DEF Delivered, Takes
<1>2. Awaits(side, d) /\ Expect(side, d) = n + 1
  BY <1>1 DEF Awaits, Expect
<1>3. n \in Nat /\ r \in Nat /\ chan[side] \in Seq(Packet)
  BY <1>1, FlowTypes
<1>4. Rising(chan[side], d, r) /\ Gapless(chan[side], d, n + 1)
  BY <1>2 DEF PathInv, Flows, Flow
<1> HIDE DEF n, r
<1>5. p.body.k = n + 1
  <2>1. n + 1 \in Nat
    BY <1>3
  <2> QED BY <1>1, <1>3, <1>4, <2>1, TakePiece
<1>6. p.body.k <= r
  BY <1>1, <1>4 DEF Rising
<1>7. p.body \in Body
  BY <1>1, MapFacts
<1>8. p.body = Bytes(d, n + 1)
  BY <1>1, <1>5, <1>7 DEF Body, Bytes
<1> QED BY <1>2, <1>5, <1>6, <1>8 DEF n, r

LEMMA FlowsDelivered ==
    ASSUME Base, PathInv, NEW side \in Side, NEW d \in Conn, Delivered(side, d)
    PROVE  Flows'
<1> SUFFICES ASSUME NEW s \in Side, NEW c \in Conn PROVE Flow(s, c)'
  BY DEF Flows
<1> DEFINE b == chan[side][1].body
<1>1. /\ OneSocket(side, d, tcp[side][d].st, tcp[side][d].read, tcp[side][d].wrote, Append(tcp[side][d].got, b))
      /\ TypeOK /\ Takes(side) /\ uidOf' = uidOf /\ up' = up /\ b.c = d /\ tcp[side][d].st # "none"
  BY MapFacts DEF Delivered
<1>2. /\ Other(s) \in Side /\ Other(s) # s /\ UpLater /\ tcp[side][d] \in Socket /\ Flow(s, c)
  BY <1>1, FlowTypes DEF UpLater, PathInv, Flows
<1>3. tcp'[Other(s)][c].read = tcp[Other(s)][c].read
  BY <1>1, <1>2 DEF OneSocket
<1>4. CASE s = side /\ c = d
  <2> DEFINE n == Len(tcp[side][d].got)
  <2>1. Awaits(side, d) /\ Expect(side, d) = n + 1 /\ n + 1 <= tcp[Other(side)][d].read
    BY DeliveredNext
  <2>2. Len(tcp'[side][d].got) = n + 1 /\ n \in Nat
    <3>1. tcp[side][d].got \in Seq(Body) /\ tcp'[side][d].got = Append(tcp[side][d].got, b)
      BY <1>1, <1>2 DEF Socket, OneSocket
    <3> QED BY <3>1
  <2>3. Expect(side, d)' = Len(tcp'[side][d].got) + 1
    BY <1>1 DEF Expect, OneSocket
  <2>4. Expect(side, d)' = Expect(side, d) + 1
    BY <2>1, <2>2, <2>3
  <2>5. 1 \in DOMAIN chan[s] /\ chan'[s] = RemoveAt(chan[s], 1) /\ chan[s][1].body.c = c
    BY <1>1, <1>4, TakesAt
  <2> QED BY <1>1, <1>2, <1>3, <1>4, <2>1, <2>2, <2>4, <2>5, FlowNext
<1>5. CASE s # side \/ c # d
  <2>1. tcp'[s][c] = tcp[s][c]
    BY <1>1, <1>5 DEF OneSocket
  <2>2. OtherTraffic(s, c)
    BY <1>1, <1>5, TakesAt DEF OtherTraffic
  <2> QED BY <1>1, <1>2, <1>3, <2>1, <2>2, FlowStable DEF SocketLater
<1> QED BY <1>4, <1>5

LEMMA FlowsDialled ==
    ASSUME Base, PathInv, NEW d \in Conn, DialledTo(d)
    PROVE  Flows'
<1> SUFFICES ASSUME NEW s \in Side, NEW c \in Conn PROVE Flow(s, c)'
  BY DEF Flows
<1>1. /\ OneSocket("server", d, "open", 0, 0, <<>>) /\ "server" \in Side
      /\ TypeOK /\ Takes("server") /\ uidOf' = uidOf /\ up' = up /\ up["server"] = "up"
      /\ chan["server"][1].body.c = d /\ chan["server"][1].new /\ tcp["server"][d].st = "none"
  BY MapFacts DEF DialledTo, Side
<1>2. /\ Other(s) \in Side /\ Other(s) # s /\ UpLater /\ Flow(s, c)
      /\ tcp["server"][d].read = 0 /\ tcp["server"][d].got = <<>>
  BY <1>1, FlowTypes DEF UpLater, PathInv, Flows, SocketsBorn
<1>3. tcp'[Other(s)][c].read = tcp[Other(s)][c].read
  BY <1>1, <1>2 DEF OneSocket
<1>4. CASE s = "server" /\ c = d
  <2>1. 1 \in DOMAIN chan[s] /\ chan'[s] = RemoveAt(chan[s], 1) /\ chan[s][1].body.c = c
    BY <1>1, <1>4, TakesAt
  <2>2. Awaits(s, c)
    BY <1>1, <1>4, <2>1 DEF Awaits, Announced
  <2>3. tcp'[s][c].got = <<>> /\ tcp'[s][c].st = "open"
    BY <1>1, <1>4 DEF OneSocket
  <2>4. Expect(s, c) = 0 /\ Expect(s, c)' = Len(tcp'[s][c].got) + 1
    BY <1>1, <1>4, <2>3 DEF Expect
  <2>5. Len(tcp'[s][c].got) = 0 /\ 0 <= tcp[Other(s)][c].read
    BY <1>1, <2>3, FlowTypes
  <2>6. Expect(s, c)' = Expect(s, c) + 1 /\ Len(tcp'[s][c].got) <= tcp[Other(s)][c].read
    BY <2>4, <2>5
  <2> QED BY <1>1, <1>2, <1>3, <2>1, <2>2, <2>6, FlowNext
<1>5. CASE s # "server" \/ c # d
  <2>1. tcp'[s][c] = tcp[s][c]
    BY <1>1, <1>5 DEF OneSocket
  <2>2. OtherTraffic(s, c)
    BY <1>1, <1>5, TakesAt DEF OtherTraffic
  <2> QED BY <1>1, <1>2, <1>3, <2>1, <2>2, FlowStable DEF SocketLater
<1> QED BY <1>4, <1>5

LEMMA FlowsPiece ==
    ASSUME Base, PathInv, NEW side \in Side, NEW u \in Uid, NEW d \in Conn, Piece(side, u, d)
    PROVE  Flows'
<1> SUFFICES ASSUME NEW s \in Side, NEW c \in Conn PROVE Flow(s, c)'
  BY DEF Flows
<1> DEFINE t == tcp[side][d]
           o == Other(side)
<1>1. /\ OneSocket(side, d, t.st, t.read + 1, t.wrote, t.got)
      /\ TypeOK /\ uidOf' = uidOf /\ up[side] = "up" /\ chan'[side] = chan[side]
      /\ conns[side][u] = d /\ u = uidOf[d]
      /\ \/ /\ up' = up
            /\ \E q \in Packet : /\ ~q.new /\ q.uid = u /\ q.body = Bytes(d, t.read + 1)
                                 /\ chan'[o] = Append(chan[o], q)
         \/ chan' = chan /\ up'[side] # "up" /\ up'[o] = up[o]
  BY MapFacts DEF Piece
<1>2. /\ Other(s) \in Side /\ Other(s) # s /\ Flow(s, c) /\ \A x \in Side : x = side \/ x = o
      /\ o \in Side /\ o # side /\ Other(o) = side
  BY <1>1, FlowTypes DEF PathInv, Flows, Side, Other
<1>3. UpLater
  BY <1>1, <1>2 DEF UpLater
<1> HIDE DEF o, t
<1>4. CASE s = o /\ c = d
  <2>1. tcp'[s][c] = tcp[s][c] /\ tcp'[Other(s)][c].read = tcp[Other(s)][c].read + 1
    BY <1>1, <1>2, <1>4 DEF OneSocket, t
  <2>2. CASE up' = up
    <3>1. PICK q \in Packet : /\ ~q.new /\ q.body = Bytes(d, t.read + 1) /\ chan'[o] = Append(chan[o], q)
      BY <1>1, <2>2
    <3>2. q.body = Bytes(c, tcp[Other(s)][c].read + 1)
      BY <1>2, <1>4, <3>1 DEF t
    <3> QED BY <1>1, <1>2, <1>3, <1>4, <2>1, <3>1, <3>2, FlowSent
  <2>3. CASE chan' = chan /\ up'[side] # "up"
    <3>1. ~Ends(s, uidOf[c])
      BY <1>1, <1>2, <1>4 DEF Ends, PathInv, EofLast, Conn, NoConn
    <3> QED BY <1>1, <1>2, <1>3, <1>4, <2>1, <2>3, <3>1, FlowLost
  <2> QED BY <1>1, <2>2, <2>3
<1>5. CASE s # o \/ c # d
  <2>1. tcp'[Other(s)][c].read = tcp[Other(s)][c].read /\ tcp'[s][c].got = tcp[s][c].got /\ tcp'[s][c].st = tcp[s][c].st
    <3>1. CASE s = side /\ c = d
      BY <1>1, <1>2, <3>1 DEF OneSocket, t
    <3>2. CASE s # side \/ c # d
      BY <1>1, <1>2, <1>5, <3>2 DEF OneSocket
    <3> QED BY <3>1, <3>2
  <2>2. OtherTraffic(s, c)
    <3>1. CASE chan'[s] = chan[s]
      BY <3>1 DEF OtherTraffic
    <3>2. CASE s = o /\ c # d /\ \E q \in Packet : q.body = Bytes(d, t.read + 1) /\ chan'[o] = Append(chan[o], q)
      <4>1. Bytes(d, t.read + 1).c # c /\ Bytes(d, t.read + 1) # Empty
        BY <3>2 DEF Bytes, Empty, Conn, NoConn
      <4> QED BY <3>2, <4>1 DEF OtherTraffic
    <3> QED BY <1>1, <1>2, <1>5, <3>1, <3>2
  <2> QED BY <1>1, <1>2, <1>3, <2>1, <2>2, FlowStable DEF SocketLater
<1> QED BY <1>4, <1>5

LEMMA FlowsEof ==
    ASSUME Base, PathInv, NEW side \in Side, NEW u \in Uid, NEW d \in Conn, EofRead(side, u, d)
    PROVE  Flows'
<1> SUFFICES ASSUME NEW s \in Side, NEW c \in Conn PROVE Flow(s, c)'
  BY DEF Flows
<1> DEFINE t == tcp[side][d]
           o == Other(side)
<1>1. /\ OneSocket(side, d, "closed", t.read, t.wrote, t.got)
      /\ TypeOK /\ uidOf' = uidOf /\ up[side] = "up" /\ chan'[side] = chan[side] /\ up'[o] = up[o]
      /\ t.st \in {"fin", "gone", "broken"}
      /\ \/ \E q \in Packet : /\ ~q.new /\ q.uid = u /\ q.body = Empty
                              /\ chan'[o] = Append(chan[o], q)
         \/ chan' = chan /\ up'[side] # "up"
  BY MapFacts DEF EofRead
<1>2. /\ Other(s) \in Side /\ Flow(s, c) /\ \A x \in Side : x = side \/ x = o
      /\ o \in Side /\ Other(o) = side
  BY <1>1, FlowTypes DEF PathInv, Flows, Side, Other
<1>3. UpLater
  BY <1>1, <1>2 DEF UpLater
<1>4. SocketsLater
  BY <1>1, OneSocketLater
<1> HIDE DEF o, t
<1>5. OtherTraffic(s, c)
  <2>1. CASE chan'[s] = chan[s]
    BY <2>1 DEF OtherTraffic
  <2>2. CASE s = o /\ \E q \in Packet : q.body = Empty /\ chan'[o] = Append(chan[o], q)
    <3>1. Empty.c # c
      BY DEF Empty, Conn, NoConn
    <3> QED BY <1>1, <1>2, <2>2, <3>1 DEF OtherTraffic
  <2> QED BY <1>1, <1>2, <2>1, <2>2
<1> QED BY <1>1, <1>2, <1>3, <1>4, <1>5, FlowStable DEF SocketsLater

LEMMA FlowsAccepted ==
    ASSUME Base, PathInv, NEW d \in Conn, Accepted(d)
    PROVE  Flows'
<1> SUFFICES ASSUME NEW s \in Side, NEW c \in Conn PROVE Flow(s, c)'
  BY DEF Flows
<1>1. /\ OneSocket("client", d, "open", 0, 0, <<>>) /\ TypeOK /\ up' = up /\ up["client"] = "up"
      /\ uidOf[d] = 0 /\ uidOf' = [uidOf EXCEPT ![d] = nextUid]
      /\ chan'["client"] = chan["client"]
      /\ \/ \E q \in Packet : q.body = Destination(d) /\ chan'["server"] = Append(chan["server"], q)
         \/ chan' = chan
  BY MapFacts DEF Accepted
<1>2. /\ Other(s) \in Side /\ Flow(s, c) /\ UpLater /\ "server" \in Side /\ "client" \in Side
      /\ Other("client") = "server" /\ Other("server") = "client" /\ uidOf \in [Conn -> Uid \cup {0}]
  BY <1>1, FlowTypes DEF PathInv, Flows, Side, Other, UpLater, TypeOK
<1>3. tcp["server"][d].st = "none" /\ tcp["server"][d].read = 0 /\ tcp["server"][d].got = <<>>
  BY <1>1, <1>2 DEF Base, DialInv, DialledAccepted, PathInv, SocketsBorn
<1>4. CASE c = d
  <2>1. \A i \in DOMAIN chan[s] : chan[s][i].body.c # c
    BY <1>1, <1>4, MapFacts, BodyFields DEF Uid
  <2>2. /\ tcp'[Other(s)][c].read = 0 /\ tcp'[s][c].got = <<>>
        /\ tcp'[s][c].st = IF s = "client" THEN "open" ELSE "none"
    <3>1. CASE s = "client"
      BY <1>1, <1>2, <1>3, <1>4, <3>1 DEF OneSocket
    <3>2. CASE s = "server"
      BY <1>1, <1>2, <1>3, <1>4, <3>2 DEF OneSocket
    <3> QED BY <3>1, <3>2 DEF Side
  <2>3. \/ chan'[s] = chan[s]
        \/ s = "server" /\ \E q \in Packet : q.body = Destination(c) /\ chan'[s] = Append(chan[s], q)
    BY <1>1, <1>4 DEF Side
  <2> QED BY <1>1, <2>1, <2>2, <2>3, FlowBegun
<1>5. CASE c # d
  <2>1. tcp'[s][c] = tcp[s][c] /\ tcp'[Other(s)][c] = tcp[Other(s)][c] /\ uidOf'[c] = uidOf[c]
    BY <1>1, <1>2, <1>5 DEF OneSocket
  <2>2. OtherTraffic(s, c)
    <3>1. CASE chan'[s] = chan[s]
      BY <3>1 DEF OtherTraffic
    <3>2. CASE s = "server" /\ \E q \in Packet : q.body = Destination(d) /\ chan'[s] = Append(chan[s], q)
      <4>1. Destination(d).c # c /\ Destination(d) # Empty
        BY <1>5 DEF Destination, Empty, Conn, NoConn
      <4> QED BY <3>2, <4>1 DEF OtherTraffic
    <3> QED BY <1>1, <3>1, <3>2 DEF Side
  <2> QED BY <1>1, <1>2, <2>1, <2>2, FlowStable DEF SocketLater
<1> QED BY <1>4, <1>5

\* The flows are kept.
LEMMA FlowsStep ==
    ASSUME Base, PathInv, Step
    PROVE  Flows'
  BY FlowsIgnored, FlowsDelivered, FlowsDiscarded, FlowsQuiet, FlowsEnded, FlowsPiece, FlowsEof,
     FlowsDialled, FlowsAccepted, FlowsRefused DEF Step

-----------------------------------------------------------------------------
(* Every step keeps what is known of packets, maps and sockets.            *)

\* The packets that are sent: an announcement, a piece, an end of file, or a refusal.
SentAnnouncement(s, q) ==
    s = "server" /\ q.new /\ q.uid = nextUid /\ nextUid' = nextUid + 1 /\ \E c \in Conn : q.body = Destination(c)
SentPiece(s, q) ==
    /\ ~q.new /\ q.uid \in Uid
    /\ \E c \in Conn, k \in Nat \ {0} : q.body = Bytes(c, k) /\ conns[Other(s)][q.uid] = c
SentEof(s, q) ==
    /\ ~q.new /\ q.body = Empty /\ q.uid \in Uid
    /\ conns[Other(s)][q.uid] # NoConn /\ conns'[Other(s)][q.uid] = NoConn
    /\ chan'[Other(s)] = chan[Other(s)]
SentRefusal(s, q) ==
    /\ s = "client" /\ ~q.new /\ q.body = Empty /\ q.uid \notin Known("server") /\ conns' = conns
    /\ 1 \in DOMAIN chan["server"] /\ chan["server"][1].new /\ chan["server"][1].uid = q.uid
    /\ chan'["server"] = RemoveAt(chan["server"], 1)
Sent(s, q) ==
    /\ q \in Packet /\ chan'[s] = Append(chan[s], q)
    /\ SentAnnouncement(s, q) \/ SentPiece(s, q) \/ SentEof(s, q) \/ SentRefusal(s, q)

\* What a step does to the packets on their way to side s.
ChannelStep(s) ==
    \/ chan'[s] = chan[s]
    \/ 1 \in DOMAIN chan[s] /\ chan'[s] = RemoveAt(chan[s], 1)
    \/ \E q : Sent(s, q)

LEMMA ChannelSteps ==
    ASSUME Base, PathInv, Step
    PROVE  /\ \A s \in Side : ChannelStep(s)
           /\ nextUid' = nextUid \/ nextUid' = nextUid + 1
<1>0. /\ TypeOK /\ "client" \in Side /\ "server" \in Side
      /\ \A s \in Side : /\ Other(s) \in Side /\ Other(Other(s)) = s
                         /\ \A x \in Side : x = s \/ x = Other(s)
  BY MapFacts DEF Side, Other
<1>1. CASE \E side \in Side : Takes(side) /\ nextUid' = nextUid
  BY <1>0, <1>1, TakesAt DEF ChannelStep
<1>2. CASE chan' = chan /\ (nextUid' = nextUid \/ nextUid' = nextUid + 1)
  BY <1>2 DEF ChannelStep
<1>3. ASSUME NEW c \in Conn, Accepted(c) PROVE (\A s \in Side : ChannelStep(s)) /\ nextUid' = nextUid + 1
  <2>1. nextUid' = nextUid + 1 /\ chan'["client"] = chan["client"]
    BY <1>3 DEF Accepted
  <2>2. ASSUME NEW q \in Packet, q.new, q.uid = nextUid, q.body = Destination(c), chan'["server"] = Append(chan["server"], q)
        PROVE  ChannelStep("server")
    BY <2>1, <2>2 DEF ChannelStep, Sent, SentAnnouncement
  <2>3. ChannelStep("server")
    BY <1>3, <2>2 DEF Accepted, ChannelStep
  <2> QED BY <2>1, <2>3 DEF Side, ChannelStep
<1>4. ASSUME NEW side \in Side, NEW u \in Uid, NEW c \in Conn, Piece(side, u, c)
      PROVE  (\A s \in Side : ChannelStep(s)) /\ nextUid' = nextUid
  <2>1. nextUid' = nextUid /\ chan'[side] = chan[side] /\ conns[side][u] = c
    BY <1>4 DEF Piece
  <2>2. tcp[side][c].read + 1 \in Nat \ {0}
    <3>1. tcp[side][c].read \in Nat
      BY <1>0, FlowTypes
    <3> QED BY <3>1
  <2>3. ASSUME NEW q \in Packet, ~q.new, q.uid = u, q.body = Bytes(c, tcp[side][c].read + 1),
               chan'[Other(side)] = Append(chan[Other(side)], q)
        PROVE  ChannelStep(Other(side))
    BY <1>0, <2>1, <2>2, <2>3 DEF ChannelStep, Sent, SentPiece
  <2>4. ChannelStep(Other(side))
    BY <1>4, <2>3 DEF Piece, ChannelStep
  <2> QED BY <1>0, <2>1, <2>4 DEF ChannelStep
<1>5. ASSUME NEW side \in Side, NEW u \in Uid, NEW c \in Conn, EofRead(side, u, c)
      PROVE  (\A s \in Side : ChannelStep(s)) /\ nextUid' = nextUid
  <2>1. nextUid' = nextUid /\ chan'[side] = chan[side] /\ conns[side][u] # NoConn /\ conns'[side][u] = NoConn
    BY <1>5 DEF EofRead, OneEntry, Conn, NoConn
  <2>2. ASSUME NEW q \in Packet, ~q.new, q.uid = u, q.body = Empty,
               chan'[Other(side)] = Append(chan[Other(side)], q)
        PROVE  ChannelStep(Other(side))
    BY <1>0, <2>1, <2>2 DEF ChannelStep, Sent, SentEof
  <2>3. ChannelStep(Other(side))
    BY <1>5, <2>2 DEF EofRead, ChannelStep
  <2> QED BY <1>0, <2>1, <2>3 DEF ChannelStep
<1>6. ASSUME Refused PROVE (\A s \in Side : ChannelStep(s)) /\ nextUid' = nextUid
  <2>1. /\ nextUid' = nextUid /\ 1 \in DOMAIN chan["server"] /\ conns' = conns
        /\ chan'["server"] = RemoveAt(chan["server"], 1)
        /\ chan["server"][1].new /\ chan["server"][1].uid \notin Known("server")
    BY <1>6 DEF Refused
  <2>2. PICK q \in Packet : /\ ~q.new /\ q.uid = chan["server"][1].uid /\ q.body = Empty
                            /\ chan'["client"] = Append(chan["client"], q)
    BY <1>6 DEF Refused
  <2>3. Sent("client", q)
    BY <2>1, <2>2 DEF Sent, SentRefusal
  <2> QED BY <2>1, <2>3 DEF ChannelStep, Side
<1>7. CASE \E side \in Side : Ignored(side) \/ \E c \in Conn : Delivered(side, c) \/ Discarded(side, c)
  BY <1>1, <1>7 DEF Ignored, Delivered, Discarded
<1>8. CASE (\E c \in Conn : DialledTo(c)) \/ \E side \in Side, u \in Uid, c \in Conn : Ended(side, u, c)
  BY <1>0, <1>1, <1>8 DEF DialledTo, Ended
<1>9. CASE Quiet \/ \E side \in Side, c \in Conn : PeerMoved(side, c)
  BY <1>2, <1>9 DEF Quiet, PeerMoved
<1> QED BY <1>3, <1>4, <1>5, <1>6, <1>7, <1>8, <1>9 DEF Step

\* Packets stay known.
LEMMA PacketsKnownStep ==
    ASSUME Base, PathInv, Step
    PROVE  PacketsKnown'
<1>0. TypeOK /\ nextUid \in Nat /\ (nextUid' = nextUid \/ nextUid' = nextUid + 1)
  BY MapFacts, ChannelSteps DEF TypeOK
<1> SUFFICES ASSUME NEW s \in Side, NEW i \in DOMAIN chan'[s]
             PROVE  /\ chan'[s][i].uid < nextUid'
                    /\ chan'[s][i].body # Empty => (chan'[s][i].new <=> chan'[s][i].body.k = 0)
                    /\ chan'[s][i].body = Empty => ~chan'[s][i].new
  BY DEF PacketsKnown
<1>1. ASSUME NEW j \in DOMAIN chan[s], chan'[s][i] = chan[s][j]
      PROVE  /\ chan'[s][i].uid < nextUid'
             /\ chan'[s][i].body # Empty => (chan'[s][i].new <=> chan'[s][i].body.k = 0)
             /\ chan'[s][i].body = Empty => ~chan'[s][i].new
  <2>1. chan[s][j].uid \in Nat
    BY MapFacts DEF Uid
  <2> QED BY <1>0, <1>1, <2>1 DEF PathInv, PacketsKnown
<1>2. ASSUME NEW q, Sent(s, q)
      PROVE  /\ q.uid < nextUid'
             /\ q.body # Empty => (q.new <=> q.body.k = 0)
             /\ q.body = Empty => ~q.new
  <2>1. \A u \in Uid, z \in Side : conns[z][u] # NoConn => u < nextUid
    BY MapFacts DEF Base, UidsDistinct
  <2>2. CASE SentAnnouncement(s, q)
    BY <1>0, <2>2 DEF SentAnnouncement, Destination, Empty, Conn, NoConn
  <2>3. CASE SentPiece(s, q)
    <3>1. q.uid \in Nat /\ Other(s) \in Side
      BY <2>3 DEF SentPiece, Uid, Other, Side
    <3>2. PICK c \in Conn, k \in Nat \ {0} : q.body = Bytes(c, k) /\ conns[Other(s)][q.uid] = c
      BY <2>3 DEF SentPiece
    <3>3. q.body.k = k /\ q.body # Empty /\ ~q.new /\ q.uid \in Uid /\ c # NoConn
      BY <2>3, <3>2 DEF Bytes, Empty, Conn, NoConn, SentPiece
    <3> QED BY <1>0, <2>1, <3>1, <3>2, <3>3
  <2>4. CASE SentEof(s, q)
    <3>1. q.uid \in Nat /\ Other(s) \in Side
      BY <2>4 DEF SentEof, Uid, Other, Side
    <3> QED BY <1>0, <2>1, <2>4, <3>1 DEF SentEof
  <2>5. CASE SentRefusal(s, q)
    <3>1. chan["server"][1].uid < nextUid /\ chan["server"][1].uid \in Nat
      BY <2>5, MapFacts DEF SentRefusal, PathInv, PacketsKnown, Side, Uid
    <3> QED BY <1>0, <2>5, <3>1 DEF SentRefusal
  <2> QED BY <1>2, <2>2, <2>3, <2>4, <2>5 DEF Sent
<1>3. CASE \E j \in DOMAIN chan[s] : chan'[s][i] = chan[s][j]
  BY <1>1, <1>3
<1>4. CASE \E q : Sent(s, q) /\ chan'[s][i] = q
  BY <1>2, <1>4
<1>5. CASE chan'[s] = chan[s]
  BY <1>3, <1>5
<1>6. CASE 1 \in DOMAIN chan[s] /\ chan'[s] = RemoveAt(chan[s], 1)
  BY <1>0, <1>3, <1>6, TakenOrigin
<1>7. CASE \E q : Sent(s, q)
  <2>1. PICK q : Sent(s, q)
    BY <1>7
  <2>2. (\E j \in DOMAIN chan[s] : chan'[s][i] = chan[s][j]) \/ chan'[s][i] = q
    BY <1>0, <2>1, SentOrigin DEF Sent
  <2> QED BY <1>3, <1>4, <2>1, <2>2
<1> QED BY <1>5, <1>6, <1>7, ChannelSteps DEF ChannelStep

\* Nothing announces a connection that the server knows, and nothing announces it twice.
LEMMA AnnouncementFacts ==
    ASSUME Base, Reliable, NEW i \in DOMAIN chan["server"], chan["server"][i].new
    PROVE  /\ chan["server"][i].uid \notin Known("server")
           /\ \A j \in DOMAIN chan["server"] :
                chan["server"][j].new /\ chan["server"][j].uid = chan["server"][i].uid => j = i
<1> DEFINE p == chan["server"][i]
<1>0. "server" \in Side /\ dups = 0
  BY MapFacts DEF Side, Reliable, TypeOK
<1>1. p.body.c \in Conn /\ uidOf[p.body.c] = p.uid /\ p.uid \in Uid /\ p.uid # 0
  BY <1>0, MapFacts DEF Uid
<1>2. tcp["server"][p.body.c].st = "none"
      /\ \A j \in DOMAIN chan["server"] : chan["server"][j].new /\ chan["server"][j].body.c = p.body.c => i = j
  BY <1>0 DEF Base, DialInv, AnnouncedOnce
<1>3. p.uid \notin Known("server")
  <2> SUFFICES ASSUME p.uid \in Known("server") PROVE FALSE
    OBVIOUS
  <2>1. conns["server"][p.uid] \in Conn /\ uidOf[conns["server"][p.uid]] = p.uid
        /\ tcp["server"][conns["server"][p.uid]].st # "none"
    BY <1>0, MapFacts DEF Known, Base, DialInv, MappedConnected
  <2>2. conns["server"][p.uid] = p.body.c
    BY <1>1, <2>1 DEF Base, UidsDistinct
  <2> QED BY <1>2, <2>1, <2>2
<1>4. ASSUME NEW j \in DOMAIN chan["server"], chan["server"][j].new, chan["server"][j].uid = p.uid
      PROVE  j = i
  <2>1. chan["server"][j].body.c \in Conn /\ uidOf[chan["server"][j].body.c] = p.uid
    BY <1>0, <1>4, MapFacts
  <2>2. chan["server"][j].body.c = p.body.c
    BY <1>1, <2>1 DEF Base, UidsDistinct
  <2> QED BY <1>2, <1>4, <2>2
<1> QED BY <1>3, <1>4

\* An end of file stays the last packet of its uid.
LEMMA EofLastStep ==
    ASSUME Base, PathInv, Reliable, Next, Step
    PROVE  EofLast'
<1>0. TypeOK /\ Bookkeeping /\ nextUid \in Nat /\ "server" \in Side /\ "client" \in Side
  BY MapFacts DEF TypeOK, Side, Inv
<1> SUFFICES ASSUME NEW s \in Side, NEW i \in DOMAIN chan'[s], chan'[s][i].body = Empty
             PROVE  LET u == chan'[s][i].uid
                    IN  /\ conns'[Other(s)][u] = NoConn
                        /\ \A j \in DOMAIN chan'[s] : i < j => chan'[s][j].uid # u
                        /\ s = "client" => \A j \in DOMAIN chan'["server"] :
                                            ~(chan'["server"][j].new /\ chan'["server"][j].uid = u)
  BY DEF EofLast
<1> DEFINE u == chan'[s][i].uid
<1>1. Other(s) \in Side /\ (Other(s) = "server" => s = "client") /\ (s = "client" => Other(s) = "server")
  BY DEF Other, Side
<1>2. \A j \in DOMAIN chan'["server"] : chan'["server"][j].new =>
        \/ \E k \in DOMAIN chan["server"] : chan'["server"][j] = chan["server"][k]
        \/ chan'["server"][j].uid = nextUid
  <2>1. CASE chan'["server"] = chan["server"]
    BY <2>1
  <2>2. CASE 1 \in DOMAIN chan["server"] /\ chan'["server"] = RemoveAt(chan["server"], 1)
    BY <1>0, <2>2, TakenOrigin
  <2>3. CASE \E q : Sent("server", q)
    <3>1. PICK q : Sent("server", q)
      BY <2>3
    <3>2. q.new => q.uid = nextUid
      BY <3>1 DEF Sent, SentAnnouncement, SentPiece, SentEof, SentRefusal
    <3> QED BY <1>0, <3>1, <3>2, SentOrigin DEF Sent
  <2> QED BY <1>0, <2>1, <2>2, <2>3, ChannelSteps DEF ChannelStep
<1>3. ASSUME NEW k \in DOMAIN chan[s], chan'[s][i] = chan[s][k]
      PROVE  /\ conns'[Other(s)][u] = NoConn
             /\ s = "client" => \A j \in DOMAIN chan'["server"] :
                                    ~(chan'["server"][j].new /\ chan'["server"][j].uid = u)
  <2>1. /\ u \in Uid /\ u < nextUid /\ u # nextUid /\ conns[Other(s)][u] = NoConn
        /\ s = "client" => \A j \in DOMAIN chan["server"] :
                                    ~(chan["server"][j].new /\ chan["server"][j].uid = u)
    BY <1>0, <1>3, MapFacts DEF PathInv, PacketsKnown, EofLast, Uid
  <2>2. EntryOrigin(Other(s), u)
    BY <1>0, <1>1, <2>1, EntriesOrigin
  <2>3. conns'[Other(s)][u] = NoConn
    BY <1>1, <2>1, <2>2 DEF EntryOrigin
  <2> QED BY <1>2, <2>1, <2>3
<1>4. CASE chan'[s] = chan[s]
  <2>1. i \in DOMAIN chan[s] /\ \A j \in DOMAIN chan'[s] : i < j => chan'[s][j].uid # u
    BY <1>4 DEF PathInv, EofLast
  <2> QED BY <1>3, <1>4, <2>1
<1>5. CASE 1 \in DOMAIN chan[s] /\ chan'[s] = RemoveAt(chan[s], 1)
  <2>1. chan[s] \in Seq(Packet)
    BY <1>0 DEF TypeOK
  <2>2. \A j \in DOMAIN chan'[s] : j \in Nat /\ j + 1 \in DOMAIN chan[s] /\ chan'[s][j] = chan[s][j + 1]
    BY <1>5, <2>1, TakeFirst
  <2>3. \A j \in DOMAIN chan'[s] : i < j => chan'[s][j].uid # u
    BY <2>2 DEF PathInv, EofLast
  <2> QED BY <1>3, <2>2, <2>3
<1>6. CASE \E q : Sent(s, q)
  <2>1. PICK q : Sent(s, q)
    BY <1>6
  <2> DEFINE n == Len(chan[s]) + 1
  <2>2. /\ \A j \in DOMAIN chan'[s] : (j \in DOMAIN chan[s] /\ chan'[s][j] = chan[s][j]) \/ (chan'[s][j] = q /\ j = n)
        /\ \A j \in DOMAIN chan[s] : j < n /\ j \in Nat
        /\ n \in Nat
    <3>1. chan[s] \in Seq(Packet)
      BY <1>0 DEF TypeOK
    <3> QED BY <1>0, <2>1, <3>1, SentOrigin DEF Sent
  <2> HIDE DEF n
  <2>3. CASE i \in DOMAIN chan[s] /\ chan'[s][i] = chan[s][i]
    <3>1. u \in Uid /\ u < nextUid /\ conns[Other(s)][u] = NoConn
          /\ (\A j \in DOMAIN chan[s] : i < j => chan[s][j].uid # u)
          /\ (s = "client" => \A j \in DOMAIN chan["server"] : ~(chan["server"][j].new /\ chan["server"][j].uid = u))
      BY <2>3, MapFacts DEF PathInv, PacketsKnown, EofLast
    <3>2. q.uid # u
      <4>1. CASE SentAnnouncement(s, q)
        BY <1>0, <3>1, <4>1 DEF SentAnnouncement, Uid
      <4>2. CASE SentPiece(s, q) \/ SentEof(s, q)
        BY <3>1, <4>2 DEF SentPiece, SentEof, Conn, NoConn
      <4>3. CASE SentRefusal(s, q)
        BY <3>1, <4>3 DEF SentRefusal
      <4> QED BY <2>1, <4>1, <4>2, <4>3 DEF Sent
    <3>3. \A j \in DOMAIN chan'[s] : i < j => chan'[s][j].uid # u
      BY <2>2, <3>1, <3>2
    <3> QED BY <1>3, <2>3, <3>3
  <2>4. CASE chan'[s][i] = q /\ i = n
    <3>1. \A j \in DOMAIN chan'[s] : ~(i < j)
      BY <2>2, <2>4
    <3>2. SentEof(s, q) \/ SentRefusal(s, q)
      <4>0. \A c \in Conn : Destination(c) # Empty /\ \A k : Bytes(c, k) # Empty
        BY DEF Destination, Bytes, Empty, Conn, NoConn
      <4>1. ~SentAnnouncement(s, q) /\ ~SentPiece(s, q)
        BY <2>4, <4>0 DEF SentAnnouncement, SentPiece
      <4> QED BY <2>1, <4>1 DEF Sent
    <3>3. CASE SentEof(s, q)
      <4>1. ASSUME s = "client", NEW j \in DOMAIN chan'["server"], chan'["server"][j].new, chan'["server"][j].uid = u
            PROVE  FALSE
        <5>1. chan'["server"] = chan["server"] /\ u \in Known("server")
          BY <1>1, <2>4, <3>3, <4>1 DEF SentEof, Known
        <5> QED BY <4>1, <5>1, AnnouncementFacts
      <4> QED BY <2>4, <3>1, <3>3, <4>1 DEF SentEof
    <3>4. CASE SentRefusal(s, q)
      <4>1. ASSUME NEW j \in DOMAIN chan'["server"], chan'["server"][j].new, chan'["server"][j].uid = u
            PROVE  FALSE
        <5>1. /\ 1 \in DOMAIN chan["server"] /\ chan["server"][1].new /\ chan["server"][1].uid = u
              /\ chan'["server"] = RemoveAt(chan["server"], 1)
          BY <2>4, <3>4 DEF SentRefusal
        <5>2. PICK k \in DOMAIN chan["server"] : k # 1 /\ chan'["server"][j] = chan["server"][k]
          BY <1>0, <4>1, <5>1, TakenOrigin
        <5> QED BY <4>1, <5>1, <5>2, AnnouncementFacts
      <4>2. conns'[Other(s)][u] = NoConn
        <5>1. /\ u \notin Known("server") /\ conns' = conns /\ s = "client"
              /\ 1 \in DOMAIN chan["server"] /\ chan["server"][1].uid = u
          BY <2>4, <3>4 DEF SentRefusal
        <5>2. u \in Uid
          BY <1>0, <5>1, MapFacts
        <5> QED BY <1>1, <5>1, <5>2 DEF Known
      <4> QED BY <3>1, <4>1, <4>2
    <3> QED BY <3>2, <3>3, <3>4
  <2> QED BY <2>2, <2>3, <2>4
<1> QED BY <1>4, <1>5, <1>6, ChannelSteps DEF ChannelStep

\* The steps that neither open nor close a socket: the maps stay, and sockets stay born and open.
SocketsStay ==
    /\ UNCHANGED <<conns, uidOf>>
    /\ \A s \in Side, c \in Conn :
        /\ tcp'[s][c].st = "none" <=> tcp[s][c].st = "none"
        /\ tcp'[s][c].st = "closed" <=> tcp[s][c].st = "closed"
        /\ tcp[s][c].st = "none" => tcp'[s][c] = tcp[s][c]
    /\ SavedKept

\* Those that close connection c of side, known as u.
SocketCloses(side, u, c) ==
    LET t == tcp[side][c]
    IN  /\ OneEntry(side, u, NoConn) /\ uidOf' = uidOf /\ u = uidOf[c] /\ conns[side][u] = c
        /\ OneSocket(side, c, "closed", t.read, t.wrote, t.got)
        /\ SavedKept

LEMMA SocketKinds ==
    ASSUME Base, PathInv, Step
    PROVE  \/ SocketsStay
           \/ \E side \in Side, u \in Uid, c \in Conn : SocketCloses(side, u, c)
           \/ \E c \in Conn : DialledTo(c) \/ Accepted(c)
<1>1. tcp' = tcp /\ conns' = conns /\ uidOf' = uidOf /\ SavedKept => SocketsStay
  BY DEF SocketsStay
<1>2. ASSUME NEW side \in Side, NEW c \in Conn, NEW st, NEW rd, NEW wr, NEW gt, OneSocket(side, c, st, rd, wr, gt),
             st \notin {"none", "closed"}, tcp[side][c].st \notin {"none", "closed"},
             UNCHANGED <<conns, uidOf>>, SavedKept
      PROVE  SocketsStay
  <2> SUFFICES ASSUME NEW s \in Side, NEW d \in Conn
               PROVE  /\ tcp'[s][d].st = "none" <=> tcp[s][d].st = "none"
                      /\ tcp'[s][d].st = "closed" <=> tcp[s][d].st = "closed"
                      /\ tcp[s][d].st = "none" => tcp'[s][d] = tcp[s][d]
    BY <1>2 DEF SocketsStay
  <2>1. CASE s = side /\ d = c
    BY <1>2, <2>1 DEF OneSocket
  <2>2. CASE s # side \/ d # c
    BY <1>2, <2>2 DEF OneSocket
  <2> QED BY <2>1, <2>2
<1>3. ASSUME NEW side \in Side, Ignored(side) PROVE SocketsStay
  BY <1>1, <1>3 DEF Ignored
<1>4. ASSUME Quiet \/ Refused PROVE SocketsStay
  BY <1>1, <1>4 DEF Quiet, Refused, SavedKept
<1>5. ASSUME NEW side \in Side, NEW c \in Conn, Delivered(side, c) PROVE SocketsStay
  <2>1. tcp[side][c].st \notin {"none", "closed"} /\ UNCHANGED <<conns, uidOf>> /\ SavedKept
        /\ \E gt : OneSocket(side, c, tcp[side][c].st, tcp[side][c].read, tcp[side][c].wrote, gt)
    BY <1>5 DEF Delivered
  <2> QED BY <1>2, <2>1
<1>6. ASSUME NEW side \in Side, NEW c \in Conn, Discarded(side, c) PROVE SocketsStay
  <2>1. tcp[side][c].st \notin {"none", "closed"} /\ UNCHANGED <<conns, uidOf>> /\ SavedKept
        /\ \E st \in {"gone", "broken", "reset"} : OneSocket(side, c, st, tcp[side][c].read, tcp[side][c].wrote, tcp[side][c].got)
    BY <1>6 DEF Discarded
  <2> QED BY <1>2, <2>1
<1>7. ASSUME NEW side \in Side, NEW c \in Conn, PeerMoved(side, c) PROVE SocketsStay
  <2>1. tcp[side][c].st \notin {"none", "closed"} /\ UNCHANGED <<conns, uidOf>> /\ SavedKept
    BY <1>7 DEF PeerMoved, SavedKept
  <2>2. \E st \in {"open", "fin", "gone", "broken", "reset"} : \E wr : OneSocket(side, c, st, tcp[side][c].read, wr, tcp[side][c].got)
    BY <1>7 DEF PeerMoved
  <2> QED BY <1>2, <2>1, <2>2
<1>8. ASSUME NEW side \in Side, NEW u \in Uid, NEW c \in Conn, Piece(side, u, c) PROVE SocketsStay
  <2>1. tcp[side][c].st \notin {"none", "closed"} /\ UNCHANGED <<conns, uidOf>> /\ SavedKept
        /\ \E rd : OneSocket(side, c, tcp[side][c].st, rd, tcp[side][c].wrote, tcp[side][c].got)
    BY <1>8 DEF Piece, SavedKept
  <2> QED BY <1>2, <2>1
<1>9. ASSUME NEW side \in Side, NEW u \in Uid, NEW c \in Conn, Ended(side, u, c) \/ EofRead(side, u, c)
      PROVE  SocketCloses(side, u, c)
  BY <1>9 DEF Ended, EofRead, SocketCloses, SavedKept
<1> QED BY <1>3, <1>4, <1>5, <1>6, <1>7, <1>8, <1>9 DEF Step

\* The maps keep holding the open sockets.
LEMMA SocketsMappedStep ==
    ASSUME Base, PathInv, Step
    PROVE  SocketsMapped'
<1>0. /\ TypeOK /\ SocketsMapped /\ uidOf \in [Conn -> Uid \cup {0}] /\ 0 \notin Uid /\ NoConn \notin Conn
      /\ \A s \in Side, u \in Uid : conns[s][u] # NoConn => conns[s][u] \in Conn /\ uidOf[conns[s][u]] = u
  BY MapFacts DEF TypeOK, Uid, PathInv, Conn, NoConn
<1>1. ASSUME SocketsStay PROVE SocketsMapped'
  <2>1. \A s \in Side, c \in Conn :
            tcp'[s][c].st \notin {"none", "closed"} => uidOf'[c] \in Uid /\ conns'[s][uidOf'[c]] = c
    BY <1>0, <1>1 DEF SocketsStay, SocketsMapped
  <2>2. \A s \in Side, u \in Uid :
            conns'[s][u] # NoConn => tcp'[s][conns'[s][u]].st \notin {"none", "closed"}
    BY <1>0, <1>1 DEF SocketsStay, SocketsMapped
  <2> QED BY <2>1, <2>2 DEF SocketsMapped
<1>2. ASSUME NEW side \in Side, NEW u \in Uid, NEW d \in Conn, SocketCloses(side, u, d) PROVE SocketsMapped'
  <2>0. /\ uidOf' = uidOf /\ u = uidOf[d] /\ conns[side][u] = d
        /\ \A s \in Side, v \in Uid : conns'[s][v] = IF s = side /\ v = u THEN NoConn ELSE conns[s][v]
        /\ \A s \in Side, c \in Conn : s # side \/ c # d => tcp'[s][c] = tcp[s][c]
        /\ tcp'[side][d].st = "closed"
    BY <1>2 DEF SocketCloses, OneEntry, OneSocket
  <2>1. ASSUME NEW s \in Side, NEW c \in Conn, tcp'[s][c].st \notin {"none", "closed"}
        PROVE  uidOf'[c] \in Uid /\ conns'[s][uidOf'[c]] = c
    <3>1. s # side \/ c # d
      BY <2>0, <2>1
    <3>2. uidOf[c] \in Uid /\ conns[s][uidOf[c]] = c
      BY <1>0, <2>0, <2>1, <3>1 DEF SocketsMapped
    <3>3. ~(s = side /\ uidOf[c] = u)
      BY <2>0, <3>1, <3>2
    <3> QED BY <2>0, <3>2, <3>3
  <2>2. ASSUME NEW s \in Side, NEW v \in Uid, conns'[s][v] # NoConn
        PROVE  tcp'[s][conns'[s][v]].st \notin {"none", "closed"}
    <3>1. ~(s = side /\ v = u) /\ conns'[s][v] = conns[s][v]
      BY <2>0, <2>2
    <3>2. conns[s][v] \in Conn /\ uidOf[conns[s][v]] = v
      BY <1>0, <2>2, <3>1
    <3>3. ~(s = side /\ conns[s][v] = d)
      BY <2>0, <3>1, <3>2
    <3>4. tcp'[s][conns[s][v]] = tcp[s][conns[s][v]]
      BY <2>0, <3>2, <3>3
    <3> QED BY <1>0, <2>2, <3>1, <3>4 DEF SocketsMapped
  <2> QED BY <2>1, <2>2 DEF SocketsMapped
<1>3. ASSUME NEW side \in Side, NEW u \in Uid, NEW d \in Conn, OneEntry(side, u, d),
             OneSocket(side, d, "open", 0, 0, <<>>), uidOf'[d] = u,
             \A c \in Conn : c # d => uidOf'[c] = uidOf[c],
             tcp[Other(side)][d].st \notin {"none", "closed"} => uidOf[d] = u,
             conns[side][u] = NoConn,
             tcp[side][d].st = "none"
      PROVE  SocketsMapped'
  <2>0. /\ \A s \in Side, v \in Uid : conns'[s][v] = IF s = side /\ v = u THEN d ELSE conns[s][v]
        /\ \A s \in Side, c \in Conn : s # side \/ c # d => tcp'[s][c] = tcp[s][c]
        /\ tcp'[side][d].st = "open"
        /\ \A s \in Side : s # side => s = Other(side)
    BY <1>3 DEF OneEntry, OneSocket, Side, Other
  <2>1. ASSUME NEW s \in Side, NEW c \in Conn, tcp'[s][c].st \notin {"none", "closed"}
        PROVE  uidOf'[c] \in Uid /\ conns'[s][uidOf'[c]] = c
    <3>1. CASE s = side /\ c = d
      BY <1>3, <2>0, <3>1
    <3>2. CASE s # side \/ c # d
      <4>1. uidOf[c] \in Uid /\ conns[s][uidOf[c]] = c
        BY <1>0, <2>0, <2>1, <3>2 DEF SocketsMapped
      <4>2. uidOf'[c] = uidOf[c]
        <5>1. CASE c # d
          BY <1>3, <5>1
        <5>2. CASE c = d
          BY <1>3, <2>0, <2>1, <3>2, <5>2
        <5> QED BY <5>1, <5>2
      <4>3. ~(s = side /\ uidOf[c] = u)
        BY <1>0, <1>3, <4>1
      <4> QED BY <2>0, <4>1, <4>2, <4>3
    <3> QED BY <3>1, <3>2
  <2>2. ASSUME NEW s \in Side, NEW v \in Uid, conns'[s][v] # NoConn
        PROVE  tcp'[s][conns'[s][v]].st \notin {"none", "closed"}
    <3>1. CASE s = side /\ v = u
      BY <2>0, <3>1
    <3>2. CASE ~(s = side /\ v = u)
      <4>1. conns'[s][v] = conns[s][v] /\ conns[s][v] \in Conn /\ tcp[s][conns[s][v]].st \notin {"none", "closed"}
        BY <1>0, <2>0, <2>2, <3>2 DEF SocketsMapped
      <4>2. ~(s = side /\ conns[s][v] = d)
        BY <1>3, <4>1
      <4> QED BY <2>0, <4>1, <4>2
    <3> QED BY <3>1, <3>2
  <2> QED BY <2>1, <2>2 DEF SocketsMapped
<1>4. ASSUME NEW d \in Conn, DialledTo(d) PROVE SocketsMapped'
  <2>1. /\ OneEntry("server", uidOf[d], d) /\ OneSocket("server", d, "open", 0, 0, <<>>) /\ uidOf' = uidOf
        /\ uidOf[d] \notin Known("server") /\ 1 \in DOMAIN chan["server"] /\ chan["server"][1].uid = uidOf[d]
        /\ tcp["server"][d].st = "none"
    BY <1>4 DEF DialledTo, Takes
  <2>2. "server" \in Side /\ uidOf[d] \in Uid
    BY <2>1, MapFacts DEF Side
  <2>3. conns["server"][uidOf[d]] = NoConn
    BY <2>1, <2>2 DEF Known
  <2> QED BY <1>3, <2>1, <2>2, <2>3
<1>5. ASSUME NEW d \in Conn, Accepted(d) PROVE SocketsMapped'
  <2>1. /\ OneEntry("client", nextUid, d) /\ OneSocket("client", d, "open", 0, 0, <<>>)
        /\ uidOf[d] = 0 /\ nextUid \in Uid /\ uidOf' = [uidOf EXCEPT ![d] = nextUid]
    BY <1>5 DEF Accepted
  <2>2. /\ "client" \in Side /\ Other("client") = "server" /\ "server" \in Side
        /\ uidOf'[d] = nextUid /\ \A c \in Conn : c # d => uidOf'[c] = uidOf[c]
    BY <1>0, <2>1 DEF Side, Other
  <2>3. tcp["server"][d].st = "none" /\ tcp["client"][d].st = "none"
    BY <2>1 DEF Base, DialInv, DialledAccepted, PathInv, SocketsBorn
  <2>4. conns["client"][nextUid] = NoConn
    <3>1. \A c \in Conn : uidOf[c] # nextUid
      BY <1>0, <2>1 DEF Base, UidsDistinct, Uid
    <3> QED BY <1>0, <2>1, <2>2, <3>1
  <2> QED BY <1>3, <2>1, <2>2, <2>3, <2>4
<1> QED BY <1>1, <1>2, <1>4, <1>5, SocketKinds

\* Sockets stay unborn until they are opened.
LEMMA SocketsBornStep ==
    ASSUME Base, PathInv, Step
    PROVE  SocketsBorn'
<1>0. /\ TypeOK /\ SocketsBorn /\ uidOf \in [Conn -> Uid \cup {0}] /\ 0 \notin Uid /\ "server" # "client"
      /\ "server" \in Side /\ "client" \in Side
  BY MapFacts DEF TypeOK, Uid, PathInv, Side
<1> DEFINE Fresh(t) == t.st = "none" => t.read = 0 /\ t.wrote = 0 /\ t.got = <<>>
<1>1. ASSUME \A s \in Side, c \in Conn : Fresh(tcp[s][c])',
             \A c \in Conn : tcp'["client"][c].st = "none" <=> uidOf'[c] = 0,
             \A c \in Conn : tcp'["server"][c].st # "none" => savedAddr' # NoAddr
      PROVE  SocketsBorn'
  BY <1>1 DEF SocketsBorn
<1>2. ASSUME SocketsStay PROVE SocketsBorn'
  <2>1. \A s \in Side, c \in Conn : Fresh(tcp[s][c])'
    BY <1>0, <1>2 DEF SocketsStay, SocketsBorn
  <2>2. \A c \in Conn : tcp'["client"][c].st = "none" <=> uidOf'[c] = 0
    BY <1>0, <1>2 DEF SocketsStay, SocketsBorn
  <2>3. \A c \in Conn : tcp'["server"][c].st # "none" => savedAddr' # NoAddr
    BY <1>0, <1>2 DEF SocketsStay, SocketsBorn, SavedKept
  <2> QED BY <1>1, <2>1, <2>2, <2>3
<1>3. ASSUME NEW side \in Side, NEW d \in Conn, NEW st \in {"open", "closed"}, NEW rd, NEW wr, NEW gt,
             OneSocket(side, d, st, rd, wr, gt), side = "server" => savedAddr' # NoAddr,
             SavedKept, side = "client" => uidOf'[d] # 0, \A c \in Conn : c # d \/ side = "server" => uidOf'[c] = uidOf[c]
      PROVE  SocketsBorn'
  <2>0. /\ \A s \in Side, c \in Conn : s # side \/ c # d => tcp'[s][c] = tcp[s][c]
        /\ tcp'[side][d].st # "none"
    BY <1>3 DEF OneSocket
  <2>1. \A s \in Side, c \in Conn : Fresh(tcp[s][c])'
    <3> SUFFICES ASSUME NEW s \in Side, NEW c \in Conn PROVE Fresh(tcp[s][c])'
      OBVIOUS
    <3>1. CASE s = side /\ c = d
      BY <2>0, <3>1
    <3>2. CASE s # side \/ c # d
      BY <1>0, <2>0, <3>2 DEF SocketsBorn
    <3> QED BY <3>1, <3>2
  <2>2. \A c \in Conn : tcp'["client"][c].st = "none" <=> uidOf'[c] = 0
    BY <1>0, <1>3, <2>0 DEF SocketsBorn, Side
  <2>3. \A c \in Conn : tcp'["server"][c].st # "none" => savedAddr' # NoAddr
    BY <1>0, <1>3, <2>0 DEF SocketsBorn, SavedKept
  <2> QED BY <1>1, <2>1, <2>2, <2>3
<1>4. ASSUME NEW side \in Side, NEW u \in Uid, NEW d \in Conn, SocketCloses(side, u, d) PROVE SocketsBorn'
  <2>1. /\ OneSocket(side, d, "closed", tcp[side][d].read, tcp[side][d].wrote, tcp[side][d].got)
        /\ uidOf' = uidOf /\ u = uidOf[d] /\ conns[side][u] = d /\ SavedKept
    BY <1>4 DEF SocketCloses
  <2>2. tcp[side][d].st # "none"
    BY <2>1 DEF PathInv, SocketsMapped, Conn, NoConn
  <2>3. side = "server" => savedAddr' # NoAddr
    BY <1>0, <2>1, <2>2 DEF SocketsBorn, SavedKept
  <2>4. uidOf'[d] # 0
    BY <1>0, <2>1
  <2> QED BY <1>3, <2>1, <2>3, <2>4
<1>5. ASSUME NEW d \in Conn, DialledTo(d) PROVE SocketsBorn'
  <2>1. OneSocket("server", d, "open", 0, 0, <<>>) /\ uidOf' = uidOf /\ savedAddr' # NoAddr
    BY <1>5 DEF DialledTo
  <2> QED BY <1>0, <1>3, <2>1 DEF SavedKept
<1>6. ASSUME NEW d \in Conn, Accepted(d) PROVE SocketsBorn'
  <2>1. OneSocket("client", d, "open", 0, 0, <<>>) /\ uidOf' = [uidOf EXCEPT ![d] = nextUid] /\ nextUid \in Uid
        /\ savedAddr' = savedAddr
    BY <1>6 DEF Accepted
  <2>2. uidOf'[d] # 0 /\ \A c \in Conn : c # d => uidOf'[c] = uidOf[c]
    BY <1>0, <2>1
  <2> QED BY <1>0, <1>3, <2>1, <2>2 DEF SavedKept
<1> QED BY <1>2, <1>4, <1>5, <1>6, SocketKinds

-----------------------------------------------------------------------------
(* The streams.                                                            *)

\* A socket is written only what is delivered to it.
LEMMA GotKinds ==
    ASSUME Base, PathInv, Step, NEW s \in Side, NEW c \in Conn
    PROVE  tcp'[s][c].got = tcp[s][c].got \/ tcp'[s][c].got = <<>> \/ Delivered(s, c)
<1>1. ASSUME NEW side \in Side, NEW d \in Conn, NEW st, NEW rd, NEW wr, OneSocket(side, d, st, rd, wr, tcp[side][d].got)
      PROVE  tcp'[s][c].got = tcp[s][c].got
  BY <1>1 DEF OneSocket
<1>2. ASSUME NEW side \in Side, NEW d \in Conn, NEW st, OneSocket(side, d, st, 0, 0, <<>>)
      PROVE  tcp'[s][c].got = tcp[s][c].got \/ tcp'[s][c].got = <<>>
  BY <1>2 DEF OneSocket
<1>3. ASSUME NEW side \in Side, NEW d \in Conn, Delivered(side, d)
      PROVE  tcp'[s][c].got = tcp[s][c].got \/ Delivered(s, c)
  <2>1. CASE side = s /\ d = c
    BY <1>3, <2>1
  <2>2. CASE side # s \/ d # c
    BY <1>3, <2>2 DEF Delivered, OneSocket
  <2> QED BY <2>1, <2>2
<1>4. ASSUME NEW side \in Side, NEW d \in Conn, Discarded(side, d) \/ PeerMoved(side, d)
      PROVE  tcp'[s][c].got = tcp[s][c].got
  BY <1>1, <1>4 DEF Discarded, PeerMoved
<1>5. ASSUME NEW side \in Side, NEW u \in Uid, NEW d \in Conn, Ended(side, u, d) \/ Piece(side, u, d) \/ EofRead(side, u, d)
      PROVE  tcp'[s][c].got = tcp[s][c].got
  BY <1>1, <1>5 DEF Ended, Piece, EofRead
<1>6. ASSUME NEW d \in Conn, DialledTo(d) \/ Accepted(d)
      PROVE  tcp'[s][c].got = tcp[s][c].got \/ tcp'[s][c].got = <<>>
  BY <1>2, <1>6 DEF DialledTo, Accepted, Side
<1>7. ASSUME Refused \/ Quiet \/ \E side \in Side : Ignored(side)
      PROVE  tcp'[s][c].got = tcp[s][c].got
  BY <1>7 DEF Refused, Quiet, Ignored
<1> QED BY <1>3, <1>4, <1>5, <1>6, <1>7 DEF Step

LEMMA StreamIntactStep ==
    ASSUME Base, PathInv, StreamIntact, Step
    PROVE  StreamIntact'
<1> SUFFICES ASSUME NEW s \in Side, NEW c \in Conn, NEW i \in DOMAIN tcp'[s][c].got
             PROVE  tcp'[s][c].got[i] = Bytes(c, i)
  BY DEF StreamIntact
<1>1. CASE tcp'[s][c].got = tcp[s][c].got
  BY <1>1 DEF StreamIntact
<1>2. CASE tcp'[s][c].got = <<>>
  BY <1>2
<1>3. CASE Delivered(s, c)
  <2> DEFINE g == tcp[s][c].got
  <2>1. tcp'[s][c].got = Append(g, Bytes(c, Len(g) + 1))
    <3>1. chan[s][1].body = Bytes(c, Len(g) + 1)
      BY <1>3, DeliveredNext
    <3> QED BY <1>3, <3>1 DEF Delivered, OneSocket
  <2>2. g \in Seq(Body)
    BY MapFacts, FlowTypes DEF Socket
  <2>3. \A j \in DOMAIN g : g[j] = Bytes(c, j)
    BY DEF StreamIntact
  <2> HIDE DEF g
  <2>4. \A b : \A j \in DOMAIN Append(g, b) : Append(g, b)[j] = IF j = Len(g) + 1 THEN b ELSE g[j]
    BY <2>2
  <2>5. \A b : \A j \in DOMAIN Append(g, b) : j = Len(g) + 1 \/ j \in DOMAIN g
    BY <2>2
  <2> QED BY <2>1, <2>3, <2>4, <2>5
<1> QED BY <1>1, <1>2, <1>3, GotKinds

\* Over a reliable path, in one session, the invariant is inductive.
LEMMA StreamsStep ==
    ASSUME Reliable, OneSession, StreamsInv, [Next]_vars
    PROVE  StreamsInv'
<1>1. CASE Next
  <2>1. Step
    BY <1>1, Steps DEF StreamsInv
  <2>2. ~ClientRestarts
    BY MapFacts DEF ClientRestarts, OneSession, StreamsInv, TypeOK, Session
  <2>3. Base'
    BY <1>1, <2>2, DialInvStep, UidsDistinctStep DEF StreamsInv, Base, DialInv
  <2>4. PathInv'
    BY <1>1, <2>1, PacketsKnownStep, SocketsMappedStep, SocketsBornStep, EofLastStep, FlowsStep
       DEF StreamsInv, PathInv
  <2> QED BY <2>1, <2>3, <2>4, StreamIntactStep DEF StreamsInv
<1>2. CASE UNCHANGED vars
  BY <1>2 DEF vars, StreamsInv, Base, PathInv, DialInv, Inv, Bookkeeping, TypeOK, AllWatched, Known, ErrorAfterDeath,
        TableInv, PacketInv, MappedConnected, DialledAccepted, AnnouncedOnce, UidsDistinct, PacketsKnown,
        SocketsMapped, SocketsBorn, EofLast, Flows, Flow, Awaits, Announced, Expect, Ends, StreamIntact
<1> QED BY <1>1, <1>2

LEMMA InitStreams == Init => StreamsInv
<1> SUFFICES ASSUME Init PROVE StreamsInv
  OBVIOUS
<1>1. DialInv /\ UidsDistinct
  BY InitDialInv DEF Init, UidsDistinct
<1>2. /\ chan = [s \in Side |-> <<>>] /\ uidOf = [c \in Conn |-> 0]
      /\ tcp = [s \in Side |-> [c \in Conn |-> NewSocket("none")]]
      /\ conns = [s \in Side |-> [u \in Uid |-> NoConn]]
  BY DEF Init
<1>3. \A s \in Side, c \in Conn : /\ tcp[s][c].st = "none" /\ tcp[s][c].got = <<>>
                                 /\ tcp[s][c].read = 0 /\ tcp[s][c].wrote = 0
  BY <1>2 DEF NewSocket
<1>4. \A s \in Side : chan[s] = <<>> /\ Other(s) \in Side
  BY <1>2 DEF Side, Other
<1>5. PacketsKnown /\ SocketsMapped /\ SocketsBorn /\ EofLast /\ StreamIntact
  <2>1. PacketsKnown /\ EofLast
    BY <1>4 DEF PacketsKnown, EofLast
  <2>2. SocketsMapped /\ SocketsBorn /\ StreamIntact
    BY <1>2, <1>3 DEF SocketsMapped, SocketsBorn, StreamIntact, Side
  <2> QED BY <2>1, <2>2
<1>6. Flows
  <2> SUFFICES ASSUME NEW s \in Side, NEW c \in Conn PROVE Flow(s, c)
    BY DEF Flows
  <2>1. Len(tcp[s][c].got) = 0 /\ tcp[Other(s)][c].read = 0 /\ Len(<<>>) = 0
    BY <1>3, <1>4
  <2>2. ~Awaits(s, c)
    BY <1>3, <1>4 DEF Awaits, Announced, Side
  <2>3. Rising(chan[s], c, 0)
    BY <1>4 DEF Rising
  <2> QED BY <2>1, <2>2, <2>3 DEF Flow
<1> QED BY <1>1, <1>5, <1>6 DEF StreamsInv, Base, PathInv

\* The invariant of a reliable path: in every state, what receive_packet_from_splitter_* will
\* still be given of a connection continues what has been written to its peer.
THEOREM StreamsHold == ASSUME Reliable, OneSession PROVE Spec => []StreamsInv
<1>1. StreamsInv /\ [Next]_vars => StreamsInv'
  BY StreamsStep
<1> QED BY <1>1, InitStreams, PTL DEF Spec

\* Over a path that neither loses, reorders nor duplicates, with any number of connections and chunks,
\* any failing send and TCP peers that end their connections in any way and at any time: whatever a
\* destination or an application has been written are the first pieces of what the other end wrote, each
\* once and in order.  So receive_packet_from_splitter_* need no sequence numbers on such a path.
THEOREM StreamsAlwaysIntact == ASSUME Reliable, OneSession PROVE Spec => []StreamIntact
<1>1. StreamsInv => StreamIntact
  BY DEF StreamsInv
<1> QED BY <1>1, StreamsHold, PTL

-----------------------------------------------------------------------------
(* The tables.                                                             *)

BothUp == up["client"] = "up" /\ up["server"] = "up"

\* An announcement for uid u is on its way.
Announces(u) == \E i \in DOMAIN chan["server"] : chan["server"][i].new /\ chan["server"][i].uid = u

\* While both splitters live, a uid that only one of them holds is explained by what is on its way.
Table(u) ==
    /\ u \in watched["client"] => u \in Known("server") \/ Announces(u) \/ Ends("client", u)
    /\ u \in Known("server") => u \in watched["client"] \/ Ends("server", u)
    /\ Announces(u) => u \in watched["client"] \/ Ends("server", u)
TablesInv == BothUp => \A u \in Uid : Table(u)

\* An end of file, or an announcement, only goes when it is the first packet and is taken.
LEMMA EndsKept ==
    ASSUME Base, PathInv, Step, NEW s \in Side, NEW u \in Uid, Ends(s, u), ~Ends(s, u)'
    PROVE  /\ 1 \in DOMAIN chan[s] /\ chan'[s] = RemoveAt(chan[s], 1)
           /\ chan[s][1].body = Empty /\ chan[s][1].uid = u
<1>0. TypeOK /\ chan[s] \in Seq(Packet)
  BY MapFacts DEF TypeOK
<1>1. PICK i \in DOMAIN chan[s] : chan[s][i].body = Empty /\ chan[s][i].uid = u
  BY DEF Ends
<1>2. ~\E j \in DOMAIN chan'[s] : chan'[s][j] = chan[s][i]
  BY <1>1 DEF Ends
<1>3. chan'[s] # chan[s]
  BY <1>2
<1>4. ~\E q : Sent(s, q)
  BY <1>0, <1>2, SentOrigin DEF Sent
<1>5. 1 \in DOMAIN chan[s] /\ chan'[s] = RemoveAt(chan[s], 1)
  BY <1>3, <1>4, ChannelSteps DEF ChannelStep
<1>6. i = 1
  BY <1>0, <1>2, <1>5, TakeFirst
<1> QED BY <1>1, <1>5, <1>6

LEMMA AnnouncesKept ==
    ASSUME Base, PathInv, Step, NEW u \in Uid, Announces(u), ~Announces(u)'
    PROVE  /\ 1 \in DOMAIN chan["server"] /\ chan'["server"] = RemoveAt(chan["server"], 1)
           /\ chan["server"][1].new /\ chan["server"][1].uid = u
<1>0. TypeOK /\ chan["server"] \in Seq(Packet) /\ "server" \in Side
  BY MapFacts DEF TypeOK, Side
<1>1. PICK i \in DOMAIN chan["server"] : chan["server"][i].new /\ chan["server"][i].uid = u
  BY DEF Announces
<1>2. ~\E j \in DOMAIN chan'["server"] : chan'["server"][j] = chan["server"][i]
  BY <1>1 DEF Announces
<1>3. chan'["server"] # chan["server"]
  BY <1>2
<1>4. ~\E q : Sent("server", q)
  BY <1>0, <1>2, SentOrigin DEF Sent
<1>5. 1 \in DOMAIN chan["server"] /\ chan'["server"] = RemoveAt(chan["server"], 1)
  BY <1>0, <1>3, <1>4, ChannelSteps DEF ChannelStep
<1>6. i = 1
  BY <1>0, <1>2, <1>5, TakeFirst
<1> QED BY <1>1, <1>5, <1>6

\* An announcement only comes for the next uid.
LEMMA AnnouncesOrigin ==
    ASSUME Base, PathInv, Step, NEW u \in Uid, Announces(u)', ~Announces(u)
    PROVE  u = nextUid /\ nextUid' = nextUid + 1 /\ chan'["server"] # chan["server"]
<1>0. TypeOK /\ "server" \in Side
  BY MapFacts DEF Side
<1>1. PICK i \in DOMAIN chan'["server"] : chan'["server"][i].new /\ chan'["server"][i].uid = u
  BY DEF Announces
<1>2. ~\E j \in DOMAIN chan["server"] : chan'["server"][i] = chan["server"][j]
  BY <1>1 DEF Announces
<1>3. chan'["server"] # chan["server"]
  BY <1>2
<1>4. ~(1 \in DOMAIN chan["server"] /\ chan'["server"] = RemoveAt(chan["server"], 1))
  BY <1>0, <1>2, TakenOrigin
<1>5. PICK q : Sent("server", q)
  BY <1>0, <1>3, <1>4, ChannelSteps DEF ChannelStep
<1>6. chan'["server"][i] = q
  BY <1>0, <1>2, <1>5, SentOrigin DEF Sent
<1>7. SentAnnouncement("server", q)
  BY <1>1, <1>5, <1>6 DEF Sent, SentPiece, SentEof, SentRefusal
<1> QED BY <1>1, <1>3, <1>6, <1>7 DEF SentAnnouncement

\* Who watches and knows what, on its way or not.
LEMMA TableFacts ==
    ASSUME Base, PathInv, NEW u \in Uid
    PROVE  /\ TypeOK /\ "client" \in Side /\ "server" \in Side
           /\ Other("client") = "server" /\ Other("server") = "client"
           /\ \A s \in Side : u \in watched[s] => conns[s][u] # NoConn
           /\ u \in Known("server") <=> conns["server"][u] # NoConn
           /\ u = nextUid => /\ u \notin watched["client"] /\ u \notin Known("server") /\ ~Announces(u)
           /\ nextUid \in Nat
<1>1. TypeOK /\ nextUid \in Nat /\ "client" \in Side /\ "server" \in Side
      /\ Other("client") = "server" /\ Other("server") = "client"
  BY MapFacts DEF TypeOK, Side, Other
<1>2. \A s \in Side : u \in watched[s] => conns[s][u] # NoConn
  BY DEF Base, DialInv, Inv, Bookkeeping, AllWatched, Known, Side
<1>3. u \in Known("server") <=> conns["server"][u] # NoConn
  BY DEF Known
<1>4. \A s \in Side : conns[s][u] # NoConn => u < nextUid
  BY MapFacts DEF Base, UidsDistinct
<1>5. ~(nextUid < nextUid)
  BY <1>1
<1>6. Announces(u) => u < nextUid
  BY <1>1 DEF Announces, PathInv, PacketsKnown
<1> QED BY <1>1, <1>2, <1>3, <1>4, <1>5, <1>6

\* The steps in which no splitter gains or loses uid u.
TableStays(u) ==
    /\ u \in watched'["client"] <=> u \in watched["client"]
    /\ conns'["server"][u] = conns["server"][u]
    /\ Announces(u)' => Announces(u)
    /\ Announces(u) => Announces(u)' \/ Ends("client", u)'
    /\ u \in watched["client"] /\ Ends("client", u) => Ends("client", u)'
    /\ (u \in Known("server") \/ Announces(u)') /\ Ends("server", u) => Ends("server", u)'

LEMMA TableKept ==
    ASSUME NEW u \in Uid, Table(u), TableStays(u)
    PROVE  Table(u)'
<1>1. u \in Known("server")' <=> u \in Known("server")
  BY DEF Known, TableStays
<1> QED BY <1>1 DEF Table, TableStays

\* The steps in which the first packet to side is taken, which is no announcement, and if it
\* is the end of uid u then side does not know u.
LEMMA TableTaken ==
    ASSUME Base, PathInv, Step, NEW side \in Side, Takes(side), nextUid' = nextUid,
           ~chan[side][1].new, NEW u \in Uid,
           chan[side][1].body = Empty /\ chan[side][1].uid = u => u \notin Known(side),
           u \in watched'["client"] <=> u \in watched["client"], conns'["server"][u] = conns["server"][u]
    PROVE  TableStays(u)
<1>0. TypeOK /\ nextUid \in Nat /\ chan[side] \in Seq(Packet)
  BY TableFacts DEF TypeOK
<1>1. 1 \in DOMAIN chan[side] /\ chan'[side] = RemoveAt(chan[side], 1)
      /\ chan'[Other(side)] = chan[Other(side)] /\ Other(side) \in Side
      /\ \A s \in Side : s = side \/ s = Other(side)
  BY <1>0, TakesAt DEF Other, Side
<1>2. Announces(u)' => Announces(u)
  BY <1>0, AnnouncesOrigin
<1>3. Announces(u) => Announces(u)'
  <2> SUFFICES ASSUME Announces(u), ~Announces(u)' PROVE FALSE
    OBVIOUS
  <2>1. chan'["server"] # chan["server"] /\ chan["server"][1].new
    BY AnnouncesKept DEF Announces
  <2> QED BY <1>1, <2>1, TableFacts
<1>4. ASSUME NEW s \in Side, Ends(s, u), ~Ends(s, u)'
      PROVE  s = side /\ chan[s][1].body = Empty /\ chan[s][1].uid = u
  <2>1. chan'[s] # chan[s]
    BY <1>4 DEF Ends
  <2> QED BY <1>1, <1>4, <2>1, EndsKept
<1>5. u \in watched["client"] /\ Ends("client", u) => Ends("client", u)'
  <2>1. u \in watched["client"] => u \in Known("client")
    BY TableFacts DEF Known
  <2> QED BY <1>4, <2>1, TableFacts
<1>6. u \in Known("server") /\ Ends("server", u) => Ends("server", u)'
  BY <1>4, TableFacts
<1>7. Announces(u)' /\ Ends("server", u) => Ends("server", u)'
  <2> SUFFICES ASSUME Announces(u)', Ends("server", u), ~Ends("server", u)' PROVE FALSE
    OBVIOUS
  <2>1. side = "server" /\ chan[side][1].body = Empty /\ chan[side][1].uid = u
    BY <1>4, TableFacts
  <2>2. PICK i \in DOMAIN chan'[side] : chan'[side][i].uid = u
    BY <2>1 DEF Announces
  <2>3. i \in Nat /\ i + 1 \in DOMAIN chan[side] /\ chan'[side][i] = chan[side][i + 1] /\ 0 \notin DOMAIN chan'[side]
    BY <1>0, <1>1, TakeFirst
  <2>4. 1 < i + 1
    BY <2>3
  <2> QED BY <1>1, <2>1, <2>2, <2>3, <2>4 DEF PathInv, EofLast
<1> QED BY <1>2, <1>3, <1>5, <1>6, <1>7 DEF TableStays

\* The steps in which nothing is taken, and nothing sent that announces u.
LEMMA TableSent ==
    ASSUME Base, PathInv, Step, NEW u \in Uid,
           \A s \in Side : chan'[s] = chan[s] \/ \E q \in Packet : chan'[s] = Append(chan[s], q),
           Announces(u)' => Announces(u),
           u \in watched'["client"] <=> u \in watched["client"], conns'["server"][u] = conns["server"][u]
    PROVE  TableStays(u)
<1>0. TypeOK /\ "client" \in Side /\ "server" \in Side
  BY TableFacts
<1>1. \A s \in Side : \A i \in DOMAIN chan[s] : i \in DOMAIN chan'[s] /\ chan'[s][i] = chan[s][i]
  BY <1>0, SentOrigin
<1>2. Announces(u) => Announces(u)'
  BY <1>0, <1>1 DEF Announces
<1>3. \A s \in Side : Ends(s, u) => Ends(s, u)'
  BY <1>1 DEF Ends
<1> QED BY <1>0, <1>2, <1>3 DEF TableStays

LEMMA TablesStep ==
    ASSUME Base, PathInv, Reliable, Step, TablesInv
    PROVE  TablesInv'
<1> SUFFICES ASSUME up'["client"] = "up", up'["server"] = "up", NEW u \in Uid
             PROVE  Table(u)'
  BY DEF TablesInv, BothUp
<1>0. /\ TypeOK /\ "client" \in Side /\ "server" \in Side /\ nextUid \in Nat
      /\ Other("client") = "server" /\ Other("server") = "client" /\ "client" # "server"
      /\ conns \in [Side -> [Uid -> Conn \cup {NoConn}]] /\ watched \in [Side -> SUBSET Uid]
  BY TableFacts DEF TypeOK
<1>1. nextUid' = nextUid => (Announces(u)' => Announces(u))
  BY <1>0, AnnouncesOrigin
<1>2. ASSUME NEW side \in Side, Ignored(side) PROVE Table(u)'
  <2>1. /\ Takes(side) /\ nextUid' = nextUid /\ conns' = conns /\ watched' = watched
        /\ up["client"] = "up" /\ up["server"] = "up" /\ ~chan[side][1].new /\ chan[side][1].uid \notin Known(side)
    BY <1>0, <1>2 DEF Ignored, Side
  <2>2. TableStays(u)
    BY <2>1, TableTaken
  <2> QED BY <2>1, <2>2, TableKept DEF TablesInv, BothUp
<1>3. ASSUME NEW side \in Side, NEW c \in Conn, Delivered(side, c) \/ Discarded(side, c) PROVE Table(u)'
  <2>1. /\ Takes(side) /\ nextUid' = nextUid /\ conns' = conns /\ watched' = watched
        /\ up["client"] = "up" /\ up["server"] = "up" /\ ~chan[side][1].new /\ chan[side][1].body # Empty
    BY <1>0, <1>3 DEF Delivered, Discarded, Side
  <2>2. TableStays(u)
    BY <2>1, TableTaken
  <2> QED BY <2>1, <2>2, TableKept DEF TablesInv, BothUp
<1>4. ASSUME Quiet \/ \E side \in Side, c \in Conn : PeerMoved(side, c) PROVE Table(u)'
  <2>1. /\ chan' = chan /\ conns' = conns /\ watched' = watched /\ up["client"] = "up" /\ up["server"] = "up"
    BY <1>0, <1>4 DEF Quiet, PeerMoved
  <2>2. Announces(u)' => Announces(u)
    BY <2>1 DEF Announces
  <2>3. TableStays(u)
    BY <2>1, <2>2, TableSent
  <2> QED BY <2>1, <2>3, TableKept DEF TablesInv, BothUp
<1>5. ASSUME NEW side \in Side, NEW v \in Uid, NEW c \in Conn, Piece(side, v, c) PROVE Table(u)'
  <2>1. /\ nextUid' = nextUid /\ conns' = conns /\ watched' = watched /\ up["client"] = "up" /\ up["server"] = "up"
        /\ \A s \in Side : chan'[s] = chan[s] \/ \E q \in Packet : chan'[s] = Append(chan[s], q)
    BY <1>0, <1>5 DEF Piece, Side
  <2>2. TableStays(u)
    BY <1>1, <2>1, TableSent
  <2> QED BY <2>1, <2>2, TableKept DEF TablesInv, BothUp
<1>6. ASSUME NEW side \in Side, NEW v \in Uid, NEW c \in Conn, Ended(side, v, c) PROVE Table(u)'
  <2>1. /\ Takes(side) /\ nextUid' = nextUid /\ up["client"] = "up" /\ up["server"] = "up"
        /\ ~chan[side][1].new /\ chan[side][1].body = Empty /\ chan[side][1].uid = v
        /\ watched' = [watched EXCEPT ![side] = @ \ {v}] /\ OneEntry(side, v, NoConn)
    BY <1>0, <1>6 DEF Ended
  <2>2. CASE u # v
    <3>1. (u \in watched'["client"] <=> u \in watched["client"]) /\ conns'["server"][u] = conns["server"][u]
      BY <1>0, <2>1, <2>2 DEF OneEntry
    <3>2. TableStays(u)
      BY <2>1, <2>2, <3>1, TableTaken
    <3> QED BY <2>1, <3>2, TableKept DEF TablesInv, BothUp
  <2>3. CASE u = v
    <3>1. /\ 1 \in DOMAIN chan[side] /\ chan[side] \in Seq(Packet) /\ chan'[side] = RemoveAt(chan[side], 1)
          /\ conns[Other(side)][u] = NoConn
          /\ \A j \in DOMAIN chan[side] : 1 < j => chan[side][j].uid # u
          /\ side = "client" => ~Announces(u)
      BY <1>0, <2>1, <2>3, TakesAt DEF TypeOK, PathInv, EofLast, Announces
    <3>2. u \notin watched'["client"]
      <4>1. CASE side = "client"
        BY <1>0, <2>1, <2>3, <4>1
      <4>2. CASE side = "server"
        BY <1>0, <2>1, <3>1, <4>2, TableFacts
      <4> QED BY <4>1, <4>2 DEF Side
    <3>3. u \notin Known("server")'
      <4>1. conns'["server"][u] = NoConn
        BY <1>0, <2>1, <2>3, <3>1 DEF OneEntry, Side
      <4> QED BY <4>1 DEF Known
    <3>4. ~Announces(u)'
      <4>1. CASE side = "client"
        BY <1>1, <2>1, <3>1, <4>1
      <4>2. CASE side = "server"
        <5> SUFFICES ASSUME Announces(u)' PROVE FALSE
          OBVIOUS
        <5>1. PICK i \in DOMAIN chan'[side] : chan'[side][i].uid = u
          BY <4>2 DEF Announces
        <5>2. i \in Nat /\ i + 1 \in DOMAIN chan[side] /\ chan'[side][i] = chan[side][i + 1] /\ 0 \notin DOMAIN chan'[side]
          BY <3>1, TakeFirst
        <5>3. 1 < i + 1
          BY <5>2
        <5> QED BY <3>1, <5>1, <5>2, <5>3
      <4> QED BY <4>1, <4>2 DEF Side
    <3> QED BY <3>2, <3>3, <3>4 DEF Table
  <2> QED BY <2>2, <2>3
<1>7. ASSUME NEW side \in Side, NEW v \in Uid, NEW c \in Conn, EofRead(side, v, c) PROVE Table(u)'
  <2>1. /\ nextUid' = nextUid /\ up["client"] = "up" /\ up["server"] = "up"
        /\ chan'[side] = chan[side]
        /\ watched' = [watched EXCEPT ![side] = @ \ {v}] /\ OneEntry(side, v, NoConn)
    BY <1>0, <1>7 DEF EofRead, Side
  <2>2. PICK q \in Packet : q.uid = v /\ q.body = Empty /\ ~q.new /\ chan'[Other(side)] = Append(chan[Other(side)], q)
    <3>1. ~(up'[side] # "up")
      BY DEF Side
    <3> QED BY <1>7, <3>1 DEF EofRead
  <2>3. CASE u # v
    <3>1. (u \in watched'["client"] <=> u \in watched["client"]) /\ conns'["server"][u] = conns["server"][u]
      BY <1>0, <2>1, <2>3 DEF OneEntry
    <3>2. \A s \in Side : chan'[s] = chan[s] \/ \E x \in Packet : chan'[s] = Append(chan[s], x)
      BY <1>0, <2>1, <2>2 DEF Side
    <3>3. TableStays(u)
      BY <1>1, <2>1, <3>1, <3>2, TableSent
    <3> QED BY <2>1, <3>3, TableKept DEF TablesInv, BothUp
  <2>4. CASE u = v
    <3>0. Other(side) \in Side
      BY DEF Other, Side
    <3>1. Ends(Other(side), u)'
      <4>1. ASSUME NEW s \in Side, chan'[s] = Append(chan[s], q) PROVE Ends(s, u)'
        <5>1. TypeOK
          BY <1>0
        <5>2. Len(chan[s]) + 1 \in DOMAIN chan'[s] /\ chan'[s][Len(chan[s]) + 1] = q
          BY <4>1, <5>1, SentOrigin
        <5>3. q.body = Empty /\ q.uid = u
          BY <2>2, <2>4
        <5> QED BY <5>2, <5>3 DEF Ends
      <4> QED BY <2>2, <3>0, <4>1
    <3>2. CASE side = "client"
      <4>1. u \notin watched'["client"] /\ Ends("server", u)'
        BY <1>0, <2>1, <2>4, <3>1, <3>2
      <4> QED BY <4>1 DEF Table
    <3>3. CASE side = "server"
      <4>1. conns'["server"][u] = NoConn /\ Ends("client", u)' /\ watched'["client"] = watched["client"]
        BY <1>0, <2>1, <2>4, <3>1, <3>3 DEF OneEntry
      <4>2. u \notin Known("server")'
        BY <4>1 DEF Known
      <4>3. Ends("server", u)' <=> Ends("server", u)
        BY <2>1, <3>3 DEF Ends
      <4>4. Table(u)
        BY <2>1 DEF TablesInv, BothUp
      <4> QED BY <1>1, <2>1, <4>1, <4>2, <4>3, <4>4 DEF Table
    <3> QED BY <3>2, <3>3 DEF Side
  <2> QED BY <2>3, <2>4
<1>8. ASSUME NEW c \in Conn, DialledTo(c) PROVE Table(u)'
  <2>1. /\ Takes("server") /\ nextUid' = nextUid /\ up["client"] = "up" /\ up["server"] = "up"
        /\ chan["server"][1].new /\ chan["server"][1].uid = uidOf[c]
        /\ watched' = [watched EXCEPT !["server"] = @ \cup {uidOf[c]}] /\ OneEntry("server", uidOf[c], c)
    BY <1>8 DEF DialledTo
  <2>2. watched'["client"] = watched["client"]
    BY <1>0, <2>1
  <2>3. Table(u)
    BY <2>1 DEF TablesInv, BothUp
  <2>4. chan["server"][1].body # Empty /\ 1 \in DOMAIN chan["server"] /\ chan'["client"] = chan["client"]
    BY <1>0, <2>1, MapFacts, TakesAt DEF Takes
  <2>5. Ends("client", u)' <=> Ends("client", u)
    BY <2>4 DEF Ends
  <2>6. Ends("server", u) => Ends("server", u)'
    BY <1>0, <2>4, EndsKept
  <2>7. CASE u # uidOf[c]
    <3>1. u \in Known("server")' <=> u \in Known("server")
      BY <1>0, <2>1, <2>7 DEF OneEntry, Known
    <3>2. Announces(u) => Announces(u)'
      BY <2>1, <2>7, AnnouncesKept
    <3> QED BY <1>1, <2>1, <2>2, <2>3, <2>5, <2>6, <3>1, <3>2 DEF Table
  <2>8. CASE u = uidOf[c]
    <3>1. u \in Known("server")'
      <4>1. conns'["server"][u] = c /\ c # NoConn
        BY <1>0, <2>1, <2>8 DEF OneEntry, Conn, NoConn
      <4> QED BY <4>1 DEF Known
    <3>2. Announces(u)
      BY <2>1, <2>4, <2>8 DEF Announces
    <3> QED BY <2>2, <2>3, <2>6, <3>1, <3>2 DEF Table
  <2> QED BY <2>7, <2>8
<1>9. ASSUME NEW c \in Conn, Accepted(c) PROVE Table(u)'
  <2>1. /\ up["client"] = "up" /\ up["server"] = "up" /\ OneEntry("client", nextUid, c) /\ nextUid \in Uid
        /\ chan'["client"] = chan["client"]
        /\ \/ /\ watched' = [watched EXCEPT !["client"] = @ \cup {nextUid}]
              /\ \E q \in Packet : /\ q.new /\ q.uid = nextUid /\ q.body = Destination(c)
                                   /\ chan'["server"] = Append(chan["server"], q)
           \/ watched' = watched /\ chan' = chan
    BY <1>9 DEF Accepted
  <2>2. /\ conns'["server"][u] = conns["server"][u]
        /\ \A s \in Side : chan'[s] = chan[s] \/ \E x \in Packet : chan'[s] = Append(chan[s], x)
    BY <1>0, <2>1 DEF OneEntry, Side
  <2>3. Table(u)
    BY <2>1 DEF TablesInv, BothUp
  <2>4. CASE u # nextUid
    <3>1. u \in watched'["client"] <=> u \in watched["client"]
      BY <1>0, <2>1, <2>4
    <3>2. Announces(u)' => Announces(u)
      BY <2>4, AnnouncesOrigin
    <3>3. TableStays(u)
      BY <2>2, <3>1, <3>2, TableSent
    <3> QED BY <2>3, <3>3, TableKept
  <2>5. CASE u = nextUid
    <3>1. u \notin watched["client"] /\ u \notin Known("server") /\ ~Announces(u)
      BY <2>5, TableFacts
    <3>2. u \notin Known("server")'
      BY <2>2, <3>1 DEF Known
    <3>3. CASE watched' = watched /\ chan' = chan
      <4>1. ~Announces(u)'
        BY <3>1, <3>3 DEF Announces
      <4> QED BY <3>1, <3>2, <3>3, <4>1 DEF Table
    <3>4. CASE /\ watched' = [watched EXCEPT !["client"] = @ \cup {nextUid}]
               /\ \E q \in Packet : /\ q.new /\ q.uid = nextUid /\ chan'["server"] = Append(chan["server"], q)
      <4>1. u \in watched'["client"]
        BY <1>0, <2>5, <3>4
      <4>2. Announces(u)'
        BY <1>0, <2>5, <3>4, SentOrigin DEF Announces
      <4> QED BY <3>2, <4>1, <4>2 DEF Table
    <3> QED BY <2>1, <3>3, <3>4
  <2> QED BY <2>4, <2>5
<1>10. ASSUME Refused PROVE Table(u)'
  <2>1. /\ nextUid' = nextUid /\ conns' = conns /\ watched' = watched /\ up["client"] = "up" /\ up["server"] = "up"
        /\ 1 \in DOMAIN chan["server"] /\ chan'["server"] = RemoveAt(chan["server"], 1) /\ chan["server"][1].new
    BY <1>0, <1>10 DEF Refused
  <2>2. PICK q \in Packet : /\ q.uid = chan["server"][1].uid /\ q.body = Empty
                            /\ chan'["client"] = Append(chan["client"], q)
    BY <1>10 DEF Refused
  <2>3. Ends("client", u) => Ends("client", u)'
    BY <1>0, <2>2, SentOrigin DEF Ends
  <2>4. Announces(u) => Announces(u)' \/ Ends("client", u)'
    <3>1. Ends("client", q.uid)'
      BY <1>0, <2>2, SentOrigin DEF Ends
    <3> QED BY <2>2, <3>1, AnnouncesKept
  <2>5. Ends("server", u) => Ends("server", u)'
    BY <1>0, <2>1, EndsKept, MapFacts
  <2>6. TableStays(u)
    BY <1>1, <2>1, <2>3, <2>4, <2>5 DEF TableStays
  <2> QED BY <2>1, <2>6, TableKept DEF TablesInv, BothUp
<1> QED BY <1>2, <1>3, <1>4, <1>5, <1>6, <1>7, <1>8, <1>9, <1>10 DEF Step

\* Over a reliable path, in one session: whenever both splitters live and nothing is on its way, they hold
\* the same connections under the same uids, although either end of a connection may have been closed
\* first, or both at once, and destinations may have refused.
THEOREM TablesAlwaysAgree == ASSUME Reliable, OneSession PROVE Spec => []TablesAgree
<1>1. Init => StreamsInv /\ TablesInv
  <2>1. Init => TablesInv
    BY DEF Init, TablesInv, Table, Known, Announces, Side
  <2> QED BY <2>1, InitStreams
<1>2. StreamsInv /\ TablesInv /\ [Next]_vars => StreamsInv' /\ TablesInv'
  <2> SUFFICES ASSUME StreamsInv, TablesInv, [Next]_vars PROVE TablesInv'
    BY StreamsStep
  <2>1. CASE Next
    BY <2>1, Steps, TablesStep DEF StreamsInv
  <2>2. CASE UNCHANGED vars
    BY <2>2 DEF vars, TablesInv, BothUp, Table, Known, Announces, Ends
  <2> QED BY <2>1, <2>2
<1>3. StreamsInv /\ TablesInv => TablesAgree
  <2> SUFFICES ASSUME StreamsInv, TablesInv, \A side \in Side : up[side] = "up" /\ chan[side] = <<>>
               PROVE  /\ watched["client"] = Known("server")
                      /\ \A u \in Known("server") : conns["client"][u] = conns["server"][u]
    BY DEF TablesAgree
  <2>0. Base /\ PathInv /\ TypeOK /\ "client" \in Side /\ "server" \in Side
    BY MapFacts DEF StreamsInv, Side
  <2>1. \A u \in Uid : Table(u) /\ ~Announces(u) /\ ~Ends("client", u) /\ ~Ends("server", u)
    BY <2>0 DEF TablesInv, BothUp, Announces, Ends
  <2>2. watched["client"] = Known("server")
    <3>1. watched["client"] \subseteq Uid /\ Known("server") \subseteq Uid
      BY <2>0 DEF TypeOK, Known
    <3> QED BY <2>1, <3>1 DEF Table
  <2>3. ASSUME NEW u \in Known("server") PROVE conns["client"][u] = conns["server"][u]
    <3>1. u \in Uid /\ conns["server"][u] # NoConn /\ conns["client"][u] # NoConn
      BY <2>0, <2>2, TableFacts DEF Known
    <3>2. /\ conns["server"][u] \in Conn /\ uidOf[conns["server"][u]] = u
          /\ conns["client"][u] \in Conn /\ uidOf[conns["client"][u]] = u /\ u # 0
      BY <2>0, <3>1, MapFacts DEF Uid
    <3> QED BY <2>0, <3>2 DEF Base, UidsDistinct
  <2> QED BY <2>2, <2>3
<1> QED BY <1>1, <1>2, <1>3, PTL DEF Spec

-----------------------------------------------------------------------------
(* The pipes.                                                              *)

\* The variables of SplitPipes.
PipeEnd == [s \in Side |-> [c \in Conn |-> EndOf(tcp[s][c].st)]]
PipeWritten == [s \in Side |-> [c \in Conn |-> tcp[s][c].wrote]]
PipeTaken == [s \in Side |-> [c \in Conn |-> tcp[s][c].read]]
PipeGiven == [s \in Side |-> [c \in Conn |-> tcp[s][c].got]]

\* A step changes one value of a function of two arguments.
LEMMA OneValue ==
    ASSUME NEW V, NEW f \in [Side -> [Conn -> V]], NEW g \in [Side -> [Conn -> V]],
           NEW side \in Side, NEW d \in Conn,
           \A s \in Side, c \in Conn : s # side \/ c # d => g[s][c] = f[s][c]
    PROVE  /\ g = [f EXCEPT ![side][d] = g[side][d]]
           /\ g[side][d] = f[side][d] => g = f
<1> DEFINE row == [f[side] EXCEPT ![d] = g[side][d]]
<1>1. \A s \in Side : s # side => g[s] = f[s]
  <2> SUFFICES ASSUME NEW s \in Side, s # side PROVE g[s] = f[s]
    OBVIOUS
  <2>1. g[s] \in [Conn -> V] /\ f[s] \in [Conn -> V] /\ \A c \in Conn : g[s][c] = f[s][c]
    OBVIOUS
  <2> QED BY <2>1
<1>2. g[side] = row
  <2>1. g[side] \in [Conn -> V] /\ row \in [Conn -> V]
    OBVIOUS
  <2>2. \A c \in Conn : g[side][c] = row[c]
    OBVIOUS
  <2> HIDE DEF row
  <2> QED BY <2>1, <2>2
<1>3. g = [f EXCEPT ![side][d] = g[side][d]]
  <2>1. g = [f EXCEPT ![side] = row]
    <3>1. row \in [Conn -> V]
      OBVIOUS
    <3> HIDE DEF row
    <3>2. [f EXCEPT ![side] = row] \in [Side -> [Conn -> V]]
      BY <3>1
    <3>3. \A s \in Side : [f EXCEPT ![side] = row][s] = g[s]
      BY <1>1, <1>2
    <3> QED BY <3>2, <3>3
  <2> QED BY <2>1
<1>4. g[side][d] = f[side][d] => g = f
  <2> SUFFICES ASSUME g[side][d] = f[side][d] PROVE g = f
    OBVIOUS
  <2>1. g[side] = f[side]
    BY <1>2
  <2> QED BY <1>1, <2>1
<1> QED BY <1>3, <1>4

\* How a step that changes one socket is seen through the refinement mapping.
LEMMA PipeUpdate ==
    ASSUME TypeOK, NEW side \in Side, NEW d \in Conn, NEW st, NEW rd, NEW wr, NEW gt,
           OneSocket(side, d, st, rd, wr, gt)
    PROVE  LET t == tcp[side][d]
           IN  /\ PipeEnd' = [PipeEnd EXCEPT ![side][d] = EndOf(st)] /\ (EndOf(st) = EndOf(t.st) => PipeEnd' = PipeEnd)
               /\ PipeTaken' = [PipeTaken EXCEPT ![side][d] = rd] /\ (rd = t.read => PipeTaken' = PipeTaken)
               /\ PipeWritten' = [PipeWritten EXCEPT ![side][d] = wr] /\ (wr = t.wrote => PipeWritten' = PipeWritten)
               /\ PipeGiven' = [PipeGiven EXCEPT ![side][d] = gt] /\ (gt = t.got => PipeGiven' = PipeGiven)
<1>0. /\ \A s \in Side, c \in Conn : s # side \/ c # d => tcp'[s][c] = tcp[s][c]
      /\ tcp'[side][d].st = st /\ tcp'[side][d].read = rd
      /\ tcp'[side][d].wrote = wr /\ tcp'[side][d].got = gt
  BY DEF OneSocket
<1>1. PipeEnd' = [PipeEnd EXCEPT ![side][d] = EndOf(st)] /\ (EndOf(st) = EndOf(tcp[side][d].st) => PipeEnd' = PipeEnd)
  <2> DEFINE V == {EndOf(tcp[s][c].st) : s \in Side, c \in Conn} \cup {EndOf(tcp'[s][c].st) : s \in Side, c \in Conn}
             f == PipeEnd
             g == PipeEnd'
  <2>1. f \in [Side -> [Conn -> V]] /\ g \in [Side -> [Conn -> V]]
    BY DEF PipeEnd
  <2>2. \A s \in Side, c \in Conn : f[s][c] = EndOf(tcp[s][c].st) /\ g[s][c] = EndOf(tcp'[s][c].st)
    BY DEF PipeEnd
  <2> HIDE DEF V, f, g
  <2>3. \A s \in Side, c \in Conn : s # side \/ c # d => g[s][c] = f[s][c]
    BY <1>0, <2>2
  <2>4. g = [f EXCEPT ![side][d] = g[side][d]] /\ (g[side][d] = f[side][d] => g = f)
    BY <2>1, <2>3, OneValue
  <2> QED BY <1>0, <2>2, <2>4 DEF f, g
<1>2. PipeTaken' = [PipeTaken EXCEPT ![side][d] = rd] /\ (rd = tcp[side][d].read => PipeTaken' = PipeTaken)
  <2> DEFINE V == {tcp[s][c].read : s \in Side, c \in Conn} \cup {tcp'[s][c].read : s \in Side, c \in Conn}
             f == PipeTaken
             g == PipeTaken'
  <2>1. f \in [Side -> [Conn -> V]] /\ g \in [Side -> [Conn -> V]]
    BY DEF PipeTaken
  <2>2. \A s \in Side, c \in Conn : f[s][c] = tcp[s][c].read /\ g[s][c] = tcp'[s][c].read
    BY DEF PipeTaken
  <2> HIDE DEF V, f, g
  <2>3. \A s \in Side, c \in Conn : s # side \/ c # d => g[s][c] = f[s][c]
    BY <1>0, <2>2
  <2>4. g = [f EXCEPT ![side][d] = g[side][d]] /\ (g[side][d] = f[side][d] => g = f)
    BY <2>1, <2>3, OneValue
  <2> QED BY <1>0, <2>2, <2>4 DEF f, g
<1>3. PipeWritten' = [PipeWritten EXCEPT ![side][d] = wr] /\ (wr = tcp[side][d].wrote => PipeWritten' = PipeWritten)
  <2> DEFINE V == {tcp[s][c].wrote : s \in Side, c \in Conn} \cup {tcp'[s][c].wrote : s \in Side, c \in Conn}
             f == PipeWritten
             g == PipeWritten'
  <2>1. f \in [Side -> [Conn -> V]] /\ g \in [Side -> [Conn -> V]]
    BY DEF PipeWritten
  <2>2. \A s \in Side, c \in Conn : f[s][c] = tcp[s][c].wrote /\ g[s][c] = tcp'[s][c].wrote
    BY DEF PipeWritten
  <2> HIDE DEF V, f, g
  <2>3. \A s \in Side, c \in Conn : s # side \/ c # d => g[s][c] = f[s][c]
    BY <1>0, <2>2
  <2>4. g = [f EXCEPT ![side][d] = g[side][d]] /\ (g[side][d] = f[side][d] => g = f)
    BY <2>1, <2>3, OneValue
  <2> QED BY <1>0, <2>2, <2>4 DEF f, g
<1>4. PipeGiven' = [PipeGiven EXCEPT ![side][d] = gt] /\ (gt = tcp[side][d].got => PipeGiven' = PipeGiven)
  <2> DEFINE V == {tcp[s][c].got : s \in Side, c \in Conn} \cup {tcp'[s][c].got : s \in Side, c \in Conn}
             f == PipeGiven
             g == PipeGiven'
  <2>1. f \in [Side -> [Conn -> V]] /\ g \in [Side -> [Conn -> V]]
    BY DEF PipeGiven
  <2>2. \A s \in Side, c \in Conn : f[s][c] = tcp[s][c].got /\ g[s][c] = tcp'[s][c].got
    BY DEF PipeGiven
  <2> HIDE DEF V, f, g
  <2>3. \A s \in Side, c \in Conn : s # side \/ c # d => g[s][c] = f[s][c]
    BY <1>0, <2>2
  <2>4. g = [f EXCEPT ![side][d] = g[side][d]] /\ (g[side][d] = f[side][d] => g = f)
    BY <2>1, <2>3, OneValue
  <2> QED BY <1>0, <2>2, <2>4 DEF f, g
<1> QED BY <1>1, <1>2, <1>3, <1>4

\* What SplitPipes sees of the sockets.
LEMMA PipeValues ==
    ASSUME NEW s \in Side, NEW c \in Conn
    PROVE  /\ PipeEnd[s][c] = EndOf(tcp[s][c].st) /\ PipeWritten[s][c] = tcp[s][c].wrote
           /\ PipeTaken[s][c] = tcp[s][c].read /\ PipeGiven[s][c] = tcp[s][c].got
  BY DEF PipeEnd, PipeWritten, PipeTaken, PipeGiven

PipeVars == <<PipeEnd, PipeWritten, PipeTaken, PipeGiven>>

\* The steps of SplitPipes, under the refinement mapping.
LEMMA PipeNames ==
    ASSUME NEW s \in Side, NEW c \in Conn
    PROVE  /\ Pipes!Open(s, c) <=>
                /\ PipeEnd[s][c] = "none" /\ (s = "server" => PipeEnd["client"][c] # "none")
                /\ PipeEnd' = [PipeEnd EXCEPT ![s][c] = "open"]
                /\ UNCHANGED <<PipeWritten, PipeTaken, PipeGiven>>
           /\ Pipes!Write(s, c) <=>
                /\ PipeEnd[s][c] = "open" /\ PipeWritten[s][c] < MaxChunks
                /\ PipeWritten' = [PipeWritten EXCEPT ![s][c] = @ + 1]
                /\ UNCHANGED <<PipeEnd, PipeTaken, PipeGiven>>
           /\ Pipes!Take(s, c) <=>
                /\ PipeEnd[s][c] \in {"open", "ended"} /\ PipeTaken[s][c] < PipeWritten[s][c]
                /\ PipeTaken' = [PipeTaken EXCEPT ![s][c] = @ + 1]
                /\ UNCHANGED <<PipeEnd, PipeWritten, PipeGiven>>
           /\ Pipes!Give(s, c) <=>
                /\ PipeEnd[s][c] \in {"open", "ended"} /\ Len(PipeGiven[s][c]) + 1 <= PipeTaken[Other(s)][c]
                /\ PipeGiven' = [PipeGiven EXCEPT ![s][c] = Append(@, Bytes(c, Len(PipeGiven[s][c]) + 1))]
                /\ UNCHANGED <<PipeEnd, PipeWritten, PipeTaken>>
           /\ Pipes!EndedByPeer(s, c) <=>
                /\ PipeEnd[s][c] = "open" /\ PipeEnd' = [PipeEnd EXCEPT ![s][c] = "ended"]
                /\ UNCHANGED <<PipeWritten, PipeTaken, PipeGiven>>
  BY DEF Pipes!Open, Pipes!Write, Pipes!Take, Pipes!Give, Pipes!EndedByPeer, Pipes!Other, Other, Bytes,
         PipeEnd, PipeWritten, PipeTaken, PipeGiven

LEMMA PipeCloses ==
    ASSUME NEW s \in Side, NEW c \in Conn
    PROVE  /\ Pipes!OtherGone(s, c) <=> PipeEnd[Other(s)][c] = "closed" \/ (s = "client" /\ PipeEnd["server"][c] = "none")
           /\ Pipes!CloseEnded(s, c) <=>
                /\ PipeEnd[s][c] = "ended" /\ (PipeTaken[s][c] = PipeWritten[s][c] \/ Pipes!OtherGone(s, c))
                /\ PipeEnd' = [PipeEnd EXCEPT ![s][c] = "closed"]
                /\ UNCHANGED <<PipeWritten, PipeTaken, PipeGiven>>
           /\ Pipes!CloseOpen(s, c) <=>
                /\ PipeEnd[s][c] = "open" /\ Pipes!OtherGone(s, c) /\ Len(PipeGiven[s][c]) = PipeTaken[Other(s)][c]
                /\ PipeEnd' = [PipeEnd EXCEPT ![s][c] = "closed"]
                /\ UNCHANGED <<PipeWritten, PipeTaken, PipeGiven>>
<1>1. Pipes!OtherGone(s, c) <=> PipeEnd[Other(s)][c] = "closed" \/ (s = "client" /\ PipeEnd["server"][c] = "none")
  BY DEF Pipes!OtherGone, Pipes!Other, Other, PipeEnd
<1>2. Pipes!CloseEnded(s, c) <=>
                /\ PipeEnd[s][c] = "ended" /\ (PipeTaken[s][c] = PipeWritten[s][c] \/ Pipes!OtherGone(s, c))
                /\ PipeEnd' = [PipeEnd EXCEPT ![s][c] = "closed"]
                /\ UNCHANGED <<PipeWritten, PipeTaken, PipeGiven>>
  BY DEF Pipes!CloseEnded, PipeEnd, PipeWritten, PipeTaken, PipeGiven
<1>3. Pipes!CloseOpen(s, c) <=>
                /\ PipeEnd[s][c] = "open" /\ Pipes!OtherGone(s, c) /\ Len(PipeGiven[s][c]) = PipeTaken[Other(s)][c]
                /\ PipeEnd' = [PipeEnd EXCEPT ![s][c] = "closed"]
                /\ UNCHANGED <<PipeWritten, PipeTaken, PipeGiven>>
  BY DEF Pipes!CloseOpen, Pipes!Other, Other, PipeEnd, PipeWritten, PipeTaken, PipeGiven
<1> QED BY <1>1, <1>2, <1>3

\* When the end of file of connection c arrives, everything sent before it has been written,
\* unless the peer of this end ended it before.
LEMMA EndedGone ==
    ASSUME Base, PathInv, NEW side \in Side, NEW u \in Uid, NEW c \in Conn, Ended(side, u, c)
    PROVE  /\ tcp[Other(side)][c].st = "closed" \/ (side = "client" /\ tcp["server"][c].st = "none")
           /\ tcp[side][c].st \notin {"none", "closed"}
           /\ tcp[side][c].st = "open" => Len(tcp[side][c].got) = tcp[Other(side)][c].read
<1> DEFINE ch == chan[side]
           n == Len(tcp[side][c].got)
           r == tcp[Other(side)][c].read
<1>1. /\ TypeOK /\ Other(side) \in Side /\ ch \in Seq(Packet) /\ n \in Nat /\ r \in Nat
  BY MapFacts, FlowTypes
<1>2. /\ 1 \in DOMAIN ch /\ up[side] = "up" /\ ch[1].body = Empty /\ ch[1].uid = u
      /\ conns[side][u] = c /\ u = uidOf[c]
  BY DEF Ended, Takes
<1>3. conns[Other(side)][u] = NoConn /\ \A j \in DOMAIN ch : 1 < j => ch[j].uid # u
  BY <1>2 DEF PathInv, EofLast
<1>4. tcp[Other(side)][c].st \in {"none", "closed"}
  BY <1>1, <1>2, <1>3 DEF PathInv, SocketsMapped, Conn, NoConn
<1>5. side = "server" => tcp["client"][c].st # "none"
  BY <1>2 DEF PathInv, SocketsBorn, Uid
<1>6. tcp[side][c].st \notin {"none", "closed"}
  BY <1>2 DEF PathInv, SocketsMapped, Conn, NoConn
<1>7. ASSUME tcp[side][c].st = "open" PROVE n = r
  <2>1. Awaits(side, c) /\ Ends(side, uidOf[c]) /\ Expect(side, c) = n + 1
    BY <1>2, <1>7 DEF Awaits, Ends, Expect
  <2>2. Complete(ch, c, n + 1, r) /\ n <= r
    BY <2>1 DEF PathInv, Flows, Flow
  <2>3. \A i \in DOMAIN ch : ch[i].body.c # c
    <3> SUFFICES ASSUME NEW i \in DOMAIN ch, ch[i].body.c = c PROVE FALSE
      OBVIOUS
    <3>1. ch[i].body # Empty /\ ch[i].uid = uidOf[c]
      BY <1>1, MapFacts, BodyFields
    <3>2. i # 1
      BY <1>2, <3>1
    <3>3. 1 < i
      BY <1>1, <3>2
    <3> QED BY <1>2, <1>3, <3>1, <3>3
  <2> HIDE DEF n, r, ch
  <2>4. r < n + 1
    <3>1. n + 1 \in Nat
      BY <1>1
    <3> QED BY <1>1, <2>2, <2>3, <3>1, AllDelivered
  <2> QED BY <1>1, <2>2, <2>4
<1>8. side = "client" => Other(side) = "server"
  BY DEF Other
<1>9. side = "server" => Other(side) = "client"
  BY DEF Other
<1> QED BY <1>4, <1>5, <1>6, <1>7, <1>8, <1>9 DEF Side

PipeStep == \E s \in Side, c \in Conn :
    Pipes!Open(s, c) \/ Pipes!Write(s, c) \/ Pipes!Take(s, c) \/ Pipes!Give(s, c) \/ Pipes!EndedByPeer(s, c)
        \/ Pipes!CloseEnded(s, c) \/ Pipes!CloseOpen(s, c)

\* Every step is one of SplitPipes, or changes nothing that it sees.
LEMMA PipesStep ==
    ASSUME Base, PathInv, Step
    PROVE  PipeStep \/ UNCHANGED PipeVars
<1>0. /\ TypeOK /\ "server" \in Side /\ "client" \in Side
      /\ \A s \in Side, c \in Conn : tcp[s][c] \in Socket /\ Other(s) \in Side
  BY MapFacts, FlowTypes DEF Side
<1>1. tcp' = tcp => UNCHANGED PipeVars
  BY DEF PipeVars, PipeEnd, PipeWritten, PipeTaken, PipeGiven
<1>2. ASSUME Refused \/ Quiet \/ \E side \in Side : Ignored(side) PROVE UNCHANGED PipeVars
  BY <1>1, <1>2 DEF Refused, Quiet, Ignored
<1>3. ASSUME NEW side \in Side, NEW c \in Conn, Discarded(side, c) PROVE UNCHANGED PipeVars
  <2> DEFINE t == tcp[side][c]
  <2>1. PICK st \in {"gone", "broken", "reset"} : OneSocket(side, c, st, t.read, t.wrote, t.got)
    BY <1>3 DEF Discarded
  <2>2. EndOf(st) = EndOf(t.st)
    BY <1>3 DEF Discarded, EndOf
  <2> QED BY <1>0, <2>1, <2>2, PipeUpdate DEF PipeVars
<1>4. ASSUME NEW side \in Side, NEW c \in Conn, PeerMoved(side, c) PROVE PipeStep \/ UNCHANGED PipeVars
  <2> DEFINE t == tcp[side][c]
  <2>1. CASE t.st = "open" /\ t.wrote < MaxChunks /\ OneSocket(side, c, t.st, t.read, t.wrote + 1, t.got)
    <3>1. /\ PipeEnd[side][c] = "open" /\ PipeWritten[side][c] < MaxChunks
          /\ PipeWritten' = [PipeWritten EXCEPT ![side][c] = PipeWritten[side][c] + 1]
          /\ PipeEnd' = PipeEnd /\ PipeTaken' = PipeTaken /\ PipeGiven' = PipeGiven
      BY <1>0, <2>1, PipeUpdate, PipeValues DEF EndOf
    <3>2. Pipes!Write(side, c)
      BY <3>1, PipeNames
    <3> QED BY <3>2 DEF PipeStep
  <2>2. ASSUME NEW st \in {"fin", "gone", "broken", "reset"}, t.st \in {"open", "fin"},
               OneSocket(side, c, st, t.read, t.wrote, t.got)
        PROVE  PipeStep \/ UNCHANGED PipeVars
    <3>1. EndOf(st) = "ended"
      BY DEF EndOf
    <3>2. PipeWritten' = PipeWritten /\ PipeTaken' = PipeTaken /\ PipeGiven' = PipeGiven
          /\ PipeEnd' = [PipeEnd EXCEPT ![side][c] = "ended"]
      BY <1>0, <2>2, <3>1, PipeUpdate
    <3>3. CASE t.st = "open"
      <4>1. PipeEnd[side][c] = "open"
        BY <3>3, PipeValues DEF EndOf
      <4>2. Pipes!EndedByPeer(side, c)
        BY <3>2, <4>1, PipeNames
      <4> QED BY <4>2 DEF PipeStep
    <3>4. CASE t.st = "fin"
      <4>1. EndOf(st) = EndOf(t.st)
        BY <3>1, <3>4 DEF EndOf
      <4>2. PipeEnd' = PipeEnd
        BY <1>0, <2>2, <4>1, PipeUpdate
      <4> QED BY <3>2, <4>2 DEF PipeVars
    <3> QED BY <2>2, <3>3, <3>4
  <2> QED BY <1>4, <2>1, <2>2 DEF PeerMoved
<1>5. ASSUME NEW side \in Side, NEW u \in Uid, NEW c \in Conn, Piece(side, u, c) PROVE PipeStep
  <2> DEFINE t == tcp[side][c]
  <2>1. t.st \notin {"none", "closed"} /\ t.read < t.wrote /\ OneSocket(side, c, t.st, t.read + 1, t.wrote, t.got)
    BY <1>5 DEF Piece
  <2>2. EndOf(t.st) \in {"open", "ended"}
    BY <1>0, <2>1 DEF EndOf, Socket, SocketState
  <2>3. /\ PipeEnd[side][c] \in {"open", "ended"} /\ PipeTaken[side][c] < PipeWritten[side][c]
        /\ PipeTaken' = [PipeTaken EXCEPT ![side][c] = PipeTaken[side][c] + 1]
        /\ PipeEnd' = PipeEnd /\ PipeWritten' = PipeWritten /\ PipeGiven' = PipeGiven
    BY <1>0, <2>1, <2>2, PipeUpdate, PipeValues
  <2>4. Pipes!Take(side, c)
    BY <2>3, PipeNames
  <2> QED BY <2>4 DEF PipeStep
<1>6. ASSUME NEW side \in Side, NEW c \in Conn, Delivered(side, c) PROVE PipeStep
  <2> DEFINE t == tcp[side][c]
             b == Bytes(c, Len(t.got) + 1)
             longer == Append(t.got, b)
  <2>1. /\ t.st \in {"open", "fin"} /\ Len(t.got) + 1 <= tcp[Other(side)][c].read
        /\ OneSocket(side, c, t.st, t.read, t.wrote, Append(t.got, b))
    <3>1. chan[side][1].body = b /\ Len(t.got) + 1 <= tcp[Other(side)][c].read
      BY <1>6, DeliveredNext
    <3> QED BY <1>6, <3>1 DEF Delivered
  <2> HIDE DEF b
  <2>2. EndOf(t.st) \in {"open", "ended"}
    BY <2>1 DEF EndOf
  <2>3. /\ PipeEnd[side][c] \in {"open", "ended"} /\ PipeGiven[side][c] = t.got
        /\ PipeTaken[Other(side)][c] = tcp[Other(side)][c].read
    BY <1>0, <2>2, PipeValues
  <2>4. Len(PipeGiven[side][c]) + 1 <= PipeTaken[Other(side)][c]
    BY <2>1, <2>3
  <2>5. /\ PipeGiven' = [PipeGiven EXCEPT ![side][c] = longer]
        /\ PipeEnd' = PipeEnd /\ PipeWritten' = PipeWritten /\ PipeTaken' = PipeTaken
    <3>1. TypeOK /\ OneSocket(side, c, t.st, t.read, t.wrote, longer)
      BY <1>0, <2>1
    <3> HIDE DEF longer
    <3> QED BY <3>1, PipeUpdate
  <2>6. PipeGiven' = [PipeGiven EXCEPT ![side][c] = Append(PipeGiven[side][c], b)]
    BY <2>3, <2>5 DEF longer
  <2>7. b = Bytes(c, Len(PipeGiven[side][c]) + 1)
    BY <2>3 DEF b
  <2>8. Pipes!Give(side, c)
    BY <2>3, <2>4, <2>5, <2>6, <2>7, PipeNames
  <2> QED BY <2>8 DEF PipeStep
<1>7. ASSUME NEW side \in Side, NEW c \in Conn, tcp[side][c].st = "none", OneSocket(side, c, "open", 0, 0, <<>>),
             side = "server" => tcp["client"][c].st # "none"
      PROVE  PipeStep
  <2>1. tcp[side][c].read = 0 /\ tcp[side][c].wrote = 0 /\ tcp[side][c].got = <<>>
    BY <1>7 DEF PathInv, SocketsBorn
  <2>2. EndOf("open") = "open" /\ EndOf("none") = "none" /\ \A st : EndOf(st) = "none" => st = "none"
    BY DEF EndOf
  <2>3. /\ PipeEnd[side][c] = "none" /\ (side = "server" => PipeEnd["client"][c] # "none")
        /\ PipeEnd' = [PipeEnd EXCEPT ![side][c] = "open"]
        /\ PipeTaken' = PipeTaken /\ PipeWritten' = PipeWritten /\ PipeGiven' = PipeGiven
    BY <1>0, <1>7, <2>1, <2>2, PipeUpdate, PipeValues
  <2>4. Pipes!Open(side, c)
    BY <2>3, PipeNames
  <2> QED BY <2>4 DEF PipeStep
<1>8. ASSUME NEW c \in Conn, DialledTo(c) \/ Accepted(c) PROVE PipeStep
  <2>1. CASE DialledTo(c)
    <3>1. /\ tcp["server"][c].st = "none" /\ OneSocket("server", c, "open", 0, 0, <<>>)
          /\ 1 \in DOMAIN chan["server"] /\ chan["server"][1].uid = uidOf[c]
      BY <2>1 DEF DialledTo, Takes
    <3>2. uidOf[c] # 0
      BY <1>0, <3>1, MapFacts DEF Uid
    <3> QED BY <1>0, <1>7, <3>1, <3>2 DEF PathInv, SocketsBorn
  <2>2. CASE Accepted(c)
    <3>1. tcp["client"][c].st = "none" /\ OneSocket("client", c, "open", 0, 0, <<>>)
      BY <2>2 DEF Accepted, PathInv, SocketsBorn
    <3> QED BY <1>0, <1>7, <3>1
  <2> QED BY <1>8, <2>1, <2>2
<1>9. ASSUME NEW side \in Side, NEW c \in Conn,
             OneSocket(side, c, "closed", tcp[side][c].read, tcp[side][c].wrote, tcp[side][c].got)
      PROVE  /\ PipeEnd' = [PipeEnd EXCEPT ![side][c] = "closed"]
             /\ PipeTaken' = PipeTaken /\ PipeWritten' = PipeWritten /\ PipeGiven' = PipeGiven
  <2>1. EndOf("closed") = "closed"
    BY DEF EndOf
  <2> QED BY <1>0, <1>9, <2>1, PipeUpdate
<1>10. ASSUME NEW side \in Side, NEW u \in Uid, NEW c \in Conn, Ended(side, u, c) PROVE PipeStep
  <2>1. /\ PipeEnd' = [PipeEnd EXCEPT ![side][c] = "closed"]
        /\ PipeTaken' = PipeTaken /\ PipeWritten' = PipeWritten /\ PipeGiven' = PipeGiven
    BY <1>9, <1>10 DEF Ended
  <2>2. Pipes!OtherGone(side, c)
    <3>1. tcp[Other(side)][c].st = "closed" \/ (side = "client" /\ tcp["server"][c].st = "none")
      BY <1>10, EndedGone
    <3>2. PipeEnd[Other(side)][c] = "closed" \/ (side = "client" /\ PipeEnd["server"][c] = "none")
      BY <1>0, <3>1, PipeValues DEF EndOf
    <3> QED BY <3>2, PipeCloses
  <2>3. CASE tcp[side][c].st = "open"
    <3>1. PipeEnd[side][c] = "open" /\ Len(PipeGiven[side][c]) = PipeTaken[Other(side)][c]
      BY <1>0, <1>10, <2>3, EndedGone, PipeValues DEF EndOf
    <3>2. Pipes!CloseOpen(side, c)
      BY <2>1, <2>2, <3>1, PipeCloses
    <3> QED BY <3>2 DEF PipeStep
  <2>4. CASE tcp[side][c].st # "open"
    <3>1. tcp[side][c].st \in {"fin", "gone", "broken", "reset"}
      BY <1>0, <1>10, <2>4, EndedGone DEF Socket, SocketState
    <3>2. PipeEnd[side][c] = "ended"
      BY <3>1, PipeValues DEF EndOf
    <3>3. Pipes!CloseEnded(side, c)
      BY <2>1, <2>2, <3>2, PipeCloses
    <3> QED BY <3>3 DEF PipeStep
  <2> QED BY <2>3, <2>4
<1>11. ASSUME NEW side \in Side, NEW u \in Uid, NEW c \in Conn, EofRead(side, u, c) PROVE PipeStep
  <2>1. /\ PipeEnd' = [PipeEnd EXCEPT ![side][c] = "closed"]
        /\ PipeTaken' = PipeTaken /\ PipeWritten' = PipeWritten /\ PipeGiven' = PipeGiven
    BY <1>9, <1>11 DEF EofRead
  <2>2. PipeEnd[side][c] = "ended" /\ PipeTaken[side][c] = PipeWritten[side][c]
    BY <1>11, PipeValues DEF EofRead, EndOf
  <2>3. Pipes!CloseEnded(side, c)
    BY <2>1, <2>2, PipeCloses
  <2> QED BY <2>3 DEF PipeStep
<1> QED BY <1>2, <1>3, <1>4, <1>5, <1>6, <1>8, <1>10, <1>11 DEF Step

\* Over a reliable path, in one session, the two splitters implement SplitPipes: each accepted connection
\* is a pair of byte pipes to its destination, with in-order delivery, no connection closed at end of file
\* with bytes unread, and none closed under its peer before all that the other end sent was written to it.
THEOREM SplittersImplementPipes == ASSUME Reliable, OneSession PROVE Spec => ImplementsPipes
<1>1. Init => Pipes!Init
  <2> SUFFICES ASSUME Init PROVE Pipes!Init
    OBVIOUS
  <2>1. tcp = [s \in Side |-> [c \in Conn |-> NewSocket("none")]]
    BY DEF Init
  <2>2. \A s \in Side, c \in Conn : /\ tcp[s][c].st = "none" /\ tcp[s][c].got = <<>>
                                   /\ tcp[s][c].read = 0 /\ tcp[s][c].wrote = 0 /\ EndOf(tcp[s][c].st) = "none"
    BY <2>1 DEF NewSocket, EndOf
  <2>3. PipeEnd = [s \in Side |-> [c \in Conn |-> "none"]] /\ PipeWritten = [s \in Side |-> [c \in Conn |-> 0]]
        /\ PipeTaken = [s \in Side |-> [c \in Conn |-> 0]] /\ PipeGiven = [s \in Side |-> [c \in Conn |-> <<>>]]
    BY <2>2 DEF PipeEnd, PipeWritten, PipeTaken, PipeGiven
  <2> QED BY <2>3 DEF Pipes!Init, Pipes!Side, Side, PipeEnd, PipeWritten, PipeTaken, PipeGiven
<1>2. StreamsInv /\ [Next]_vars => [Pipes!Next]_(Pipes!vars)
  <2> SUFFICES ASSUME StreamsInv, [Next]_vars PROVE [Pipes!Next]_(Pipes!vars)
    OBVIOUS
  <2>1. PipeStep \/ UNCHANGED PipeVars
    <3>1. CASE Next
      BY <3>1, Steps, PipesStep DEF StreamsInv
    <3>2. CASE UNCHANGED vars
      BY <3>2 DEF vars, PipeVars, PipeEnd, PipeWritten, PipeTaken, PipeGiven
    <3> QED BY <3>1, <3>2
  <2>2. PipeStep => Pipes!Next
    BY DEF PipeStep, Pipes!Next, Pipes!Side, Side
  <2>3. UNCHANGED PipeVars => UNCHANGED Pipes!vars
    BY DEF PipeVars, Pipes!vars, PipeEnd, PipeWritten, PipeTaken, PipeGiven
  <2> QED BY <2>1, <2>2, <2>3
<1>3. Spec => Pipes!Spec
  BY <1>1, <1>2, StreamsHold, PTL DEF Spec, Pipes!Spec
<1> QED BY <1>3 DEF ImplementsPipes

-----------------------------------------------------------------------------
(* Restarts.  A uid says which connection is meant only together with the   *)
(* last announcement before it on the way to the server, or, if there is    *)
(* none, with what the server has in its map: this is what keeps the        *)
(* sessions of koho-client apart, which all count uids from 1.              *)

\* Packet i of ch announces a connection under uid u.
Names(ch, u, i) == ch[i].new /\ ch[i].uid = u

\* At place j of ch, uid u means connection b to a server whose map has d under that uid.
Means(ch, d, u, b, j) ==
    \/ d \in {b, NoConn} /\ \A m \in DOMAIN ch : m < j => ~Names(ch, u, m)
    \/ \E l \in DOMAIN ch :
        /\ l < j /\ Names(ch, u, l) /\ ch[l].body.c = b
        /\ \A m \in DOMAIN ch : l < m /\ m < j => ~Names(ch, u, m)

\* It means the same when the server closes what it had under that uid.
LEMMA MeansKept ==
    ASSUME NEW ch, NEW d, NEW u, NEW b, NEW j, Means(ch, d, u, b, j), NEW e \in {d, NoConn}
    PROVE  Means(ch, e, u, b, j)
  BY DEF Means

\* It means the same after the first packet was taken, because the server enters what an announcement
\* names, or nothing.
LEMMA MeansTaken ==
    ASSUME NEW ch \in Seq(Packet), 1 \in DOMAIN ch, NEW j \in Nat, j > 1,
           NEW d, NEW u, NEW b, Means(ch, d, u, b, j),
           NEW e, IF Names(ch, u, 1) THEN e \in {ch[1].body.c, NoConn} ELSE e \in {d, NoConn}
    PROVE  Means(RemoveAt(ch, 1), e, u, b, j - 1)
<1> DEFINE t == RemoveAt(ch, 1)
<1>1. /\ \A m \in DOMAIN t : m \in Nat /\ m + 1 \in DOMAIN ch /\ t[m] = ch[m + 1] /\ m + 1 > 1
      /\ \A i \in DOMAIN ch : i # 1 => i \in Nat /\ i > 1 /\ i - 1 \in DOMAIN t /\ ch[i] = t[i - 1]
  <2>1. t \in Seq(Packet)
    BY TakeFirst
  <2> HIDE DEF t
  <2>2. \A m \in DOMAIN t : m \in Nat /\ m + 1 > 1
    BY <2>1
  <2> QED BY <2>2, TakeFirst DEF t
<1> HIDE DEF t
<1>2. CASE d \in {b, NoConn} /\ \A m \in DOMAIN ch : m < j => ~Names(ch, u, m)
  <2>1. ~Names(ch, u, 1)
    BY <1>2
  <2>2. \A m \in DOMAIN t : m < j - 1 => ~Names(t, u, m)
    BY <1>1, <1>2 DEF Names
  <2>3. Means(t, e, u, b, j - 1)
    BY <1>2, <2>1, <2>2 DEF Means
  <2> QED BY <2>3 DEF t
<1>3. CASE \E l \in DOMAIN ch :
            /\ l < j /\ Names(ch, u, l) /\ ch[l].body.c = b
            /\ \A m \in DOMAIN ch : l < m /\ m < j => ~Names(ch, u, m)
  <2>1. PICK l \in DOMAIN ch :
            /\ l < j /\ Names(ch, u, l) /\ ch[l].body.c = b
            /\ \A m \in DOMAIN ch : l < m /\ m < j => ~Names(ch, u, m)
    BY <1>3
  <2>2. CASE l = 1
    <3>1. e \in {b, NoConn}
      BY <2>1, <2>2
    <3>2. \A m \in DOMAIN t : m < j - 1 => ~Names(t, u, m)
      BY <1>1, <2>1, <2>2 DEF Names
    <3>3. Means(t, e, u, b, j - 1)
      BY <3>1, <3>2 DEF Means
    <3> QED BY <3>3 DEF t
  <2>3. CASE l # 1
    <3>1. l - 1 \in DOMAIN t /\ l - 1 < j - 1 /\ Names(t, u, l - 1) /\ t[l - 1].body.c = b
      BY <1>1, <2>1, <2>3 DEF Names
    <3>2. ASSUME NEW m \in DOMAIN t, l - 1 < m, m < j - 1 PROVE ~Names(t, u, m)
      <4>1. m + 1 \in DOMAIN ch /\ t[m] = ch[m + 1] /\ m \in Nat /\ l \in Nat
        BY <1>1, <2>3
      <4>2. l < m + 1 /\ m + 1 < j
        BY <3>2, <4>1
      <4>3. ~Names(ch, u, m + 1)
        BY <2>1, <4>1, <4>2
      <4> QED BY <4>1, <4>3 DEF Names
    <3>3. Means(t, e, u, b, j - 1)
      BY <3>1, <3>2 DEF Means
    <3> QED BY <3>3 DEF t
  <2> QED BY <2>2, <2>3
<1> QED BY <1>2, <1>3 DEF Means

\* What is sent behind a place does not change what is meant there, and only an announcement changes
\* what is meant at the end.
LEMMA MeansSent ==
    ASSUME NEW ch \in Seq(Packet), NEW p \in Packet, NEW d, NEW u, NEW b
    PROVE  /\ \A j \in DOMAIN ch : Means(ch, d, u, b, j) => Means(Append(ch, p), d, u, b, j)
           /\ Means(ch, d, u, b, Len(ch) + 1) => Means(Append(ch, p), d, u, b, Len(ch) + 1)
           /\ Means(ch, d, u, b, Len(ch) + 1) /\ ~(p.new /\ p.uid = u) => Means(Append(ch, p), d, u, b, Len(ch) + 2)
           /\ p.new /\ p.uid = u /\ p.body.c = b => Means(Append(ch, p), d, u, b, Len(ch) + 2)
<1> DEFINE a == Append(ch, p)
           n == Len(ch) + 1
<1>1. /\ \A i \in DOMAIN ch : i \in Nat /\ i < n /\ i \in DOMAIN a /\ a[i] = ch[i]
      /\ n \in DOMAIN a /\ a[n] = p /\ n \in Nat
      /\ \A i \in DOMAIN a : i \in DOMAIN ch \/ i = n
  BY SendLast
<1>2. Len(ch) + 2 = n + 1
  OBVIOUS
<1> HIDE DEF a, n
<1>3. ASSUME NEW j \in Nat, j <= n, Means(ch, d, u, b, j) PROVE Means(a, d, u, b, j)
  <2>1. \A m \in DOMAIN a : m < j => m \in DOMAIN ch /\ (Names(a, u, m) <=> Names(ch, u, m))
    BY <1>1, <1>3 DEF Names
  <2>2. CASE d \in {b, NoConn} /\ \A m \in DOMAIN ch : m < j => ~Names(ch, u, m)
    BY <2>1, <2>2 DEF Means
  <2>3. CASE ~(d \in {b, NoConn} /\ \A m \in DOMAIN ch : m < j => ~Names(ch, u, m))
    <3>1. PICK l \in DOMAIN ch : /\ l < j /\ Names(ch, u, l) /\ ch[l].body.c = b
                                 /\ \A m \in DOMAIN ch : l < m /\ m < j => ~Names(ch, u, m)
      BY <1>3, <2>3 DEF Means
    <3>2. l \in DOMAIN a /\ l < j /\ Names(a, u, l) /\ a[l].body.c = b
      BY <1>1, <3>1 DEF Names
    <3>3. \A m \in DOMAIN a : l < m /\ m < j => ~Names(a, u, m)
      BY <2>1, <3>1
    <3> QED BY <3>2, <3>3 DEF Means
  <2> QED BY <2>2, <2>3
<1>4. ASSUME Means(a, d, u, b, n), ~(p.new /\ p.uid = u) PROVE Means(a, d, u, b, n + 1)
  <2>1. \A m \in DOMAIN a : m \in Nat /\ (m < n + 1 => m < n \/ ~Names(a, u, m))
    BY <1>1, <1>4 DEF Names
  <2>2. \A m \in DOMAIN a : m < n => m < n + 1
    BY <1>1
  <2> QED BY <1>4, <2>1, <2>2 DEF Means
<1>5. ASSUME p.new, p.uid = u, p.body.c = b PROVE Means(a, d, u, b, n + 1)
  <2>1. Names(a, u, n) /\ n < n + 1 /\ \A m \in DOMAIN a : m \in Nat /\ ~(n < m /\ m < n + 1)
    BY <1>1, <1>5 DEF Names
  <2> QED BY <1>1, <1>5, <2>1 DEF Means
<1>6. \A j \in DOMAIN ch : j \in Nat /\ j <= n
  BY <1>1
<1>7. n \in Nat /\ n <= n
  BY <1>1
<1>8. /\ \A j \in DOMAIN ch : Means(ch, d, u, b, j) => Means(a, d, u, b, j)
      /\ Means(ch, d, u, b, n) => Means(a, d, u, b, n)
      /\ Means(ch, d, u, b, n) /\ ~(p.new /\ p.uid = u) => Means(a, d, u, b, n + 1)
      /\ p.new /\ p.uid = u /\ p.body.c = b => Means(a, d, u, b, n + 1)
  BY <1>3, <1>4, <1>5, <1>6, <1>7
<1> QED BY <1>2, <1>8 DEF a, n

\* The uids in the client's map have been counted.
UidsCounted == \A u \in Uid : conns["client"][u] # NoConn => u < nextUid

\* While the server lives, each piece on its way means the connection it was read from, and so would
\* the next piece of each connection that the client watches.
Carried ==
    up["server"] = "up" =>
        /\ \A i \in DOMAIN chan["server"] :
            LET p == chan["server"][i]
            IN  ~p.new /\ p.body # Empty =>
                    Means(chan["server"], conns["server"][p.uid], p.uid, p.body.c, i)
        /\ \A u \in watched["client"] :
            Means(chan["server"], conns["server"][u], u, conns["client"][u], Len(chan["server"]) + 1)

\* What a step after which the server lives does to the path to it and to both maps.
ClientKeeps == \A u \in watched'["client"] : u \in watched["client"] /\ conns'["client"][u] = conns["client"][u]
ServerKeeps == \A u \in Uid : conns'["server"][u] \in {conns["server"][u], NoConn}
PathRests == chan'["server"] = chan["server"] /\ ClientKeeps /\ ServerKeeps
ServerTakes ==
    /\ 1 \in DOMAIN chan["server"] /\ chan'["server"] = RemoveAt(chan["server"], 1)
    /\ ClientKeeps
    /\ \A u \in Uid : conns'["server"][u] \in
            {IF Names(chan["server"], u, 1) THEN chan["server"][1].body.c ELSE conns["server"][u], NoConn}
ClientSends(p) ==
    /\ ~p.new /\ chan'["server"] = Append(chan["server"], p) /\ ClientKeeps /\ ServerKeeps
    /\ p.body # Empty => p.uid \in watched["client"] /\ p.body.c = conns["client"][p.uid]
ClientAnnounces(p) ==
    /\ p.new /\ chan'["server"] = Append(chan["server"], p) /\ ServerKeeps
    /\ \A u \in watched'["client"] : IF u = p.uid THEN conns'["client"][u] = p.body.c
                                     ELSE u \in watched["client"] /\ conns'["client"][u] = conns["client"][u]

\* A step of one of these kinds keeps what the packets mean.
LEMMA CarriedStep ==
    ASSUME TypeOK, TypeOK', Carried, up'["server"] = "up", up["server"] = "up",
           PathRests \/ ServerTakes \/ \E p \in Packet : ClientSends(p) \/ ClientAnnounces(p)
    PROVE  Carried'
<1> DEFINE ch == chan["server"]
           next == chan'["server"]
           d(u) == conns["server"][u]
           e(u) == conns'["server"][u]
<1>1. /\ ch \in Seq(Packet) /\ next \in Seq(Packet)
      /\ watched["client"] \subseteq Uid /\ watched'["client"] \subseteq Uid
      /\ \A i \in DOMAIN ch : ch[i] \in Packet /\ ch[i].uid \in Uid /\ i \in Nat /\ i > 0
      /\ \A i \in DOMAIN next : next[i] \in Packet /\ next[i].uid \in Uid /\ i \in Nat /\ i > 0
      /\ Len(ch) \in Nat
  <2>1. /\ chan \in [Side -> Seq(Packet)] /\ chan' \in [Side -> Seq(Packet)]
        /\ watched \in [Side -> SUBSET Uid] /\ watched' \in [Side -> SUBSET Uid]
    BY DEF TypeOK
  <2>2. ch \in Seq(Packet) /\ next \in Seq(Packet)
        /\ watched["client"] \subseteq Uid /\ watched'["client"] \subseteq Uid
    BY <2>1 DEF Side
  <2> HIDE DEF ch, next
  <2>3. \A q \in Packet : q.uid \in Uid
    BY DEF Packet
  <2> QED BY <2>2, <2>3
<1>2. /\ \A i \in DOMAIN ch : ~ch[i].new /\ ch[i].body # Empty => Means(ch, d(ch[i].uid), ch[i].uid, ch[i].body.c, i)
      /\ \A u \in watched["client"] : Means(ch, d(u), u, conns["client"][u], Len(ch) + 1)
  BY DEF Carried
<1> DEFINE Pieces == \A i \in DOMAIN next : ~next[i].new /\ next[i].body # Empty =>
                        Means(next, e(next[i].uid), next[i].uid, next[i].body.c, i)
           Watching == \A u \in watched'["client"] : Means(next, e(u), u, conns'["client"][u], Len(next) + 1)
<1>3. SUFFICES Pieces /\ Watching
  BY DEF Carried
<1>4. ASSUME ServerKeeps PROVE \A u \in Uid : e(u) \in {d(u), NoConn}
  BY <1>4 DEF ServerKeeps
<1>5. ASSUME ClientKeeps
      PROVE  \A u \in watched'["client"] : u \in watched["client"] /\ conns'["client"][u] = conns["client"][u]
  BY <1>5 DEF ClientKeeps
<1>6. CASE PathRests
  <2>1. next = ch /\ ClientKeeps /\ ServerKeeps
    BY <1>6 DEF PathRests
  <2> HIDE DEF ch, next, d, e
  <2>2. Pieces
    BY <1>1, <1>2, <1>4, <2>1, MeansKept
  <2>3. Watching
    BY <1>1, <1>2, <1>4, <1>5, <2>1, MeansKept
  <2> QED BY <2>2, <2>3
<1>7. CASE ServerTakes
  <2>1. /\ 1 \in DOMAIN ch /\ next = RemoveAt(ch, 1) /\ ClientKeeps
        /\ \A u \in Uid : IF Names(ch, u, 1) THEN e(u) \in {ch[1].body.c, NoConn} ELSE e(u) \in {d(u), NoConn}
    BY <1>7 DEF ServerTakes
  <2>2. /\ \A i \in DOMAIN next : i + 1 \in DOMAIN ch /\ next[i] = ch[i + 1] /\ i + 1 > 1 /\ (i + 1) - 1 = i
        /\ Len(ch) + 1 > 1 /\ Len(ch) + 1 \in Nat /\ Len(next) + 1 = (Len(ch) + 1) - 1
    <3> HIDE DEF ch, next
    <3>1. \A i \in DOMAIN next : i + 1 \in DOMAIN ch /\ next[i] = ch[i + 1]
      BY <1>1, <2>1, TakeFirst
    <3>2. Len(next) = Len(ch) - 1
      BY <1>1, <2>1, RemoveAtElements
    <3> QED BY <1>1, <2>1, <3>1, <3>2
  <2> HIDE DEF ch, next, d, e
  <2>3. Pieces
    <3> SUFFICES ASSUME NEW i \in DOMAIN next, ~next[i].new, next[i].body # Empty
                 PROVE  Means(next, e(next[i].uid), next[i].uid, next[i].body.c, i)
      OBVIOUS
    <3> DEFINE u == next[i].uid
               b == next[i].body.c
    <3>1. Means(ch, d(u), u, b, i + 1) /\ u \in Uid /\ i + 1 \in Nat
      BY <1>1, <1>2, <2>2
    <3> HIDE DEF u, b
    <3>2. Means(RemoveAt(ch, 1), e(u), u, b, (i + 1) - 1)
      BY <1>1, <2>1, <2>2, <3>1, MeansTaken
    <3>3. Means(next, e(u), u, b, i)
      BY <2>1, <2>2, <3>2
    <3> QED BY <3>3 DEF u, b
  <2>4. Watching
    <3> SUFFICES ASSUME NEW u \in watched'["client"]
                 PROVE  Means(next, e(u), u, conns'["client"][u], Len(next) + 1)
      OBVIOUS
    <3>1. Means(ch, d(u), u, conns'["client"][u], Len(ch) + 1) /\ u \in Uid
      BY <1>1, <1>2, <1>5, <2>1
    <3>2. Means(RemoveAt(ch, 1), e(u), u, conns'["client"][u], (Len(ch) + 1) - 1)
      BY <1>1, <2>1, <2>2, <3>1, MeansTaken
    <3> QED BY <2>1, <2>2, <3>2
  <2> QED BY <2>3, <2>4
<1>8. ASSUME NEW p \in Packet, ClientSends(p) \/ ClientAnnounces(p) PROVE Pieces /\ Watching
  <2>1. next = Append(ch, p) /\ ServerKeeps
    BY <1>8 DEF ClientSends, ClientAnnounces
  <2>2. /\ \A i \in DOMAIN next : (i \in DOMAIN ch /\ next[i] = ch[i]) \/ (i = Len(ch) + 1 /\ next[i] = p)
        /\ Len(next) + 1 = Len(ch) + 2
    <3> HIDE DEF ch, next
    <3>1. Len(next) + 1 = Len(ch) + 2
      BY <1>1, <2>1
    <3> QED BY <1>1, <2>1, <3>1, SendLast
  <2> HIDE DEF ch, next, d, e
  <2>3. Pieces
    <3> SUFFICES ASSUME NEW i \in DOMAIN next, ~next[i].new, next[i].body # Empty
                 PROVE  Means(next, e(next[i].uid), next[i].uid, next[i].body.c, i)
      OBVIOUS
    <3> DEFINE u == next[i].uid
               b == next[i].body.c
    <3>1. u \in Uid
      BY <1>1
    <3>2. Means(next, d(u), u, b, i)
      <4>1. CASE i \in DOMAIN ch /\ next[i] = ch[i]
        <5>1. Means(ch, d(u), u, b, i)
          BY <1>2, <4>1
        <5> QED BY <1>1, <2>1, <4>1, <5>1, MeansSent
      <4>2. CASE i = Len(ch) + 1 /\ next[i] = p
        <5>1. ClientSends(p)
          BY <1>8, <4>2 DEF ClientAnnounces
        <5>2. u \in watched["client"] /\ b = conns["client"][u]
          BY <4>2, <5>1 DEF ClientSends
        <5>3. Means(ch, d(u), u, b, Len(ch) + 1)
          BY <1>2, <5>2
        <5> QED BY <1>1, <2>1, <4>2, <5>3, MeansSent
      <4> QED BY <2>2, <4>1, <4>2
    <3>3. e(u) \in {d(u), NoConn}
      BY <1>4, <2>1, <3>1
    <3> HIDE DEF u, b
    <3>4. Means(next, e(u), u, b, i)
      BY <3>2, <3>3, MeansKept
    <3> QED BY <3>4 DEF u, b
  <2>4. Watching
    <3> SUFFICES ASSUME NEW u \in watched'["client"]
                 PROVE  Means(next, e(u), u, conns'["client"][u], Len(next) + 1)
      OBVIOUS
    <3> DEFINE b == conns'["client"][u]
    <3>1. Means(Append(ch, p), d(u), u, b, Len(ch) + 2)
      <4>1. CASE p.new /\ p.uid = u
        <5>1. p.body.c = b
          BY <1>8, <4>1 DEF ClientSends, ClientAnnounces
        <5> HIDE DEF b
        <5> QED BY <1>1, <4>1, <5>1, MeansSent
      <4>2. CASE ~(p.new /\ p.uid = u)
        <5>1. u \in watched["client"] /\ b = conns["client"][u]
          BY <1>5, <1>8, <4>2 DEF ClientSends, ClientAnnounces
        <5>2. Means(ch, d(u), u, b, Len(ch) + 1)
          BY <1>2, <5>1
        <5> HIDE DEF b
        <5> QED BY <1>1, <4>2, <5>2, MeansSent
      <4> QED BY <4>1, <4>2
    <3>2. e(u) \in {d(u), NoConn}
      BY <1>1, <1>4, <2>1
    <3> HIDE DEF b
    <3>3. Means(next, e(u), u, b, Len(next) + 1)
      BY <2>1, <2>2, <3>1, <3>2, MeansKept
    <3> QED BY <3>3 DEF b
  <2> QED BY <2>3, <2>4
<1> HIDE DEF Pieces, Watching
<1> QED BY <1>6, <1>7, <1>8

\* Over a reliable path, every step after which the server lives is of one of these kinds, whatever
\* can be sent and however often koho-client is started.
LEMMA RestartKinds ==
    ASSUME Inv, Reliable, UidsCounted, Next, up'["server"] = "up"
    PROVE  /\ up["server"] = "up"
           /\ PathRests \/ ServerTakes \/ \E p \in Packet : ClientSends(p) \/ ClientAnnounces(p)
<1> DEFINE Goal == /\ up["server"] = "up"
                   /\ PathRests \/ ServerTakes \/ \E p \in Packet : ClientSends(p) \/ ClientAnnounces(p)
<1>0. /\ TypeOK /\ "server" \in Side /\ "client" \in Side /\ "server" # "client"
      /\ Other("client") = "server" /\ Other("server") = "client"
      /\ chan \in [Side -> Seq(Packet)] /\ up \in [Side -> Status]
      /\ conns \in [Side -> [Uid -> Conn \cup {NoConn}]] /\ watched \in [Side -> SUBSET Uid]
      /\ nextUid \in Nat
  BY DEF Inv, Bookkeeping, TypeOK, Side, Other
<1>1. \A side \in Side : \A i \in Deliverable(side) : i = 1 /\ 1 \in DOMAIN chan[side] /\ chan[side][1] \in Packet
  BY <1>0, PacketType DEF Deliverable, Reliable
<1>2. \A side \in Side : \A u \in watched[side] : u \in Uid /\ conns[side][u] \in Conn
  BY <1>0 DEF Inv, Bookkeeping, AllWatched, Known, Side
<1>3. ASSUME conns' = conns, watched' = watched PROVE ClientKeeps /\ ServerKeeps
  BY <1>3 DEF ClientKeeps, ServerKeeps
<1>4. ASSUME NEW side \in Side, NEW u \in Uid, conns' = [conns EXCEPT ![side][u] = NoConn],
             watched' = [watched EXCEPT ![side] = @ \ {u}]
      PROVE  ClientKeeps /\ ServerKeeps
  <2>1. \A v \in Uid : /\ conns'["server"][v] \in {conns["server"][v], NoConn}
                       /\ conns'["client"][v] = conns["client"][v] \/ (side = "client" /\ u = v)
    BY <1>0, <1>4
  <2>2. \A v \in watched'["client"] : v \in watched["client"] /\ v \in Uid /\ ~(side = "client" /\ u = v)
    BY <1>0, <1>4
  <2> QED BY <2>1, <2>2 DEF ClientKeeps, ServerKeeps
<1>5. ASSUME NEW side \in Side, NEW u \in Uid, close_connection(side, u)
      PROVE  ClientKeeps /\ ServerKeeps /\ up["server"] = "up"
  <2>1. up["server"] = "up"
    BY <1>0, <1>5 DEF close_connection
  <2> QED BY <1>3, <1>4, <1>5, <2>1 DEF close_connection
<1>6. ASSUME ClientKeeps, ServerKeeps, up["server"] = "up", chan'["server"] = chan["server"] PROVE Goal
  BY <1>6 DEF PathRests
<1>7. ASSUME NEW i \in Deliverable("client"), chan' = Consumed("client", i) PROVE chan'["server"] = chan["server"]
  BY <1>0, <1>7, ConsumedAt
<1>8. CASE AcceptConnection
  <2>1. PICK c \in Conn :
          /\ nextUid <= MaxUid /\ up' = up
          /\ conns' = [conns EXCEPT !["client"][nextUid] = c]
          /\ \/ /\ chan' = Transmit("client", TRUE, nextUid, Destination(c))
                /\ watched' = [watched EXCEPT !["client"] = @ \cup {nextUid}]
             \/ UNCHANGED <<chan, watched>>
    BY <1>8 DEF AcceptConnection
  <2>2. nextUid \in Uid /\ Destination(c) \in Body /\ Destination(c).c = c
    BY <1>0, <2>1, ConstantsAssumption DEF TypeOK, Uid, Destination, Body
  <2>3. nextUid \notin watched["client"]
    BY <1>0, <1>2, <2>2 DEF UidsCounted, Conn, NoConn
  <2>4. ServerKeeps
    <3>1. conns'["server"] = conns["server"]
      BY <1>0, <2>1
    <3> QED BY <3>1 DEF ServerKeeps
  <2>5. \A u \in Uid : conns'["client"][u] = IF u = nextUid THEN c ELSE conns["client"][u]
    BY <1>0, <2>1, <2>2
  <2>6. CASE UNCHANGED <<chan, watched>>
    <3>1. ClientKeeps
      BY <1>2, <1>0, <2>3, <2>5, <2>6 DEF ClientKeeps
    <3> QED BY <1>6, <2>1, <2>4, <2>6, <3>1
  <2>7. CASE /\ chan' = Transmit("client", TRUE, nextUid, Destination(c))
             /\ watched' = [watched EXCEPT !["client"] = @ \cup {nextUid}]
    <3>1. SentTo("client", TRUE, nextUid, Destination(c), chan')
      BY <1>0, <2>2, <2>7, TransmitTo
    <3>2. PICK p \in Packet : /\ p.new /\ p.uid = nextUid /\ p.body = Destination(c)
                              /\ chan'["server"] = Append(chan["server"], p)
      BY <1>0, <3>1 DEF SentTo
    <3>3. \A u \in watched'["client"] : u \in Uid /\ (u # nextUid => u \in watched["client"])
      BY <1>0, <2>2, <2>7
    <3>4. ClientAnnounces(p)
      BY <2>2, <2>4, <2>5, <3>2, <3>3 DEF ClientAnnounces
    <3> QED BY <2>1, <3>4
  <2> QED BY <2>1, <2>6, <2>7
<1>9. CASE ClientStep
  <2>1. CASE AcceptFails \/ ClientReadThrows
    <3>1. conns' = conns /\ watched' = watched /\ chan' = chan /\ up["server"] = "up"
      BY <1>0, <2>1 DEF AcceptFails, ClientReadThrows
    <3> QED BY <1>3, <1>6, <3>1
  <2>2. CASE ClientIgnores
    <3>1. conns' = conns /\ watched' = watched /\ up["server"] = "up" /\ chan'["server"] = chan["server"]
      BY <1>0, <1>7, <2>2 DEF ClientIgnores, ClientReads
    <3> QED BY <1>3, <1>6, <3>1
  <2>3. CASE ClientCloses
    <3>1. PICK u \in Uid : close_connection("client", u) /\ chan'["server"] = chan["server"]
      BY <1>7, <2>3 DEF ClientCloses, ClientReads, Known
    <3> QED BY <1>0, <1>5, <1>6, <3>1
  <2>4. CASE ClientForwards
    <3>1. conns' = conns /\ watched' = watched /\ chan'["server"] = chan["server"]
      BY <1>7, <2>4 DEF ClientForwards, ClientReads
    <3>2. up["server"] = "up"
      BY <1>0, <2>4 DEF ClientForwards, WriteAll
    <3> QED BY <1>3, <1>6, <3>1, <3>2
  <2> QED BY <1>8, <1>9, <2>1, <2>2, <2>3, <2>4 DEF ClientStep
<1> DEFINE q == chan["server"][1]
<1>10. ASSUME 1 \in DOMAIN chan["server"], chan'["server"] = RemoveAt(chan["server"], 1), ClientKeeps,
              ServerKeeps, ~q.new \/ q.uid \notin Known("server"), up["server"] = "up"
       PROVE  Goal
  <2>1. \A u \in Uid : Names(chan["server"], u, 1) => conns["server"][u] = NoConn
    BY <1>10 DEF Names, Known
  <2>2. ServerTakes
    BY <1>10, <2>1 DEF ServerTakes, ServerKeeps
  <2> QED BY <1>10, <2>2
<1>11. CASE ServerStep
  <2>0. /\ up["server"] = "up" /\ 1 \in DOMAIN chan["server"] /\ q.uid \in Uid
        /\ Consumed("server", 1)["server"] = RemoveAt(chan["server"], 1)
    <3>1. \A i : Consumed("server", i)["server"] = RemoveAt(chan["server"], i)
      BY <1>0, ConsumedAt
    <3>2. \A i \in Deliverable("server") : i = 1 /\ 1 \in DOMAIN chan["server"] /\ chan["server"][1].uid \in Uid
      BY <1>0, <1>1 DEF Packet
    <3>3. \E i \in Deliverable("server") : ServerReads(i)
      BY <1>11 DEF ServerStep, ServerDrops, ServerConnects, ServerRefused, ServerAsserts, ServerCloses, ServerForwards
    <3> QED BY <3>1, <3>2, <3>3 DEF ServerReads
  <2>1. CASE ServerDrops
    <3>1. /\ chan' = Consumed("server", 1) /\ conns' = conns /\ watched' = watched
          /\ q.uid \notin Known("server")
      BY <1>0, <1>1, <2>1 DEF ServerDrops
    <3> QED BY <1>3, <1>10, <2>0, <3>1
  <2>2. CASE ServerConnects
    <3>1. /\ chan' = Consumed("server", 1) /\ q.new
          /\ conns' = [conns EXCEPT !["server"][q.uid] = q.body.c]
          /\ watched' = [watched EXCEPT !["server"] = @ \cup {q.uid}]
      BY <1>0, <1>1, <2>2 DEF ServerConnects
    <3> HIDE DEF q
    <3>2. /\ \A u \in Uid : conns'["server"][u] = IF u = q.uid THEN q.body.c ELSE conns["server"][u]
          /\ conns'["client"] = conns["client"] /\ watched'["client"] = watched["client"]
      BY <1>0, <2>0, <3>1
    <3>3. ClientKeeps
      BY <3>2 DEF ClientKeeps
    <3>4. ServerTakes
      BY <2>0, <3>1, <3>2, <3>3 DEF ServerTakes, Names, q
    <3> QED BY <2>0, <3>4
  <2>3. CASE ServerRefused
    <3>1. /\ conns' = conns /\ watched' = watched /\ q.uid \notin Known("server")
          /\ chan' = Consumed("server", 1) \/ \E r : chan' = [Consumed("server", 1) EXCEPT !["client"] = r]
      BY <1>0, <1>1, <2>3 DEF ServerRefused
    <3>2. chan'["server"] = Consumed("server", 1)["server"]
      BY <1>0, <3>1 DEF Consumed
    <3> QED BY <1>3, <1>10, <2>0, <3>1, <3>2
  <2>4. CASE ServerAsserts
    BY <1>0, <2>4 DEF ServerAsserts
  <2>5. CASE ServerCloses
    <3>1. chan' = Consumed("server", 1) /\ ~q.new /\ close_connection("server", q.uid)
      BY <1>0, <1>1, <2>5 DEF ServerCloses
    <3>2. ClientKeeps /\ ServerKeeps
      BY <1>0, <1>5, <2>0, <3>1
    <3> QED BY <1>10, <2>0, <3>1, <3>2
  <2>6. CASE ServerForwards
    <3>1. chan' = Consumed("server", 1) /\ ~q.new /\ conns' = conns /\ watched' = watched
      BY <1>0, <1>1, <2>6 DEF ServerForwards
    <3> QED BY <1>3, <1>10, <2>0, <3>1
  <2> QED BY <1>11, <2>1, <2>2, <2>3, <2>4, <2>5, <2>6 DEF ServerStep
<1>12. CASE NetworkStep
  <2>1. ~Lose("client") /\ ~Lose("server")
    BY DEF Lose, Reliable
  <2>2. ~Duplicate("client") /\ ~Duplicate("server")
    BY <1>0 DEF Duplicate, Reliable, TypeOK
  <2>3. CASE ServerUnreachable
    BY <2>3 DEF ServerUnreachable
  <2>4. CASE ClientUnreachable
    <3>1. conns' = conns /\ watched' = watched /\ up["server"] = "up" /\ chan'["server"] = chan["server"]
      BY <1>7, <2>4 DEF ClientUnreachable
    <3> QED BY <1>3, <1>6, <3>1
  <2> QED BY <1>12, <2>1, <2>2, <2>3, <2>4 DEF NetworkStep, Side
<1>13. CASE ClientRestarts
  <2>1. /\ conns'["server"] = conns["server"] /\ watched'["client"] = {} /\ chan' = chan /\ up["server"] = "up"
    BY <1>0, <1>13 DEF ClientRestarts
  <2>2. ClientKeeps /\ ServerKeeps
    BY <2>1 DEF ClientKeeps, ServerKeeps
  <2> QED BY <1>6, <2>1, <2>2
<1>14. CASE \E side \in Side : SocketStep(side)
  <2>1. PICK side \in Side, u \in Uid : ReadBytes(side, u) \/ ReadEof(side, u) \/ ReadFails(side, u)
    BY <1>14 DEF SocketStep
  <2>2. ASSUME NEW body \in Body \cup {Empty}, chan' = Transmit(side, FALSE, u, body)
        PROVE  \/ chan'["server"] = chan["server"]
               \/ side = "client" /\ \E p \in Packet : /\ ~p.new /\ p.uid = u /\ p.body = body
                                                      /\ chan'["server"] = Append(chan["server"], p)
    <3>1. SentTo(side, FALSE, u, body, chan')
      BY <1>0, <2>2, TransmitTo
    <3>2. /\ chan'[side] = chan[side]
          /\ \/ chan'[Other(side)] = chan[Other(side)]
             \/ \E p \in Packet : /\ ~p.new /\ p.uid = u /\ p.body = body
                                  /\ chan'[Other(side)] = Append(chan[Other(side)], p)
      BY <3>1 DEF SentTo
    <3> QED BY <1>0, <3>2 DEF Side
  <2>3. ASSUME ClientKeeps, ServerKeeps, up["server"] = "up", chan' = chan \/ \E body \in Body \cup {Empty} :
                /\ chan' = Transmit(side, FALSE, u, body)
                /\ side = "client" /\ body # Empty => u \in watched["client"] /\ body.c = conns["client"][u]
        PROVE  Goal
    <3>1. CASE chan'["server"] = chan["server"]
      BY <1>6, <2>3, <3>1
    <3>2. CASE chan'["server"] # chan["server"]
      <4>1. PICK body \in Body \cup {Empty} :
                /\ chan' = Transmit(side, FALSE, u, body)
                /\ side = "client" /\ body # Empty => u \in watched["client"] /\ body.c = conns["client"][u]
        BY <2>3, <3>2
      <4>2. PICK p \in Packet : /\ ~p.new /\ p.uid = u /\ p.body = body /\ side = "client"
                                /\ chan'["server"] = Append(chan["server"], p)
        BY <2>2, <3>2, <4>1
      <4>3. ClientSends(p)
        BY <2>3, <4>1, <4>2 DEF ClientSends
      <4> QED BY <2>3, <4>3
    <3> QED BY <3>1, <3>2
  <2>4. CASE ReadFails(side, u)
    <3>1. conns' = conns /\ watched' = watched /\ chan' = chan /\ up["server"] = "up"
      BY <1>0, <2>4 DEF ReadFails
    <3> QED BY <1>3, <1>6, <3>1
  <2>5. CASE ReadBytes(side, u)
    <3> DEFINE c == conns[side][u]
               k == tcp[side][c].read + 1
    <3>1. c \in Conn /\ tcp[side][c] \in Socket /\ u \in watched[side]
      BY <1>0, <1>2, <2>5 DEF ReadBytes, Dispatchable, TypeOK
    <3>2. k \in 0 .. MaxChunks
      <4>1. tcp[side][c].read \in 0 .. MaxChunks /\ tcp[side][c].wrote \in 0 .. MaxChunks
        BY <3>1 DEF Socket
      <4>2. tcp[side][c].read < tcp[side][c].wrote
        BY <2>5 DEF ReadBytes
      <4> HIDE DEF c
      <4> QED BY <4>1, <4>2, ConstantsAssumption
    <3>3. /\ chan' = chan \/ chan' = Transmit(side, FALSE, u, Bytes(c, k))
          /\ conns' = conns /\ watched' = watched
          /\ up' = up \/ up' = [up EXCEPT ![side] = "threw"]
      BY <2>5 DEF ReadBytes
    <3>4. up["server"] = "up"
      BY <1>0, <3>3
    <3> HIDE DEF c, k
    <3>5. Bytes(c, k) \in Body /\ Bytes(c, k).c = c
      BY <3>1, <3>2 DEF Bytes, Body
    <3>6. side = "client" => u \in watched["client"] /\ Bytes(c, k).c = conns["client"][u]
      BY <3>1, <3>5 DEF c
    <3> QED BY <1>3, <2>3, <3>3, <3>4, <3>5, <3>6
  <2>6. CASE ReadEof(side, u)
    <3>1. /\ conns' = [conns EXCEPT ![side][u] = NoConn] /\ watched' = [watched EXCEPT ![side] = @ \ {u}]
          /\ chan' = chan \/ chan' = Transmit(side, FALSE, u, Empty)
          /\ \E v : up' = [up EXCEPT ![side] = v]
      BY <2>6 DEF ReadEof
    <3>2. up["server"] = "up"
      BY <1>0, <2>6, <3>1 DEF ReadEof, Dispatchable
    <3> QED BY <1>4, <2>3, <3>1, <3>2
  <2> QED BY <2>1, <2>4, <2>5, <2>6
<1>15. CASE \E side \in Side : PeerAction(side)
  <2>1. conns' = conns /\ watched' = watched /\ chan' = chan /\ up' = up
    BY <1>15 DEF PeerAction, PeerWrites, PeerShutsDown, PeerCloses, PeerResets, PeerStep
  <2> QED BY <1>3, <1>6, <2>1
<1> QED BY <1>9, <1>11, <1>12, <1>13, <1>14, <1>15 DEF Next

\* Without an accept or a new session, the client's map only loses entries.
LEMMA ClientEntries ==
    ASSUME Inv, Next, ~AcceptConnection, ~ClientRestarts
    PROVE  \/ conns'["client"] = conns["client"]
           \/ \E v : conns'["client"] = [conns["client"] EXCEPT ![v] = NoConn]
<1>0. conns \in [Side -> [Uid -> Conn \cup {NoConn}]] /\ "client" \in Side /\ "server" # "client"
  BY DEF Inv, Bookkeeping, TypeOK, Side
<1> DEFINE Goal == \/ conns'["client"] = conns["client"]
                   \/ \E v : conns'["client"] = [conns["client"] EXCEPT ![v] = NoConn]
<1>1. ASSUME NEW side, NEW u, conns' = [conns EXCEPT ![side][u] = NoConn] PROVE Goal
  <2>1. CASE side = "client"
    BY <1>0, <1>1, <2>1
  <2>2. CASE side # "client"
    BY <1>0, <1>1, <2>2
  <2> QED BY <2>1, <2>2
<1>2. CASE ClientStep
  <2>1. CASE AcceptFails \/ ClientReadThrows \/ ClientIgnores \/ ClientForwards
    BY <2>1 DEF AcceptFails, ClientReadThrows, ClientIgnores, ClientForwards
  <2>2. CASE ClientCloses
    BY <1>1, <2>2 DEF ClientCloses, close_connection
  <2> QED BY <1>2, <2>1, <2>2 DEF ClientStep
<1>3. CASE ServerStep
  <2>1. CASE ServerConnects
    BY <1>0, <2>1 DEF ServerConnects
  <2>2. CASE ServerCloses
    BY <1>1, <2>2 DEF ServerCloses, close_connection
  <2>3. CASE ServerDrops \/ ServerRefused \/ ServerAsserts \/ ServerForwards
    BY <2>3 DEF ServerDrops, ServerRefused, ServerAsserts, ServerForwards
  <2> QED BY <1>3, <2>1, <2>2, <2>3 DEF ServerStep
<1>4. CASE NetworkStep
  BY <1>4 DEF NetworkStep, ServerUnreachable, ClientUnreachable, Lose, Duplicate
<1>5. CASE \E side \in Side : SocketStep(side)
  <2>1. PICK side \in Side, u \in Uid : ReadBytes(side, u) \/ ReadEof(side, u) \/ ReadFails(side, u)
    BY <1>5 DEF SocketStep
  <2>2. CASE ReadBytes(side, u) \/ ReadFails(side, u)
    BY <2>2 DEF ReadBytes, ReadFails
  <2>3. CASE ReadEof(side, u)
    BY <1>1, <2>3 DEF ReadEof
  <2> QED BY <2>1, <2>2, <2>3
<1>6. CASE \E side \in Side : PeerAction(side)
  BY <1>6 DEF PeerAction, PeerWrites, PeerShutsDown, PeerCloses, PeerResets, PeerStep
<1> QED BY <1>2, <1>3, <1>4, <1>5, <1>6 DEF Next

\* The client's map keeps counted uids only: each session begins with an empty one.
LEMMA UidsCountedStep ==
    ASSUME Inv, UidsCounted, Next
    PROVE  UidsCounted'
<1> SUFFICES ASSUME NEW u \in Uid, conns'["client"][u] # NoConn PROVE u < nextUid'
  BY DEF UidsCounted
<1>1. EntryOrigin("client", u) /\ nextUid \in Nat /\ u \in Nat
  BY EntriesOrigin DEF Inv, Bookkeeping, TypeOK, Side, Uid
<1>2. CASE AcceptConnection \/ AcceptFails
  <2>1. nextUid' = nextUid + 1
    BY <1>2 DEF AcceptConnection, AcceptFails
  <2> QED BY <1>1, <2>1 DEF EntryOrigin, UidsCounted
<1>3. CASE ClientRestarts
  BY <1>3 DEF ClientRestarts, Inv, Bookkeeping, TypeOK, Side
<1>4. CASE ~AcceptConnection /\ ~AcceptFails /\ ~ClientRestarts
  <2>1. nextUid' = nextUid
    BY <1>4, UidsUnchanged
  <2>2. \/ conns'["client"] = conns["client"]
        \/ \E v : conns'["client"] = [conns["client"] EXCEPT ![v] = NoConn]
    BY <1>4, ClientEntries
  <2>3. conns'["client"][u] = conns["client"][u]
    BY <2>2 DEF Inv, Bookkeeping, TypeOK, Side
  <2> QED BY <2>1, <2>3 DEF UidsCounted
<1> QED BY <1>2, <1>3, <1>4

\* What is written to a destination is a piece of its own connection.
LEMMA UpstreamStep ==
    ASSUME Inv, MappedConnected, Reliable, Carried, UpstreamIsolated, Next
    PROVE  UpstreamIsolated'
<1> SUFFICES ASSUME NEW c \in Conn, NEW m \in DOMAIN tcp'["server"][c].got
             PROVE  tcp'["server"][c].got[m].c = c
  BY DEF UpstreamIsolated, Isolated
<1>1. "server" \in Side /\ \A j \in DOMAIN tcp["server"][c].got : tcp["server"][c].got[j].c = c
  BY DEF UpstreamIsolated, Isolated, Side
<1>2. CASE tcp'["server"][c].got = tcp["server"][c].got \/ tcp'["server"][c].got = <<>>
  BY <1>1, <1>2
<1>3. CASE \E i \in DOMAIN chan["server"] :
            DataFor("server", i, c) /\ tcp'["server"][c].got = Append(tcp["server"][c].got, chan["server"][i].body)
  <2>1. PICK i \in DOMAIN chan["server"] :
            DataFor("server", i, c) /\ tcp'["server"][c].got = Append(tcp["server"][c].got, chan["server"][i].body)
    BY <1>3
  <2> DEFINE p == chan["server"][i]
  <2>2. /\ up["server"] = "up" /\ i = 1 /\ ~p.new /\ p.body # Empty /\ conns["server"][p.uid] = c
    BY <2>1 DEF DataFor, Deliverable, Reliable
  <2>3. Means(chan["server"], c, p.uid, p.body.c, 1)
    BY <2>2 DEF Carried
  <2>4. \A l \in DOMAIN chan["server"] : ~(l < 1)
    BY <1>1 DEF Inv, Bookkeeping, TypeOK
  <2>5. p.body.c = c
    BY <2>3, <2>4 DEF Means, Conn, NoConn
  <2>6. tcp["server"][c].got \in Seq(Body) /\ p.body \in Body
    <3>1. TypeOK /\ tcp["server"][c] \in Socket
      BY <1>1 DEF Inv, Bookkeeping, TypeOK
    <3>2. p \in Packet
      BY <1>1, <3>1, PacketType
    <3> HIDE DEF p
    <3> QED BY <2>2, <3>1, <3>2 DEF Socket, Packet
  <2>7. tcp'["server"][c].got = Append(tcp["server"][c].got, p.body)
    BY <2>1
  <2> HIDE DEF p
  <2>8. \/ m \in DOMAIN tcp["server"][c].got /\ tcp'["server"][c].got[m] = tcp["server"][c].got[m]
        \/ tcp'["server"][c].got[m] = p.body
    BY <2>6, <2>7
  <2> QED BY <1>1, <2>5, <2>8
<1> QED BY <1>1, <1>2, <1>3, StreamsOrigin

RestartInv == Inv /\ MappedConnected /\ UidsCounted /\ Carried /\ UpstreamIsolated

\* Over a reliable path, with any number of sessions of koho-client against one koho-server, any failing
\* send and any TCP peers: although every session counts uids from 1 and the server keeps the connections
\* of earlier ones, no destination is ever written what was read from another connection.
THEOREM UpstreamAlwaysIsolated == ASSUME Reliable PROVE Spec => []UpstreamIsolated
<1>1. Init => RestartInv
  <2> SUFFICES ASSUME Init PROVE RestartInv
    OBVIOUS
  <2>1. UidsCounted /\ Carried
    BY DEF Init, UidsCounted, Carried, Side
  <2>2. UpstreamIsolated
    BY DEF Init, UpstreamIsolated, Isolated, NewSocket, Side
  <2> QED BY <2>1, <2>2, InitInv DEF RestartInv
<1>2. RestartInv /\ [Next]_vars => RestartInv'
  <2> SUFFICES ASSUME RestartInv, [Next]_vars PROVE RestartInv'
    OBVIOUS
  <2>1. Inv' /\ MappedConnected'
    BY InvStep DEF RestartInv
  <2>2. CASE Next
    <3>1. Carried'
      <4>1. CASE up'["server"] # "up"
        BY <4>1 DEF Carried
      <4>2. CASE up'["server"] = "up"
        <5>1. TypeOK /\ TypeOK'
          BY <2>1 DEF RestartInv, Inv, Bookkeeping
        <5> QED BY <2>2, <4>2, <5>1, RestartKinds, CarriedStep DEF RestartInv
      <4> QED BY <4>1, <4>2
    <3> QED BY <2>1, <2>2, <3>1, UidsCountedStep, UpstreamStep DEF RestartInv
  <2>3. CASE UNCHANGED vars
    BY <2>1, <2>3 DEF vars, RestartInv, UidsCounted, Carried, UpstreamIsolated, Isolated
  <2> QED BY <2>2, <2>3
<1>3. RestartInv => UpstreamIsolated
  BY DEF RestartInv
<1> QED BY <1>1, <1>2, <1>3, PTL DEF Spec
=============================================================================
