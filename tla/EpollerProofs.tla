----------------------------- MODULE EpollerProofs -----------------------------
(***************************************************************************)
(* The Epoller's table of actions agrees with the open descriptors, and    *)
(* the splitter server never blocks in a callback, for any number of       *)
(* descriptors, of connections and of arrivals.                            *)
(*                                                                         *)
(* ServerNeverBlocked is far from inductive.  It holds because the server  *)
(* opens connections in the callback of its UDP socket only, which occurs  *)
(* at most once in a batch: until then every descriptor of the rest of the *)
(* batch is still open, so that the number given to a new connection       *)
(* cannot be one of them (StaleOnlyAfterUdp); and an event of a descriptor *)
(* that is open stays true, because connections do not share descriptors   *)
(* and a descriptor occurs once (EventsTrue, OneEventEach).                *)
(***************************************************************************)
EXTENDS Epoller, FiniteSetTheorems, WellFoundedInduction, TLAPS

\* Every variable has its type; connections are numbered in the order of their opening.
EpollerTypeOK ==
    /\ role \in {"client", "server"}
    /\ opened \in 0 .. MaxConns
    /\ file \in [Fd -> 0 .. MaxConns]
    /\ \A f \in Fd : file[f] <= opened
    /\ input \in [Conn -> SUBSET {"bytes", "eof"}]
    /\ datagrams \in Nat /\ arriving \in Nat /\ arrived \in 0 .. MaxPackets
    /\ batch \in Seq(Fd \cup {Udp, Listener})
    /\ status \in {"running", "blocked", "threw", "assert"}

\* No connection has two descriptors.
OneDescriptorEach == \A f, g \in Open : file[f] = file[g] => f = g

\* epoll_wait reports a descriptor once.
OneEventEach == \A i, j \in DOMAIN batch : batch[i] = batch[j] => i = j

\* The sockets that are not connections have what the batch says they have.
SocketsReady ==
    /\ role = "server" => arriving = 0
    /\ Udp \in Range(batch) => datagrams > 0
    /\ Listener \in Range(batch) => arriving > 0

\* In the server, a descriptor of the batch is free only when the UDP callback has run.
StaleOnlyAfterUdp ==
    role = "server" /\ Udp \in Range(batch) => Range(batch) \cap Fd \subseteq Open

\* In the server, an event of an open descriptor is an event of its connection.
EventsTrue ==
    role = "server" => \A f \in Range(batch) \cap Open : input[file[f]] # {}

EpollerInv ==
    /\ EpollerTypeOK /\ ActionsMatchFiles /\ ServerNeverBlocked
    /\ OneDescriptorEach /\ OneEventEach /\ SocketsReady /\ StaleOnlyAfterUdp /\ EventsTrue

-----------------------------------------------------------------------------
(* Lemmas.                                                                 *)

\* A set of numbers that is not empty has a least one.
LEMMA MinIsLeast ==
    ASSUME NEW S \in SUBSET Nat, S # {}
    PROVE  Min(S) \in S /\ \A y \in S : Min(S) <= y
<1> DEFINE less == {ss \in Nat \X Nat : ss[1] < ss[2]}
<1>1. IsWellFoundedOn(less, Nat)
  BY NatLessThanWellFounded, Zenon DEF OpToRel
<1> HIDE DEF less
<1>2. \E x \in S : \A y \in S : ~(<<y, x>> \in less)
  BY <1>1, WFMin, Zenon
<1>3. \A x, y \in Nat : y < x => <<y, x>> \in less
  BY DEF less
<1>4. PICK x \in S : \A y \in S : ~(<<y, x>> \in less)
  BY <1>2
<1>5. \A y \in S : x <= y
  <2> SUFFICES ASSUME NEW y \in S PROVE x <= y
    OBVIOUS
  <2>1. x \in Nat /\ y \in Nat
    OBVIOUS
  <2>2. ~(y < x)
    BY <1>3, <1>4, <2>1
  <2> QED BY <2>1, <2>2
<1> QED BY <1>5 DEF Min

\* The descriptor a new connection gets is one that is free.
LEMMA LowestIsFree ==
    ASSUME Open # Fd
    PROVE  Min(Fd \ Open) \in Fd \ Open
<1>1. Fd \ Open \in SUBSET Nat /\ Fd \ Open # {}
  BY EpollerAssumption DEF Fd, Open
<1> QED BY <1>1, MinIsLeast

\* What is left of the batch, when its first event is dispatched.
LEMMA RestOfBatch ==
    ASSUME EpollerTypeOK, OneEventEach, NEW f, Dispatches(f)
    PROVE  /\ batch' \in Seq(Fd \cup {Udp, Listener})
           /\ OneEventEach'
           /\ f \in Range(batch)
           /\ Range(batch') \subseteq Range(batch) \ {f}
<1>1. batch # <<>> /\ batch' = Tail(batch) /\ batch[1] = f /\ batch \in Seq(Fd \cup {Udp, Listener})
  BY DEF Dispatches, EpollerTypeOK
<1>2. batch' \in Seq(Fd \cup {Udp, Listener}) /\ 1 \in DOMAIN batch
  BY <1>1
<1>3. \A i \in DOMAIN batch' : i + 1 \in DOMAIN batch /\ i \in Nat /\ i + 1 # 1 /\ batch'[i] = batch[i + 1]
  BY <1>1
<1>4. OneEventEach'
  BY <1>3 DEF OneEventEach
<1>5. f \in Range(batch)
  BY <1>1, <1>2 DEF Range
<1>6. Range(batch') \subseteq Range(batch) \ {f}
  BY <1>1, <1>2, <1>3 DEF Range, OneEventEach
<1> QED BY <1>2, <1>4, <1>5, <1>6

\* epoll_wait returns each ready descriptor, once.
LEMMA BatchIsReady ==
    ASSUME EpollerTypeOK, ActionsMatchFiles, Wait
    PROVE  /\ batch' \in Seq(Fd \cup {Udp, Listener})
           /\ OneEventEach'
           /\ Range(batch') \subseteq Ready
<1>1. Ready \subseteq Fd \cup {Udp, Listener} /\ Ready \subseteq 1 .. MaxFd + 2 /\ MaxFd \in Nat
  BY EpollerAssumption DEF Ready, ActionsMatchFiles, Open, Fd, Udp, Listener
<1>2. IsFiniteSet(Ready)
  <2>1. IsFiniteSet(1 .. MaxFd + 2)
    BY <1>1, FS_Interval
  <2> QED BY <1>1, <2>1, FS_Subset
<1>3. Cardinality(Ready) \in Nat
  BY <1>2, FS_CardinalityType
<1>4. /\ batch' \in [1 .. Cardinality(Ready) -> Ready]
      /\ \A i, j \in 1 .. Cardinality(Ready) : i # j => batch'[i] # batch'[j]
  BY Zenon DEF Wait, SetToSeqs
<1>5. batch' \in Seq(Ready) /\ DOMAIN batch' = 1 .. Cardinality(Ready)
  BY <1>3, <1>4
<1>6. batch' \in Seq(Fd \cup {Udp, Listener})
  <2>1. batch' \in [1 .. Cardinality(Ready) -> Fd \cup {Udp, Listener}]
    BY <1>1, <1>4
  <2> QED BY <1>3, <2>1
<1>7. Range(batch') \subseteq Ready
  BY <1>4, <1>5 DEF Range
<1> QED BY <1>4, <1>5, <1>6, <1>7 DEF OneEventEach

-----------------------------------------------------------------------------
(* The invariant.                                                          *)

\* The Epoller starts with no connection and no event.
LEMMA InvInitially == Init => EpollerInv
<1> SUFFICES ASSUME Init PROVE EpollerInv
  OBVIOUS
<1>1. EpollerTypeOK
  BY EpollerAssumption DEF Init, EpollerTypeOK, Fd, Conn, NoConn
<1>2. Open = {} /\ Range(batch) = {}
  BY DEF Init, Open, Range
<1> QED BY <1>1, <1>2
           DEF Init, EpollerInv, ActionsMatchFiles, ServerNeverBlocked, OneDescriptorEach, OneEventEach,
               SocketsReady, StaleOnlyAfterUdp, EventsTrue

\* epoll_wait: the events are true when it returns.
LEMMA WaitKeepsInv ==
    ASSUME EpollerInv, Wait
    PROVE  EpollerInv'
<1>1. UNCHANGED <<role, opened, file, actions, input, datagrams, arriving, status, arrived>>
  BY DEF Wait
<1>2. Open' = Open
  BY <1>1 DEF Open
<1>3. /\ batch' \in Seq(Fd \cup {Udp, Listener}) /\ OneEventEach' /\ Range(batch') \subseteq Ready
  BY BatchIsReady DEF EpollerInv
<1>4. EpollerTypeOK' /\ ActionsMatchFiles' /\ ServerNeverBlocked' /\ OneDescriptorEach'
  BY <1>1, <1>2, <1>3 DEF EpollerInv, EpollerTypeOK, ActionsMatchFiles, ServerNeverBlocked, OneDescriptorEach
<1>5. MaxFd \in Nat
  BY EpollerAssumption
<1>6. SocketsReady'
  BY <1>1, <1>3, <1>5
     DEF EpollerInv, SocketsReady, Ready, ActionsMatchFiles, Open, Fd, Udp, Listener, EpollerTypeOK
<1>7. Range(batch') \cap Fd \subseteq actions
  BY <1>3, <1>5 DEF Ready, Fd, Udp, Listener
<1>8. StaleOnlyAfterUdp'
  BY <1>1, <1>2, <1>7 DEF EpollerInv, StaleOnlyAfterUdp, ActionsMatchFiles
<1>9. EventsTrue'
  BY <1>1, <1>2, <1>3, <1>5 DEF EpollerInv, EventsTrue, Ready, Open, Fd, Udp, Listener
<1> QED BY <1>3, <1>4, <1>6, <1>8, <1>9 DEF EpollerInv

\* An event whose descriptor has no action is passed over.
LEMMA SkipKeepsInv ==
    ASSUME EpollerInv, SkipRemoved
    PROVE  EpollerInv'
<1>1. UNCHANGED <<role, opened, file, actions, input, datagrams, arriving, status, arrived>>
  BY DEF SkipRemoved
<1>2. PICK f \in Fd \ actions : Dispatches(f)
  BY DEF SkipRemoved
<1>3. /\ batch' \in Seq(Fd \cup {Udp, Listener}) /\ OneEventEach' /\ Range(batch') \subseteq Range(batch)
  BY <1>2, RestOfBatch DEF EpollerInv
<1>4. Open' = Open
  BY <1>1 DEF Open
<1>5. EpollerTypeOK' /\ ActionsMatchFiles' /\ ServerNeverBlocked' /\ OneDescriptorEach'
  BY <1>1, <1>3, <1>4 DEF EpollerInv, EpollerTypeOK, ActionsMatchFiles, ServerNeverBlocked, OneDescriptorEach
<1>6. SocketsReady' /\ StaleOnlyAfterUdp' /\ EventsTrue'
  BY <1>1, <1>3, <1>4 DEF EpollerInv, SocketsReady, StaleOnlyAfterUdp, EventsTrue
<1> QED BY <1>3, <1>5, <1>6 DEF EpollerInv

\* The callback reads bytes: no other event of the batch is about this connection.
LEMMA ReadInputKeepsInv ==
    ASSUME EpollerInv, ReadInput
    PROVE  EpollerInv'
<1>1. UNCHANGED <<role, opened, file, actions, datagrams, arriving, arrived>> /\ status' = "running"
  BY DEF ReadInput
<1>2. PICK f \in actions :
        Dispatches(f) /\ input' = [input EXCEPT ![file[f]] = @ \ {"bytes"}]
  BY DEF ReadInput
<1>3. /\ batch' \in Seq(Fd \cup {Udp, Listener}) /\ OneEventEach'
      /\ Range(batch') \subseteq Range(batch) \ {f}
  BY <1>2, RestOfBatch DEF EpollerInv
<1>4. Open' = Open /\ f \in Open /\ Open \subseteq Fd
  BY <1>1, <1>2 DEF Open, EpollerInv, ActionsMatchFiles
<1>5. \A g \in Open : file[g] \in Conn
  BY DEF Open, NoConn, Conn, EpollerInv, EpollerTypeOK
<1>6. input' \in [Conn -> SUBSET {"bytes", "eof"}] /\ \A g \in Open : g # f => input'[file[g]] = input[file[g]]
  BY <1>2, <1>4, <1>5 DEF EpollerInv, EpollerTypeOK, OneDescriptorEach
<1>7. EpollerTypeOK' /\ ActionsMatchFiles' /\ ServerNeverBlocked' /\ OneDescriptorEach'
  BY <1>1, <1>3, <1>4, <1>6
     DEF EpollerInv, EpollerTypeOK, ActionsMatchFiles, ServerNeverBlocked, OneDescriptorEach
<1>8. SocketsReady' /\ StaleOnlyAfterUdp'
  BY <1>1, <1>3, <1>4 DEF EpollerInv, SocketsReady, StaleOnlyAfterUdp
<1>9. EventsTrue'
  BY <1>1, <1>3, <1>4, <1>6 DEF EpollerInv, EventsTrue
<1> QED BY <1>3, <1>7, <1>8, <1>9 DEF EpollerInv

\* close_connection takes the descriptor out of both tables.
LEMMA CloseKeepsTables ==
    ASSUME EpollerTypeOK, OneDescriptorEach, actions = Open, NEW f \in Open,
           close_connection(f), UNCHANGED opened
    PROVE  /\ file' \in [Fd -> 0 .. MaxConns] /\ (\A g \in Fd : file'[g] <= opened')
           /\ actions' = Open' /\ Open' = Open \ {f} /\ OneDescriptorEach'
           /\ \A g \in Open' : file'[g] = file[g]
<1>1. f \in Fd /\ file' = [file EXCEPT ![f] = 0] /\ actions' = actions \ {f}
  BY DEF Open, close_connection, NoConn
<1>2. file' \in [Fd -> 0 .. MaxConns] /\ (\A g \in Fd : file'[g] <= opened')
  BY <1>1, EpollerAssumption DEF EpollerTypeOK
<1>3. Open' = Open \ {f} /\ \A g \in Open' : file'[g] = file[g]
  BY <1>1 DEF Open, NoConn, EpollerTypeOK
<1> QED BY <1>1, <1>2, <1>3 DEF OneDescriptorEach

\* The callback reads end of file: its own event has left the batch, so that no
\* descriptor of the rest is freed.
LEMMA ReadEofKeepsInv ==
    ASSUME EpollerInv, ReadEof
    PROVE  EpollerInv'
<1>1. /\ UNCHANGED <<role, opened, input, datagrams, arriving, arrived>>
      /\ status' \in {"running", "threw"}
  BY DEF ReadEof
<1>2. PICK f \in actions : Dispatches(f) /\ close_connection(f)
  BY DEF ReadEof
<1>3. /\ batch' \in Seq(Fd \cup {Udp, Listener}) /\ OneEventEach'
      /\ Range(batch') \subseteq Range(batch) \ {f}
  BY <1>2, RestOfBatch DEF EpollerInv
<1>4. /\ file' \in [Fd -> 0 .. MaxConns] /\ (\A g \in Fd : file'[g] <= opened')
      /\ actions' = Open' /\ Open' = Open \ {f} /\ OneDescriptorEach'
      /\ \A g \in Open' : file'[g] = file[g]
  BY <1>1, <1>2, CloseKeepsTables DEF EpollerInv, ActionsMatchFiles
<1>5. EpollerTypeOK' /\ ActionsMatchFiles' /\ ServerNeverBlocked'
  BY <1>1, <1>3, <1>4 DEF EpollerInv, EpollerTypeOK, ActionsMatchFiles, ServerNeverBlocked
<1>6. SocketsReady' /\ StaleOnlyAfterUdp' /\ EventsTrue'
  BY <1>1, <1>3, <1>4 DEF EpollerInv, SocketsReady, StaleOnlyAfterUdp, EventsTrue
<1> QED BY <1>3, <1>4, <1>5, <1>6 DEF EpollerInv

\* The callback reads in vain: not in the server, whose events are true.
LEMMA BlockKeepsInv ==
    ASSUME EpollerInv, BlockInRead
    PROVE  EpollerInv'
<1>1. /\ UNCHANGED <<role, opened, file, actions, input, datagrams, arriving, batch, arrived>>
      /\ status' = "blocked"
  BY DEF BlockInRead
<1>2. batch # <<>> /\ Head(batch) \in Open /\ input[file[Head(batch)]] = {}
  BY DEF BlockInRead, EpollerInv, ActionsMatchFiles
<1>3. Head(batch) \in Range(batch)
  BY <1>2 DEF Range, EpollerInv, EpollerTypeOK
<1>4. role # "server"
  BY <1>2, <1>3 DEF EpollerInv, EventsTrue
<1>5. Open' = Open /\ Range(batch)' = Range(batch)
  BY <1>1 DEF Open
<1> QED BY <1>1, <1>4, <1>5
           DEF EpollerInv, EpollerTypeOK, ActionsMatchFiles, ServerNeverBlocked, OneDescriptorEach, OneEventEach,
               SocketsReady, StaleOnlyAfterUdp, EventsTrue

\* A new connection: its descriptor was free, and its number is new.
LEMMA OpenKeepsTables ==
    ASSUME EpollerTypeOK, OneDescriptorEach, actions = Open, OpenConnection
    PROVE  \E f \in Fd \ Open :
             /\ opened' \in 0 .. MaxConns
             /\ file' \in [Fd -> 0 .. MaxConns] /\ (\A g \in Fd : file'[g] <= opened')
             /\ actions' = Open' /\ Open' = Open \cup {f} /\ OneDescriptorEach' /\ status' = "running"
             /\ \A g \in Open : file'[g] = file[g]
<1> DEFINE f == Min(Fd \ Open)
<1>1. Open # Fd /\ opened < MaxConns /\ opened' = opened + 1
  BY DEF OpenConnection
<1>2. f \in Fd \ Open
  BY <1>1, LowestIsFree
<1>3. file' = [file EXCEPT ![f] = opened + 1] /\ actions' = actions \cup {f} /\ status' = "running"
  BY <1>2 DEF OpenConnection
<1> HIDE DEF f
<1>4. opened \in Nat /\ opened' \in 0 .. MaxConns /\ opened + 1 # 0
  BY <1>1, EpollerAssumption DEF EpollerTypeOK
<1>5. file' \in [Fd -> 0 .. MaxConns] /\ (\A g \in Fd : file'[g] <= opened')
  BY <1>1, <1>2, <1>3, <1>4, EpollerAssumption DEF EpollerTypeOK
<1>6. Open' = Open \cup {f} /\ (\A g \in Open : file'[g] = file[g]) /\ file'[f] = opened + 1
  BY <1>2, <1>3, <1>4 DEF Open, NoConn, EpollerTypeOK
<1>7. \A g \in Open : file[g] <= opened /\ file[g] \in Nat /\ file[g] # opened + 1
  BY <1>4, EpollerAssumption DEF Open, EpollerTypeOK
<1>8. OneDescriptorEach'
  BY <1>6, <1>7 DEF OneDescriptorEach
<1> QED BY <1>2, <1>3, <1>4, <1>5, <1>6, <1>8

\* The listener's callback, which the server does not have.
LEMMA AcceptKeepsInv ==
    ASSUME EpollerInv, Accept
    PROVE  EpollerInv'
<1>1. UNCHANGED <<role, input, datagrams, arrived>> /\ arriving' = arriving - 1
  BY DEF Accept
<1>2. /\ batch' \in Seq(Fd \cup {Udp, Listener}) /\ OneEventEach'
      /\ Listener \in Range(batch) /\ Range(batch') \subseteq Range(batch) \ {Listener}
  BY RestOfBatch DEF EpollerInv, Accept
<1>3. role # "server" /\ arriving' \in Nat
  BY <1>1, <1>2 DEF EpollerInv, SocketsReady, EpollerTypeOK
<1>4. PICK f \in Fd \ Open :
             /\ opened' \in 0 .. MaxConns
             /\ file' \in [Fd -> 0 .. MaxConns] /\ (\A g \in Fd : file'[g] <= opened')
             /\ actions' = Open' /\ Open' = Open \cup {f} /\ OneDescriptorEach' /\ status' = "running"
  BY OpenKeepsTables DEF EpollerInv, ActionsMatchFiles, Accept
<1>5. EpollerTypeOK' /\ ActionsMatchFiles' /\ ServerNeverBlocked'
  BY <1>1, <1>2, <1>3, <1>4 DEF EpollerInv, EpollerTypeOK, ActionsMatchFiles, ServerNeverBlocked
<1>6. SocketsReady' /\ StaleOnlyAfterUdp' /\ EventsTrue'
  BY <1>1, <1>2, <1>3 DEF EpollerInv, SocketsReady, StaleOnlyAfterUdp, EventsTrue
<1> QED BY <1>2, <1>4, <1>5, <1>6 DEF EpollerInv

\* The UDP callback: the one place where the server opens, and, but for end of file,
\* where it closes.
LEMMA TakeDatagramKeepsInv ==
    ASSUME EpollerInv, TakeDatagram
    PROVE  EpollerInv'
<1>1. UNCHANGED <<role, input, arriving, arrived>> /\ datagrams' = datagrams - 1
  BY DEF TakeDatagram
<1>2. /\ batch' \in Seq(Fd \cup {Udp, Listener}) /\ OneEventEach'
      /\ Udp \in Range(batch) /\ Range(batch') \subseteq Range(batch) \ {Udp}
  BY RestOfBatch DEF EpollerInv, TakeDatagram
<1>3. datagrams' \in Nat
  BY <1>1, <1>2 DEF EpollerInv, SocketsReady, EpollerTypeOK
<1>4. SocketsReady' /\ StaleOnlyAfterUdp'
  BY <1>1, <1>2 DEF EpollerInv, SocketsReady, StaleOnlyAfterUdp
<1>5. CASE UNCHANGED <<opened, file, actions, status>>
  <2>1. Open' = Open
    BY <1>5 DEF Open
  <2>2. EpollerTypeOK' /\ ActionsMatchFiles' /\ ServerNeverBlocked' /\ OneDescriptorEach'
    BY <1>1, <1>2, <1>3, <1>5, <2>1
       DEF EpollerInv, EpollerTypeOK, ActionsMatchFiles, ServerNeverBlocked, OneDescriptorEach
  <2>3. EventsTrue'
    BY <1>1, <1>2, <1>5, <2>1 DEF EpollerInv, EventsTrue
  <2> QED BY <1>2, <1>4, <2>2, <2>3 DEF EpollerInv
<1>6. CASE (\E f \in Open : close_connection(f)) /\ UNCHANGED <<opened, status>>
  <2>1. PICK f \in Open : close_connection(f)
    BY <1>6
  <2>2. /\ file' \in [Fd -> 0 .. MaxConns] /\ (\A g \in Fd : file'[g] <= opened')
        /\ actions' = Open' /\ Open' = Open \ {f} /\ OneDescriptorEach'
        /\ \A g \in Open' : file'[g] = file[g]
    BY <1>6, <2>1, CloseKeepsTables DEF EpollerInv, ActionsMatchFiles
  <2>3. EpollerTypeOK' /\ ActionsMatchFiles' /\ ServerNeverBlocked'
    BY <1>1, <1>2, <1>3, <1>6, <2>2 DEF EpollerInv, EpollerTypeOK, ActionsMatchFiles, ServerNeverBlocked
  <2>4. EventsTrue'
    BY <1>1, <1>2, <2>2 DEF EpollerInv, EventsTrue
  <2> QED BY <1>2, <1>4, <2>2, <2>3, <2>4 DEF EpollerInv
<1>7. CASE role = "server" /\ OpenConnection
  <2>1. PICK f \in Fd \ Open :
             /\ opened' \in 0 .. MaxConns
             /\ file' \in [Fd -> 0 .. MaxConns] /\ (\A g \in Fd : file'[g] <= opened')
             /\ actions' = Open' /\ Open' = Open \cup {f} /\ OneDescriptorEach' /\ status' = "running"
             /\ \A g \in Open : file'[g] = file[g]
    BY <1>7, OpenKeepsTables DEF EpollerInv, ActionsMatchFiles
  <2>2. EpollerTypeOK' /\ ActionsMatchFiles' /\ ServerNeverBlocked'
    BY <1>1, <1>2, <1>3, <2>1 DEF EpollerInv, EpollerTypeOK, ActionsMatchFiles, ServerNeverBlocked
  \* Every descriptor of the batch was open, and the new one was not.
  <2>3. f \notin Range(batch')
    BY <1>2, <1>7, <2>1 DEF EpollerInv, StaleOnlyAfterUdp
  <2>4. EventsTrue'
    BY <1>1, <1>2, <2>1, <2>3 DEF EpollerInv, EventsTrue
  <2> QED BY <1>2, <1>4, <2>1, <2>2, <2>4 DEF EpollerInv
<1> QED BY <1>5, <1>6, <1>7 DEF TakeDatagram

\* What arrives makes no event false.
LEMMA ArrivalKeepsInv ==
    ASSUME EpollerInv, InputArrives \/ DatagramArrives \/ ConnectionArrives
    PROVE  EpollerInv'
<1>1. UNCHANGED <<role, opened, file, actions, batch, status>>
  BY DEF InputArrives, DatagramArrives, ConnectionArrives
<1>2. Open' = Open /\ Range(batch)' = Range(batch)
  BY <1>1 DEF Open
<1>3. /\ arrived' \in 0 .. MaxPackets
      /\ datagrams' \in Nat /\ datagrams' >= datagrams
      /\ arriving' \in Nat /\ arriving' >= arriving /\ (role = "server" => arriving' = arriving)
  BY EpollerAssumption DEF InputArrives, DatagramArrives, ConnectionArrives, EpollerInv, EpollerTypeOK
<1>4. \A f \in Open : file[f] \in Conn
  BY DEF Open, NoConn, Conn, EpollerInv, EpollerTypeOK
<1>5. input' \in [Conn -> SUBSET {"bytes", "eof"}] /\ \A c \in Conn : input[c] \subseteq input'[c]
  <2>1. CASE input' = input
    BY <2>1 DEF EpollerInv, EpollerTypeOK
  <2>2. CASE InputArrives
    <3>1. PICK f \in Open, what \in {"bytes", "eof"} : input' = [input EXCEPT ![file[f]] = @ \cup {what}]
      BY <2>2 DEF InputArrives
    <3> QED BY <1>4, <3>1 DEF EpollerInv, EpollerTypeOK
  <2> QED BY <2>1, <2>2 DEF DatagramArrives, ConnectionArrives
<1>6. EpollerTypeOK' /\ ActionsMatchFiles' /\ ServerNeverBlocked' /\ OneDescriptorEach' /\ OneEventEach'
  BY <1>1, <1>2, <1>3, <1>5
     DEF EpollerInv, EpollerTypeOK, ActionsMatchFiles, ServerNeverBlocked, OneDescriptorEach, OneEventEach
<1>7. SocketsReady' /\ StaleOnlyAfterUdp'
  BY <1>1, <1>2, <1>3 DEF EpollerInv, SocketsReady, StaleOnlyAfterUdp, EpollerTypeOK
<1>8. EventsTrue'
  BY <1>1, <1>2, <1>4, <1>5 DEF EpollerInv, EventsTrue
<1> QED BY <1>6, <1>7, <1>8 DEF EpollerInv

-----------------------------------------------------------------------------
(* The theorems.                                                           *)

\* The invariant holds in every state of poll's loop.
THEOREM EpollerSafe == Spec => []EpollerInv
<1>1. Init => EpollerInv
  BY InvInitially
<1>2. EpollerInv /\ [Next]_vars => EpollerInv'
  <2> SUFFICES ASSUME EpollerInv, [Next]_vars PROVE EpollerInv'
    OBVIOUS
  <2>1. CASE Poll
    BY <2>1, WaitKeepsInv, SkipKeepsInv, ReadInputKeepsInv, ReadEofKeepsInv, BlockKeepsInv,
       AcceptKeepsInv, TakeDatagramKeepsInv DEF Poll
  <2>2. CASE InputArrives \/ DatagramArrives \/ ConnectionArrives
    BY <2>2, ArrivalKeepsInv
  <2>3. CASE UNCHANGED vars
    <3>1. Open' = Open /\ Range(batch)' = Range(batch)
      BY <2>3 DEF vars, Open
    <3> QED BY <2>3, <3>1
               DEF vars, EpollerInv, EpollerTypeOK, ActionsMatchFiles, ServerNeverBlocked, OneDescriptorEach,
                   OneEventEach, SocketsReady, StaleOnlyAfterUdp, EventsTrue
  <2> QED BY <2>1, <2>2, <2>3 DEF Next
<1> QED BY <1>1, <1>2, PTL DEF Spec

\* add_action never meets a descriptor that has an action, and no action outlives its
\* descriptor, in either splitter.
THEOREM ActionsAlwaysMatchFiles == Spec => []ActionsMatchFiles
<1>1. EpollerInv => ActionsMatchFiles
  BY DEF EpollerInv
<1> QED BY <1>1, EpollerSafe, PTL

\* The splitter server never blocks in a read of a connection that has nothing to read,
\* however many connections end and begin while a batch is dispatched.
THEOREM ServerNeverBlocks == Spec => []ServerNeverBlocked
<1>1. EpollerInv => ServerNeverBlocked
  BY DEF EpollerInv
<1> QED BY <1>1, EpollerSafe, PTL
=============================================================================
