-------------------------- MODULE SplitterFlowProofs --------------------------
(***************************************************************************)
(* What SplitterFlow counts is right for every value of its constants: any *)
(* number of connections, any room in the buffers, any limit of sockets.   *)
(*                                                                         *)
(* Conserved is inductive once it is known that only data carries units.   *)
(* EndsForCause is not: that the server ends with its descriptors all in   *)
(* use needs that each connection in its map holds a socket (AllInUse) and *)
(* that there are never more than the limit (WithinLimit); that the client *)
(* ends after the server needs that an ICMP error is pending only then.    *)
(***************************************************************************)
EXTENDS SplitterFlow, FiniteSetTheorems, SequenceTheorems, WellFoundedInduction, TLAPS

Doing == {Idle}
            \cup {Writing(c, n) : c \in Conn, n \in 0 .. ReadLimit}
            \cup {Connecting(c) : c \in Conn}

\* Every variable has its type.
TypeOK ==
    /\ up \in [Side -> {"up", "threw", "sigpipe"}]
    /\ thread \in [Side -> Doing]
    /\ conns \in [Side -> SUBSET Conn]
    /\ peer \in [Side -> [Conn -> {"none", "open", "gone", "broken", "reset", "closed"}]]
    /\ read \in [Side -> [Conn -> Nat]]
    /\ inq \in [Side -> [Conn -> Nat]]
    /\ outq \in [Side -> [Conn -> 0 .. SndRoom]]
    /\ given \in [Side -> [Conn -> Nat]]
    /\ udp \in [Side -> Seq(Datagram)]
    /\ unwatched \in SUBSET Conn
    /\ refused \in BOOLEAN
    /\ limit \in Nat
    /\ dropped \in [Side -> [Conn -> Nat]]

\* Announcements and ends of connections carry no units.
OnlyDataCounts ==
    \A side \in Side : \A i \in DOMAIN udp[side] :
        udp[side][i].kind # "data" => udp[side][i].n = 0

\* An ICMP error is pending only after the server has ended.
RefusedByTheEnded == refused => up["server"] # "up"

\* Every connection in the server's map is, or is being, connected.
AllInUse == InUse = conns["server"]

WithinLimit == IsFiniteSet(conns["server"]) /\ Cardinality(conns["server"]) <= limit

-----------------------------------------------------------------------------
(* Units in a queue of datagrams.                                          *)

\* The units of d that are for c.
For(d, c) == IF d.c = c THEN d.n ELSE 0

UnitSet(q, c) == {u \in (DOMAIN q) \X (1 .. ReadLimit) : q[u[1]].c = c /\ u[2] <= q[u[1]].n}

LEMMA DatagramType ==
    ASSUME NEW d \in Datagram
    PROVE  /\ d.kind \in {"new", "data", "end"} /\ d.c \in Conn /\ d.n \in 0 .. ReadLimit
           /\ d.n \in Nat /\ d.n <= ReadLimit
           /\ \A c \in Conn : For(d, c) \in Nat /\ For(d, c) <= ReadLimit
<1>1. ReadLimit \in Nat
  BY FlowAssumption
<1>2. d.kind \in {"new", "data", "end"} /\ d.c \in Conn /\ d.n \in 0 .. ReadLimit
  BY DEF Datagram
<1> QED BY <1>1, <1>2 DEF For

\* One datagram's worth of pairs.
LEMMA Column ==
    ASSUME NEW i, NEW m \in Nat
    PROVE  IsFiniteSet({i} \X (1 .. m)) /\ Cardinality({i} \X (1 .. m)) = m
<1>1. IsFiniteSet({i}) /\ Cardinality({i}) = 1
  BY FS_Singleton
<1>2. IsFiniteSet(1 .. m) /\ Cardinality(1 .. m) = m
  BY FS_Interval
<1>3. /\ IsFiniteSet({i} \X (1 .. m))
      /\ Cardinality({i} \X (1 .. m)) = Cardinality({i}) * Cardinality(1 .. m)
  BY <1>1, <1>2, FS_Product
<1> QED BY <1>1, <1>2, <1>3

LEMMA UnitsFinite ==
    ASSUME NEW q \in Seq(Datagram), NEW c
    PROVE  IsFiniteSet(UnitSet(q, c)) /\ UnitsIn(q, c) = Cardinality(UnitSet(q, c)) /\ UnitsIn(q, c) \in Nat
<1>1. ReadLimit \in Nat /\ Len(q) \in Nat /\ DOMAIN q = 1 .. Len(q)
  BY FlowAssumption
<1>2. IsFiniteSet(1 .. Len(q)) /\ IsFiniteSet(1 .. ReadLimit)
  BY <1>1, FS_Interval
<1>3. IsFiniteSet((DOMAIN q) \X (1 .. ReadLimit))
  BY <1>1, <1>2, FS_Product
<1>4. IsFiniteSet(UnitSet(q, c))
  BY <1>3, FS_Subset DEF UnitSet
<1>5. UnitsIn(q, c) = Cardinality(UnitSet(q, c))
  BY DEF UnitsIn, UnitSet
<1> QED BY <1>4, <1>5, FS_CardinalityType

LEMMA UnitsEmpty == \A c : UnitsIn(<<>>, c) = 0
<1>1. ASSUME NEW c PROVE {u \in (DOMAIN <<>>) \X (1 .. ReadLimit) : <<>>[u[1]].c = c /\ u[2] <= <<>>[u[1]].n} = {}
  OBVIOUS
<1> QED BY <1>1, FS_EmptySet DEF UnitsIn

LEMMA UnitsAppended ==
    ASSUME NEW q \in Seq(Datagram), NEW d \in Datagram, NEW c \in Conn
    PROVE  UnitsIn(Append(q, d), c) = UnitsIn(q, c) + For(d, c)
<1> DEFINE m == For(d, c)
           r == Append(q, d)
           new == {Len(q) + 1} \X (1 .. m)
<1>1. m \in Nat /\ m <= ReadLimit /\ ReadLimit \in Nat /\ Len(q) \in Nat /\ d.n \in Nat
  BY DatagramType, FlowAssumption
<1>2. /\ r \in Seq(Datagram) /\ DOMAIN q = 1 .. Len(q) /\ DOMAIN r = 1 .. Len(q) + 1
      /\ r[Len(q) + 1] = d /\ \A i \in 1 .. Len(q) : r[i] = q[i]
  BY <1>1
<1>3. UnitSet(r, c) = UnitSet(q, c) \cup new
  <2>1. ASSUME NEW i \in 1 .. Len(q) + 1, NEW k \in 1 .. ReadLimit
        PROVE  <<i, k>> \in UnitSet(r, c) <=> <<i, k>> \in UnitSet(q, c) \cup new
    <3>1. CASE i = Len(q) + 1
      BY <1>1, <1>2, <3>1 DEF UnitSet, For
    <3>2. CASE i \in 1 .. Len(q)
      BY <1>1, <1>2, <3>2 DEF UnitSet, For
    <3> QED BY <1>1, <3>1, <3>2
  <2>2. UnitSet(r, c) \subseteq (1 .. Len(q) + 1) \X (1 .. ReadLimit)
    BY <1>2 DEF UnitSet
  <2>3. UnitSet(q, c) \cup new \subseteq (1 .. Len(q) + 1) \X (1 .. ReadLimit)
    BY <1>1, <1>2 DEF UnitSet
  <2> QED BY <2>1, <2>2, <2>3
<1>4. UnitSet(q, c) \cap new = {}
  BY <1>1, <1>2 DEF UnitSet
<1>5. IsFiniteSet(new) /\ Cardinality(new) = m
  BY <1>1, Column
<1>6. IsFiniteSet(UnitSet(q, c)) /\ UnitsIn(q, c) = Cardinality(UnitSet(q, c)) /\ UnitsIn(q, c) \in Nat
  BY UnitsFinite
<1>7. UnitsIn(r, c) = Cardinality(UnitSet(r, c))
  BY <1>2, UnitsFinite
<1> HIDE DEF m, r, new
<1>8. Cardinality(UnitSet(r, c)) = Cardinality(UnitSet(q, c)) + Cardinality(new) - Cardinality({})
  BY <1>3, <1>4, <1>5, <1>6, FS_Union
<1> QED BY <1>1, <1>5, <1>6, <1>7, <1>8, FS_EmptySet DEF m, r

LEMMA UnitsTaken ==
    ASSUME NEW q \in Seq(Datagram), q # <<>>, NEW c \in Conn
    PROVE  UnitsIn(q, c) = For(Head(q), c) + UnitsIn(Tail(q), c)
<1> DEFINE m == For(Head(q), c)
           r == Tail(q)
           first == {1} \X (1 .. m)
           later == UnitSet(q, c) \ first
           f == [u \in UnitSet(r, c) |-> <<u[1] + 1, u[2]>>]
<1>1. /\ Len(q) \in Nat \ {0} /\ DOMAIN q = 1 .. Len(q) /\ Head(q) = q[1] /\ Head(q) \in Datagram
      /\ r \in Seq(Datagram) /\ Len(r) = Len(q) - 1 /\ DOMAIN r = 1 .. Len(q) - 1
      /\ \A i \in 1 .. Len(q) - 1 : r[i] = q[i + 1]
  OBVIOUS
<1>2. m \in Nat /\ m <= ReadLimit /\ ReadLimit \in Nat /\ Head(q).n \in Nat
  BY <1>1, DatagramType, FlowAssumption
<1>3. first \subseteq UnitSet(q, c) /\ \A u \in later : u[1] \in 2 .. Len(q)
  <2>1. ASSUME NEW k \in 1 .. ReadLimit
        PROVE  <<1, k>> \in UnitSet(q, c) <=> <<1, k>> \in first
    BY <1>1, <1>2 DEF UnitSet, For
  <2>2. first \subseteq UnitSet(q, c)
    BY <1>1, <1>2, <2>1
  <2>3. ASSUME NEW u \in later PROVE u[1] \in 2 .. Len(q)
    <3>1. u \in (1 .. Len(q)) \X (1 .. ReadLimit) /\ u = <<u[1], u[2]>>
      BY <1>1 DEF UnitSet
    <3> QED BY <1>1, <2>1, <3>1
  <2> QED BY <2>2, <2>3
<1>4. f \in Bijection(UnitSet(r, c), later)
  <2>1. ASSUME NEW u \in UnitSet(r, c) PROVE f[u] \in later
    BY <1>1, <1>2 DEF UnitSet
  <2>2. ASSUME NEW u \in UnitSet(r, c), NEW v \in UnitSet(r, c), f[u] = f[v] PROVE u = v
    <3>1. /\ u = <<u[1], u[2]>> /\ v = <<v[1], v[2]>> /\ u[1] \in Nat /\ v[1] \in Nat
          /\ f[u] = <<u[1] + 1, u[2]>> /\ f[v] = <<v[1] + 1, v[2]>>
      BY <1>1 DEF UnitSet
    <3>2. u[1] + 1 = v[1] + 1 /\ u[2] = v[2]
      BY <2>2, <3>1
    <3> QED BY <3>1, <3>2
  <2>3. ASSUME NEW w \in later PROVE \E u \in UnitSet(r, c) : f[u] = w
    <3>1. /\ w \in (1 .. Len(q)) \X (1 .. ReadLimit) /\ w = <<w[1], w[2]>> /\ w[1] \in 2 .. Len(q)
          /\ q[w[1]].c = c /\ w[2] <= q[w[1]].n
      BY <1>1, <1>3 DEF UnitSet
    <3>2. <<w[1] - 1, w[2]>> \in UnitSet(r, c)
      BY <1>1, <3>1 DEF UnitSet
    <3> QED BY <3>1, <3>2
  <2> HIDE DEF later
  <2>4. f \in [UnitSet(r, c) -> later]
    BY <2>1
  <2> HIDE DEF f
  <2> QED BY <2>2, <2>3, <2>4 DEF Bijection, Injection, Surjection, IsInjective
<1>5. IsFiniteSet(UnitSet(r, c)) /\ UnitsIn(r, c) = Cardinality(UnitSet(r, c)) /\ UnitsIn(r, c) \in Nat
  BY <1>1, UnitsFinite
<1>6. IsFiniteSet(UnitSet(q, c)) /\ UnitsIn(q, c) = Cardinality(UnitSet(q, c)) /\ UnitsIn(q, c) \in Nat
  BY UnitsFinite
<1>7. IsFiniteSet(first) /\ Cardinality(first) = m
  BY <1>2, Column
<1> HIDE DEF m, r, f, first
<1>8. Cardinality(later) = UnitsIn(r, c)
  BY <1>4, <1>5, FS_Bijection DEF ExistsBijection
<1>9. UnitSet(q, c) \cap first = first
  BY <1>3
<1>10. Cardinality(later) = Cardinality(UnitSet(q, c)) - Cardinality(first)
  <2>1. Cardinality(later) = Cardinality(UnitSet(q, c)) - Cardinality(UnitSet(q, c) \cap first)
    BY <1>6, FS_Difference
  <2> QED BY <2>1, <1>9
<1> QED BY <1>2, <1>5, <1>6, <1>7, <1>8, <1>10 DEF m, r

-----------------------------------------------------------------------------
(* Sending and taking a datagram.                                          *)

LEMMA MinOfTwo ==
    ASSUME NEW a \in Nat, NEW b \in Nat
    PROVE  Min({a, b}) \in Nat /\ Min({a, b}) <= a /\ Min({a, b}) <= b /\ Min({a, b}) \in {a, b}
<1>1. \E m \in {a, b} : \A y \in {a, b} : m <= y
  <2>1. CASE a <= b
    BY <2>1
  <2>2. CASE b <= a
    BY <2>2
  <2> QED BY <2>1, <2>2
<1>2. Min({a, b}) \in {a, b} /\ \A y \in {a, b} : Min({a, b}) <= y
  BY <1>1 DEF Min
<1> QED BY <1>2

\* The units of c that side has been sent and has not taken for writing.
Sent(side, c) == UnitsIn(udp[side], c) + dropped[side][c]

LEMMA Sides == \A side \in Side : Other(side) \in Side /\ Other(Other(side)) = side /\ Other(side) # side
  BY DEF Side, Other

\* A datagram that is sent is in the buffer or has been dropped.
LEMMA SendCounts ==
    ASSUME TypeOK, OnlyDataCounts, NEW to \in Side, NEW kind \in {"new", "data", "end"}, NEW c \in Conn,
           NEW n \in 0 .. ReadLimit, kind # "data" => n = 0, Send(to, kind, c, n)
    PROVE  /\ udp' \in [Side -> Seq(Datagram)] /\ dropped' \in [Side -> [Conn -> Nat]]
           /\ refused' \in BOOLEAN /\ (refused' => refused \/ up["server"] # "up")
           /\ OnlyDataCounts'
           /\ \A s \in Side, b \in Conn :
                Sent(s, b)' = Sent(s, b) + (IF s = to /\ b = c THEN n ELSE 0)
<1> DEFINE d == [kind |-> kind, c |-> c, n |-> n]
<1>1. /\ d \in Datagram /\ d.kind = kind /\ d.c = c /\ d.n = n /\ n \in Nat
      /\ \A b \in Conn : For(d, b) = IF b = c THEN n ELSE 0
  BY FlowAssumption DEF Datagram, For
<1>2. udp \in [Side -> Seq(Datagram)] /\ dropped \in [Side -> [Conn -> Nat]] /\ refused \in BOOLEAN
  BY DEF TypeOK
<1>3. \A s \in Side, b \in Conn : UnitsIn(udp[s], b) \in Nat /\ dropped[s][b] \in Nat
  BY <1>2, UnitsFinite
<1>4. CASE Len(udp[to]) < UdpRoom /\ up[to] = "up"
  <2>1. udp' = [udp EXCEPT ![to] = Append(@, d)] /\ dropped' = dropped /\ refused' = refused
    BY <1>4 DEF Send
  <2> HIDE DEF d
  <2>2. udp' \in [Side -> Seq(Datagram)] /\ udp'[to] = Append(udp[to], d)
        /\ \A s \in Side : s # to => udp'[s] = udp[s]
    BY <1>1, <1>2, <2>1
  <2>3. OnlyDataCounts'
    <3> SUFFICES ASSUME NEW s \in Side, NEW i \in DOMAIN udp'[s], udp'[s][i].kind # "data"
                 PROVE  udp'[s][i].n = 0
      BY DEF OnlyDataCounts
    <3>1. CASE s = to /\ i = Len(udp[to]) + 1
      BY <1>1, <1>2, <2>2, <3>1
    <3>2. CASE s = to /\ i # Len(udp[to]) + 1
      <4>1. i \in DOMAIN udp[to] /\ udp'[to][i] = udp[to][i]
        BY <1>1, <1>2, <2>2, <3>2
      <4> QED BY <3>2, <4>1 DEF OnlyDataCounts
    <3>3. CASE s # to
      BY <2>2, <3>3 DEF OnlyDataCounts
    <3> QED BY <3>1, <3>2, <3>3
  <2>4. ASSUME NEW s \in Side, NEW b \in Conn
        PROVE  Sent(s, b)' = Sent(s, b) + (IF s = to /\ b = c THEN n ELSE 0)
    <3>1. CASE s = to
      <4>1. UnitsIn(udp'[to], b) = UnitsIn(udp[to], b) + For(d, b)
        BY <1>1, <1>2, <2>2, UnitsAppended
      <4> QED BY <1>1, <1>3, <2>1, <3>1, <4>1 DEF Sent
    <3>2. CASE s # to
      BY <1>1, <1>3, <2>1, <2>2, <3>2 DEF Sent
    <3> QED BY <3>1, <3>2
  <2> QED BY <1>2, <2>1, <2>2, <2>3, <2>4
<1>5. CASE ~(Len(udp[to]) < UdpRoom /\ up[to] = "up")
  <2>1. /\ dropped' = [dropped EXCEPT ![to][c] = @ + n] /\ udp' = udp
        /\ refused' = (refused \/ (to = "server" /\ up[to] # "up"))
    BY <1>5 DEF Send
  <2>2. OnlyDataCounts'
    BY <2>1 DEF OnlyDataCounts
  <2>3. /\ dropped' \in [Side -> [Conn -> Nat]]
        /\ \A s \in Side, b \in Conn :
             dropped'[s][b] = dropped[s][b] + (IF s = to /\ b = c THEN n ELSE 0)
    BY <1>1, <1>2, <2>1
  <2> QED BY <1>1, <1>2, <1>3, <2>1, <2>2, <2>3 DEF Sent
<1> QED BY <1>4, <1>5

\* A datagram that is taken leaves the others.
LEMMA TakeCounts ==
    ASSUME TypeOK, OnlyDataCounts, NEW side \in Side, NEW d, Take(side, d), udp' = Rest(side)
    PROVE  /\ d \in Datagram /\ (d.kind # "data" => d.n = 0)
           /\ udp' \in [Side -> Seq(Datagram)]
           /\ OnlyDataCounts'
           /\ \A s \in Side, b \in Conn :
                UnitsIn(udp'[s], b) + (IF s = side THEN For(d, b) ELSE 0) = UnitsIn(udp[s], b)
<1>1. udp \in [Side -> Seq(Datagram)] /\ udp[side] # <<>> /\ d = Head(udp[side])
  BY DEF TypeOK, Take
<1>2. d \in Datagram /\ Tail(udp[side]) \in Seq(Datagram) /\ Len(udp[side]) >= 1 /\ d = udp[side][1]
      /\ \A i \in DOMAIN Tail(udp[side]) : i + 1 \in DOMAIN udp[side] /\ Tail(udp[side])[i] = udp[side][i + 1]
  BY <1>1
<1>3. /\ udp' \in [Side -> Seq(Datagram)] /\ udp'[side] = Tail(udp[side])
      /\ \A s \in Side : s # side => udp'[s] = udp[s]
  BY <1>1, <1>2 DEF Rest
<1>4. d.kind # "data" => d.n = 0
  <2>1. 1 \in DOMAIN udp[side]
    BY <1>1, <1>2
  <2> QED BY <1>2, <2>1 DEF OnlyDataCounts
<1>5. OnlyDataCounts'
  <2> SUFFICES ASSUME NEW s \in Side, NEW i \in DOMAIN udp'[s], udp'[s][i].kind # "data"
               PROVE  udp'[s][i].n = 0
    BY DEF OnlyDataCounts
  <2>1. CASE s = side
    <3>1. i \in DOMAIN Tail(udp[side]) /\ udp'[s][i] = Tail(udp[side])[i]
      BY <1>3, <2>1
    <3>2. i + 1 \in DOMAIN udp[side] /\ udp'[s][i] = udp[side][i + 1]
      BY <1>2, <3>1
    <3> QED BY <3>2 DEF OnlyDataCounts
  <2>2. CASE s # side
    BY <1>3, <2>2 DEF OnlyDataCounts
  <2> QED BY <2>1, <2>2
<1>6. ASSUME NEW s \in Side, NEW b \in Conn
      PROVE  UnitsIn(udp'[s], b) + (IF s = side THEN For(d, b) ELSE 0) = UnitsIn(udp[s], b)
  <2>1. UnitsIn(udp'[s], b) \in Nat /\ For(d, b) \in Nat
    BY <1>2, <1>3, UnitsFinite, DatagramType
  <2>2. CASE s = side
    <3>1. UnitsIn(udp[side], b) = For(d, b) + UnitsIn(Tail(udp[side]), b)
      BY <1>1, UnitsTaken
    <3>2. UnitsIn(Tail(udp[side]), b) = UnitsIn(udp'[s], b)
      BY <1>3, <2>2
    <3> QED BY <2>1, <2>2, <3>1, <3>2
  <2>3. CASE s # side
    <3>1. UnitsIn(udp'[s], b) = UnitsIn(udp[s], b)
      BY <1>3, <2>3
    <3> QED BY <2>1, <2>3, <3>1
  <2> QED BY <2>2, <2>3
<1> QED BY <1>2, <1>3, <1>4, <1>5, <1>6

-----------------------------------------------------------------------------
(* Nothing that was read is lost or repeated.                              *)

\* The units in the hands of a thread that does t.
HeldBy(t, c) == IF t.op = "write" /\ t.c = c THEN t.n ELSE 0

LEMMA DoingHolds ==
    ASSUME NEW c \in Conn
    PROVE  /\ Idle \in Doing /\ HeldBy(Idle, c) = 0
           /\ \A b \in Conn : Connecting(b) \in Doing /\ HeldBy(Connecting(b), c) = 0 /\ Connecting(b) # Idle
           /\ \A b \in Conn, n \in 0 .. ReadLimit :
                /\ Writing(b, n) \in Doing /\ HeldBy(Writing(b, n), c) = (IF b = c THEN n ELSE 0)
                /\ Writing(b, n) # Idle
                /\ \A e \in Conn : Writing(b, n) # Connecting(e)
           /\ \A t \in Doing : HeldBy(t, c) \in Nat
<1>1. ReadLimit \in Nat
  BY FlowAssumption
<1>2. Idle \in Doing /\ HeldBy(Idle, c) = 0
  BY DEF Doing, Idle, HeldBy
<1>3. ASSUME NEW b \in Conn
      PROVE  Connecting(b) \in Doing /\ HeldBy(Connecting(b), c) = 0 /\ Connecting(b) # Idle
  <2>1. Connecting(b).op = "connect" /\ Idle.op = "idle"
    BY DEF Connecting, Idle
  <2> QED BY <2>1 DEF Doing, HeldBy
<1>4. ASSUME NEW b \in Conn, NEW n \in 0 .. ReadLimit
      PROVE  /\ Writing(b, n) \in Doing /\ HeldBy(Writing(b, n), c) = (IF b = c THEN n ELSE 0)
             /\ Writing(b, n) # Idle
             /\ \A e \in Conn : Writing(b, n) # Connecting(e)
  <2>1. /\ Writing(b, n).op = "write" /\ Writing(b, n).c = b /\ Writing(b, n).n = n
        /\ Idle.op = "idle" /\ \A e \in Conn : Connecting(e).op = "connect"
    BY DEF Writing, Connecting, Idle
  <2> QED BY <2>1 DEF Doing, HeldBy
<1>5. ASSUME NEW t \in Doing PROVE HeldBy(t, c) \in Nat
  <2>1. CASE t = Idle
    BY <1>2, <2>1
  <2>2. CASE \E b \in Conn : t = Connecting(b)
    BY <1>3, <2>2
  <2>3. CASE \E b \in Conn, n \in 0 .. ReadLimit : t = Writing(b, n)
    BY <1>1, <1>4, <2>3
  <2> QED BY <2>1, <2>2, <2>3 DEF Doing
<1> QED BY <1>2, <1>3, <1>4, <1>5

LEMMA HeldIs == \A side \in Side, c \in Conn : Held(side, c) = HeldBy(thread[side], c)
  BY DEF Held, HeldBy

\* What the splitters have read from one end and not yet given to the other.
Due(side, c) == given[side][c] + Held(side, c) + Sent(side, c)

DueRead == \A side \in Side, c \in Conn : read[Other(side)][c] = Due(side, c)

Numbers ==
    \A side \in Side, c \in Conn :
        /\ read[side][c] \in Nat /\ read[Other(side)][c] \in Nat
        /\ given[side][c] \in Nat /\ Held(side, c) \in Nat
        /\ UnitsIn(udp[side], c) \in Nat /\ dropped[side][c] \in Nat /\ Sent(side, c) \in Nat

LEMMA ConservedIs == TypeOK => Numbers /\ (Conserved <=> DueRead)
<1> SUFFICES ASSUME TypeOK PROVE Numbers /\ (Conserved <=> DueRead)
  OBVIOUS
<1>1. Numbers
  <2> SUFFICES ASSUME NEW side \in Side, NEW c \in Conn
               PROVE  /\ read[side][c] \in Nat /\ read[Other(side)][c] \in Nat
                      /\ given[side][c] \in Nat /\ Held(side, c) \in Nat
                      /\ UnitsIn(udp[side], c) \in Nat /\ dropped[side][c] \in Nat
                      /\ Sent(side, c) \in Nat
    BY DEF Numbers
  <2>1. Held(side, c) \in Nat
    BY HeldIs, DoingHolds DEF TypeOK
  <2>2. UnitsIn(udp[side], c) \in Nat /\ dropped[side][c] \in Nat
    BY UnitsFinite DEF TypeOK
  <2> QED BY <2>1, <2>2, Sides DEF TypeOK, Sent
<1>2. ASSUME NEW side \in Side, NEW c \in Conn
      PROVE  given[side][c] + Held(side, c) + UnitsIn(udp[side], c) + dropped[side][c] = Due(side, c)
  BY <1>1 DEF Numbers, Due, Sent
<1> QED BY <1>1, <1>2 DEF Conserved, DueRead

LEMMA ConservedNext == TypeOK' => Numbers' /\ (Conserved' <=> DueRead')
  BY ConservedIs, PTL

\* Steps that move no unit.
LEMMA NothingMoves ==
    ASSUME TypeOK, TypeOK', OnlyDataCounts, Conserved, UNCHANGED <<read, given, udp, dropped>>,
           \A side \in Side, c \in Conn : HeldBy(thread[side], c)' = HeldBy(thread[side], c)
    PROVE  OnlyDataCounts' /\ Conserved'
<1>1. OnlyDataCounts'
  BY DEF OnlyDataCounts
<1>2. \A side \in Side, c \in Conn : Held(side, c)' = Held(side, c)
  BY HeldIs DEF Held, HeldBy
<1>3. Conserved'
  BY <1>2 DEF Conserved
<1> QED BY <1>1, <1>3

CountsInv == TypeOK /\ OnlyDataCounts /\ Conserved

\* Accepting, and ends of connections, send datagrams that carry no units.
LEMMA NoticeMovesNothing ==
    ASSUME CountsInv, TypeOK', NEW to \in Side, NEW c \in Conn, NEW kind \in {"new", "end"},
           Send(to, kind, c, 0), UNCHANGED <<read, given>>,
           \A side \in Side, b \in Conn : HeldBy(thread[side], b)' = HeldBy(thread[side], b)
    PROVE  OnlyDataCounts' /\ Conserved'
<1>1. 0 \in 0 .. ReadLimit
  BY FlowAssumption
<1>2. OnlyDataCounts' /\ \A s \in Side, b \in Conn : Sent(s, b)' = Sent(s, b)
  <2>1. /\ OnlyDataCounts'
        /\ \A s \in Side, b \in Conn : Sent(s, b)' = Sent(s, b) + (IF s = to /\ b = c THEN 0 ELSE 0)
    BY <1>1, SendCounts DEF CountsInv
  <2> QED BY <2>1, ConservedIs DEF CountsInv, Numbers
<1>3. \A s \in Side, b \in Conn : Held(s, b)' = Held(s, b)
  BY HeldIs DEF Held, HeldBy
<1>4. \A s \in Side, b \in Conn : Due(s, b)' = Due(s, b)
  BY <1>2, <1>3 DEF Due
<1>5. DueRead'
  BY <1>4, ConservedIs DEF CountsInv, DueRead
<1> QED BY <1>2, <1>5, ConservedNext

\* What a thread does after a step, on its side and on the other.
LEMMA ThreadNext ==
    ASSUME TypeOK, NEW side \in Side, NEW t \in Doing, thread' = [thread EXCEPT ![side] = t]
    PROVE  /\ thread' \in [Side -> Doing]
           /\ \A s \in Side, b \in Conn :
                HeldBy(thread[s], b)' = IF s = side THEN HeldBy(t, b) ELSE HeldBy(thread[s], b)
  BY DEF TypeOK, HeldBy

LEMMA Unmoved ==
    ASSUME thread' = thread
    PROVE  \A s \in Side, b \in Conn : HeldBy(thread[s], b)' = HeldBy(thread[s], b)
  BY DEF HeldBy

\* Steps at a socket.
LEMMA SocketCounts ==
    ASSUME CountsInv, NEW side \in Side, NEW c \in Conn, HandlesSocket(side, c)
    PROVE  CountsInv'
<1>1. CASE ReadBytes(side, c)
  <2> DEFINE n == Min({inq[side][c], ReadLimit})
  <2>1. inq[side][c] \in Nat /\ ReadLimit \in Nat /\ Other(side) \in Side
    BY FlowAssumption, Sides DEF CountsInv, TypeOK
  <2>2. n \in 0 .. ReadLimit /\ n <= inq[side][c] /\ n \in Nat
    BY <2>1, MinOfTwo
  <2>3. /\ inq' = [inq EXCEPT ![side][c] = @ - n] /\ read' = [read EXCEPT ![side][c] = @ + n]
        /\ Send(Other(side), "data", c, n)
        /\ UNCHANGED <<up, thread, conns, peer, outq, given, limit, unwatched>>
    BY <1>1 DEF ReadBytes
  <2> HIDE DEF n
  <2>4. /\ udp' \in [Side -> Seq(Datagram)] /\ dropped' \in [Side -> [Conn -> Nat]]
        /\ refused' \in BOOLEAN /\ OnlyDataCounts'
        /\ \A s \in Side, b \in Conn :
             Sent(s, b)' = Sent(s, b) + (IF s = Other(side) /\ b = c THEN n ELSE 0)
    BY <2>1, <2>2, <2>3, SendCounts DEF CountsInv
  <2>5. TypeOK'
    <3>1. inq' \in [Side -> [Conn -> Nat]]
      BY <2>2, <2>3 DEF CountsInv, TypeOK
    <3>2. read' \in [Side -> [Conn -> Nat]]
      BY <2>2, <2>3 DEF CountsInv, TypeOK
    <3> QED BY <2>3, <2>4, <3>1, <3>2 DEF CountsInv, TypeOK
  <2>6. DueRead'
    <3> SUFFICES ASSUME NEW s \in Side, NEW b \in Conn PROVE read'[Other(s)][b] = Due(s, b)'
      BY DEF DueRead
    <3>1. Held(s, b)' = Held(s, b) /\ given'[s][b] = given[s][b]
      BY <2>3 DEF Held
    <3>2. read[Other(s)][b] = given[s][b] + Held(s, b) + Sent(s, b)
      BY ConservedIs DEF CountsInv, DueRead, Due
    <3>3. /\ read[Other(s)][b] \in Nat /\ given[s][b] \in Nat /\ Held(s, b) \in Nat /\ Sent(s, b) \in Nat
          /\ Other(s) \in Side
      BY ConservedIs, Sides DEF CountsInv, Numbers
    <3>4. read'[Other(s)][b] = read[Other(s)][b] + (IF s = Other(side) /\ b = c THEN n ELSE 0)
      <4>1. Other(s) = side <=> s = Other(side)
        BY DEF Side, Other
      <4>2. read \in [Side -> [Conn -> Nat]] /\ Other(s) \in Side
        BY Sides DEF CountsInv, TypeOK
      <4>3. read'[Other(s)][b] = read[Other(s)][b] + (IF Other(s) = side /\ b = c THEN n ELSE 0)
        BY <2>2, <2>3, <3>3, <4>2
      <4> QED BY <4>1, <4>3
    <3>5. Due(s, b)' = given[s][b] + Held(s, b) + Sent(s, b)'
      BY <3>1 DEF Due
    <3>6. CASE s = Other(side) /\ b = c
      <4>1. Sent(s, b)' = Sent(s, b) + n /\ read'[Other(s)][b] = read[Other(s)][b] + n
        BY <2>4, <3>4, <3>6, Zenon
      <4> QED BY <2>2, <3>2, <3>3, <3>5, <4>1
    <3>7. CASE ~(s = Other(side) /\ b = c)
      <4>1. Sent(s, b)' = Sent(s, b) + 0 /\ read'[Other(s)][b] = read[Other(s)][b] + 0
        BY <2>4, <3>4, <3>7, Zenon
      <4> QED BY <3>2, <3>3, <3>5, <4>1
    <3> QED BY <3>6, <3>7
  <2> QED BY <2>4, <2>5, <2>6, ConservedNext DEF CountsInv
<1>2. CASE ReadEof(side, c)
  <2>1. /\ Close(side, c) /\ Send(Other(side), "end", c, 0) /\ Other(side) \in Side
        /\ \E busy \in {"up", "threw"} : up' = [up EXCEPT ![side] = busy]
        /\ UNCHANGED <<thread, read, inq, outq, given, limit, unwatched>>
    BY <1>2, Sides DEF ReadEof
  <2>2. 0 \in 0 .. ReadLimit
    BY FlowAssumption
  <2>3. /\ udp' \in [Side -> Seq(Datagram)] /\ dropped' \in [Side -> [Conn -> Nat]] /\ refused' \in BOOLEAN
    BY <2>1, <2>2, SendCounts DEF CountsInv
  <2>4. TypeOK'
    BY <2>1, <2>3 DEF CountsInv, TypeOK, Close
  <2> QED BY <2>1, <2>4, Unmoved, NoticeMovesNothing DEF CountsInv
<1>3. CASE ReadFails(side, c)
  <2>1. TypeOK'
    BY <1>3 DEF CountsInv, TypeOK, ReadFails
  <2>2. UNCHANGED <<read, given, udp, dropped, thread>>
    BY <1>3 DEF ReadFails
  <2> QED BY <2>1, <2>2, Unmoved, NothingMoves DEF CountsInv
<1> QED BY <1>1, <1>2, <1>3 DEF HandlesSocket

\* A datagram is taken: its units go to the thread, or are dropped with it.
LEMMA DatagramCounts ==
    ASSUME CountsInv, NEW side \in Side, HandlesDatagram(side) \/ (side = "server" /\ BeginConnect)
    PROVE  CountsInv'
<1>1. PICK d \in Datagram :
        /\ Take(side, d) /\ udp' = Rest(side)
        /\ UNCHANGED <<read, inq, outq, given, refused, limit, unwatched>>
        /\ \/ /\ dropped' = [dropped EXCEPT ![side][d.c] = @ + d.n]
              /\ UNCHANGED <<up, thread, conns, peer>>
           \/ d.kind = "end" /\ Close(side, d.c) /\ UNCHANGED <<up, thread, dropped>>
           \/ /\ thread' = [thread EXCEPT ![side] = Writing(d.c, d.n)]
              /\ UNCHANGED <<up, conns, peer, dropped>>
           \/ /\ d.kind = "new" /\ UNCHANGED <<peer, dropped>>
              /\ \/ /\ conns' = [conns EXCEPT ![side] = @ \cup {d.c}]
                    /\ thread' = [thread EXCEPT ![side] = Connecting(d.c)]
                    /\ up' = up
                 \/ /\ up' = [up EXCEPT ![side] = "threw"]
                    /\ UNCHANGED <<conns, thread>>
  <2>1. CASE Ignore(side)
    BY <2>1 DEF Ignore
  <2>2. CASE EndConnection(side)
    BY <2>2 DEF EndConnection
  <2>3. CASE BeginWrite(side)
    BY <2>3 DEF BeginWrite
  <2>4. CASE side = "server" /\ BeginConnect
    BY <2>4 DEF BeginConnect
  <2> QED BY <2>1, <2>2, <2>3, <2>4 DEF HandlesDatagram
<1>2. /\ (d.kind # "data" => d.n = 0) /\ udp' \in [Side -> Seq(Datagram)] /\ OnlyDataCounts'
      /\ \A s \in Side, b \in Conn :
           UnitsIn(udp'[s], b) + (IF s = side THEN For(d, b) ELSE 0) = UnitsIn(udp[s], b)
  BY <1>1, TakeCounts DEF CountsInv
<1>3. /\ d.c \in Conn /\ d.n \in Nat /\ d.n \in 0 .. ReadLimit
      /\ \A b \in Conn : For(d, b) = IF b = d.c THEN d.n ELSE 0
  BY DatagramType DEF For
<1>4. thread[side] = Idle /\ \A b \in Conn : HeldBy(thread[side], b) = 0
  <2>1. thread[side] = Idle
    BY <1>1 DEF Take, Ready, Free
  <2> QED BY <2>1, DoingHolds
\* The units that the step drops, and those the thread holds after it.
<1>5. \E m, h \in {0, d.n} :
        /\ m + h = d.n
        /\ dropped' = [dropped EXCEPT ![side][d.c] = @ + m] /\ dropped' \in [Side -> [Conn -> Nat]]
        /\ thread' \in [Side -> Doing]
        /\ \A s \in Side, b \in Conn :
             HeldBy(thread[s], b)' = HeldBy(thread[s], b) + (IF s = side /\ b = d.c THEN h ELSE 0)
  <2>1. dropped \in [Side -> [Conn -> Nat]] /\ thread \in [Side -> Doing]
    BY DEF CountsInv, TypeOK
  <2>2. dropped = [dropped EXCEPT ![side][d.c] = @ + 0]
    BY <1>3, <2>1
  <2>3. \A s \in Side, b \in Conn : HeldBy(thread[s], b) \in Nat
    BY <2>1, DoingHolds
  <2>4. CASE dropped' = [dropped EXCEPT ![side][d.c] = @ + d.n] /\ thread' = thread
    <3>1. dropped' \in [Side -> [Conn -> Nat]]
      BY <1>3, <2>1, <2>4
    <3>2. \A s \in Side, b \in Conn :
            HeldBy(thread[s], b)' = HeldBy(thread[s], b) + (IF s = side /\ b = d.c THEN 0 ELSE 0)
      BY <2>3, <2>4, Unmoved
    <3>3. 0 \in {0, d.n} /\ d.n \in {0, d.n} /\ d.n + 0 = d.n
      BY <1>3
    <3> QED BY <2>1, <2>4, <3>1, <3>2, <3>3
  <2>5. CASE dropped' = dropped /\ thread' = thread /\ d.n = 0
    <3>1. \A s \in Side, b \in Conn :
            HeldBy(thread[s], b)' = HeldBy(thread[s], b) + (IF s = side /\ b = d.c THEN 0 ELSE 0)
      BY <2>3, <2>5, Unmoved
    <3> QED BY <2>1, <2>2, <2>5, <3>1
  <2>6. CASE dropped' = dropped /\ thread' = [thread EXCEPT ![side] = Writing(d.c, d.n)]
    <3>1. /\ thread' \in [Side -> Doing]
          /\ \A s \in Side, b \in Conn : HeldBy(thread[s], b)' =
               IF s = side THEN HeldBy(Writing(d.c, d.n), b) ELSE HeldBy(thread[s], b)
      BY <1>3, <2>6, DoingHolds, ThreadNext DEF CountsInv
    <3>2. \A s \in Side, b \in Conn :
            HeldBy(thread[s], b)' = HeldBy(thread[s], b) + (IF s = side /\ b = d.c THEN d.n ELSE 0)
      BY <1>3, <1>4, <2>3, <3>1, DoingHolds
    <3>3. 0 \in {0, d.n} /\ d.n \in {0, d.n} /\ 0 + d.n = d.n
      BY <1>3
    <3> QED BY <2>1, <2>2, <2>6, <3>1, <3>2, <3>3
  <2>7. CASE dropped' = dropped /\ thread' = [thread EXCEPT ![side] = Connecting(d.c)] /\ d.n = 0
    <3>1. /\ thread' \in [Side -> Doing]
          /\ \A s \in Side, b \in Conn : HeldBy(thread[s], b)' =
               IF s = side THEN HeldBy(Connecting(d.c), b) ELSE HeldBy(thread[s], b)
      BY <1>3, <2>7, DoingHolds, ThreadNext DEF CountsInv
    <3>2. \A s \in Side, b \in Conn :
            HeldBy(thread[s], b)' = HeldBy(thread[s], b) + (IF s = side /\ b = d.c THEN 0 ELSE 0)
      BY <1>3, <1>4, <2>3, <3>1, DoingHolds
    <3> QED BY <2>1, <2>2, <2>7, <3>1, <3>2
  <2> QED BY <1>1, <1>2, <2>4, <2>5, <2>6, <2>7
<1>6. TypeOK'
  <2>1. conns' \in [Side -> SUBSET Conn] /\ up' \in [Side -> {"up", "threw", "sigpipe"}]
        /\ peer' \in [Side -> [Conn -> {"none", "open", "gone", "broken", "reset", "closed"}]]
    <3>1. /\ conns \in [Side -> SUBSET Conn] /\ up \in [Side -> {"up", "threw", "sigpipe"}]
          /\ peer \in [Side -> [Conn -> {"none", "open", "gone", "broken", "reset", "closed"}]]
      BY DEF CountsInv, TypeOK
    <3>2. conns' \in [Side -> SUBSET Conn]
      BY <1>1, <1>3, <3>1 DEF Close
    <3>3. up' \in [Side -> {"up", "threw", "sigpipe"}]
      BY <1>1, <3>1
    <3>4. peer' \in [Side -> [Conn -> {"none", "open", "gone", "broken", "reset", "closed"}]]
      <4>1. peer' = peer \/ peer' = [peer EXCEPT ![side][d.c] = "closed"]
        BY <1>1 DEF Close
      <4> QED BY <1>3, <3>1, <4>1
    <3> QED BY <3>2, <3>3, <3>4
  <2> QED BY <1>1, <1>2, <1>5, <2>1 DEF CountsInv, TypeOK
<1>7. DueRead'
  <2> SUFFICES ASSUME NEW s \in Side, NEW b \in Conn PROVE read'[Other(s)][b] = Due(s, b)'
    BY DEF DueRead
  <2>1. read[Other(s)][b] = given[s][b] + Held(s, b) + Sent(s, b)
    BY ConservedIs DEF CountsInv, DueRead, Due
  <2>2. /\ read[Other(s)][b] \in Nat /\ given[s][b] \in Nat /\ Held(s, b) \in Nat
        /\ UnitsIn(udp[s], b) \in Nat /\ dropped[s][b] \in Nat /\ UnitsIn(udp'[s], b) \in Nat
    BY <1>6, ConservedIs, ConservedNext DEF CountsInv, Numbers
  <2>3. PICK m, h \in {0, d.n} :
          /\ m + h = d.n
          /\ dropped'[s][b] = dropped[s][b] + (IF s = side /\ b = d.c THEN m ELSE 0)
          /\ Held(s, b)' = Held(s, b) + (IF s = side /\ b = d.c THEN h ELSE 0)
    <3>1. \A t \in Side, e \in Conn :
            Held(t, e) = HeldBy(thread[t], e) /\ Held(t, e)' = HeldBy(thread[t], e)'
      BY DEF Held, HeldBy
    <3>2. dropped \in [Side -> [Conn -> Nat]]
      BY DEF CountsInv, TypeOK
    <3> QED BY <1>3, <1>5, <2>2, <3>1, <3>2
  <2>4. UnitsIn(udp'[s], b) + (IF s = side /\ b = d.c THEN d.n ELSE 0) = UnitsIn(udp[s], b)
    BY <1>2, <1>3, <2>2
  <2>5. /\ Due(s, b)' = given[s][b] + Held(s, b)' + (UnitsIn(udp'[s], b) + dropped'[s][b])
        /\ read'[Other(s)][b] = read[Other(s)][b] /\ Sent(s, b) = UnitsIn(udp[s], b) + dropped[s][b]
    BY <1>1 DEF Due, Sent
  <2>6. CASE s = side /\ b = d.c
    <3>1. /\ dropped'[s][b] = dropped[s][b] + m /\ Held(s, b)' = Held(s, b) + h
          /\ UnitsIn(udp'[s], b) + d.n = UnitsIn(udp[s], b)
      BY <2>3, <2>4, <2>6, Zenon
    <3>2. m \in Nat /\ h \in Nat /\ m + h = d.n
      BY <1>3, <2>3
    <3> QED BY <1>3, <2>1, <2>2, <2>5, <3>1, <3>2
  <2>7. CASE ~(s = side /\ b = d.c)
    <3>1. /\ dropped'[s][b] = dropped[s][b] + 0 /\ Held(s, b)' = Held(s, b) + 0
          /\ UnitsIn(udp'[s], b) + 0 = UnitsIn(udp[s], b)
      BY <2>3, <2>4, <2>7, Zenon
    <3> QED BY <2>1, <2>2, <2>5, <3>1
  <2> QED BY <2>6, <2>7
<1> QED BY <1>2, <1>6, <1>7, ConservedNext DEF CountsInv

\* A write in progress moves units from the thread to the peer, or drops them.
LEMMA WriteCounts ==
    ASSUME CountsInv, NEW side \in Side, WriteStep(side)
    PROVE  CountsInv'
<1>1. CASE WriteFails(side)
  <2>1. TypeOK'
    BY <1>1 DEF CountsInv, TypeOK, WriteFails
  <2>2. UNCHANGED <<read, given, udp, dropped, thread>>
    BY <1>1 DEF WriteFails
  <2> QED BY <2>1, <2>2, Unmoved, NothingMoves DEF CountsInv
<1>2. CASE WriteSome(side) \/ WriteToGone(side)
  <2> DEFINE Moves(c, n, k, m, h) ==
               /\ thread[side] = Writing(c, n) /\ k + m + h = n
               /\ given' = [given EXCEPT ![side][c] = @ + k]
               /\ dropped' = [dropped EXCEPT ![side][c] = @ + m]
               /\ thread' = [thread EXCEPT ![side] = IF h = 0 THEN Idle ELSE Writing(c, h)]
               /\ outq' \in [Side -> [Conn -> 0 .. SndRoom]]
               /\ \/ peer' = peer
                  \/ peer' = [peer EXCEPT ![side][c] = "broken"]
               /\ UNCHANGED <<up, conns, read, inq, udp, refused, limit, unwatched>>
  <2>0. \E c \in Conn, n \in 1 .. ReadLimit, k \in Nat, m \in Nat, h \in 0 .. ReadLimit : Moves(c, n, k, m, h)
    <3>1. /\ ReadLimit \in Nat /\ SndRoom \in Nat /\ given \in [Side -> [Conn -> Nat]]
          /\ outq \in [Side -> [Conn -> 0 .. SndRoom]] /\ dropped \in [Side -> [Conn -> Nat]]
      BY FlowAssumption DEF CountsInv, TypeOK
    <3>2. CASE WriteSome(side)
      <4>1. PICK c \in Conn, n \in 1 .. ReadLimit :
              /\ thread[side] = Writing(c, n) /\ outq[side][c] < SndRoom
              /\ LET k == Min({n, SndRoom - outq[side][c]})
                 IN  /\ outq' = [outq EXCEPT ![side][c] = @ + k]
                     /\ given' = [given EXCEPT ![side][c] = @ + k]
                     /\ thread' = Left(side, c, n - k)
              /\ UNCHANGED <<up, conns, peer, read, inq, udp, refused, limit, unwatched, dropped>>
        BY <3>2 DEF WriteSome
      <4> DEFINE k == Min({n, SndRoom - outq[side][c]})
      <4>2. n \in Nat /\ n <= ReadLimit /\ outq[side][c] \in Nat /\ SndRoom - outq[side][c] \in Nat
        BY <3>1, <4>1
      <4>3. k \in Nat /\ k <= n /\ k <= SndRoom - outq[side][c]
        BY <4>2, MinOfTwo
      <4>4. /\ outq' = [outq EXCEPT ![side][c] = @ + k] /\ given' = [given EXCEPT ![side][c] = @ + k]
            /\ thread' = [thread EXCEPT ![side] = IF n - k = 0 THEN Idle ELSE Writing(c, n - k)]
        BY <4>1 DEF Left
      <4> HIDE DEF k
      <4>5. outq' \in [Side -> [Conn -> 0 .. SndRoom]]
        BY <3>1, <4>2, <4>3, <4>4
      <4>6. 0 \in Nat /\ n - k \in 0 .. ReadLimit /\ k + 0 + (n - k) = n
        BY <3>1, <4>2, <4>3
      <4>7. dropped' = [dropped EXCEPT ![side][c] = @ + 0]
        BY <3>1, <4>1
      <4>8. Moves(c, n, k, 0, n - k)
        BY <4>1, <4>4, <4>5, <4>6, <4>7
      <4> HIDE DEF Moves
      <4> QED BY <4>3, <4>6, <4>8
    <3>3. CASE WriteToGone(side)
      <4>1. PICK c \in Conn, n \in 1 .. ReadLimit :
              /\ thread[side] = Writing(c, n)
              /\ peer' = [peer EXCEPT ![side][c] = "broken"]
              /\ dropped' = [dropped EXCEPT ![side][c] = @ + n]
              /\ thread' = [thread EXCEPT ![side] = Idle]
              /\ UNCHANGED <<up, conns, read, inq, outq, given, refused, limit, unwatched, udp>>
        BY <3>3 DEF WriteToGone
      <4>2. n \in Nat /\ 0 \in Nat /\ 0 \in 0 .. ReadLimit /\ 0 + n + 0 = n
        BY <3>1
      <4>3. given' = [given EXCEPT ![side][c] = @ + 0]
        BY <3>1, <4>1
      <4>4. thread' = [thread EXCEPT ![side] = IF 0 = 0 THEN Idle ELSE Writing(c, 0)]
        BY <4>1
      <4>5. Moves(c, n, 0, n, 0)
        BY <3>1, <4>1, <4>2, <4>3, <4>4
      <4> HIDE DEF Moves
      <4> QED BY <4>2, <4>5
    <3> QED BY <1>2, <3>2, <3>3
  <2>1. PICK c \in Conn, n \in 1 .. ReadLimit, k \in Nat, m \in Nat, h \in 0 .. ReadLimit : Moves(c, n, k, m, h)
    BY <2>0
  <2> DEFINE t == IF h = 0 THEN Idle ELSE Writing(c, h)
  <2>2. n \in Nat /\ n \in 0 .. ReadLimit /\ h \in Nat
    BY FlowAssumption
  <2>3. t \in Doing /\ \A b \in Conn : HeldBy(t, b) = IF b = c THEN h ELSE 0
    BY <2>2, DoingHolds
  <2>4. /\ thread' \in [Side -> Doing]
        /\ \A s \in Side, b \in Conn :
             HeldBy(thread[s], b)' = IF s = side THEN HeldBy(t, b) ELSE HeldBy(thread[s], b)
    BY <2>1, <2>3, ThreadNext DEF CountsInv
  <2>5. given' \in [Side -> [Conn -> Nat]] /\ dropped' \in [Side -> [Conn -> Nat]]
    BY <2>1 DEF CountsInv, TypeOK
  <2>6. peer' \in [Side -> [Conn -> {"none", "open", "gone", "broken", "reset", "closed"}]]
    <3>1. peer \in [Side -> [Conn -> {"none", "open", "gone", "broken", "reset", "closed"}]]
      BY DEF CountsInv, TypeOK
    <3>2. peer' = peer \/ peer' = [peer EXCEPT ![side][c] = "broken"]
      BY <2>1
    <3> QED BY <3>1, <3>2
  <2>7. TypeOK'
    BY <2>1, <2>4, <2>5, <2>6 DEF CountsInv, TypeOK
  <2>8. OnlyDataCounts'
    BY <2>1 DEF CountsInv, OnlyDataCounts
  <2>9. DueRead'
    <3> SUFFICES ASSUME NEW s \in Side, NEW b \in Conn PROVE read'[Other(s)][b] = Due(s, b)'
      BY DEF DueRead
    <3>1. read[Other(s)][b] = given[s][b] + Held(s, b) + Sent(s, b)
      BY ConservedIs DEF CountsInv, DueRead, Due
    <3>2. /\ read[Other(s)][b] \in Nat /\ given[s][b] \in Nat /\ Held(s, b) \in Nat
          /\ UnitsIn(udp[s], b) \in Nat /\ dropped[s][b] \in Nat
      BY ConservedIs DEF CountsInv, Numbers
    <3>3. Held(s, b) = HeldBy(thread[s], b) /\ Held(s, b)' = HeldBy(thread[s], b)'
      BY DEF Held, HeldBy
    <3>4. /\ Due(s, b)' = given'[s][b] + Held(s, b)' + (UnitsIn(udp[s], b) + dropped'[s][b])
          /\ read'[Other(s)][b] = read[Other(s)][b] /\ Sent(s, b) = UnitsIn(udp[s], b) + dropped[s][b]
      BY <2>1 DEF Due, Sent
    <3>5. CASE s = side /\ b = c
      <4>1. Held(s, b) = n /\ Held(s, b)' = h
        BY <2>1, <2>2, <2>3, <2>4, <3>3, <3>5, DoingHolds
      <4>2. given'[s][b] = given[s][b] + k /\ dropped'[s][b] = dropped[s][b] + m
        BY <2>1, <3>5 DEF CountsInv, TypeOK
      <4> QED BY <2>1, <2>2, <3>1, <3>2, <3>4, <4>1, <4>2
    <3>6. CASE ~(s = side /\ b = c)
      <4>1. Held(s, b) = Held(s, b)'
        <5>1. CASE s = side
          <6>1. HeldBy(thread[s], b) = 0 /\ HeldBy(thread[s], b)' = 0
            BY <2>1, <2>2, <2>3, <2>4, <3>6, <5>1, DoingHolds
          <6> QED BY <3>3, <6>1
        <5>2. CASE s # side
          BY <2>4, <3>3, <5>2
        <5> QED BY <5>1, <5>2
      <4>2. given'[s][b] = given[s][b] /\ dropped'[s][b] = dropped[s][b]
        BY <2>1, <3>6 DEF CountsInv, TypeOK
      <4> QED BY <3>1, <3>2, <3>4, <4>1, <4>2
    <3> QED BY <3>5, <3>6
  <2> QED BY <2>7, <2>8, <2>9, ConservedNext DEF CountsInv
<1> QED BY <1>1, <1>2 DEF WriteStep

\* The other steps send notices, or move nothing.
LEMMA OtherCounts ==
    ASSUME CountsInv,
           \/ ConnectStep \/ ErrorThrown \/ \E c \in Conn : Accept(c)
           \/ \E side \in Side, c \in Conn : PeerWrites(side, c) \/ PeerReads(side, c) \/ PeerEnds(side, c)
    PROVE  CountsInv'
<1>0. "client" \in Side /\ "server" \in Side /\ 0 \in 0 .. ReadLimit /\ 0 \in 0 .. SndRoom
  BY FlowAssumption DEF Side
<1>1. ASSUME NEW c \in Conn, Accept(c) PROVE CountsInv'
  <2>1. CASE refused
    <3>1. TypeOK'
      BY <1>1, <2>1 DEF CountsInv, TypeOK, Accept
    <3>2. UNCHANGED <<read, given, udp, dropped, thread>>
      BY <1>1, <2>1 DEF Accept
    <3> QED BY <3>1, <3>2, Unmoved, NothingMoves DEF CountsInv
  <2>2. CASE ~refused
    <3>1. /\ peer' = [peer EXCEPT !["client"][c] = "open"]
          /\ conns' = [conns EXCEPT !["client"] = @ \cup {c}]
          /\ Send("server", "new", c, 0)
          /\ UNCHANGED <<up, thread, read, inq, outq, given, limit, unwatched>>
      BY <1>1, <2>2 DEF Accept
    <3>2. udp' \in [Side -> Seq(Datagram)] /\ dropped' \in [Side -> [Conn -> Nat]] /\ refused' \in BOOLEAN
      BY <1>0, <3>1, SendCounts DEF CountsInv
    <3>3. TypeOK'
      BY <1>0, <3>1, <3>2 DEF CountsInv, TypeOK
    <3>4. /\ Send("server", "new", c, 0) /\ read' = read /\ given' = given /\ "new" \in {"new", "end"}
          /\ \A s \in Side, b \in Conn : HeldBy(thread[s], b)' = HeldBy(thread[s], b)
      BY <3>1, Unmoved
    <3>5. OnlyDataCounts' /\ Conserved'
      BY <1>0, <3>3, <3>4, NoticeMovesNothing
    <3> QED BY <3>3, <3>5 DEF CountsInv
  <2> QED BY <2>1, <2>2
<1>2. ASSUME ErrorThrown PROVE CountsInv'
  <2>1. TypeOK'
    BY <1>0, <1>2 DEF CountsInv, TypeOK, ErrorThrown
  <2>2. UNCHANGED <<read, given, udp, dropped, thread>>
    BY <1>2 DEF ErrorThrown
  <2> QED BY <2>1, <2>2, Unmoved, NothingMoves DEF CountsInv
<1>3. ASSUME NEW c \in Conn, thread["server"] = Connecting(c), thread' = [thread EXCEPT !["server"] = Idle]
      PROVE  /\ thread' \in [Side -> Doing]
             /\ \A s \in Side, b \in Conn : HeldBy(thread[s], b)' = HeldBy(thread[s], b)
  <2>1. \A b \in Conn : Idle \in Doing /\ HeldBy(Idle, b) = 0 /\ HeldBy(thread["server"], b) = 0
    BY <1>3, DoingHolds
  <2>2. /\ thread' \in [Side -> Doing]
        /\ \A s \in Side, b \in Conn :
             HeldBy(thread[s], b)' = IF s = "server" THEN HeldBy(Idle, b) ELSE HeldBy(thread[s], b)
    BY <1>0, <1>3, <2>1, ThreadNext DEF CountsInv
  <2> QED BY <2>1, <2>2
<1>4. ASSUME Connected PROVE CountsInv'
  <2>1. PICK c \in Conn : /\ thread["server"] = Connecting(c)
                          /\ thread' = [thread EXCEPT !["server"] = Idle]
                          /\ peer' = [peer EXCEPT !["server"][c] = "open"]
                          /\ UNCHANGED <<up, conns, read, inq, outq, given, refused, limit, unwatched, udp, dropped>>
    BY <1>4 DEF Connected
  <2>2. /\ thread' \in [Side -> Doing]
        /\ \A s \in Side, b \in Conn : HeldBy(thread[s], b)' = HeldBy(thread[s], b)
    BY <1>3, <2>1
  <2>3. TypeOK'
    BY <1>0, <2>1, <2>2 DEF CountsInv, TypeOK
  <2> QED BY <2>1, <2>2, <2>3, NothingMoves DEF CountsInv
<1>5. ASSUME Refused PROVE CountsInv'
  <2>1. PICK c \in Conn : /\ thread["server"] = Connecting(c)
                          /\ thread' = [thread EXCEPT !["server"] = Idle]
                          /\ conns' = [conns EXCEPT !["server"] = @ \ {c}]
                          /\ Send("client", "end", c, 0)
                          /\ UNCHANGED <<up, peer, read, inq, outq, given, limit, unwatched>>
    BY <1>5 DEF Refused
  <2>2. /\ thread' \in [Side -> Doing]
        /\ \A s \in Side, b \in Conn : HeldBy(thread[s], b)' = HeldBy(thread[s], b)
    BY <1>3, <2>1
  <2>3. udp' \in [Side -> Seq(Datagram)] /\ dropped' \in [Side -> [Conn -> Nat]] /\ refused' \in BOOLEAN
    BY <1>0, <2>1, SendCounts DEF CountsInv
  <2>4. TypeOK'
    BY <1>0, <2>1, <2>2, <2>3 DEF CountsInv, TypeOK
  <2>5. Send("client", "end", c, 0) /\ read' = read /\ given' = given /\ "end" \in {"new", "end"}
    BY <2>1
  <2>6. OnlyDataCounts' /\ Conserved'
    BY <1>0, <2>2, <2>4, <2>5, NoticeMovesNothing
  <2> QED BY <2>4, <2>6 DEF CountsInv
<1>6. ASSUME NEW side \in Side, NEW c \in Conn,
             PeerWrites(side, c) \/ PeerReads(side, c) \/ PeerEnds(side, c)
      PROVE  CountsInv'
  <2>1. TypeOK'
    <3>1. CASE PeerWrites(side, c)
      BY <3>1 DEF CountsInv, TypeOK, PeerWrites
    <3>2. CASE PeerReads(side, c)
      BY <1>0, <3>2 DEF CountsInv, TypeOK, PeerReads
    <3>3. CASE PeerEnds(side, c)
      BY <3>3 DEF CountsInv, TypeOK, PeerEnds
    <3> QED BY <1>6, <3>1, <3>2, <3>3
  <2>2. UNCHANGED <<read, given, udp, dropped, thread>>
    BY <1>6 DEF PeerWrites, PeerReads, PeerEnds
  <2> QED BY <2>1, <2>2, Unmoved, NothingMoves DEF CountsInv
<1> QED BY <1>1, <1>2, <1>4, <1>5, <1>6 DEF ConnectStep

LEMMA CountsHold == Spec => []CountsInv
<1>1. Init => CountsInv
  <2> SUFFICES ASSUME Init PROVE CountsInv
    OBVIOUS
  <2>1. TypeOK
    <3>1. Zero \in [Side -> [Conn -> Nat]] /\ Zero \in [Side -> [Conn -> 0 .. SndRoom]]
      BY FlowAssumption DEF Zero
    <3>2. /\ limit \in Nat /\ <<>> \in Seq(Datagram) /\ Idle \in Doing
      BY FlowAssumption DEF Init, Doing
    <3> QED BY <3>1, <3>2 DEF Init, TypeOK
  <2>2. OnlyDataCounts
    BY DEF Init, OnlyDataCounts
  <2>3. \A side \in Side, c \in Conn : UnitsIn(udp[side], c) = 0 /\ dropped[side][c] = 0
                                         /\ given[side][c] = 0 /\ read[Other(side)][c] = 0
    BY UnitsEmpty, Sides DEF Init, Zero
  <2>4. \A side \in Side, c \in Conn : Held(side, c) = 0
    BY HeldIs, DoingHolds DEF Init
  <2> QED BY <2>1, <2>2, <2>3, <2>4 DEF CountsInv, Conserved
<1>2. CountsInv /\ [Next]_vars => CountsInv'
  <2> SUFFICES ASSUME CountsInv, [Next]_vars PROVE CountsInv'
    OBVIOUS
  <2>1. CASE UNCHANGED vars
    BY <2>1 DEF CountsInv, TypeOK, OnlyDataCounts, Conserved, Held, vars
  <2>2. CASE Next
    <3>1. CASE \E side \in Side : HandlesDatagram(side) \/ WriteStep(side)
      BY <3>1, DatagramCounts, WriteCounts
    <3>2. CASE BeginConnect
      BY <3>2, DatagramCounts DEF Side
    <3>3. CASE \E side \in Side, c \in Conn : HandlesSocket(side, c)
      BY <3>3, SocketCounts
    <3> QED BY <2>2, <3>1, <3>2, <3>3, OtherCounts DEF Next
  <2> QED BY <2>1, <2>2
<1> QED BY <1>1, <1>2, PTL DEF Spec

\* Every unit that one splitter has read was written to the other end, is in a UDP buffer or in
\* the hands of a thread, or was dropped with its datagram, however the writes that wait are interleaved
\* with the peers, for any sizes of the buffers and any number of connections.
THEOREM AlwaysConserved == Spec => []Conserved
  BY CountsHold, PTL DEF CountsInv

-----------------------------------------------------------------------------
(* Why a splitter ends.                                                    *)

Bad == {"broken", "reset", "closed"}

\* What EndsForCause accepts.
Cause(side) ==
    \/ \E c \in Conn : peer[side][c] \in Bad
    \/ side = "server" /\ Cardinality(InUse) = limit
    \/ side = "client" /\ up["server"] # "up"

EndsInv == RefusedByTheEnded /\ AllInUse /\ WithinLimit /\ \A side \in Side : up[side] # "up" => Cause(side)

\* The connection is not in use by its socket but by the thread that connects it.
Unconnected == {"none", "closed"}

\* A step that dials nothing, takes no cause away, and ends a splitter only for one.
Calm ==
    /\ limit' = limit /\ (refused' => refused \/ up["server"] # "up")
    /\ conns'["server"] \subseteq conns["server"]
    /\ up["server"] # "up" => conns'["server"] = conns["server"]
    /\ \A c \in conns'["server"] :
        \/ peer'["server"][c] \notin Unconnected
        \/ peer'["server"][c] = peer["server"][c] /\ thread'["server"] = thread["server"]
    /\ \A side \in Side : up[side] # "up" =>
        up'[side] # "up" /\ \A c \in Conn : peer[side][c] \in Bad => peer'[side][c] \in Bad
    /\ \A side \in Side : up'[side] # "up" /\ up[side] = "up" => Cause(side)'

LEMMA InUseIs ==
    ASSUME AllInUse, NEW c \in conns["server"]
    PROVE  peer["server"][c] \notin Unconnected \/ thread["server"] = Connecting(c)
  BY DEF AllInUse, InUse, Unconnected

LEMMA CalmKeeps ==
    ASSUME TypeOK, EndsInv, Calm
    PROVE  EndsInv'
<1>1. "client" \in Side /\ "server" \in Side
  BY DEF Side
<1>2. RefusedByTheEnded'
  BY <1>1 DEF EndsInv, Calm, RefusedByTheEnded
<1>3. AllInUse'
  <2>1. ASSUME NEW c \in conns'["server"]
        PROVE  peer'["server"][c] \notin Unconnected \/ thread'["server"] = Connecting(c)
    <3>1. peer["server"][c] \notin Unconnected \/ thread["server"] = Connecting(c)
      BY InUseIs DEF EndsInv, Calm
    <3> QED BY <3>1 DEF Calm
  <2> QED BY <2>1 DEF AllInUse, InUse, Unconnected
<1>4. WithinLimit'
  <2>1. IsFiniteSet(conns["server"]) /\ Cardinality(conns["server"]) <= limit
    BY DEF EndsInv, WithinLimit
  <2>2. conns'["server"] \in SUBSET conns["server"] /\ limit' = limit
    BY DEF Calm
  <2>3. /\ IsFiniteSet(conns'["server"]) /\ Cardinality(conns'["server"]) <= Cardinality(conns["server"])
        /\ Cardinality(conns'["server"]) \in Nat /\ Cardinality(conns["server"]) \in Nat
    BY <2>1, <2>2, FS_Subset, FS_CardinalityType
  <2>4. Cardinality(conns'["server"]) <= limit
    <3>1. limit \in Nat
      BY DEF TypeOK
    <3> QED BY <2>1, <2>3, <3>1
  <2> QED BY <2>1, <2>2, <2>3, <2>4 DEF WithinLimit
<1>5. ASSUME NEW side \in Side, up'[side] # "up" PROVE Cause(side)'
  <2>1. CASE up[side] = "up"
    BY <1>5, <2>1 DEF Calm
  <2>2. CASE up[side] # "up"
    <3>1. Cause(side)
      BY <2>2 DEF EndsInv
    <3>2. CASE \E c \in Conn : peer[side][c] \in Bad
      <4>1. \E c \in Conn : peer'[side][c] \in Bad
        BY <2>2, <3>2 DEF Calm
      <4> QED BY <4>1 DEF Cause
    <3>3. CASE side = "server" /\ Cardinality(InUse) = limit
      <4>1. InUse' = conns'["server"] /\ InUse = conns["server"]
        BY <1>3 DEF EndsInv, AllInUse
      <4>2. InUse' = InUse /\ limit' = limit
        BY <2>2, <3>3, <4>1 DEF Calm
      <4> QED BY <3>3, <4>2 DEF Cause
    <3>4. CASE side = "client" /\ up["server"] # "up"
      BY <1>1, <3>4 DEF Calm, Cause
    <3> QED BY <3>1, <3>2, <3>3, <3>4 DEF Cause
  <2> QED BY <2>1, <2>2
<1> QED BY <1>2, <1>3, <1>4, <1>5 DEF EndsInv

\* Sending reports the end of the server to the client, and nothing else.
LEMMA SendReports ==
    ASSUME NEW to \in Side, NEW kind, NEW c, NEW n, Send(to, kind, c, n)
    PROVE  refused' => refused \/ up["server"] # "up"
  BY DEF Send

\* While the server's thread is not connecting, its connections are all connected.
LEMMA AllConnected ==
    ASSUME AllInUse, NEW c \in conns["server"], thread["server"] # Connecting(c)
    PROVE  peer["server"][c] \notin Unconnected
  BY InUseIs

LEMMA CalmSocket ==
    ASSUME TypeOK, EndsInv, NEW side \in Side, NEW c \in Conn, HandlesSocket(side, c)
    PROVE  Calm
<1>0. /\ "client" \in Side /\ "server" \in Side /\ Other(side) \in Side /\ conns \in [Side -> SUBSET Conn]
      /\ peer \in [Side -> [Conn -> {"none", "open", "gone", "broken", "reset", "closed"}]]
      /\ up \in [Side -> {"up", "threw", "sigpipe"}]
  BY Sides DEF TypeOK, Side
<1>1. up[side] = "up"
  BY DEF HandlesSocket, ReadBytes, ReadEof, ReadFails, Ready, Free
<1>2. CASE ReadBytes(side, c)
  <2>1. /\ UNCHANGED <<up, thread, conns, peer, limit>>
        /\ \E n : Send(Other(side), "data", c, n)
    BY <1>2 DEF ReadBytes
  <2>2. refused' => refused \/ up["server"] # "up"
    BY <1>0, <2>1, SendReports
  <2> QED BY <2>1, <2>2 DEF Calm
<1>3. CASE ReadEof(side, c)
  <2>1. /\ conns' = [conns EXCEPT ![side] = @ \ {c}] /\ peer' = [peer EXCEPT ![side][c] = "closed"]
        /\ Send(Other(side), "end", c, 0) /\ limit' = limit /\ thread' = thread
        /\ \E busy \in {"up", "threw"} : up' = [up EXCEPT ![side] = busy]
    BY <1>3 DEF ReadEof, Close
  <2>2. refused' => refused \/ up["server"] # "up"
    BY <1>0, <2>1, SendReports
  <2>3. \A s \in Side : s # side => up'[s] = up[s] /\ peer'[s] = peer[s] /\ conns'[s] = conns[s]
    BY <1>0, <2>1
  <2>4. peer'[side][c] = "closed" /\ conns'[side] = conns[side] \ {c}
        /\ \A b \in Conn : b # c => peer'[side][b] = peer[side][b]
    BY <1>0, <2>1
  <2>5. Cause(side)'
    BY <2>4 DEF Cause, Bad
  <2>6. \A b \in conns'["server"] : peer'["server"][b] = peer["server"][b]
    BY <1>0, <2>3, <2>4
  <2>7. conns'["server"] \subseteq conns["server"]
    <3>1. CASE side = "server"
      BY <2>4, <3>1
    <3>2. CASE side # "server"
      BY <1>0, <2>3, <3>2
    <3> QED BY <3>1, <3>2
  <2> QED BY <1>0, <1>1, <2>1, <2>2, <2>3, <2>5, <2>6, <2>7 DEF Calm
<1>4. CASE ReadFails(side, c)
  <2>1. /\ up' = [up EXCEPT ![side] = "threw"] /\ peer[side][c] = "reset"
        /\ UNCHANGED <<thread, conns, peer, refused, limit>>
    BY <1>4 DEF ReadFails
  <2>2. Cause(side)'
    BY <2>1 DEF Cause, Bad
  <2> QED BY <1>0, <1>1, <2>1, <2>2 DEF Calm
<1> QED BY <1>2, <1>3, <1>4 DEF HandlesSocket

LEMMA CalmDatagram ==
    ASSUME TypeOK, EndsInv, NEW side \in Side, HandlesDatagram(side)
    PROVE  Calm
<1>0. /\ "client" \in Side /\ "server" \in Side /\ conns \in [Side -> SUBSET Conn]
      /\ peer \in [Side -> [Conn -> {"none", "open", "gone", "broken", "reset", "closed"}]]
      /\ up \in [Side -> {"up", "threw", "sigpipe"}] /\ thread \in [Side -> Doing]
  BY DEF TypeOK, Side
<1>1. up[side] = "up" /\ thread[side] = Idle
  BY DEF HandlesDatagram, Ignore, EndConnection, BeginWrite, Take, Ready, Free
<1>2. CASE Ignore(side)
  BY <1>2 DEF Ignore, Calm
<1>3. CASE EndConnection(side)
  <2>1. PICK d \in Datagram :
          /\ conns' = [conns EXCEPT ![side] = @ \ {d.c}] /\ peer' = [peer EXCEPT ![side][d.c] = "closed"]
          /\ UNCHANGED <<up, thread, refused, limit>>
    BY <1>3 DEF EndConnection, Close
  <2>2. \A s \in Side : s # side => peer'[s] = peer[s] /\ conns'[s] = conns[s]
    BY <1>0, <2>1
  <2>3. /\ conns'[side] = conns[side] \ {d.c}
        /\ \A b \in Conn : b # d.c => peer'[side][b] = peer[side][b]
    BY <1>0, <2>1
  <2>4. \A b \in conns'["server"] : peer'["server"][b] = peer["server"][b]
    BY <1>0, <2>2, <2>3
  <2>5. conns'["server"] \subseteq conns["server"]
    <3>1. CASE side = "server"
      BY <2>3, <3>1
    <3>2. CASE side # "server"
      BY <1>0, <2>2, <3>2
    <3> QED BY <3>1, <3>2
  <2> QED BY <1>0, <1>1, <2>1, <2>2, <2>4, <2>5 DEF Calm
<1>4. CASE BeginWrite(side)
  <2>1. PICK d \in Datagram :
          /\ thread' = [thread EXCEPT ![side] = Writing(d.c, d.n)]
          /\ UNCHANGED <<up, conns, peer, refused, limit>>
    BY <1>4 DEF BeginWrite
  <2>2. \A b \in conns["server"] :
          peer["server"][b] \notin Unconnected \/ thread'["server"] = thread["server"]
    <3> SUFFICES ASSUME NEW b \in conns["server"], side = "server" PROVE peer["server"][b] \notin Unconnected
      BY <1>0, <2>1
    <3>1. thread["server"] # Connecting(b)
      BY <1>0, <1>1, DoingHolds
    <3> QED BY <3>1, AllConnected DEF EndsInv
  <2> QED BY <2>1, <2>2 DEF Calm
<1> QED BY <1>2, <1>3, <1>4 DEF HandlesDatagram

LEMMA CalmWrite ==
    ASSUME TypeOK, EndsInv, NEW side \in Side, WriteStep(side)
    PROVE  Calm
<1>0. /\ "client" \in Side /\ "server" \in Side /\ conns \in [Side -> SUBSET Conn]
      /\ peer \in [Side -> [Conn -> {"none", "open", "gone", "broken", "reset", "closed"}]]
      /\ up \in [Side -> {"up", "threw", "sigpipe"}] /\ thread \in [Side -> Doing] /\ ReadLimit \in Nat
  BY FlowAssumption DEF TypeOK, Side
<1>1. PICK c \in Conn, n \in 1 .. ReadLimit : up[side] = "up" /\ thread[side] = Writing(c, n)
  BY DEF WriteStep, WriteSome, WriteToGone, WriteFails
\* The thread was not connecting.
<1>2. side = "server" => \A b \in conns["server"] : peer["server"][b] \notin Unconnected
  <2> SUFFICES ASSUME side = "server", NEW b \in conns["server"] PROVE peer["server"][b] \notin Unconnected
    OBVIOUS
  <2>1. n \in 0 .. ReadLimit /\ b \in Conn
    BY <1>0
  <2>2. thread["server"] # Connecting(b)
    BY <1>1, <2>1, DoingHolds
  <2> QED BY <2>2, AllConnected DEF EndsInv
<1>3. CASE WriteSome(side)
  <2>1. /\ UNCHANGED <<up, conns, peer, refused, limit>>
        /\ \E t : thread' = [thread EXCEPT ![side] = t]
    BY <1>3 DEF WriteSome, Left
  <2>2. side # "server" => thread'["server"] = thread["server"]
    BY <1>0, <2>1
  <2> QED BY <1>2, <2>1, <2>2 DEF Calm
<1>4. CASE WriteToGone(side)
  <2>1. PICK b \in Conn :
          /\ peer' = [peer EXCEPT ![side][b] = "broken"] /\ peer[side][b] = "gone"
          /\ thread' = [thread EXCEPT ![side] = Idle] /\ UNCHANGED <<up, conns, refused, limit>>
    BY <1>4 DEF WriteToGone
  <2>2. \A s \in Side : s # side => peer'[s] = peer[s] /\ thread'[s] = thread[s]
    BY <1>0, <2>1
  <2>3. peer'[side][b] = "broken" /\ \A e \in Conn : e # b => peer'[side][e] = peer[side][e]
    BY <1>0, <2>1
  <2>4. \A e \in conns["server"] :
          \/ peer'["server"][e] \notin Unconnected
          \/ peer'["server"][e] = peer["server"][e] /\ thread'["server"] = thread["server"]
    BY <1>0, <1>2, <2>2, <2>3 DEF Unconnected
  <2>5. \A s \in Side : up[s] # "up" => \A e \in Conn : peer[s][e] \in Bad => peer'[s][e] \in Bad
    BY <1>1, <2>2
  <2> QED BY <2>1, <2>4, <2>5 DEF Calm
<1>5. CASE WriteFails(side)
  <2>1. PICK b \in Conn :
          /\ peer[side][b] \in {"broken", "reset"} /\ \E e : up' = [up EXCEPT ![side] = e] /\ e # "up"
          /\ UNCHANGED <<thread, conns, peer, refused, limit>>
    BY <1>5 DEF WriteFails
  <2>2. Cause(side)'
    BY <2>1 DEF Cause, Bad
  <2> QED BY <1>0, <1>1, <2>1, <2>2 DEF Calm
<1> QED BY <1>3, <1>4, <1>5 DEF WriteStep

LEMMA CalmOther ==
    ASSUME TypeOK, EndsInv,
           \/ ConnectStep \/ ErrorThrown \/ \E c \in Conn : Accept(c)
           \/ \E side \in Side, c \in Conn : PeerWrites(side, c) \/ PeerReads(side, c) \/ PeerEnds(side, c)
    PROVE  Calm
<1>0. /\ "client" \in Side /\ "server" \in Side /\ "client" # "server" /\ conns \in [Side -> SUBSET Conn]
      /\ peer \in [Side -> [Conn -> {"none", "open", "gone", "broken", "reset", "closed"}]]
      /\ up \in [Side -> {"up", "threw", "sigpipe"}] /\ thread \in [Side -> Doing]
  BY DEF TypeOK, Side
<1>1. ASSUME NEW c \in Conn, Accept(c) PROVE Calm
  <2>1. /\ peer["client"][c] = "none" /\ peer' = [peer EXCEPT !["client"][c] = "open"] /\ up["client"] = "up"
        /\ conns' = [conns EXCEPT !["client"] = @ \cup {c}] /\ UNCHANGED <<up, thread, limit>>
    BY <1>1 DEF Accept, Free
  <2>2. refused' => refused \/ up["server"] # "up"
    BY <1>0, <1>1, SendReports DEF Accept
  <2>3. peer'["server"] = peer["server"] /\ conns'["server"] = conns["server"]
    BY <1>0, <2>1
  <2>4. \A s \in Side : up[s] # "up" => s = "server"
    BY <2>1 DEF Side
  <2> QED BY <1>0, <2>1, <2>2, <2>3, <2>4 DEF Calm
<1>2. ASSUME ErrorThrown PROVE Calm
  <2>1. /\ refused /\ refused' = FALSE /\ up' = [up EXCEPT !["client"] = "threw"]
        /\ UNCHANGED <<thread, conns, peer, limit>>
    BY <1>2 DEF ErrorThrown
  <2>2. up["server"] # "up" /\ up'["server"] = up["server"] /\ up'["client"] = "threw"
    BY <1>0, <2>1 DEF EndsInv, RefusedByTheEnded
  <2>3. Cause("client")'
    BY <2>2 DEF Cause
  <2>4. \A s \in Side : s = "client" \/ s = "server"
    BY DEF Side
  <2> QED BY <2>1, <2>2, <2>3, <2>4 DEF Calm
<1>3. ASSUME NEW c \in Conn, NEW b \in conns["server"], thread["server"] = Connecting(c), b # c
      PROVE  peer["server"][b] \notin Unconnected
  <2>1. Connecting(c).c = c /\ Connecting(b).c = b
    BY DEF Connecting
  <2> QED BY <1>3, <2>1, AllConnected DEF EndsInv
<1>4. ASSUME Connected PROVE Calm
  <2>1. PICK c \in Conn : /\ up["server"] = "up" /\ thread["server"] = Connecting(c)
                          /\ peer' = [peer EXCEPT !["server"][c] = "open"]
                          /\ UNCHANGED <<up, conns, refused, limit>>
    BY <1>4 DEF Connected
  <2>2. peer'["client"] = peer["client"] /\ peer'["server"][c] = "open"
        /\ \A b \in Conn : b # c => peer'["server"][b] = peer["server"][b]
    BY <1>0, <2>1
  <2>3. \A b \in conns["server"] : peer'["server"][b] \notin Unconnected
    BY <1>0, <1>3, <2>1, <2>2 DEF Unconnected
  <2>4. \A s \in Side : up[s] # "up" => s = "client"
    BY <2>1 DEF Side
  <2> QED BY <2>1, <2>2, <2>3, <2>4 DEF Calm
<1>5. ASSUME Refused PROVE Calm
  <2>1. PICK c \in Conn : /\ up["server"] = "up" /\ thread["server"] = Connecting(c)
                          /\ conns' = [conns EXCEPT !["server"] = @ \ {c}]
                          /\ Send("client", "end", c, 0)
                          /\ UNCHANGED <<up, peer, limit>>
    BY <1>5 DEF Refused
  <2>2. refused' => refused \/ up["server"] # "up"
    BY <1>0, <2>1, SendReports
  <2>3. conns'["server"] = conns["server"] \ {c}
    BY <1>0, <2>1
  <2>4. \A b \in conns'["server"] : peer'["server"][b] \notin Unconnected
    BY <1>3, <2>1, <2>3
  <2> QED BY <2>1, <2>2, <2>3, <2>4 DEF Calm
<1>6. ASSUME NEW side \in Side, NEW c \in Conn,
             PeerWrites(side, c) \/ PeerReads(side, c) \/ PeerEnds(side, c)
      PROVE  Calm
  <2>1. UNCHANGED <<up, thread, conns, refused, limit>>
    BY <1>6 DEF PeerWrites, PeerReads, PeerEnds
  <2>2. CASE peer' = peer
    BY <2>1, <2>2 DEF Calm
  <2>3. CASE peer[side][c] = "open" /\ \E st \in {"gone", "reset"} : peer' = [peer EXCEPT ![side][c] = st]
    <3>1. /\ \A s \in Side, b \in Conn : s # side \/ b # c => peer'[s][b] = peer[s][b]
          /\ peer'[side][c] \in {"gone", "reset"}
      BY <1>0, <2>3
    <3>2. \A b \in conns["server"] : peer'["server"][b] \notin Unconnected \/ peer'["server"][b] = peer["server"][b]
      BY <1>0, <3>1 DEF Unconnected
    <3>3. \A s \in Side, b \in Conn : peer[s][b] \in Bad => peer'[s][b] \in Bad
      BY <2>3, <3>1 DEF Bad
    <3> QED BY <2>1, <3>2, <3>3 DEF Calm
  <2> QED BY <1>6, <2>2, <2>3 DEF PeerWrites, PeerReads, PeerEnds
<1> QED BY <1>1, <1>2, <1>4, <1>5, <1>6 DEF ConnectStep

\* The server dials, or ends since its descriptors are all in use.
LEMMA DialKeeps ==
    ASSUME TypeOK, EndsInv, BeginConnect
    PROVE  EndsInv'
<1>0. /\ "server" \in Side /\ conns \in [Side -> SUBSET Conn] /\ limit \in Nat
      /\ up \in [Side -> {"up", "threw", "sigpipe"}] /\ thread \in [Side -> Doing]
  BY DEF TypeOK, Side
<1>1. PICK d \in Datagram :
        /\ Take("server", d) /\ UNCHANGED <<peer, refused, limit>>
        /\ \/ /\ Cardinality(conns["server"]) < limit
              /\ conns' = [conns EXCEPT !["server"] = @ \cup {d.c}]
              /\ thread' = [thread EXCEPT !["server"] = Connecting(d.c)]
              /\ up' = up
           \/ /\ ~(Cardinality(conns["server"]) < limit)
              /\ up' = [up EXCEPT !["server"] = "threw"] /\ UNCHANGED <<conns, thread>>
  BY DEF BeginConnect
<1>2. up["server"] = "up" /\ thread["server"] = Idle
  BY <1>1 DEF Take, Ready, Free
<1>3. /\ IsFiniteSet(conns["server"]) /\ Cardinality(conns["server"]) \in Nat
      /\ Cardinality(conns["server"]) <= limit /\ InUse = conns["server"]
  BY FS_CardinalityType DEF EndsInv, WithinLimit, AllInUse
<1>4. CASE up' = up
  <2>1. /\ Cardinality(conns["server"]) < limit /\ conns'["server"] = conns["server"] \cup {d.c}
        /\ thread'["server"] = Connecting(d.c)
    <3>1. up' # [up EXCEPT !["server"] = "threw"]
      BY <1>0, <1>2, <1>4
    <3> QED BY <1>0, <1>1, <3>1
  <2>2. RefusedByTheEnded'
    BY <1>1, <1>4 DEF EndsInv, RefusedByTheEnded
  <2>3. AllInUse'
    <3>1. \A b \in conns["server"] : peer["server"][b] \notin Unconnected
      BY <1>0, <1>2, DoingHolds, AllConnected DEF EndsInv
    <3>2. \A b \in conns'["server"] : peer'["server"][b] \notin Unconnected \/ thread'["server"] = Connecting(b)
      BY <1>1, <2>1, <3>1
    <3> QED BY <3>2 DEF AllInUse, InUse, Unconnected
  <2>4. WithinLimit'
    <3>1. IsFiniteSet(conns'["server"]) /\ Cardinality(conns'["server"]) <= Cardinality(conns["server"]) + 1
      <4>1. /\ IsFiniteSet(conns["server"] \cup {d.c})
            /\ Cardinality(conns["server"] \cup {d.c}) =
                 IF d.c \in conns["server"] THEN Cardinality(conns["server"]) ELSE Cardinality(conns["server"]) + 1
        BY <1>3, FS_AddElement
      <4> QED BY <1>3, <2>1, <4>1
    <3>2. Cardinality(conns'["server"]) \in Nat
      BY <3>1, FS_CardinalityType
    <3> QED BY <1>0, <1>1, <1>3, <2>1, <3>1, <3>2 DEF WithinLimit
  <2>5. ASSUME NEW side \in Side, up'[side] # "up" PROVE Cause(side)'
    <3>1. Cause(side) /\ side # "server"
      BY <1>2, <1>4, <2>5 DEF EndsInv
    <3> QED BY <1>1, <1>4, <3>1 DEF Cause
  <2> QED BY <2>2, <2>3, <2>4, <2>5 DEF EndsInv
<1>5. CASE up' # up
  <2>1. /\ Cardinality(conns["server"]) = limit /\ up'["server"] = "threw"
        /\ \A s \in Side : s # "server" => up'[s] = up[s]
        /\ UNCHANGED <<conns, thread, peer, refused, limit>>
    BY <1>0, <1>1, <1>3, <1>5
  <2>2. Cause("server")'
    <3>1. InUse' = InUse
      BY <2>1 DEF InUse
    <3> QED BY <1>3, <2>1, <3>1 DEF Cause
  <2>3. Calm
    BY <1>2, <2>1, <2>2 DEF Calm
  <2> QED BY <2>3, CalmKeeps
<1> QED BY <1>4, <1>5

\* A splitter ends only because a peer ended one of its connections, the server because its descriptors
\* are all in use, the client because the server has ended: no slow peer, silent destination or full buffer
\* ends it, for any sizes of the buffers and any number of connections and descriptors.
THEOREM EndsOnlyForCause == Spec => []EndsForCause
<1>1. Init => EndsInv
  <2> SUFFICES ASSUME Init PROVE EndsInv
    OBVIOUS
  <2>1. "server" \in Side /\ limit \in Nat /\ Cardinality({}) = 0 /\ IsFiniteSet({})
    BY FlowAssumption, FS_EmptySet DEF Init, Side
  <2> QED BY <2>1 DEF Init, EndsInv, RefusedByTheEnded, AllInUse, InUse, WithinLimit
<1>2. TypeOK /\ EndsInv /\ [Next]_vars => EndsInv'
  <2> SUFFICES ASSUME TypeOK, EndsInv, [Next]_vars PROVE EndsInv'
    OBVIOUS
  <2>1. CASE UNCHANGED vars
    <3>1. Calm
      BY <2>1 DEF vars, Calm
    <3> QED BY <3>1, CalmKeeps
  <2>2. CASE Next
    <3>1. CASE \E side \in Side : HandlesDatagram(side) \/ WriteStep(side)
      BY <3>1, CalmDatagram, CalmWrite, CalmKeeps
    <3>2. CASE BeginConnect
      BY <3>2, DialKeeps
    <3>3. CASE \E side \in Side, c \in Conn : HandlesSocket(side, c)
      BY <3>3, CalmSocket, CalmKeeps
    <3> QED BY <2>2, <3>1, <3>2, <3>3, CalmOther, CalmKeeps DEF Next
  <2> QED BY <2>1, <2>2
<1>3. EndsInv => EndsForCause
  BY DEF EndsInv, EndsForCause, Cause, Bad
<1>4. CountsInv => TypeOK
  BY DEF CountsInv
<1> QED BY <1>1, <1>2, <1>3, <1>4, CountsHold, PTL DEF Spec

=============================================================================
