--------------------------- MODULE KohoClientProofs ---------------------------
(***************************************************************************)
(* What koho-client sets up it takes down, the command is served for as    *)
(* long as it runs and never runs as root, and clients that look after     *)
(* each other take different addresses: for any number of clients, of      *)
(* octets, of attempts, of failures and of signals.                        *)
(*                                                                         *)
(* The inductive invariant has three parts.  SetUp relates the objects on  *)
(* main's stack to the devices and rules of the host, SideBySide relates   *)
(* the steps of the container, its children and their user ids to the      *)
(* steps of main, and AddrInv relates the addresses of a client to what    *)
(* it has seen of the others.                                                *)
(***************************************************************************)
EXTENDS KohoClient, FiniteSetTheorems, SequenceTheorems, WellFoundedInduction, TLAPS

-----------------------------------------------------------------------------
(* The inductive invariant: main and the host.                             *)

\* The order of construction, and the stacks main can have.
Object == {"veth", "pre", "post", "dnat", "loop"}
Order == <<"veth", "pre", "post", "dnat", "loop">>

Beginning(b) == b \in Seq(Object) /\ Len(b) <= 5 /\ \A i \in 1 .. Len(b) : b[i] = Order[i]
IsStack == Beginning(built)

\* The objects on the stack.
ObjectsOf(b) == {b[i] : i \in 1 .. Len(b)}
Objects == ObjectsOf(built)

\* How many objects a main that sets up has, by its next step.
StackAt ==
    /\ pc \in {"start", "ifaddrs", "routes", "veth", "ended"} => Len(built) = 0
    /\ pc \in {"addr", "up", "pre"} => Len(built) = 1
    /\ pc = "post" => Len(built) = 2
    /\ pc \in {"listen", "dnat"} => Len(built) = 3
    /\ pc = "mask" => Len(built) = 4
    /\ pc \in {"clone", "move", "go", "fork", "enter", "serve"} => Len(built) = 5

\* Every rule has its object, or its removal failed; and the other way round.
RulesAccounted == Objects \cap Rules \subseteq rules /\ rules \subseteq Objects \cup lost

\* So has a pair of devices on the host; the pair that is left to the kernel is not there.
DevicesAccounted ==
    /\ dev = "host" => "veth" \in Objects \cup lost
    /\ pc \in {"start", "ifaddrs", "routes", "veth"} => dev = "none"
    /\ pc \in {"addr", "up", "pre", "post", "listen", "dnat", "mask", "clone", "move"} => dev = "host"
    /\ kernelWillDestroy => dev # "host" /\ pc \notin Unmasked \cup {"clone", "move"}

\* main can run the programs that remove devices and rules whenever it takes down.
MainCanRun ==
    /\ cred["main"].r = user /\ cred["main"].s = "root"
    /\ pc \notin {"serve", "killed"} => cred["main"].e = "root"

SetUp == IsStack /\ StackAt /\ RulesAccounted /\ DevicesAccounted /\ MainCanRun

-----------------------------------------------------------------------------
(* The inductive invariant: the container beside main.                     *)

\* The container follows main, and main does not destroy its event loop before both
\* its children have ended.
CtrFollows ==
    /\ pc \in Unmasked \cup {"clone"} => ctr = "none"
    /\ pc \in {"move", "go"} => ctr \in {"wait", "ended"}
    /\ "loop" \notin Objects => ctr \in {"none", "ended"} /\ proc["splitter"] # "run"

\* What the container has started.
ChildrenFollow ==
    /\ ctr \in CtrUnmasked \cup {"none", "dns", "spawn"} => proc["dnsmasq"] = "none"
    /\ ctr \in {"none", "ended"} => proc["dnsmasq"] # "run"
    /\ ctr \in CtrUnmasked \cup {"none", "dns", "spawn", "probe", "drop", "fork"} =>
            proc["command"] = "none" /\ ~started
    /\ ctr = "ended" /\ proc["command"] \in {"run", "told"} => escaped
    /\ ctr \in CtrUnmasked \cup {"none", "dns", "spawn", "probe"} => attempts < MaxAttempts

\* What the command needs is there before it starts, and stays for as long as the
\* container lives.
NeedsMet ==
    /\ ctr \in {"drop", "fork"} \/ proc["command"] # "none" => listening
    /\ ctr \in {"route", "mask", "dns", "spawn", "probe", "drop", "fork", "serve"} => dev = "split"
    /\ ctr = "unwind" /\ proc["command"] # "none" => dev = "split"
    /\ "pre" \in Objects /\ dev # "none" => Me \in routed
    /\ pc = "pre" => Me \in routed

\* Whoever was forked after drop_privileges is the user for good.
Dropped ==
    /\ cred["container"].r = user
    /\ proc["splitter"] # "none" => cred["splitter"].s = user
    /\ ctr \in {"fork", "serve"} \/ started => cred["container"].s = user
    /\ started => cred["container"].e # "root"

SideBySide == CtrFollows /\ ChildrenFollow /\ NeedsMet /\ Dropped

-----------------------------------------------------------------------------
(* The inductive invariant: addresses.                                     *)

\* The next step of a client; the steps have the same names in all of them.
At(p) == IF p = Me THEN pc ELSE nbr[p]

Looking == {"start", "ifaddrs", "routes"}
NotYetUp == Looking \cup {"veth", "addr", "up"}

\* A client's addresses: none before it has looked, then two that are free as far as it
\* has seen; others see them only after that.
ChosenBy(p) ==
    /\ At(p) \in Looking => addrs[p] = [egress |-> NoOctet, ingress |-> NoOctet] /\ p \notin assigned
    /\ At(p) = "routes" => occupied \subseteq found[p]
    /\ At(p) \in {"veth", "addr"} \/ p \in assigned => addrs[p].egress \in Octet
    /\ At(p) = "up" => p \in assigned
    /\ At(p) \in NotYetUp => p \notin routed /\ \A q \in Clients : p \notin before[q]
    /\ \A q \in before[p] : addrs[q].egress \in found[p]

AddrInv == AddrTypeOK /\ AddressesDistinct /\ \A p \in Clients : ChosenBy(p)

\* TypeOK but for the stack and the addresses, which are in SetUp and AddrInv.
Typed ==
    /\ user \in Users /\ pc \in MainPc /\ ctr \in CtrPc
    /\ dev \in {"none", "host", "split"} /\ rules \subseteq Rules /\ lost \subseteq Rules \cup {"veth"}
    /\ cred \in [{"main", "container", "splitter"} -> Credentials]
    /\ proc \in [{"splitter", "dnsmasq", "command"} -> {"none", "run", "told", "ended"}]
    /\ kernelWillDestroy \in BOOLEAN /\ pending \in BOOLEAN /\ hungUp \in BOOLEAN
    /\ listening \in BOOLEAN /\ started \in BOOLEAN /\ escaped \in BOOLEAN
    /\ attempts \in 0 .. MaxAttempts /\ faults \in 0 .. MaxFaults /\ signals \in 0 .. MaxSignals
    /\ nbr \in [Clients \ {Me} -> {"ifaddrs", "routes", "addr", "up", "serve", "ended"}]

ClientInv == Typed /\ SetUp /\ SideBySide /\ AddrInv

-----------------------------------------------------------------------------
(* Lemmas about the stack.                                                 *)

\* The order, object by object.
LEMMA OrderFacts ==
    /\ Order \in Seq(Object) /\ Len(Order) = 5
    /\ Order[1] = "veth" /\ Order[2] = "pre" /\ Order[3] = "post" /\ Order[4] = "dnat" /\ Order[5] = "loop"
  BY DEF Order, Object

\* How many objects a stack has.
LEMMA StackSize ==
    ASSUME NEW b, Beginning(b)
    PROVE  b \in Seq(Object) /\ Len(b) \in 0 .. 5 /\ (b = <<>> <=> Len(b) = 0)
<1>1. b \in Seq(Object) /\ Len(b) <= 5
  BY DEF Beginning
<1>2. Len(b) \in Nat /\ (b # <<>> => Len(b) # 0) /\ Len(<<>>) = 0
  BY <1>1, EmptySeq, LenProperties, Zenon
<1>3. Len(b) \in 0 .. 5
  <2>1. \A n \in Nat : n <= 5 => n \in 0 .. 5
    OBVIOUS
  <2> QED BY <1>1, <1>2, <2>1, Zenon
<1>4. b = <<>> <=> Len(b) = 0
  BY <1>2, Zenon
<1> QED BY <1>1, <1>3, <1>4

\* What is on a stack, by the number of its objects.
LEMMA StackObjects ==
    ASSUME NEW b, Beginning(b)
    PROVE  /\ Len(b) \in 0 .. 5
           /\ Len(b) = 0 => ObjectsOf(b) = {}
           /\ Len(b) = 1 => ObjectsOf(b) = {"veth"}
           /\ Len(b) = 2 => ObjectsOf(b) = {"veth", "pre"}
           /\ Len(b) = 3 => ObjectsOf(b) = {"veth", "pre", "post"}
           /\ Len(b) = 4 => ObjectsOf(b) = {"veth", "pre", "post", "dnat"}
           /\ Len(b) = 5 => ObjectsOf(b) = {"veth", "pre", "post", "dnat", "loop"}
<1>1. Len(b) \in 0 .. 5
  BY StackSize
<1>2. ObjectsOf(b) = {Order[i] : i \in 1 .. Len(b)}
  BY DEF ObjectsOf, Beginning
<1>3. CASE Len(b) = 0
  BY <1>2, <1>3
<1>4. CASE Len(b) = 1
  BY <1>2, <1>4, OrderFacts
<1>5. CASE Len(b) = 2
  BY <1>2, <1>5, OrderFacts
<1>6. CASE Len(b) = 3
  BY <1>2, <1>6, OrderFacts
<1>7. CASE Len(b) = 4
  BY <1>2, <1>7, OrderFacts
<1>8. CASE Len(b) = 5
  BY <1>2, <1>8, OrderFacts
<1> QED BY <1>1, <1>3, <1>4, <1>5, <1>6, <1>7, <1>8

\* The stack, by the number of its objects.
LEMMA StackFacts ==
    ASSUME IsStack
    PROVE  /\ Len(built) \in 0 .. 5 /\ (built = <<>> <=> Len(built) = 0)
           /\ Len(built) = 0 => Top = "none" /\ Objects = {}
           /\ Len(built) = 1 => Top = "veth" /\ Objects = {"veth"}
           /\ Len(built) = 2 => Top = "pre" /\ Objects = {"veth", "pre"}
           /\ Len(built) = 3 => Top = "post" /\ Objects = {"veth", "pre", "post"}
           /\ Len(built) = 4 => Top = "dnat" /\ Objects = {"veth", "pre", "post", "dnat"}
           /\ Len(built) = 5 => Top = "loop" /\ Objects = {"veth", "pre", "post", "dnat", "loop"}
<1>1. Len(built) \in 0 .. 5 /\ (built = <<>> <=> Len(built) = 0)
  BY StackSize DEF IsStack
<1>2. Len(built) = 0 => Top = "none"
  BY <1>1 DEF Top
<1>3. Len(built) # 0 => Top = Order[Len(built)]
  BY <1>1 DEF Top, Last, IsStack, Beginning
<1>4. /\ Len(built) = 0 => Objects = {}
      /\ Len(built) = 1 => Objects = {"veth"}
      /\ Len(built) = 2 => Objects = {"veth", "pre"}
      /\ Len(built) = 3 => Objects = {"veth", "pre", "post"}
      /\ Len(built) = 4 => Objects = {"veth", "pre", "post", "dnat"}
      /\ Len(built) = 5 => Objects = {"veth", "pre", "post", "dnat", "loop"}
  BY StackObjects DEF IsStack, Objects
<1> QED BY <1>1, <1>2, <1>3, <1>4, OrderFacts

\* The stack after a step.
LEMMA StackFactsNext ==
    ASSUME IsStack'
    PROVE  /\ Len(built') \in 0 .. 5
           /\ Len(built') = 0 => Objects' = {}
           /\ Len(built') = 1 => Objects' = {"veth"}
           /\ Len(built') = 2 => Objects' = {"veth", "pre"}
           /\ Len(built') = 3 => Objects' = {"veth", "pre", "post"}
           /\ Len(built') = 4 => Objects' = {"veth", "pre", "post", "dnat"}
           /\ Len(built') = 5 => Objects' = {"veth", "pre", "post", "dnat", "loop"}
  BY StackObjects DEF IsStack, Objects

\* A destructor takes the last object from the stack.
LEMMA PopFacts ==
    ASSUME IsStack, built # <<>>, Pop
    PROVE  IsStack' /\ Len(built') = Len(built) - 1
<1>1. built \in Seq(Object) /\ Len(built) \in 1 .. 5 /\ built' = SubSeq(built, 1, Len(built) - 1)
  BY StackFacts DEF IsStack, Beginning, Pop, Front
<1>2. Len(built) - 1 \in Int /\ 1 \in Int /\ \A i \in 1 .. Len(built) - 1 : built[i] \in Object
  BY <1>1
<1>3. /\ built' \in Seq(Object)
      /\ Len(built') = IF 1 <= Len(built) - 1 THEN Len(built) - 1 - 1 + 1 ELSE 0
      /\ \A i \in 1 .. Len(built) - 1 - 1 + 1 : built'[i] = built[1 + i - 1]
  BY <1>1, <1>2, SubSeqProperties
<1>4. Len(built') = Len(built) - 1 /\ \A i \in 1 .. Len(built) - 1 : built'[i] = built[i]
  <2>1. Len(built) \in 1 .. 5
    BY <1>1
  <2>2. Len(built') = Len(built) - 1
    <3>1. \A n \in 1 .. 5 : (IF 1 <= n - 1 THEN n - 1 - 1 + 1 ELSE 0) = n - 1
      OBVIOUS
    <3> QED BY <1>3, <2>1, <3>1, Zenon
  <2>3. ASSUME NEW i \in 1 .. Len(built) - 1 PROVE built'[i] = built[i]
    <3>1. i \in 1 .. Len(built) - 1 - 1 + 1 /\ 1 + i - 1 = i
      BY <2>1
    <3> QED BY <1>3, <3>1
  <2> QED BY <2>2, <2>3
<1> QED BY <1>1, <1>3, <1>4 DEF IsStack, Beginning

\* A constructor puts the next object on it.
LEMMA PushFacts ==
    ASSUME IsStack, Len(built) < 5, built' = Append(built, Order[Len(built) + 1])
    PROVE  IsStack' /\ Len(built') = Len(built) + 1
<1>1. built \in Seq(Object) /\ Len(built) \in 0 .. 4 /\ Order[Len(built) + 1] \in Object
  BY OrderFacts, StackFacts DEF IsStack, Beginning, Object
<1>2. /\ built' \in Seq(Object) /\ Len(built') = Len(built) + 1
      /\ \A i \in 1 .. Len(built) : built'[i] = built[i]
      /\ built'[Len(built) + 1] = Order[Len(built) + 1]
  BY <1>1
<1> QED BY <1>1, <1>2 DEF IsStack, Beginning

\* The stacks are the beginnings of the full one.
LEMMA StacksArePrefixes ==
    ASSUME IsStack
    PROVE  IsPrefix(built, Order)
<1>1. /\ built \in Seq(Object) /\ Order \in Seq(Object) /\ Len(Order) = 5
      /\ Len(built) \in 0 .. 5
  BY OrderFacts, StackFacts DEF IsStack, Beginning
<1>2. /\ 1 \in Int /\ Len(built) \in Int
      /\ \A i \in 1 .. Len(built) : built[i] \in Object /\ Order[i] \in Object /\ built[i] = Order[i]
  BY <1>1 DEF IsStack, Beginning
<1>3. /\ SubSeq(built, 1, Len(built)) \in Seq(Object)
      /\ Len(SubSeq(built, 1, Len(built))) = IF 1 <= Len(built) THEN Len(built) - 1 + 1 ELSE 0
      /\ \A i \in 1 .. Len(built) - 1 + 1 : SubSeq(built, 1, Len(built))[i] = built[1 + i - 1]
  BY <1>2, SubSeqProperties
<1>4. /\ SubSeq(Order, 1, Len(built)) \in Seq(Object)
      /\ Len(SubSeq(Order, 1, Len(built))) = IF 1 <= Len(built) THEN Len(built) - 1 + 1 ELSE 0
      /\ \A i \in 1 .. Len(built) - 1 + 1 : SubSeq(Order, 1, Len(built))[i] = Order[1 + i - 1]
  BY <1>2, SubSeqProperties
<1>5. SubSeq(built, 1, Len(built)) = SubSeq(Order, 1, Len(built))
  <2> DEFINE s == SubSeq(built, 1, Len(built))
             t == SubSeq(Order, 1, Len(built))
  <2>1. s \in Seq(Object) /\ t \in Seq(Object)
    BY <1>3, <1>4
  <2>2. Len(s) = Len(built) /\ Len(t) = Len(built)
    BY <1>1, <1>3, <1>4
  <2>3. \A i \in 1 .. Len(built) : s[i] = t[i]
    BY <1>1, <1>2, <1>3, <1>4
  <2> HIDE DEF s, t
  <2>4. s = t
    BY <2>1, <2>2, <2>3, SeqEqual
  <2> QED BY <2>4 DEF s, t
<1> QED BY <1>1, <1>5 DEF IsPrefix

-----------------------------------------------------------------------------
(* Lemmas about addresses.                                                 *)

\* A set of numbers that is not empty has a least one.
LEMMA MinIsLeast ==
    ASSUME NEW S \in SUBSET Nat, S # {}
    PROVE  Min(S) \in S /\ \A y \in S : Min(S) <= y
<1> DEFINE less == {ss \in Nat \X Nat : ss[1] < ss[2]}
<1>1. IsWellFoundedOn(less, Nat)
  BY NatLessThanWellFounded, Zenon DEF OpToRel
<1> HIDE DEF less
<1>2. \E x \in S : \A y \in S : ~(<<y, x>> \in less)
  BY <1>1, WFMin, Zenon
<1>3. \A x, y \in Nat : y < x => <<y, x>> \in less
  BY DEF less
<1>4. PICK x \in S : \A y \in S : ~(<<y, x>> \in less)
  BY <1>2
<1>5. \A y \in S : x <= y
  <2> SUFFICES ASSUME NEW y \in S PROVE x <= y
    OBVIOUS
  <2>1. x \in Nat /\ y \in Nat
    OBVIOUS
  <2>2. ~(y < x)
    BY <1>3, <1>4, <2>1
  <2> QED BY <2>1, <2>2
<1> QED BY <1>5 DEF Min

\* two_unassigned_addresses: two different octets that are not in use.
LEMMA TwoFree ==
    ASSUME NEW p \in Clients, ~Exhausted(p), MaxOctet \in Nat
    PROVE  LET used == found[p] \cup ReadRoutes
               one == first_unassigned_address(used, 1)
               two == first_unassigned_address(used, one + 1)
           IN  one \in Octet /\ two \in Octet /\ one # two /\ one \notin used /\ two \notin used
<1> DEFINE used == found[p] \cup ReadRoutes
           one == first_unassigned_address(used, 1)
           two == first_unassigned_address(used, one + 1)
<1>1. Free(used, 1) # {} /\ Free(used, one + 1) # {}
  BY DEF Exhausted
<1> HIDE DEF used
<1>2. one \in Free(used, 1)
  <2>1. Free(used, 1) \in SUBSET Nat
    BY DEF Free
  <2> QED BY <1>1, <2>1, MinIsLeast DEF first_unassigned_address
<1>3. one \in 1 .. MaxOctet /\ one \notin used
  BY <1>2 DEF Free
<1> HIDE DEF one
<1>4. two \in Free(used, one + 1)
  <2>1. Free(used, one + 1) \in SUBSET Nat
    BY <1>3 DEF Free
  <2> QED BY <1>1, <2>1, MinIsLeast DEF first_unassigned_address
<1>5. two \in one + 1 .. MaxOctet /\ two \notin used
  BY <1>4 DEF Free
<1> HIDE DEF two
<1>6. one \in Octet /\ two \in Octet /\ one # two
  BY <1>3, <1>5 DEF Octet
<1> QED BY <1>3, <1>5, <1>6 DEF one, two, used

\* A step of one client and no other.
Moves(p, to) == At(p)' = to /\ \A q \in Clients : q # p => At(q)' = At(q)

\* A client goes on without touching what others see.
LEMMA KeptAddresses ==
    ASSUME AddrInv, UNCHANGED addrVars, NEW p \in Clients, NEW to, Moves(p, to),
           \/ to = At(p)
           \/ to \notin NotYetUp
           \/ At(p) = "start" /\ to = "ifaddrs"
           \/ At(p) = "veth" /\ to = "addr"
    PROVE  AddrInv'
<1>1. UNCHANGED <<occupied, found, addrs, assigned, routed, before>>
  BY DEF addrVars
<1>2. AddrTypeOK' /\ AddressesDistinct'
  BY <1>1 DEF AddrInv, AddrTypeOK, AddressesDistinct, Pair
<1>3. ASSUME NEW q \in Clients PROVE ChosenBy(q)'
  BY <1>1 DEF AddrInv, ChosenBy, Moves, Looking, NotYetUp
<1> QED BY <1>2, <1>3 DEF AddrInv

\* A client looks at the addresses in use: those that are up are among them.
LEMMA LookKeepsAddresses ==
    ASSUME AddrInv, NEW p \in Clients, At(p) = "ifaddrs", Moves(p, "routes"), getifaddrs(p)
    PROVE  AddrInv'
<1>1. /\ UNCHANGED <<occupied, addrs, assigned, routed>>
      /\ found' = [found EXCEPT ![p] = occupied \cup {addrs[q].egress : q \in assigned}]
      /\ before' = [before EXCEPT ![p] = routed]
  BY DEF getifaddrs
<1>2. \A q \in assigned : q \in Clients /\ addrs[q].egress \in Octet
  BY DEF AddrInv, AddrTypeOK, ChosenBy
<1>3. AddrTypeOK'
  BY <1>1, <1>2 DEF AddrInv, AddrTypeOK
<1>4. addrs[p] = [egress |-> NoOctet, ingress |-> NoOctet] /\ p \notin routed /\ p \notin assigned
      /\ \A q \in Clients : p \notin before[q]
  BY DEF AddrInv, ChosenBy, Looking, NotYetUp
<1>5. /\ found'[p] = occupied \cup {addrs[q].egress : q \in assigned} /\ before'[p] = routed
      /\ \A q \in Clients : q # p => found'[q] = found[q] /\ before'[q] = before[q]
  BY <1>1 DEF AddrInv, AddrTypeOK
<1>6. Pair(p)' = {} /\ \A q \in Clients : Pair(q)' = Pair(q)
  BY <1>1, <1>4 DEF Pair
<1>7. AddressesDistinct'
  <2>1. ASSUME NEW r \in Clients PROVE
            /\ Pair(r)' \cap occupied' = {} /\ Cardinality(Pair(r)') \in {0, 2}
            /\ \A q \in (before[r] \cap routed)' : q # r => Pair(r)' \cap Pair(q)' = {}
    <3>1. Pair(r)' \cap occupied' = {} /\ Cardinality(Pair(r)') \in {0, 2}
      BY <1>1, <1>6 DEF AddrInv, AddressesDistinct
    <3>2. CASE r = p
      BY <1>6, <3>1, <3>2
    <3>3. CASE r # p
      <4>1. \A q \in before[r] : q \in Clients
        BY DEF AddrInv, AddrTypeOK
      <4> QED BY <1>1, <1>5, <1>6, <3>1, <3>3, <4>1 DEF AddrInv, AddressesDistinct
    <3> QED BY <3>2, <3>3
  <2> QED BY <2>1 DEF AddressesDistinct
<1>8. ChosenBy(p)'
  BY <1>1, <1>4, <1>5 DEF AddrInv, AddrTypeOK, ChosenBy, Moves, Looking, NotYetUp
<1>9. ASSUME NEW q \in Clients, q # p PROVE ChosenBy(q)'
  BY <1>1, <1>5, <1>9 DEF AddrInv, AddrTypeOK, ChosenBy, Moves, Looking, NotYetUp
<1> QED BY <1>3, <1>7, <1>8, <1>9 DEF AddrInv

\* It chooses two that are neither in use nor those of a client that was up when it looked.
LEMMA ChooseKeepsAddresses ==
    ASSUME AddrInv, NEW p \in Clients, At(p) = "routes", NEW to \in {"veth", "addr"}, Moves(p, to),
           two_unassigned_addresses(p)
    PROVE  AddrInv'
<1> DEFINE used == found[p] \cup ReadRoutes
           one == first_unassigned_address(used, 1)
           two == first_unassigned_address(used, one + 1)
<1>1. /\ UNCHANGED <<occupied, found, assigned, routed, before>>
      /\ addrs' = [addrs EXCEPT ![p] = [egress |-> one, ingress |-> two]]
      /\ ~Exhausted(p)
  BY DEF two_unassigned_addresses
<1>2. one \in Octet /\ two \in Octet /\ one # two /\ one \notin used /\ two \notin used
  BY <1>1, TwoFree, AddressAssumption
<1> HIDE DEF one, two
<1>3. AddrTypeOK'
  BY <1>1, <1>2 DEF AddrInv, AddrTypeOK
<1>4. /\ occupied \subseteq found[p] /\ p \notin routed /\ p \notin assigned
      /\ \A q \in Clients : p \notin before[q]
  BY DEF AddrInv, ChosenBy, Looking, NotYetUp
<1>5. /\ addrs'[p] = [egress |-> one, ingress |-> two]
      /\ \A q \in Clients : q # p => addrs'[q] = addrs[q]
  BY <1>1 DEF AddrInv, AddrTypeOK
<1>6. one # NoOctet /\ two # NoOctet
  BY <1>2, AddressAssumption DEF Octet, NoOctet
<1>7. Pair(p)' = {one, two} /\ \A q \in Clients : q # p => Pair(q)' = Pair(q)
  BY <1>5, <1>6 DEF Pair
<1>8. AddressesDistinct'
  <2>1. Cardinality({one, two}) = 2
    <3>1. IsFiniteSet({one}) /\ Cardinality({one}) = 1
      BY FS_Singleton
    <3>2. Cardinality({one} \cup {two}) = Cardinality({one}) + 1
      BY <1>2, <3>1, FS_AddElement
    <3> QED BY <3>1, <3>2
  <2>2. Pair(p)' \cap occupied = {}
    BY <1>2, <1>4, <1>7
  <2>3. ASSUME NEW q \in before[p] \cap routed, q # p PROVE Pair(p)' \cap Pair(q)' = {}
    <3>1. q \in Clients /\ addrs[q].egress \in used
      BY DEF AddrInv, AddrTypeOK, ChosenBy
    <3>2. addrs[q].ingress \in used
      BY DEF ReadRoutes
    <3> QED BY <1>2, <1>7, <2>3, <3>1, <3>2 DEF Pair
  <2>4. ASSUME NEW r \in Clients, r # p PROVE
            /\ Pair(r)' \cap occupied' = {} /\ Cardinality(Pair(r)') \in {0, 2}
            /\ \A q \in (before[r] \cap routed)' : q # r => Pair(r)' \cap Pair(q)' = {}
    BY <1>1, <1>4, <1>7, <2>4 DEF AddrInv, AddrTypeOK, AddressesDistinct
  <2> QED BY <1>1, <1>7, <2>1, <2>2, <2>3, <2>4 DEF AddressesDistinct
<1>9. ChosenBy(p)'
  BY <1>1, <1>2, <1>4, <1>5 DEF AddrInv, AddrTypeOK, ChosenBy, Moves, Looking, NotYetUp
<1>10. ASSUME NEW q \in Clients, q # p PROVE ChosenBy(q)'
  <2>1. \A x \in before[q] : x # p /\ x \in Clients
    BY <1>4 DEF AddrInv, AddrTypeOK
  <2> QED BY <1>1, <1>5, <1>10, <2>1 DEF AddrInv, ChosenBy, Moves
<1> QED BY <1>3, <1>8, <1>9, <1>10 DEF AddrInv

\* Its device gets the address.
LEMMA SetKeepsAddresses ==
    ASSUME AddrInv, NEW p \in Clients, At(p) = "addr", Moves(p, "up"), SetAddress(p)
    PROVE  AddrInv'
<1>1. UNCHANGED <<occupied, found, addrs, routed, before>> /\ assigned' = assigned \cup {p}
  BY DEF SetAddress
<1>2. AddrTypeOK' /\ AddressesDistinct'
  BY <1>1 DEF AddrInv, AddrTypeOK, AddressesDistinct, Pair
<1>3. ASSUME NEW q \in Clients PROVE ChosenBy(q)'
  BY <1>1 DEF AddrInv, ChosenBy, Moves, Looking, NotYetUp
<1> QED BY <1>2, <1>3 DEF AddrInv

\* Its device is brought up: nobody who looked before has counted on it.
LEMMA UpKeepsAddresses ==
    ASSUME AddrInv, NEW p \in Clients, At(p) = "up", NEW to, to \notin NotYetUp, Moves(p, to), BringUp(p)
    PROVE  AddrInv'
<1>1. UNCHANGED <<occupied, found, addrs, assigned, before>> /\ routed' = routed \cup {p}
  BY DEF BringUp
<1>2. p \in assigned /\ \A q \in Clients : p \notin before[q]
  BY DEF AddrInv, ChosenBy, NotYetUp
<1>3. AddrTypeOK' /\ AddressesDistinct'
  <2>1. AddrTypeOK'
    BY <1>1, <1>2 DEF AddrInv, AddrTypeOK
  <2>2. \A q : Pair(q)' = Pair(q)
    BY <1>1 DEF Pair
  <2>3. \A r \in Clients : (before[r] \cap routed)' = before[r] \cap routed
    BY <1>1, <1>2
  <2> QED BY <1>1, <2>1, <2>2, <2>3 DEF AddrInv, AddressesDistinct
<1>4. ASSUME NEW q \in Clients PROVE ChosenBy(q)'
  BY <1>1, <1>2 DEF AddrInv, ChosenBy, Moves, Looking, NotYetUp
<1> QED BY <1>3, <1>4 DEF AddrInv

\* Its device goes away.
LEMMA WithdrawKeepsAddresses ==
    ASSUME AddrInv, NEW p \in Clients, NEW to, to \notin NotYetUp, Moves(p, to), Withdraw(p)
    PROVE  AddrInv'
<1>1. /\ UNCHANGED <<occupied, found, addrs, before>>
      /\ assigned' = assigned \ {p} /\ routed' = routed \ {p}
  BY DEF Withdraw
<1>2. AddrTypeOK' /\ AddressesDistinct'
  BY <1>1 DEF AddrInv, AddrTypeOK, AddressesDistinct, Pair
<1>3. ASSUME NEW q \in Clients PROVE ChosenBy(q)'
  BY <1>1 DEF AddrInv, ChosenBy, Moves, Looking, NotYetUp
<1> QED BY <1>2, <1>3 DEF AddrInv

-----------------------------------------------------------------------------
(* What a step leaves alone.                                               *)

\* main and the host stay as they are.
LEMMA KeptSetUp ==
    ASSUME SetUp, UNCHANGED <<pc, built, kernelWillDestroy, dev, rules, lost, user>>,
           cred'["main"] = cred["main"]
    PROVE  SetUp'
<1>1. Objects' = Objects
  BY DEF Objects, ObjectsOf
<1> QED BY <1>1 DEF SetUp, IsStack, Beginning, StackAt, RulesAccounted, DevicesAccounted, MainCanRun

\* main leaves for good, able to take down.
LEMMA LeaveKeepsSetUp ==
    ASSUME SetUp, UNCHANGED <<built, kernelWillDestroy, dev, rules, lost, user>>,
           cred'["main"].r = cred["main"].r, cred'["main"].s = cred["main"].s,
           \/ pc' = "unwind" /\ cred'["main"].e = "root"
           \/ pc' = "killed"
    PROVE  SetUp'
<1>1. Objects' = Objects
  BY DEF Objects, ObjectsOf
<1> QED BY <1>1 DEF SetUp, IsStack, Beginning, StackAt, RulesAccounted, DevicesAccounted, MainCanRun, Unmasked

\* The container and what it has started stay as they are, beside a main that goes on
\* without touching the devices.
LEMMA KeptSideBySide ==
    ASSUME SideBySide, UNCHANGED <<built, box, dev, user, cred, routed>>,
           pc' = pc \/ pc' \in {"unwind", "killed", "ended"}
    PROVE  SideBySide'
<1>1. Objects' = Objects
  BY DEF Objects, ObjectsOf
<1> QED BY <1>1 DEF SideBySide, CtrFollows, ChildrenFollow, NeedsMet, Dropped, box, Unmasked

\* The addresses stay as they are.
LEMMA StillAddresses ==
    ASSUME AddrInv, UNCHANGED <<addrVars, pc, nbr>>
    PROVE  AddrInv'
<1>1. Moves(Me, At(Me)) /\ Me \in Clients
  BY ClientAssumption DEF Moves, At
<1> QED BY <1>1, KeptAddresses

\* main makes a step.
LEMMA MainAt ==
    ASSUME UNCHANGED nbr
    PROVE  At(Me) = pc /\ Moves(Me, pc') /\ Me \in Clients
  BY ClientAssumption DEF Moves, At

-----------------------------------------------------------------------------
(* The invariant at the start.                                             *)

\* Nothing has been set up.
LEMMA InvInitially == Init => ClientInv
<1> SUFFICES ASSUME Init PROVE ClientInv
  OBVIOUS
<1>1. Typed
  <2>1. cred \in [{"main", "container", "splitter"} -> Credentials]
    BY ClientAssumption DEF Init, Credentials
  <2>2. proc \in [{"splitter", "dnsmasq", "command"} -> {"none", "run", "told", "ended"}]
    BY DEF Init
  <2>3. /\ kernelWillDestroy \in BOOLEAN /\ pending \in BOOLEAN /\ hungUp \in BOOLEAN
        /\ listening \in BOOLEAN /\ started \in BOOLEAN /\ escaped \in BOOLEAN
    BY Zenon DEF Init
  <2>4. attempts \in 0 .. MaxAttempts /\ faults \in 0 .. MaxFaults /\ signals \in 0 .. MaxSignals
    BY ClientAssumption DEF Init
  <2>5. nbr \in [Clients \ {Me} -> {"ifaddrs", "routes", "addr", "up", "serve", "ended"}]
    BY DEF Init
  <2> QED BY <2>1, <2>2, <2>3, <2>4, <2>5 DEF Init, Typed, MainPc, CtrPc, Unmasked
<1>2. SetUp
  <2>1. built = <<>> /\ IsStack
    BY EmptySeq DEF Init, IsStack, Beginning
  <2>2. Len(built) = 0 /\ Objects = {}
    BY <2>1, StackFacts
  <2>3. MainCanRun
    BY DEF Init, MainCanRun
  <2> QED BY <2>1, <2>2, <2>3 DEF Init, SetUp, StackAt, RulesAccounted, DevicesAccounted
<1>3. SideBySide
  <2>1. proc["splitter"] = "none" /\ proc["dnsmasq"] = "none" /\ proc["command"] = "none"
    BY DEF Init
  <2>2. cred["container"].r = user
    BY DEF Init
  <2>3. Objects = {}
    BY <1>2, StackFacts DEF Init, SetUp, StackAt
  <2>4. 0 < MaxAttempts
    BY ClientAssumption
  <2> QED BY <2>1, <2>2, <2>3, <2>4 DEF Init, SideBySide, CtrFollows, ChildrenFollow, NeedsMet, Dropped
<1>4. AddrInv
  <2>1. AddrTypeOK
    BY AddressAssumption DEF Init, AddrInit, AddrTypeOK, NoOctet, Octet
  <2>2. \A p \in Clients : addrs[p] = [egress |-> NoOctet, ingress |-> NoOctet] /\ before[p] = {}
    BY DEF Init, AddrInit
  <2>3. assigned = {} /\ routed = {}
    BY DEF Init, AddrInit
  <2>4. \A p \in Clients : At(p) \in {"start", "ifaddrs"}
    BY DEF Init, At
  <2>5. \A p \in Clients : ChosenBy(p)
    BY <2>2, <2>3, <2>4 DEF ChosenBy, Looking, NotYetUp
  <2>6. \A p \in Clients : Pair(p) = {}
    BY <2>2 DEF Pair
  <2>7. AddressesDistinct
    BY <2>2, <2>6, FS_EmptySet DEF AddressesDistinct
  <2> QED BY <2>1, <2>5, <2>7 DEF AddrInv
<1> QED BY <1>1, <1>2, <1>3, <1>4 DEF ClientInv

-----------------------------------------------------------------------------
(* main sets up.                                                           *)

\* Steps that change neither the host nor the stack.
LEMMA MoveKeepsInv ==
    ASSUME ClientInv, check_requirements \/ LookAtInterfaces \/ ChooseAddresses \/ AssignEgress \/ OpenSockets
    PROVE  ClientInv'
<1>1. /\ UNCHANGED <<built, kernelWillDestroy, pending, dev, rules, lost, box, user, faults, signals, nbr, cred>>
      /\ \/ pc = "start" /\ pc' = "ifaddrs"
         \/ pc = "ifaddrs" /\ pc' = "routes"
         \/ pc = "routes" /\ pc' \in {"veth", "unwind"}
         \/ pc = "addr" /\ pc' = "up"
         \/ pc = "up" /\ pc' = "pre"
         \/ pc = "listen" /\ pc' = "dnat"
  BY DEF check_requirements, LookAtInterfaces, ChooseAddresses, AssignEgress, OpenSockets, Goto, host, env
<1>2. Objects' = Objects
  BY <1>1 DEF Objects, ObjectsOf
<1>3. Typed'
  BY <1>1 DEF ClientInv, Typed, MainPc, Unmasked, box
<1>4. SetUp'
  <2>1. IsStack' /\ StackAt' /\ RulesAccounted'
    BY <1>1, <1>2 DEF ClientInv, SetUp, IsStack, Beginning, StackAt, RulesAccounted
  <2>2. DevicesAccounted'
    BY <1>1, <1>2 DEF ClientInv, SetUp, DevicesAccounted, Unmasked
  <2>3. MainCanRun'
    BY <1>1 DEF ClientInv, SetUp, MainCanRun
  <2> QED BY <2>1, <2>2, <2>3 DEF SetUp
<1>5. AddrInv'
  <2>1. At(Me) = pc /\ Moves(Me, pc') /\ Me \in Clients
    BY <1>1, MainAt
  <2>2. CASE check_requirements
    BY <2>1, <2>2, KeptAddresses DEF ClientInv, check_requirements, Goto, addrVars
  <2>3. CASE LookAtInterfaces
    BY <2>1, <2>3, LookKeepsAddresses DEF ClientInv, LookAtInterfaces, Goto
  <2>4. CASE ChooseAddresses
    <3>1. CASE Goto("routes", "veth") /\ two_unassigned_addresses(Me)
      BY <2>1, <3>1, ChooseKeepsAddresses DEF ClientInv, Goto
    <3>2. CASE Goto("routes", "unwind") /\ UNCHANGED addrVars
      BY <2>1, <3>2, KeptAddresses DEF ClientInv, Goto, NotYetUp, Looking
    <3> QED BY <2>4, <3>1, <3>2 DEF ChooseAddresses
  <2>5. CASE AssignEgress
    <3>1. CASE Goto("addr", "up") /\ SetAddress(Me)
      BY <2>1, <3>1, SetKeepsAddresses DEF ClientInv, Goto
    <3>2. CASE Goto("up", "pre") /\ BringUp(Me)
      BY <2>1, <3>2, UpKeepsAddresses DEF ClientInv, Goto, NotYetUp, Looking
    <3> QED BY <2>5, <3>1, <3>2 DEF AssignEgress
  <2>6. CASE OpenSockets
    BY <2>1, <2>6, KeptAddresses DEF ClientInv, OpenSockets, Goto, NotYetUp, Looking
  <2> QED BY <2>2, <2>3, <2>4, <2>5, <2>6
<1>6. SideBySide'
  <2>1. CtrFollows'
    BY <1>1, <1>2 DEF ClientInv, SideBySide, CtrFollows, Unmasked, box
  <2>2. ChildrenFollow' /\ Dropped'
    BY <1>1 DEF ClientInv, SideBySide, ChildrenFollow, Dropped, box
  <2>3. (Me \in routed => Me \in routed') /\ (pc' = "pre" => Me \in routed')
    <3>1. CASE pc' = "pre"
      BY <1>1, <3>1
         DEF check_requirements, LookAtInterfaces, ChooseAddresses, AssignEgress, OpenSockets, Goto, BringUp
    <3>2. CASE pc' # "pre"
      BY <1>1, <3>2
         DEF check_requirements, LookAtInterfaces, ChooseAddresses, AssignEgress, OpenSockets, Goto,
             getifaddrs, two_unassigned_addresses, SetAddress, addrVars
    <3> QED BY <3>1, <3>2
  <2>4. NeedsMet'
    BY <1>1, <1>2, <2>3 DEF ClientInv, SideBySide, NeedsMet, box
  <2> QED BY <2>1, <2>2, <2>4 DEF SideBySide
<1> QED BY <1>3, <1>4, <1>5, <1>6 DEF ClientInv

\* An object is built on the stack.
LEMMA BuildKeepsStack ==
    ASSUME ClientInv, NEW from, NEW to, NEW object, Build(from, to, object),
           object = Order[Len(built) + 1], Len(built) < 5
    PROVE  IsStack' /\ Len(built') = Len(built) + 1
  BY PushFacts DEF ClientInv, SetUp, Build

\* ~VirtualEthernetPair has a device to remove as soon as there is one.
LEMMA VethKeepsInv ==
    ASSUME ClientInv, VirtualEthernetPair
    PROVE  ClientInv'
<1>1. /\ UNCHANGED <<kernelWillDestroy, pending, rules, lost, box, user, faults, signals, nbr, cred, addrVars>>
      /\ Build("veth", "addr", "veth") /\ pc = "veth" /\ pc' = "addr" /\ dev' = "host"
  BY DEF VirtualEthernetPair, Build, Goto, env
<1>2. IsStack /\ Len(built) = 0
  BY <1>1 DEF ClientInv, SetUp, StackAt
<1>3. IsStack' /\ Len(built') = 1
  BY <1>1, <1>2, OrderFacts, BuildKeepsStack
<1>4. Objects = {}
  BY <1>2, StackFacts
<1>5. Objects' = {"veth"}
  BY <1>3, StackFactsNext
<1>6. Typed'
  BY <1>1 DEF ClientInv, Typed, MainPc, Unmasked, box
<1>7. SetUp'
  <2>1. StackAt' /\ RulesAccounted'
    BY <1>1, <1>3, <1>4, <1>5 DEF ClientInv, SetUp, StackAt, RulesAccounted, Rules
  <2>2. DevicesAccounted' /\ MainCanRun'
    BY <1>1, <1>5 DEF ClientInv, SetUp, DevicesAccounted, MainCanRun, Unmasked
  <2> QED BY <1>3, <2>1, <2>2 DEF SetUp
<1>8. SideBySide'
  <2>1. CtrFollows' /\ ChildrenFollow' /\ Dropped'
    BY <1>1, <1>4, <1>5 DEF ClientInv, SideBySide, CtrFollows, ChildrenFollow, Dropped, box, Unmasked
  <2>2. ctr = "none" /\ proc["command"] = "none"
    BY <1>1 DEF ClientInv, SideBySide, CtrFollows, ChildrenFollow, Unmasked
  <2>3. NeedsMet'
    BY <1>1, <1>5, <2>2 DEF NeedsMet, box
  <2> QED BY <2>1, <2>3 DEF SideBySide
<1>9. AddrInv'
  BY <1>1, MainAt, KeptAddresses DEF ClientInv
<1> QED BY <1>6, <1>7, <1>8, <1>9 DEF ClientInv

\* A rule is added, and its object with it.
LEMMA RuleKeepsInv ==
    ASSUME ClientInv, NATRule("pre", "post") \/ NATRule("post", "listen") \/ NATRule("dnat", "mask")
    PROVE  ClientInv'
<1>1. PICK rule \in Rules, to \in {"post", "listen", "mask"} :
        /\ NATRule(rule, to)
        /\ \/ rule = "pre" /\ to = "post"
           \/ rule = "post" /\ to = "listen"
           \/ rule = "dnat" /\ to = "mask"
  BY DEF Rules
<1>2. /\ UNCHANGED <<kernelWillDestroy, pending, dev, lost, box, user, faults, signals, nbr, cred, addrVars>>
      /\ Build(rule, to, rule) /\ pc = rule /\ pc' = to /\ rules' = rules \cup {rule}
  BY <1>1 DEF NATRule, Build, Goto, env
<1> DEFINE n == Len(built)
           m == Len(built')
<1>3. /\ IsStack /\ n \in 0 .. 5
      /\ rule = "pre" => n = 1
      /\ rule = "post" => n = 2
      /\ rule = "dnat" => n = 3
  <2>1. IsStack /\ StackAt
    BY DEF ClientInv, SetUp
  <2>2. n \in 0 .. 5
    BY <2>1, StackFacts
  <2> QED BY <1>2, <2>1, <2>2 DEF StackAt
<1>4. IsStack' /\ m = n + 1
  <2> HIDE DEF n
  <2>1. n < 5 /\ rule = Order[n + 1]
    BY <1>1, <1>3, OrderFacts
  <2> QED BY <1>2, <2>1, BuildKeepsStack DEF n
<1>5. Objects' = Objects \cup {rule}
  <2>1. /\ n = 1 => Objects = {"veth"}
        /\ n = 2 => Objects = {"veth", "pre"}
        /\ n = 3 => Objects = {"veth", "pre", "post"}
    BY <1>3, StackFacts
  <2>2. /\ m = 2 => Objects' = {"veth", "pre"}
        /\ m = 3 => Objects' = {"veth", "pre", "post"}
        /\ m = 4 => Objects' = {"veth", "pre", "post", "dnat"}
    BY <1>4, StackFactsNext
  <2> HIDE DEF n, m
  <2> QED BY <1>1, <1>3, <1>4, <2>1, <2>2
<1>6. Typed'
  BY <1>1, <1>2 DEF ClientInv, Typed, MainPc, Unmasked, box
<1>7. SetUp'
  <2>1. StackAt'
    <3>1. /\ rule = "pre" => m = 2
          /\ rule = "post" => m = 3
          /\ rule = "dnat" => m = 4
      <4> HIDE DEF n, m
      <4> QED BY <1>3, <1>4
    <3> QED BY <1>1, <1>2, <3>1 DEF StackAt
  <2>2. RulesAccounted' /\ MainCanRun'
    BY <1>1, <1>2, <1>5 DEF ClientInv, SetUp, RulesAccounted, MainCanRun
  <2>3. DevicesAccounted'
    BY <1>1, <1>2, <1>5 DEF ClientInv, SetUp, DevicesAccounted, Unmasked, Rules
  <2> QED BY <1>4, <2>1, <2>2, <2>3 DEF SetUp
<1>8. SideBySide'
  <2>1. CtrFollows' /\ ChildrenFollow' /\ Dropped'
    BY <1>1, <1>2, <1>5
       DEF ClientInv, SideBySide, CtrFollows, ChildrenFollow, Dropped, box, Unmasked, Rules
  <2>2. NeedsMet'
    BY <1>1, <1>2, <1>5 DEF ClientInv, SideBySide, NeedsMet, box, addrVars, Rules
  <2> QED BY <2>1, <2>2 DEF SideBySide
<1>9. AddrInv'
  BY <1>1, <1>2, MainAt, KeptAddresses DEF ClientInv, NotYetUp, Looking
<1> QED BY <1>6, <1>7, <1>8, <1>9 DEF ClientInv

\* The event loop is built.
LEMMA LoopKeepsInv ==
    ASSUME ClientInv, EventLoop
    PROVE  ClientInv'
<1>1. /\ UNCHANGED <<kernelWillDestroy, pending, dev, rules, lost, box, user, faults, signals, nbr, cred, addrVars>>
      /\ Build("mask", "clone", "loop") /\ pc = "mask" /\ pc' = "clone"
  BY DEF EventLoop, Build, Goto, env
<1>2. IsStack /\ Len(built) = 4
  BY <1>1 DEF ClientInv, SetUp, StackAt
<1>3. IsStack' /\ Len(built') = 5
  BY <1>1, <1>2, OrderFacts, BuildKeepsStack
<1>4. Objects' = Objects \cup {"loop"}
  BY <1>2, <1>3, StackFacts, StackFactsNext
<1>5. Typed'
  BY <1>1 DEF ClientInv, Typed, MainPc, Unmasked, box
<1>6. SetUp'
  <2>1. StackAt' /\ RulesAccounted'
    BY <1>1, <1>3, <1>4 DEF ClientInv, SetUp, StackAt, RulesAccounted, Rules
  <2>2. DevicesAccounted' /\ MainCanRun'
    BY <1>1, <1>4 DEF ClientInv, SetUp, DevicesAccounted, MainCanRun, Unmasked
  <2> QED BY <1>3, <2>1, <2>2 DEF SetUp
<1>7. SideBySide'
  BY <1>1, <1>4
     DEF ClientInv, SideBySide, CtrFollows, ChildrenFollow, NeedsMet, Dropped, box, Unmasked, addrVars
<1>8. AddrInv'
  BY <1>1, MainAt, KeptAddresses DEF ClientInv, NotYetUp, Looking
<1> QED BY <1>5, <1>6, <1>7, <1>8 DEF ClientInv

\* The container is cloned with the user ids of main; it waits.
LEMMA CloneKeepsInv ==
    ASSUME ClientInv, CloneContainer
    PROVE  ClientInv'
<1>1. /\ UNCHANGED <<built, kernelWillDestroy, pending, dev, rules, lost, hungUp, proc, listening, attempts,
                     started, escaped, user, faults, signals, nbr, addrVars>>
      /\ pc = "clone" /\ pc' = "move" /\ ctr' = "wait"
      /\ cred' = [cred EXCEPT !["container"] = cred["main"]]
  BY DEF CloneContainer, Goto, host, env
<1>2. Objects' = Objects
  BY <1>1 DEF Objects, ObjectsOf
<1>3. cred' \in [{"main", "container", "splitter"} -> Credentials] /\ cred'["main"] = cred["main"]
      /\ cred'["container"] = cred["main"] /\ cred'["splitter"] = cred["splitter"]
  BY <1>1 DEF ClientInv, Typed
<1>4. Typed'
  BY <1>1, <1>3 DEF ClientInv, Typed, MainPc, CtrPc, CtrUnmasked
<1>5. SetUp'
  BY <1>1, <1>2, <1>3
     DEF ClientInv, SetUp, IsStack, Beginning, StackAt, RulesAccounted, DevicesAccounted, MainCanRun, Unmasked
<1>6. ctr = "none" /\ "loop" \in Objects
  BY <1>1, StackFacts DEF ClientInv, SetUp, StackAt, SideBySide, CtrFollows
<1>7. SideBySide'
  <2>1. CtrFollows' /\ ChildrenFollow'
    BY <1>1, <1>2, <1>6 DEF ClientInv, SideBySide, CtrFollows, ChildrenFollow, CtrUnmasked, Unmasked
  <2>2. NeedsMet' /\ Dropped'
    BY <1>1, <1>2, <1>3, <1>6
       DEF ClientInv, SetUp, MainCanRun, SideBySide, ChildrenFollow, NeedsMet, Dropped, addrVars
  <2> QED BY <2>1, <2>2 DEF SideBySide
<1>8. AddrInv'
  BY <1>1, MainAt, KeptAddresses DEF ClientInv, NotYetUp, Looking
<1> QED BY <1>4, <1>5, <1>7, <1>8 DEF ClientInv

\* The ingress goes to the container, which waits for it.
LEMMA GiveKeepsInv ==
    ASSUME ClientInv, GiveIngress
    PROVE  ClientInv'
<1>1. /\ UNCHANGED <<built, pending, rules, lost, box, user, faults, signals, nbr, cred, addrVars>>
      /\ pc = "move"
      /\ \/ pc' = "go" /\ dev' = "split" /\ kernelWillDestroy' = TRUE
         \/ pc' = "unwind" /\ UNCHANGED <<dev, kernelWillDestroy>>
  BY DEF GiveIngress, Goto, env
<1>2. Objects' = Objects
  BY <1>1 DEF Objects, ObjectsOf
<1>3. kernelWillDestroy' \in BOOLEAN
  BY <1>1 DEF ClientInv, Typed
<1>4. Typed'
  BY <1>1, <1>3 DEF ClientInv, Typed, MainPc, box
<1>5. SetUp'
  BY <1>1, <1>2
     DEF ClientInv, SetUp, IsStack, Beginning, StackAt, RulesAccounted, DevicesAccounted, MainCanRun, Unmasked
<1>6. ctr \in {"wait", "ended"} /\ dev = "host"
  BY <1>1 DEF ClientInv, SideBySide, CtrFollows, SetUp, DevicesAccounted
<1>7. SideBySide'
  BY <1>1, <1>2, <1>6
     DEF ClientInv, SideBySide, CtrFollows, ChildrenFollow, NeedsMet, Dropped, Unmasked, box, addrVars
<1>8. AddrInv'
  BY <1>1, MainAt, KeptAddresses DEF ClientInv, NotYetUp, Looking
<1> QED BY <1>4, <1>5, <1>7, <1>8 DEF ClientInv

\* The container is told to go on.
LEMMA GoKeepsInv ==
    ASSUME ClientInv, SendGo
    PROVE  ClientInv'
<1>1. /\ UNCHANGED <<built, kernelWillDestroy, pending, dev, rules, lost, hungUp, proc, listening, attempts,
                     started, escaped, user, faults, signals, nbr, cred, addrVars>>
      /\ pc = "go" /\ pc' = "fork"
      /\ ctr' = IF ctr = "wait" THEN "lo" ELSE ctr
  BY DEF SendGo, Goto, host, env
<1>2. Objects' = Objects /\ "loop" \in Objects
  BY <1>1, StackFacts DEF ClientInv, SetUp, StackAt, Objects, ObjectsOf
<1>3. Typed'
  BY <1>1 DEF ClientInv, Typed, MainPc, CtrPc, CtrUnmasked
<1>4. SetUp'
  BY <1>1, <1>2
     DEF ClientInv, SetUp, IsStack, Beginning, StackAt, RulesAccounted, DevicesAccounted, MainCanRun, Unmasked
<1>5. ctr \in {"wait", "ended"}
  BY <1>1 DEF ClientInv, SideBySide, CtrFollows
<1>6. SideBySide'
  BY <1>1, <1>2, <1>5
     DEF ClientInv, SideBySide, CtrFollows, ChildrenFollow, NeedsMet, Dropped, CtrUnmasked, Unmasked, addrVars
<1>7. AddrInv'
  BY <1>1, MainAt, KeptAddresses DEF ClientInv, NotYetUp, Looking
<1> QED BY <1>3, <1>4, <1>6, <1>7 DEF ClientInv

\* The splitter client is forked and becomes the user.
LEMMA ForkKeepsInv ==
    ASSUME ClientInv, ForkSplitter
    PROVE  ClientInv'
<1>1. /\ UNCHANGED <<built, kernelWillDestroy, pending, dev, rules, lost, ctr, hungUp, listening, attempts,
                     started, escaped, user, faults, signals, nbr, addrVars>>
      /\ pc = "fork" /\ pc' = "enter"
      /\ proc' = [proc EXCEPT !["splitter"] = "run"]
      /\ cred' = [cred EXCEPT !["splitter"] = drop_privileges(cred["main"])]
  BY DEF ForkSplitter, Goto, host, env
<1>2. Objects' = Objects /\ "loop" \in Objects
  BY <1>1, StackFacts DEF ClientInv, SetUp, StackAt, Objects, ObjectsOf
<1>3. drop_privileges(cred["main"]) \in Credentials /\ drop_privileges(cred["main"]).s = user
  BY DEF drop_privileges, Credentials, ClientInv, Typed, SetUp, MainCanRun
<1>4. /\ cred' \in [{"main", "container", "splitter"} -> Credentials] /\ cred'["main"] = cred["main"]
      /\ cred'["container"] = cred["container"] /\ cred'["splitter"].s = user
  BY <1>1, <1>3 DEF ClientInv, Typed
<1>5. /\ proc' \in [{"splitter", "dnsmasq", "command"} -> {"none", "run", "told", "ended"}]
      /\ proc'["dnsmasq"] = proc["dnsmasq"] /\ proc'["command"] = proc["command"]
  BY <1>1 DEF ClientInv, Typed
<1>6. Typed'
  BY <1>1, <1>4, <1>5 DEF ClientInv, Typed, MainPc
<1>7. SetUp'
  BY <1>1, <1>2, <1>4
     DEF ClientInv, SetUp, IsStack, Beginning, StackAt, RulesAccounted, DevicesAccounted, MainCanRun, Unmasked
<1>8. SideBySide'
  BY <1>1, <1>2, <1>4, <1>5
     DEF ClientInv, SideBySide, CtrFollows, ChildrenFollow, NeedsMet, Dropped, Unmasked, addrVars
<1>9. AddrInv'
  BY <1>1, MainAt, KeptAddresses DEF ClientInv, NotYetUp, Looking
<1> QED BY <1>6, <1>7, <1>8, <1>9 DEF ClientInv

-----------------------------------------------------------------------------
(* main serves and leaves.                                                 *)

\* In its loop main is the user; it can be root again, because the saved uid is.
LEMMA ServeKeepsInv ==
    ASSUME ClientInv, EnterLoop \/ LeaveLoop
    PROVE  ClientInv'
<1>1. /\ UNCHANGED <<built, kernelWillDestroy, pending, dev, rules, lost, box, user, faults, signals, nbr, addrVars>>
      /\ \/ /\ pc = "enter" /\ pc' = "serve"
            /\ cred' = [cred EXCEPT !["main"] = Unprivileged(cred["main"])]
         \/ /\ pc = "serve" /\ pc' = "unwind"
            /\ cred' = [cred EXCEPT !["main"] = Restored(cred["main"])]
  BY DEF EnterLoop, LeaveLoop, Goto, host, env
<1> DEFINE c == cred["main"]
<1>2. c \in Credentials /\ c.r = user /\ c.s = "root"
  BY DEF ClientInv, Typed, SetUp, MainCanRun
<1> HIDE DEF c
<1>3. Unprivileged(c) \in Credentials /\ Unprivileged(c).r = user /\ Unprivileged(c).s = "root"
  BY <1>2 DEF Unprivileged, Credentials
<1>4. /\ Restored(c) \in Credentials /\ Restored(c).r = user /\ Restored(c).s = "root"
      /\ Restored(c).e = "root"
  BY <1>2 DEF Restored, Credentials
<1>5. /\ cred' \in [{"main", "container", "splitter"} -> Credentials]
      /\ cred'["main"].r = user /\ cred'["main"].s = "root" /\ (pc' = "unwind" => cred'["main"].e = "root")
      /\ cred'["container"] = cred["container"] /\ cred'["splitter"] = cred["splitter"]
  BY <1>1, <1>3, <1>4 DEF ClientInv, Typed, c
<1>6. Objects' = Objects
  BY <1>1 DEF Objects, ObjectsOf
<1>7. Typed'
  BY <1>1, <1>5 DEF ClientInv, Typed, MainPc, box
<1>8. SetUp'
  BY <1>1, <1>5, <1>6
     DEF ClientInv, SetUp, IsStack, Beginning, StackAt, RulesAccounted, DevicesAccounted, MainCanRun, Unmasked
<1>9. SideBySide'
  BY <1>1, <1>5, <1>6
     DEF ClientInv, SideBySide, CtrFollows, ChildrenFollow, NeedsMet, Dropped, Unmasked, box, addrVars
<1>10. AddrInv'
  BY <1>1, MainAt, KeptAddresses DEF ClientInv, NotYetUp, Looking
<1> QED BY <1>7, <1>8, <1>9, <1>10 DEF ClientInv

\* main throws, is killed, or ends.
LEMMA LeaveKeepsInv ==
    ASSUME ClientInv, MainThrows \/ Kill \/ End
    PROVE  ClientInv'
<1>1. /\ UNCHANGED <<built, kernelWillDestroy, pending, dev, rules, lost, box, user, nbr, cred, addrVars>>
      /\ \/ pc' = "unwind" /\ pc \notin {"serve", "killed", "ended"}
         \/ pc' = "killed"
         \/ pc = "unwind" /\ pc' = "ended" /\ Top = "none"
  BY DEF MainThrows, Kill, End, Unwinding, Unmasked, host, env
<1>2. faults' \in 0 .. MaxFaults /\ signals' \in 0 .. MaxSignals
  BY ClientAssumption DEF MainThrows, Kill, End, env, ClientInv, Typed
<1>3. Typed'
  BY <1>1, <1>2 DEF ClientInv, Typed, MainPc, box
<1>4. SetUp'
  <2>1. CASE pc' = "unwind" /\ pc \notin {"serve", "killed", "ended"}
    <3>1. cred'["main"].e = "root"
      BY <1>1, <2>1 DEF ClientInv, SetUp, MainCanRun
    <3> QED BY <1>1, <2>1, <3>1, LeaveKeepsSetUp DEF ClientInv
  <2>2. CASE pc' = "killed"
    BY <1>1, <2>2, LeaveKeepsSetUp DEF ClientInv
  <2>3. CASE pc = "unwind" /\ pc' = "ended" /\ Top = "none"
    <3>1. Len(built) = 0
      <4>1. IsStack
        BY DEF ClientInv, SetUp
      <4> QED BY <2>3, <4>1, StackFacts
    <3>2. Objects' = Objects
      BY <1>1 DEF Objects, ObjectsOf
    <3> QED BY <1>1, <2>3, <3>1, <3>2
       DEF ClientInv, SetUp, IsStack, Beginning, StackAt, RulesAccounted, DevicesAccounted, MainCanRun, Unmasked
  <2> QED BY <1>1, <2>1, <2>2, <2>3
<1>5. SideBySide'
  BY <1>1, KeptSideBySide DEF ClientInv, addrVars
<1>6. AddrInv'
  BY <1>1, MainAt, KeptAddresses DEF ClientInv, NotYetUp, Looking
<1> QED BY <1>3, <1>4, <1>5, <1>6 DEF ClientInv

-----------------------------------------------------------------------------
(* main takes down.                                                        *)

\* The children of the loop are hung up.
LEMMA HangUpKeepsInv ==
    ASSUME ClientInv, HangUpContainer \/ HangUpSplitter
    PROVE  ClientInv'
<1>1. /\ UNCHANGED <<pc, built, kernelWillDestroy, pending, dev, rules, lost, listening, attempts,
                     started, escaped, user, faults, signals, nbr, cred, addrVars>>
      /\ pc = "unwind"
  BY DEF HangUpContainer, HangUpSplitter, Unwinding, main, host, env
<1>2. SetUp'
  BY <1>1, KeptSetUp DEF ClientInv
<1>3. AddrInv'
  BY <1>1, StillAddresses DEF ClientInv
<1>4. Objects' = Objects
  BY <1>1 DEF Objects, ObjectsOf
<1>5. CASE HangUpContainer
  <2>1. /\ ctr \notin {"none", "ended"} /\ ctr' = (IF ctr \in CtrUnmasked THEN "ended" ELSE ctr)
        /\ hungUp' = TRUE /\ proc' = proc
    BY <1>5 DEF HangUpContainer
  <2>2. Typed'
    BY <1>1, <2>1 DEF ClientInv, Typed, CtrPc
  <2>3. SideBySide'
    BY <1>1, <1>4, <2>1
       DEF ClientInv, SideBySide, CtrFollows, ChildrenFollow, NeedsMet, Dropped, CtrUnmasked, Unmasked, addrVars
  <2> QED BY <1>2, <1>3, <2>2, <2>3 DEF ClientInv
<1>6. CASE HangUpSplitter
  <2>1. proc' = [proc EXCEPT !["splitter"] = "ended"] /\ UNCHANGED <<ctr, hungUp>> /\ proc["splitter"] = "run"
    BY <1>6 DEF HangUpSplitter
  <2>2. /\ proc' \in [{"splitter", "dnsmasq", "command"} -> {"none", "run", "told", "ended"}]
        /\ proc'["dnsmasq"] = proc["dnsmasq"] /\ proc'["command"] = proc["command"]
        /\ proc'["splitter"] = "ended"
    BY <2>1 DEF ClientInv, Typed
  <2>3. Typed'
    BY <1>1, <2>1, <2>2 DEF ClientInv, Typed
  <2>4. SideBySide'
    BY <1>1, <1>4, <2>1, <2>2
       DEF ClientInv, SideBySide, CtrFollows, ChildrenFollow, NeedsMet, Dropped, Unmasked, addrVars
  <2> QED BY <1>2, <1>3, <2>3, <2>4 DEF ClientInv
<1> QED BY <1>5, <1>6

\* A destructor takes the last object, and no other, from the stack.
LEMMA PopTakesTop ==
    ASSUME IsStack, Pop, NEW o, Top = o, o # "none"
    PROVE  IsStack' /\ Objects' = Objects \ {o} /\ (o # "loop" => "loop" \notin Objects)
<1> DEFINE n == Len(built)
           m == Len(built')
<1>1. /\ n \in 0 .. 5
      /\ n = 0 => Top = "none"
      /\ n = 1 => Top = "veth" /\ Objects = {"veth"}
      /\ n = 2 => Top = "pre" /\ Objects = {"veth", "pre"}
      /\ n = 3 => Top = "post" /\ Objects = {"veth", "pre", "post"}
      /\ n = 4 => Top = "dnat" /\ Objects = {"veth", "pre", "post", "dnat"}
      /\ n = 5 => Top = "loop" /\ Objects = {"veth", "pre", "post", "dnat", "loop"}
  BY StackFacts
<1>2. built # <<>>
  BY DEF Top
<1>3. IsStack' /\ m = n - 1
  BY <1>2, PopFacts
<1>4. /\ m = 0 => Objects' = {}
      /\ m = 1 => Objects' = {"veth"}
      /\ m = 2 => Objects' = {"veth", "pre"}
      /\ m = 3 => Objects' = {"veth", "pre", "post"}
      /\ m = 4 => Objects' = {"veth", "pre", "post", "dnat"}
  BY <1>3, StackFactsNext
<1> HIDE DEF n, m
<1> QED BY <1>1, <1>3, <1>4

\* The loop is destroyed when its children have ended.
LEMMA DestroyKeepsInv ==
    ASSUME ClientInv, DestroyLoop
    PROVE  ClientInv'
<1>1. /\ UNCHANGED <<pc, kernelWillDestroy, pending, dev, rules, lost, box, user, faults, signals, nbr, cred, addrVars>>
      /\ pc = "unwind" /\ Top = "loop" /\ Pop
      /\ ctr \in {"none", "ended"} /\ proc["splitter"] # "run"
  BY DEF DestroyLoop, Unwinding, host, env
<1>2. IsStack' /\ Objects' = Objects \ {"loop"}
  BY <1>1, PopTakesTop DEF ClientInv, SetUp
<1>3. Typed'
  BY <1>1 DEF ClientInv, Typed, box
<1>4. SetUp'
  <2>1. StackAt' /\ RulesAccounted'
    BY <1>1, <1>2 DEF ClientInv, Typed, SetUp, StackAt, RulesAccounted, Rules
  <2>2. DevicesAccounted' /\ MainCanRun'
    BY <1>1, <1>2 DEF ClientInv, SetUp, DevicesAccounted, MainCanRun
  <2> QED BY <1>2, <2>1, <2>2 DEF SetUp
<1>5. SideBySide'
  BY <1>1, <1>2
     DEF ClientInv, SideBySide, CtrFollows, ChildrenFollow, NeedsMet, Dropped, Unmasked, box, addrVars
<1>6. AddrInv'
  BY <1>1, StillAddresses DEF ClientInv
<1> QED BY <1>3, <1>4, <1>5, <1>6 DEF ClientInv

\* A removal succeeds, because main can run programs, or is known to have failed.
LEMMA RemovalFacts ==
    ASSUME ClientInv, pc = "unwind", NEW object \in Rules \cup {"veth"}, NEW removed \in BOOLEAN,
           Removal(object, removed)
    PROVE  /\ faults' \in 0 .. MaxFaults /\ lost \subseteq lost' /\ lost' \subseteq Rules \cup {"veth"}
           /\ removed = TRUE \/ object \in lost'
<1>1. CanRun("main") = TRUE
  BY DEF CanRun, ClientInv, SetUp, MainCanRun
<1>2. CASE removed = CanRun("main") /\ UNCHANGED <<lost, faults>>
  BY <1>1, <1>2 DEF ClientInv, Typed
<1>3. CASE faults < MaxFaults /\ faults' = faults + 1 /\ lost' = lost \cup {object}
  BY <1>3, ClientAssumption DEF ClientInv, Typed
<1> QED BY <1>2, <1>3 DEF Removal

\* A rule is removed, or its removal has failed.
LEMMA RemoveRuleKeepsInv ==
    ASSUME ClientInv, NEW rule \in Rules, RemoveRule(rule)
    PROVE  ClientInv'
<1>1. /\ UNCHANGED <<pc, kernelWillDestroy, pending, dev, box, user, signals, nbr, cred, addrVars>>
      /\ pc = "unwind" /\ Top = rule /\ Pop
  BY DEF RemoveRule, Unwinding
<1>2. PICK removed \in BOOLEAN : Removal(rule, removed) /\ rules' = IF removed THEN rules \ {rule} ELSE rules
  BY DEF RemoveRule
<1>3. /\ faults' \in 0 .. MaxFaults /\ lost \subseteq lost' /\ lost' \subseteq Rules \cup {"veth"}
      /\ removed = TRUE \/ rule \in lost'
  BY <1>1, <1>2, RemovalFacts
<1>4. \/ rules' = rules \ {rule}
      \/ rules' = rules /\ rule \in lost'
  BY <1>2, <1>3
<1>5. rule # "none" /\ rule # "loop" /\ rule # "veth"
  BY DEF Rules
<1>6. IsStack' /\ Objects' = Objects \ {rule} /\ "loop" \notin Objects
  BY <1>1, <1>5, PopTakesTop DEF ClientInv, SetUp
<1>7. Typed'
  <2>1. rules' \subseteq Rules
    BY <1>4 DEF ClientInv, Typed
  <2> QED BY <1>1, <1>3, <2>1 DEF ClientInv, Typed, box
<1>8. SetUp'
  <2>1. StackAt' /\ MainCanRun'
    BY <1>1 DEF ClientInv, SetUp, StackAt, MainCanRun
  <2>2. RulesAccounted'
    BY <1>3, <1>4, <1>6 DEF ClientInv, SetUp, RulesAccounted
  <2>3. DevicesAccounted'
    BY <1>1, <1>3, <1>5, <1>6 DEF ClientInv, SetUp, DevicesAccounted
  <2> QED BY <1>6, <2>1, <2>2, <2>3 DEF SetUp
<1>9. SideBySide'
  BY <1>1, <1>6
     DEF ClientInv, SideBySide, CtrFollows, ChildrenFollow, NeedsMet, Dropped, Unmasked, box, addrVars
<1>10. AddrInv'
  BY <1>1, StillAddresses DEF ClientInv
<1> QED BY <1>7, <1>8, <1>9, <1>10 DEF ClientInv

\* The devices are left to the kernel or removed, or their removal has failed.
LEMMA RemoveDevicesKeepsInv ==
    ASSUME ClientInv, RemoveDevices
    PROVE  ClientInv'
<1>1. /\ UNCHANGED <<pc, kernelWillDestroy, pending, rules, box, user, signals, nbr, cred>>
      /\ pc = "unwind" /\ Top = "veth" /\ Pop
  BY DEF RemoveDevices, Unwinding
<1>2. IsStack' /\ Objects' = Objects \ {"veth"} /\ "loop" \notin Objects
  BY <1>1, PopTakesTop DEF ClientInv, SetUp
<1>3. /\ faults' \in 0 .. MaxFaults /\ lost \subseteq lost' /\ lost' \subseteq Rules \cup {"veth"}
      /\ \/ dev' = dev /\ UNCHANGED addrVars /\ (dev = "host" => "veth" \in lost')
         \/ dev' = "none" /\ Withdraw(Me)
  <2>1. CASE kernelWillDestroy
    <3>1. dev # "host"
      BY <2>1 DEF ClientInv, SetUp, DevicesAccounted
    <3>2. UNCHANGED <<dev, lost, faults, addrVars>>
      BY <2>1 DEF RemoveDevices
    <3> QED BY <3>1, <3>2 DEF ClientInv, Typed
  <2>2. CASE ~kernelWillDestroy
    <3>1. PICK removed \in BOOLEAN :
            /\ Removal("veth", removed)
            /\ IF removed THEN dev' = "none" /\ Withdraw(Me) ELSE UNCHANGED <<dev, addrVars>>
      BY <2>2 DEF RemoveDevices
    <3>2. /\ faults' \in 0 .. MaxFaults /\ lost \subseteq lost' /\ lost' \subseteq Rules \cup {"veth"}
          /\ removed = TRUE \/ "veth" \in lost'
      BY <1>1, <3>1, RemovalFacts
    <3> QED BY <3>1, <3>2
  <2> QED BY <2>1, <2>2
<1>4. dev' \in {"none", dev}
  BY <1>3
<1>5. Typed'
  BY <1>1, <1>3, <1>4 DEF ClientInv, Typed, box
<1>6. SetUp'
  <2>1. StackAt' /\ MainCanRun'
    BY <1>1 DEF ClientInv, SetUp, StackAt, MainCanRun
  <2>2. RulesAccounted'
    BY <1>1, <1>2, <1>3 DEF ClientInv, Typed, SetUp, RulesAccounted, Rules
  <2>3. DevicesAccounted'
    BY <1>1, <1>2, <1>3 DEF ClientInv, SetUp, DevicesAccounted
  <2> QED BY <1>2, <2>1, <2>2, <2>3 DEF SetUp
<1>7. AddrInv'
  <2>1. CASE UNCHANGED addrVars
    BY <1>1, <2>1, StillAddresses DEF ClientInv
  <2>2. CASE Withdraw(Me)
    BY <1>1, <2>2, MainAt, WithdrawKeepsAddresses DEF ClientInv, NotYetUp, Looking
  <2> QED BY <1>3, <2>1, <2>2
<1>8. SideBySide'
  <2>1. CtrFollows' /\ ChildrenFollow' /\ Dropped'
    BY <1>1, <1>2
       DEF ClientInv, SideBySide, CtrFollows, ChildrenFollow, Dropped, Unmasked, box
  <2>2. ctr \in {"none", "ended"}
    BY <1>2 DEF ClientInv, SideBySide, CtrFollows
  <2>3. dev' # "none" => dev' = dev /\ routed' = routed
    BY <1>3 DEF addrVars
  <2>4. NeedsMet'
    BY <1>1, <1>2, <2>2, <2>3 DEF ClientInv, SideBySide, NeedsMet, box
  <2> QED BY <2>1, <2>4 DEF SideBySide
<1> QED BY <1>5, <1>6, <1>7, <1>8 DEF ClientInv

-----------------------------------------------------------------------------
(* The container and its children.                                         *)

\* main, the host and the addresses are not touched by the container, nor by its children.
BoxOnly ==
    /\ UNCHANGED <<pc, built, kernelWillDestroy, pending, dev, rules, lost, user, signals, nbr, addrVars>>
    /\ cred'["main"] = cred["main"] /\ faults' \in 0 .. MaxFaults

LEMMA BoxKeepsInv ==
    ASSUME ClientInv, BoxOnly, Typed', SideBySide'
    PROVE  ClientInv'
  BY KeptSetUp, StillAddresses DEF ClientInv, BoxOnly

\* Steps of the container that only move it on.
LEMMA ContainerMoveKeepsInv ==
    ASSUME ClientInv, Configure \/ ContainerLeavesLoop \/ ContainerExits \/ ContainerThrows
    PROVE  ClientInv'
<1>1. /\ UNCHANGED <<pc, built, kernelWillDestroy, pending, dev, rules, lost, hungUp, proc, listening, attempts,
                     started, escaped, user, signals, nbr, cred, addrVars>>
      /\ faults' \in 0 .. MaxFaults
  BY ClientAssumption
     DEF Configure, ContainerLeavesLoop, ContainerExits, ContainerThrows, main, host, env, ClientInv, Typed
<1>2. \/ ctr = "lo" /\ ctr' = "addr"
      \/ ctr = "addr" /\ ctr' = "route" /\ dev = "split"
      \/ ctr = "route" /\ ctr' = "mask"
      \/ ctr = "mask" /\ ctr' = "dns"
      \/ ctr = "dns" /\ ctr' = "spawn"
      \/ ctr = "serve" /\ ctr' = "unwind"
      \/ ctr \in {"lo", "addr", "route", "dns", "spawn", "probe", "drop", "fork"} /\ ctr' = "unwind"
      \/ /\ ctr = "unwind" /\ ctr' = "ended" /\ proc["dnsmasq"] # "run"
         /\ proc["command"] \in {"run", "told"} => escaped
  BY DEF Configure, ContainerLeavesLoop, ContainerExits, ContainerThrows, CtrGoto, MayKillCommand
<1>3. Objects' = Objects
  BY <1>1 DEF Objects, ObjectsOf
<1>4. Typed'
  BY <1>1, <1>2 DEF ClientInv, Typed, CtrPc, CtrUnmasked
<1>5. SideBySide'
  <2>1. CtrFollows'
    BY <1>1, <1>2, <1>3 DEF ClientInv, SideBySide, CtrFollows, Unmasked
  <2>2. ChildrenFollow'
    BY <1>1, <1>2 DEF ClientInv, SideBySide, ChildrenFollow, CtrUnmasked
  <2>3. NeedsMet'
    BY <1>1, <1>2, <1>3 DEF ClientInv, SideBySide, ChildrenFollow, NeedsMet, CtrUnmasked, addrVars
  <2>4. Dropped'
    BY <1>1, <1>2 DEF ClientInv, SideBySide, Dropped
  <2> QED BY <2>1, <2>2, <2>3, <2>4 DEF SideBySide
<1> QED BY <1>1, <1>4, <1>5, BoxKeepsInv DEF BoxOnly

\* dnsmasq is started and probed; each attempt is counted.
LEMMA DnsmasqKeepsInv ==
    ASSUME ClientInv, SpawnDnsmasq \/ Probe
    PROVE  ClientInv'
<1>1. UNCHANGED <<pc, built, kernelWillDestroy, pending, dev, rules, lost, hungUp, listening,
                  started, escaped, user, faults, signals, nbr, cred, addrVars>>
  BY DEF SpawnDnsmasq, Probe, main, host, env
<1>2. Objects' = Objects
  BY <1>1 DEF Objects, ObjectsOf
<1>3. BoxOnly
  BY <1>1 DEF BoxOnly, ClientInv, Typed
<1>4. CASE SpawnDnsmasq
  <2>1. /\ ctr = "spawn" /\ ctr' = "probe" /\ attempts' = attempts
        /\ proc' = [proc EXCEPT !["dnsmasq"] = "run"]
    BY <1>4 DEF SpawnDnsmasq, CtrGoto
  <2>2. /\ proc' \in [{"splitter", "dnsmasq", "command"} -> {"none", "run", "told", "ended"}]
        /\ proc'["splitter"] = proc["splitter"] /\ proc'["command"] = proc["command"]
    BY <2>1 DEF ClientInv, Typed
  <2>3. Typed'
    BY <1>1, <2>1, <2>2 DEF ClientInv, Typed, CtrPc
  <2>4. SideBySide'
    BY <1>1, <1>2, <2>1, <2>2
       DEF ClientInv, SideBySide, CtrFollows, ChildrenFollow, NeedsMet, Dropped, CtrUnmasked, Unmasked, addrVars
  <2> QED BY <1>3, <2>3, <2>4, BoxKeepsInv
<1>5. CASE Probe
  <2>1. /\ ctr = "probe" /\ proc' = proc /\ attempts' = attempts + 1
        /\ ctr' = IF attempts' >= MaxAttempts THEN "unwind" ELSE IF listening THEN "drop" ELSE "probe"
    BY <1>5 DEF Probe
  <2>2. attempts \in Nat /\ attempts < MaxAttempts
    BY <2>1, ClientAssumption DEF ClientInv, Typed, SideBySide, ChildrenFollow
  <2>3. /\ attempts' \in 0 .. MaxAttempts
        /\ \/ ctr' = "unwind"
           \/ ctr' = "drop" /\ listening
           \/ ctr' = "probe" /\ attempts' < MaxAttempts
    BY <2>1, <2>2, ClientAssumption
  <2>4. Typed'
    BY <1>1, <2>1, <2>3 DEF ClientInv, Typed, CtrPc
  <2>5. SideBySide'
    <3>1. CtrFollows'
      BY <1>1, <1>2, <2>1, <2>3 DEF ClientInv, SideBySide, CtrFollows, Unmasked
    <3>2. ChildrenFollow'
      BY <1>1, <2>1, <2>3 DEF ClientInv, SideBySide, ChildrenFollow, CtrUnmasked
    <3>3. NeedsMet' /\ Dropped'
      BY <1>1, <1>2, <2>1, <2>3 DEF ClientInv, SideBySide, ChildrenFollow, NeedsMet, Dropped, addrVars
    <3> QED BY <3>1, <3>2, <3>3 DEF SideBySide
  <2> QED BY <1>3, <2>4, <2>5, BoxKeepsInv
<1> QED BY <1>4, <1>5

\* The container becomes the user for good.
LEMMA DropKeepsInv ==
    ASSUME ClientInv, ContainerDrops
    PROVE  ClientInv'
<1>1. /\ UNCHANGED <<pc, built, kernelWillDestroy, pending, dev, rules, lost, hungUp, proc, listening, attempts,
                     started, escaped, user, faults, signals, nbr, addrVars>>
      /\ ctr = "drop" /\ ctr' = "fork"
      /\ cred' = [cred EXCEPT !["container"] = drop_privileges(cred["container"])]
  BY DEF ContainerDrops, CtrGoto, main, host, env
<1>2. Objects' = Objects
  BY <1>1 DEF Objects, ObjectsOf
<1>3. /\ drop_privileges(cred["container"]) \in Credentials
      /\ drop_privileges(cred["container"]).s = user /\ drop_privileges(cred["container"]).r = user
  BY DEF drop_privileges, Credentials, ClientInv, Typed, SideBySide, Dropped
<1>4. /\ cred' \in [{"main", "container", "splitter"} -> Credentials] /\ cred'["main"] = cred["main"]
      /\ cred'["container"].s = user /\ cred'["container"].r = user /\ cred'["splitter"] = cred["splitter"]
  BY <1>1, <1>3 DEF ClientInv, Typed
<1>5. Typed'
  BY <1>1, <1>4 DEF ClientInv, Typed, CtrPc
<1>6. SideBySide'
  BY <1>1, <1>2, <1>4
     DEF ClientInv, SideBySide, CtrFollows, ChildrenFollow, NeedsMet, Dropped, CtrUnmasked, Unmasked, addrVars
<1>7. BoxOnly
  BY <1>1, <1>4 DEF BoxOnly, ClientInv, Typed
<1> QED BY <1>5, <1>6, <1>7, BoxKeepsInv

\* The command is forked: it starts unless that would make it root.
LEMMA ForkCommandKeepsInv ==
    ASSUME ClientInv, ForkCommand
    PROVE  ClientInv'
<1>1. /\ UNCHANGED <<pc, built, kernelWillDestroy, pending, dev, rules, lost, hungUp, listening, attempts,
                     escaped, user, faults, signals, nbr, cred, addrVars>>
      /\ ctr = "fork" /\ ctr' = "serve"
  BY DEF ForkCommand, CtrGoto, main, host, env
<1>2. Objects' = Objects
  BY <1>1 DEF Objects, ObjectsOf
<1>3. PICK how \in {"run", "ended"} : proc' = [proc EXCEPT !["command"] = how]
  BY DEF ForkCommand
<1>4. /\ proc' \in [{"splitter", "dnsmasq", "command"} -> {"none", "run", "told", "ended"}]
      /\ proc'["splitter"] = proc["splitter"] /\ proc'["dnsmasq"] = proc["dnsmasq"]
  BY <1>3 DEF ClientInv, Typed
<1>5. started' \in BOOLEAN /\ (started' => cred["container"].e # "root")
  BY Zenon DEF ForkCommand, CanRun
<1>6. Typed'
  BY <1>1, <1>4, <1>5 DEF ClientInv, Typed, CtrPc
<1>7. SideBySide'
  <2>1. CtrFollows' /\ ChildrenFollow'
    BY <1>1, <1>2, <1>4 DEF ClientInv, SideBySide, CtrFollows, ChildrenFollow, CtrUnmasked, Unmasked
  <2>2. NeedsMet' /\ Dropped'
    BY <1>1, <1>2, <1>4, <1>5 DEF ClientInv, SideBySide, NeedsMet, Dropped, addrVars
  <2> QED BY <2>1, <2>2 DEF SideBySide
<1>8. BoxOnly
  BY <1>1 DEF BoxOnly, ClientInv, Typed
<1> QED BY <1>6, <1>7, <1>8, BoxKeepsInv

\* A child of main or of the container that runs is told to end, or ends.
LEMMA ChildKeepsInv ==
    ASSUME ClientInv, StopDnsmasq \/ HangUpCommand \/ ServiceEnds \/ CommandEnds \/ CommandObeys
    PROVE  ClientInv'
<1>1. /\ UNCHANGED <<pc, built, kernelWillDestroy, pending, dev, rules, lost, ctr, hungUp, listening, attempts,
                     started, escaped, user, signals, nbr, cred, addrVars>>
      /\ faults' \in 0 .. MaxFaults
  BY ClientAssumption
     DEF StopDnsmasq, HangUpCommand, ServiceEnds, CommandEnds, CommandObeys, main, host, env, ClientInv, Typed
<1>2. Objects' = Objects
  BY <1>1 DEF Objects, ObjectsOf
<1>3. PICK p \in {"splitter", "dnsmasq", "command"}, how \in {"told", "ended"} :
        /\ proc' = [proc EXCEPT ![p] = how]
        /\ proc[p] \in {"run", "told"}
        /\ how = "told" => p = "command" /\ ctr = "unwind"
  BY DEF StopDnsmasq, HangUpCommand, ServiceEnds, CommandEnds, CommandObeys
<1>4. /\ proc' \in [{"splitter", "dnsmasq", "command"} -> {"none", "run", "told", "ended"}]
      /\ \A c \in {"splitter", "dnsmasq", "command"} :
            /\ proc'[c] = "none" <=> proc[c] = "none"
            /\ proc'[c] = "run" => proc[c] = "run"
      /\ proc'["command"] \in {"run", "told"} => proc["command"] \in {"run", "told"}
  BY <1>3 DEF ClientInv, Typed
<1>5. Typed'
  BY <1>1, <1>4 DEF ClientInv, Typed
<1>6. SideBySide'
  <2>1. CtrFollows' /\ ChildrenFollow'
    BY <1>1, <1>2, <1>4 DEF ClientInv, SideBySide, CtrFollows, ChildrenFollow
  <2>2. NeedsMet' /\ Dropped'
    BY <1>1, <1>2, <1>4 DEF ClientInv, SideBySide, NeedsMet, Dropped, addrVars
  <2> QED BY <2>1, <2>2 DEF SideBySide
<1>7. BoxOnly
  BY <1>1 DEF BoxOnly
<1> QED BY <1>5, <1>6, <1>7, BoxKeepsInv

\* dnsmasq begins to listen; the command becomes another user.
LEMMA FlagKeepsInv ==
    ASSUME ClientInv, DnsmasqListens \/ CommandChangesUser
    PROVE  ClientInv'
<1>1. /\ UNCHANGED <<pc, built, kernelWillDestroy, pending, dev, rules, lost, ctr, hungUp, proc, attempts,
                     started, user, faults, signals, nbr, cred, addrVars>>
      /\ \/ listening' = TRUE /\ escaped' = escaped
         \/ escaped' = TRUE /\ listening' = listening
  BY DEF DnsmasqListens, CommandChangesUser, main, host, env
<1>2. Objects' = Objects
  BY <1>1 DEF Objects, ObjectsOf
<1>3. Typed'
  BY <1>1 DEF ClientInv, Typed
<1>4. SideBySide'
  BY <1>1, <1>2 DEF ClientInv, SideBySide, CtrFollows, ChildrenFollow, NeedsMet, Dropped, addrVars
<1>5. BoxOnly
  BY <1>1 DEF BoxOnly, ClientInv, Typed
<1> QED BY <1>3, <1>4, <1>5, BoxKeepsInv

-----------------------------------------------------------------------------
(* The kernel, signals and the other clients.                              *)

\* The namespace goes, and the devices with it, when nobody is left in it.
LEMMA NamespaceKeepsInv ==
    ASSUME ClientInv, NamespaceEnds
    PROVE  ClientInv'
<1>1. /\ UNCHANGED <<pc, built, kernelWillDestroy, pending, rules, lost, box, user, faults, signals, nbr, cred>>
      /\ dev = "split" /\ dev' = "none" /\ ctr = "ended" /\ Withdraw(Me)
      /\ proc["command"] \in {"none", "ended"}
  BY DEF NamespaceEnds, main, env
<1>2. Objects' = Objects
  BY <1>1 DEF Objects, ObjectsOf
<1>3. Typed'
  BY <1>1 DEF ClientInv, Typed, box
<1>4. SetUp'
  BY <1>1, <1>2
     DEF ClientInv, SetUp, IsStack, Beginning, StackAt, RulesAccounted, DevicesAccounted, MainCanRun, Unmasked
<1>5. pc \notin NotYetUp /\ pc # "pre"
  BY <1>1 DEF ClientInv, SetUp, DevicesAccounted, NotYetUp, Looking
<1>6. SideBySide'
  BY <1>1, <1>2, <1>5 DEF ClientInv, SideBySide, CtrFollows, ChildrenFollow, NeedsMet, Dropped, box
<1>7. AddrInv'
  BY <1>1, <1>5, MainAt, WithdrawKeepsAddresses DEF ClientInv
<1> QED BY <1>3, <1>4, <1>6, <1>7 DEF ClientInv

\* SIGINT, as far as main and the host go.
LEMMA InterruptKeepsSetUp ==
    ASSUME ClientInv, MainInterrupted, UNCHANGED <<user, cred>>
    PROVE  /\ SetUp' /\ pc' \in MainPc /\ kernelWillDestroy' = kernelWillDestroy
           /\ rules' = rules /\ lost' \subseteq Rules \cup {"veth"}
           /\ (pc' = pc \/ pc' \in {"unwind", "killed"})
           /\ Objects' \subseteq Objects /\ ("loop" \in Objects => "loop" \in Objects')
           /\ (dev' = dev \/ (pc = "move" /\ pc' = "unwind" /\ dev' \in {"host", "split"}))
<1>0. /\ SetUp /\ pc \in MainPc /\ lost \subseteq Rules \cup {"veth"}
      /\ UNCHANGED user /\ cred' = cred
  BY DEF ClientInv, Typed
<1>1. CASE pc \in Unmasked /\ pc' = "killed" /\ UNCHANGED <<built, kernelWillDestroy, pending, host>>
  <2>0. kernelWillDestroy' = kernelWillDestroy /\ rules' = rules /\ dev' = dev /\ lost' = lost
    BY <1>1 DEF host
  <2>1. SetUp'
    BY <1>0, <1>1, LeaveKeepsSetUp DEF host
  <2>2. Objects' = Objects
    BY <1>1 DEF Objects, ObjectsOf
  <2> QED BY <1>0, <1>1, <2>0, <2>1, <2>2 DEF MainPc
<1>2. CASE pending' = TRUE /\ UNCHANGED <<pc, built, kernelWillDestroy, host>>
  <2>0. pc' = pc /\ kernelWillDestroy' = kernelWillDestroy /\ rules' = rules /\ dev' = dev /\ lost' = lost
    BY <1>2 DEF host
  <2>1. SetUp'
    BY <1>0, <1>2, KeptSetUp DEF host
  <2>2. Objects' = Objects
    BY <1>2 DEF Objects, ObjectsOf
  <2> QED BY <1>0, <2>0, <2>1, <2>2
<1>3. CASE /\ Goto("move", "unwind") /\ pending' = TRUE
           /\ \E d \in {"host", "split"} : dev' = d
           /\ UNCHANGED <<built, kernelWillDestroy, rules, lost>>
  <2>1. Objects' = Objects
    BY <1>3 DEF Objects, ObjectsOf
  <2>2. pc = "move" /\ pc' = "unwind" /\ dev' \in {"host", "split"} /\ ~kernelWillDestroy
    BY <1>0, <1>3 DEF Goto, SetUp, DevicesAccounted
  <2>3. "veth" \in Objects
    <3>1. IsStack /\ Len(built) = 5
      BY <1>0, <2>2 DEF SetUp, StackAt
    <3> QED BY <3>1, StackFacts
  <2>4. SetUp'
    BY <1>0, <1>3, <2>1, <2>2, <2>3
       DEF SetUp, IsStack, Beginning, StackAt, RulesAccounted, DevicesAccounted, MainCanRun, Unmasked
  <2> QED BY <1>0, <1>3, <2>1, <2>2, <2>4 DEF MainPc
<1>4. CASE /\ pc = "unwind"
           /\ Top \in Rules \/ (Top = "veth" /\ ~kernelWillDestroy)
           /\ Pop /\ lost' = lost \cup {Top} /\ pending' = TRUE
           /\ UNCHANGED <<pc, kernelWillDestroy, dev, rules>>
  <2>1. Top \in Rules \cup {"veth"} /\ Top # "none" /\ Top # "loop"
    BY <1>4 DEF Rules
  <2>2. IsStack' /\ Objects' = Objects \ {Top} /\ "loop" \notin Objects
    BY <1>0, <1>4, <2>1, PopTakesTop DEF SetUp
  <2>3. RulesAccounted' /\ DevicesAccounted'
    BY <1>0, <1>4, <2>2 DEF SetUp, RulesAccounted, DevicesAccounted
  <2>4. StackAt' /\ MainCanRun'
    <3>1. pc' = "unwind" /\ MainCanRun
      BY <1>0, <1>4 DEF SetUp
    <3>2. StackAt'
      BY <3>1 DEF StackAt
    <3>3. MainCanRun'
      BY <1>0, <1>4, <3>1 DEF MainCanRun
    <3> QED BY <3>2, <3>3
  <2> QED BY <1>0, <1>4, <2>1, <2>2, <2>3, <2>4 DEF SetUp
<1> QED BY <1>1, <1>2, <1>3, <1>4 DEF MainInterrupted

\* SIGINT: the container that is not masked ends; so does the splitter client, and so may
\* dnsmasq and the command.
LEMMA InterruptKeepsInv ==
    ASSUME ClientInv, Interrupt
    PROVE  ClientInv'
<1>1. /\ UNCHANGED <<listening, attempts, started, escaped, user, faults, nbr, cred, addrVars>>
      /\ MainInterrupted /\ signals < MaxSignals /\ signals' = signals + 1
      /\ ctr' = (IF ctr \in CtrUnmasked THEN "ended" ELSE ctr)
  BY DEF Interrupt
<1>2. hungUp' \in BOOLEAN
  BY Zenon DEF Interrupt
<1>3. signals' \in 0 .. MaxSignals
  BY <1>1, ClientAssumption DEF ClientInv, Typed
<1>4. PICK hit \in SUBSET {"dnsmasq", "command"} :
        proc' = [p \in DOMAIN proc |->
                    IF proc[p] = "run" /\ p \in hit \cup {"splitter"} THEN "ended" ELSE proc[p]]
  BY DEF Interrupt
<1>5. /\ proc' \in [{"splitter", "dnsmasq", "command"} -> {"none", "run", "told", "ended"}]
      /\ \A c \in {"splitter", "dnsmasq", "command"} :
            /\ proc'[c] = "none" <=> proc[c] = "none"
            /\ proc'[c] = "run" => proc[c] = "run"
            /\ proc'[c] \in {"run", "told"} => proc[c] \in {"run", "told"}
  BY <1>4 DEF ClientInv, Typed
<1>6. /\ SetUp' /\ pc' \in MainPc /\ kernelWillDestroy' = kernelWillDestroy
      /\ rules' = rules /\ lost' \subseteq Rules \cup {"veth"}
      /\ (pc' = pc \/ pc' \in {"unwind", "killed"})
      /\ Objects' \subseteq Objects /\ ("loop" \in Objects => "loop" \in Objects')
      /\ (dev' = dev \/ (pc = "move" /\ pc' = "unwind" /\ dev' \in {"host", "split"}))
  BY <1>1, InterruptKeepsSetUp
<1>11. pending' \in BOOLEAN
  <2>1. pending' = pending \/ pending' = TRUE
    BY <1>1, Zenon DEF MainInterrupted
  <2>2. pending \in BOOLEAN
    BY DEF ClientInv, Typed
  <2> QED BY <2>1, <2>2, Zenon
<1>7. Typed'
  BY <1>1, <1>2, <1>3, <1>5, <1>6, <1>11 DEF ClientInv, Typed, CtrPc
<1>8. pc = "move" => ctr \in {"wait", "ended"} /\ dev = "host"
  BY DEF ClientInv, SideBySide, CtrFollows, SetUp, DevicesAccounted
<1>9. SideBySide'
  <2>1. CtrFollows'
    BY <1>1, <1>5, <1>6 DEF ClientInv, SideBySide, CtrFollows, CtrUnmasked, Unmasked
  <2>2. ChildrenFollow'
    BY <1>1, <1>5 DEF ClientInv, SideBySide, ChildrenFollow, CtrUnmasked
  <2>3. NeedsMet'
    BY <1>1, <1>5, <1>6, <1>8 DEF ClientInv, SideBySide, NeedsMet, CtrUnmasked, addrVars
  <2>4. Dropped'
    BY <1>1, <1>5 DEF ClientInv, SideBySide, Dropped
  <2> QED BY <2>1, <2>2, <2>3, <2>4 DEF SideBySide
<1>10. AddrInv'
  <2>1. CASE pc' = pc
    BY <1>1, <2>1, StillAddresses DEF ClientInv
  <2>2. CASE pc' \in {"unwind", "killed"}
    BY <1>1, <2>2, MainAt, KeptAddresses DEF ClientInv, NotYetUp, Looking
  <2> QED BY <1>6, <2>1, <2>2
<1> QED BY <1>6, <1>7, <1>9, <1>10 DEF ClientInv

\* Another client, which touches nothing but addresses.
LEMMA NeighbourKeepsInv ==
    ASSUME ClientInv, NEW q \in Clients \ {Me}, Neighbour(q)
    PROVE  ClientInv'
<1>1. PICK to \in {"routes", "addr", "up", "serve", "ended"} :
        nbr' = [nbr EXCEPT ![q] = to] /\ nbr'[q] = to
  BY DEF Neighbour, NeighbourGoto, ClientInv, Typed
<1>2. UNCHANGED <<dev, rules, lost, pc, built, kernelWillDestroy, pending, box, user, faults, signals, cred>>
  BY DEF Neighbour, NeighbourGoto, host, main
<1>3. q \in Clients /\ q # Me /\ At(q) = nbr[q] /\ Moves(q, to)
  <2>1. \A r \in Clients \ {Me} : r # q => nbr'[r] = nbr[r]
    BY <1>1 DEF ClientInv, Typed
  <2> QED BY <1>1, <1>2, <2>1 DEF At, Moves
<1>4. AddrInv'
  <2>1. CASE nbr[q] = "ifaddrs" /\ to = "routes" /\ getifaddrs(q)
    BY <1>3, <2>1, LookKeepsAddresses DEF ClientInv
  <2>2. CASE nbr[q] = "routes" /\ to = "addr" /\ two_unassigned_addresses(q)
    BY <1>3, <2>2, ChooseKeepsAddresses DEF ClientInv
  <2>3. CASE nbr[q] = "addr" /\ to = "up" /\ SetAddress(q)
    BY <1>3, <2>3, SetKeepsAddresses DEF ClientInv
  <2>4. CASE nbr[q] = "up" /\ to = "serve" /\ BringUp(q)
    BY <1>3, <2>4, UpKeepsAddresses DEF ClientInv, NotYetUp, Looking
  <2>5. CASE nbr[q] = "serve" /\ to = "ended" /\ Withdraw(q)
    BY <1>3, <2>5, WithdrawKeepsAddresses DEF ClientInv, NotYetUp, Looking
  <2> QED BY <1>1, <2>1, <2>2, <2>3, <2>4, <2>5 DEF Neighbour, NeighbourGoto, ClientInv, Typed
<1>5. Me \in routed => Me \in routed'
  BY <1>3 DEF Neighbour, getifaddrs, two_unassigned_addresses, SetAddress, BringUp, Withdraw
<1>6. Objects' = Objects
  BY <1>2 DEF Objects, ObjectsOf
<1>7. Typed'
  BY <1>1, <1>2 DEF ClientInv, Typed, box
<1>8. SetUp'
  BY <1>2, KeptSetUp DEF ClientInv
<1>9. SideBySide'
  BY <1>2, <1>5, <1>6 DEF ClientInv, SideBySide, CtrFollows, ChildrenFollow, NeedsMet, Dropped, box
<1> QED BY <1>4, <1>7, <1>8, <1>9 DEF ClientInv

-----------------------------------------------------------------------------
(* The theorems.                                                           *)

\* The invariant holds in every state.
THEOREM ClientSafe == Spec => []ClientInv
<1>1. ClientInv /\ [Next]_vars => ClientInv'
  <2> SUFFICES ASSUME ClientInv, [Next]_vars PROVE ClientInv'
    OBVIOUS
  <2>1. CASE MainStep \/ MainThrows
    <3>1. CASE Unwind
      BY <3>1, HangUpKeepsInv, DestroyKeepsInv, RemoveDevicesKeepsInv, RemoveRuleKeepsInv, LeaveKeepsInv DEF Unwind
    <3> QED BY <2>1, <3>1, MoveKeepsInv, VethKeepsInv, RuleKeepsInv, LoopKeepsInv, CloneKeepsInv, GiveKeepsInv,
               GoKeepsInv, ForkKeepsInv, ServeKeepsInv, LeaveKeepsInv DEF MainStep
  <2>2. CASE ContainerStep \/ ContainerThrows
    BY <2>2, ContainerMoveKeepsInv, DnsmasqKeepsInv, DropKeepsInv, ForkCommandKeepsInv, ChildKeepsInv
       DEF ContainerStep
  <2>3. CASE Environment
    BY <2>3, FlagKeepsInv, ChildKeepsInv, NamespaceKeepsInv, InterruptKeepsInv, LeaveKeepsInv, NeighbourKeepsInv
       DEF Environment
  <2>4. CASE UNCHANGED vars
    <3>1. /\ UNCHANGED <<pc, built, kernelWillDestroy, pending, dev, rules, lost, box, user, faults, signals, nbr,
                         cred, addrVars>>
      BY <2>4 DEF vars, host, main, env
    <3>2. SetUp' /\ AddrInv'
      BY <3>1, KeptSetUp, StillAddresses DEF ClientInv
    <3>3. SideBySide'
      BY <3>1, KeptSideBySide DEF ClientInv, addrVars
    <3>4. Typed'
      BY <3>1 DEF ClientInv, Typed, box
    <3> QED BY <3>2, <3>3, <3>4 DEF ClientInv
  <2> QED BY <2>1, <2>2, <2>3, <2>4 DEF Next
<1> QED BY <1>1, InvInitially, PTL DEF Spec

\* Every variable keeps its type, and main's objects are a beginning of the order of
\* their construction, however construction and destruction are interrupted.
THEOREM TypeCorrect == Spec => []TypeOK
<1>1. ClientInv => TypeOK
  <2> SUFFICES ASSUME ClientInv PROVE TypeOK
    OBVIOUS
  <2>1. IsPrefix(built, Order)
    BY StacksArePrefixes DEF ClientInv, SetUp
  <2>2. IsPrefix(built, <<"veth", "pre", "post", "dnat", "loop">>)
    BY <2>1, Zenon DEF Order
  <2>3. {kernelWillDestroy, pending, hungUp, listening, started, escaped} \subseteq BOOLEAN
    BY Zenon DEF ClientInv, Typed
  <2>4. AddrTypeOK
    BY DEF ClientInv, AddrInv
  <2> QED BY <2>2, <2>3, <2>4 DEF ClientInv, Typed, TypeOK
<1> QED BY <1>1, ClientSafe, PTL

\* When main ends by itself, everything it has set up is gone, but for what could not be
\* removed.
THEOREM NothingIsLeft == Spec => []NothingLeft
<1>1. ClientInv => NothingLeft
  <2> SUFFICES ASSUME ClientInv, pc = "ended" PROVE NothingLeft
    BY DEF NothingLeft
  <2>1. Objects = {}
    <3>1. IsStack /\ Len(built) = 0
      BY DEF ClientInv, SetUp, StackAt
    <3> QED BY <3>1, StackFacts
  <2>2. rules \subseteq lost /\ (dev = "host" => "veth" \in lost)
    BY <2>1 DEF ClientInv, SetUp, RulesAccounted, DevicesAccounted
  <2>3. ctr \in {"none", "ended"} /\ proc["splitter"] # "run" /\ proc["dnsmasq"] # "run"
    BY <2>1 DEF ClientInv, SideBySide, CtrFollows, ChildrenFollow
  <2> QED BY <2>2, <2>3 DEF NothingLeft
<1> QED BY <1>1, ClientSafe, PTL

\* The command has its device, its three rules, its route and a dnsmasq that has answered,
\* from its start to its end, whatever main and the container do meanwhile.
THEOREM CommandAlwaysServed == Spec => []CommandServed
<1>1. ClientInv => CommandServed
  <2> SUFFICES ASSUME ClientInv, proc["command"] \in {"run", "told"}, ~escaped
               PROVE  rules = Rules /\ dev = "split" /\ Me \in routed /\ listening
    BY DEF CommandServed
  <2>1. ctr \in {"serve", "unwind"}
    BY DEF ClientInv, Typed, SideBySide, ChildrenFollow, CtrPc
  <2>2. "loop" \in Objects
    BY <2>1 DEF ClientInv, SideBySide, CtrFollows
  <2>3. Objects = {"veth", "pre", "post", "dnat", "loop"}
    <3>1. IsStack
      BY DEF ClientInv, SetUp
    <3> QED BY <2>2, <3>1, StackFacts
  <2>4. rules = Rules
    BY <2>3 DEF ClientInv, Typed, SetUp, RulesAccounted, Rules
  <2>5. dev = "split" /\ listening
    BY <2>1 DEF ClientInv, SideBySide, NeedsMet
  <2>6. Me \in routed
    BY <2>3, <2>5 DEF ClientInv, SideBySide, NeedsMet
  <2> QED BY <2>4, <2>5, <2>6
<1> QED BY <1>1, ClientSafe, PTL

\* The command never runs as root; and it and the splitter client cannot become root
\* again.
THEOREM CommandNeverRoot == Spec => []NeverRoot
<1>1. ClientInv => NeverRoot
  BY DEF ClientInv, SideBySide, Dropped, NeverRoot
<1> QED BY <1>1, ClientSafe, PTL

\* A client takes two addresses that neither the host nor a client that was up before uses.
THEOREM AddressesAlwaysDistinct == Spec => []AddressesDistinct
<1>1. ClientInv => AddressesDistinct
  BY DEF ClientInv, AddrInv
<1> QED BY <1>1, ClientSafe, PTL
=============================================================================
