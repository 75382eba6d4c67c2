----------------------------- MODULE HostAddresses -----------------------------
(***************************************************************************)
(* The 100.64.0.x addresses of one host, which koho-clients divide among   *)
(* themselves without talking to each other.  A client looks at what is in *)
(* use, picks the first two free octets, and only later, when its device   *)
(* exists, puts them there for others to see: the egress address appears   *)
(* in getifaddrs with SIOCSIFADDR, the ingress address as a route when the *)
(* device is brought up.                                                   *)
(***************************************************************************)
EXTENDS Naturals, FiniteSets, FiniteSetsExt

CONSTANTS
    Clients,    \* the koho-clients of the host
    MaxOctet,   \* 255 in the code
    Occupied    \* what the rest of the host may use: sets of octets

ASSUME AddressAssumption ==
    /\ MaxOctet \in Nat
    /\ Occupied \subseteq SUBSET (1 .. MaxOctet)

Octet == 1 .. MaxOctet
NoOctet == 0

VARIABLES
    occupied,   \* octets used by the rest of the host
    found,      \* addresses_in_use_ after getifaddrs, by client
    addrs,      \* the two addresses a client has chosen
    assigned,   \* clients whose device has its egress address
    routed,     \* clients whose device is up: the route to the ingress exists
    before      \* history: clients that were up when a client began to look

addrVars == <<occupied, found, addrs, assigned, routed, before>>

AddrInit ==
    /\ occupied \in Occupied
    /\ found = [p \in Clients |-> {}]
    /\ addrs = [p \in Clients |-> [egress |-> NoOctet, ingress |-> NoOctet]]
    /\ assigned = {}
    /\ routed = {}
    /\ before = [p \in Clients |-> {}]

-----------------------------------------------------------------------------

\* Interfaces::Interfaces, first half: the addresses getifaddrs finds.
getifaddrs(p) ==
    /\ found' = [found EXCEPT ![p] = occupied \cup {addrs[q].egress : q \in assigned}]
    /\ before' = [before EXCEPT ![p] = routed]
    /\ UNCHANGED <<occupied, addrs, assigned, routed>>

\* Fault: the destinations of routes are not looked at.
ReadNoRoutes == {}

\* Interfaces::Interfaces, second half: the destinations in /proc/net/route.
ReadRoutes == {addrs[q].ingress : q \in routed}

\* first_unassigned_address, given the addresses in use: it throws when nothing is free.
Free(used, from) == {o \in from .. MaxOctet : o \notin used}
first_unassigned_address(used, from) == Min(Free(used, from))

\* two_unassigned_addresses, from the second half of the constructor on.
Exhausted(p) ==
    LET used == found[p] \cup ReadRoutes
    IN  \/ Free(used, 1) = {}
        \/ Free(used, first_unassigned_address(used, 1) + 1) = {}

two_unassigned_addresses(p) ==
    LET used == found[p] \cup ReadRoutes
        one == first_unassigned_address(used, 1)
        two == first_unassigned_address(used, one + 1)
    IN  /\ ~Exhausted(p)
        /\ addrs' = [addrs EXCEPT ![p] = [egress |-> one, ingress |-> two]]
        /\ UNCHANGED <<occupied, found, assigned, routed, before>>

\* assign_address: SIOCSIFADDR; then SIOCSIFDSTADDR and SIOCSIFNETMASK, which
\* nobody else sees, and IFF_UP.
SetAddress(p) ==
    /\ assigned' = assigned \cup {p}
    /\ UNCHANGED <<occupied, found, addrs, routed, before>>

BringUp(p) ==
    /\ routed' = routed \cup {p}
    /\ UNCHANGED <<occupied, found, addrs, assigned, before>>

\* The device goes away, and its address and route with it.
Withdraw(p) ==
    /\ assigned' = assigned \ {p}
    /\ routed' = routed \ {p}
    /\ UNCHANGED <<occupied, found, addrs, before>>

-----------------------------------------------------------------------------

AddrTypeOK ==
    /\ occupied \subseteq Octet
    /\ found \in [Clients -> SUBSET Octet]
    /\ addrs \in [Clients -> [egress : Octet \cup {NoOctet}, ingress : Octet \cup {NoOctet}]]
    /\ assigned \subseteq Clients /\ routed \subseteq assigned
    /\ before \in [Clients -> SUBSET Clients]

Pair(p) == {addrs[p].egress, addrs[p].ingress} \ {NoOctet}

\* A client takes two addresses that nothing on the host uses; in particular not those of a
\* koho-client that was up when it began to look, and that is still up.  (Two clients that look at
\* the same time may pick the same: nothing reserves an address between the look and the assignment.)
AddressesDistinct ==
    \A p \in Clients :
        /\ Pair(p) \cap occupied = {}
        /\ Cardinality(Pair(p)) \in {0, 2}
        /\ \A q \in before[p] \cap routed : q # p => Pair(p) \cap Pair(q) = {}
=============================================================================
