------------------------------ MODULE KohoClient ------------------------------
(***************************************************************************)
(* main() of koho-client: how it sets the host up, starts its children,    *)
(* serves, and takes everything down again.                                *)
(*                                                                         *)
(* The main process runs as root.  It acquires a veth pair and three NAT   *)
(* rules as objects on its stack, blocks signals (EventLoop), clones a     *)
(* container into a new network namespace, hands it one end of the veth    *)
(* pair, and tells it to go on; then it forks the splitter client and      *)
(* waits.  The container configures its end, starts dnsmasq, drops its     *)
(* privileges, forks the user's command and waits too.  Whichever way main *)
(* leaves its try block, destructors undo what was done, last first.       *)
(*                                                                         *)
(* The kernel, dnsmasq, the command, the senders of signals and the other  *)
(* koho-clients of the host are the environment.                           *)
(***************************************************************************)
EXTENDS HostAddresses, Sequences, SequencesExt

CONSTANTS
    Me,             \* the koho-client whose processes are modelled
    Users,          \* who may start it
    MaxAttempts,    \* 20 in start_dnsmasq
    MaxFaults,      \* system calls and programs that fail
    MaxSignals      \* signals from outside (SIGINT to the process group, SIGKILL)

ASSUME ClientAssumption ==
    /\ Me \in Clients
    /\ Users \subseteq {"root", "user"}
    /\ MaxAttempts \in Nat \ {0} /\ MaxFaults \in Nat /\ MaxSignals \in Nat

\* Before EventLoop's constructor a signal kills main.
Unmasked == {"start", "ifaddrs", "routes", "veth", "addr", "up", "pre", "post", "listen", "dnat", "mask"}
MainPc == Unmasked \cup {"clone", "move", "go", "fork", "enter", "serve", "unwind", "ended", "killed"}

\* The container is unmasked until its own EventLoop is constructed.
CtrUnmasked == {"wait", "lo", "addr", "route", "mask"}
CtrPc == CtrUnmasked \cup {"none", "dns", "spawn", "probe", "drop", "fork", "serve", "unwind", "ended"}

Rules == {"pre", "post", "dnat"}
Credentials == [r : Users \cup {"root"}, e : Users \cup {"root"}, s : Users \cup {"root"}]

VARIABLES
    user,       \* real uid of whoever started koho-client
    pc,         \* next step of main
    built,      \* objects on main's stack, oldest first
    kernelWillDestroy, \* kernel_will_destroy_ of the veth pair
    pending,    \* main has a blocked SIGINT
    dev,        \* the veth pair: none, both ends on the host, or ingress in the container
    rules,      \* NAT rules of this client
    lost,       \* history: objects whose removal failed
    cred,       \* real, effective and saved uid of main, container and splitter client
    ctr,        \* next step of the container
    hungUp,     \* the container has a blocked SIGHUP or SIGINT
    proc,       \* splitter client, dnsmasq and command: none, run, told, ended
    listening,  \* dnsmasq answers queries
    attempts,   \* attempts in start_dnsmasq
    started,    \* history: the command was executed, with these uids
    escaped,    \* the command has become another user (a setuid program)
    faults, signals,
    nbr         \* next step of each other koho-client

host == <<dev, rules, lost>>
main == <<pc, built, kernelWillDestroy, pending>>
box == <<ctr, hungUp, proc, listening, attempts, started, escaped>>
env == <<user, faults, signals, nbr>>
vars == <<host, main, box, env, cred, addrVars>>

Init ==
    /\ user \in Users
    /\ pc = "start" /\ built = <<>> /\ kernelWillDestroy = FALSE /\ pending = FALSE
    /\ dev = "none" /\ rules = {} /\ lost = {}
    /\ cred = [p \in {"main", "container", "splitter"} |-> [r |-> user, e |-> "root", s |-> "root"]]
    /\ ctr = "none" /\ hungUp = FALSE
    /\ proc = [p \in {"splitter", "dnsmasq", "command"} |-> "none"]
    /\ listening = FALSE /\ attempts = 0 /\ started = FALSE /\ escaped = FALSE
    /\ faults = 0 /\ signals = 0
    /\ nbr = [q \in Clients \ {Me} |-> "ifaddrs"]
    /\ AddrInit

-----------------------------------------------------------------------------
(* User ids.                                                               *)

\* Fault: only the effective uid is changed; the saved one stays root.
KeepSavedUid(c) == [c EXCEPT !.e = c.r]

\* drop_privileges: setreuid(r, r) by root sets all three; it is checked that
\* root cannot be had back.
drop_privileges(c) == [r |-> c.r, e |-> c.r, s |-> c.r]

\* TemporarilyUnprivileged: seteuid(getuid()), and back to the original.
Unprivileged(c) == [c EXCEPT !.e = c.r]

\* Fault: the destructor does not go back.
NotRestored(c) == c

Restored(c) == [c EXCEPT !.e = IF "root" \in {c.r, c.s} THEN "root" ELSE c.e]

\* run() starts ip or iptables through ezexec; they work for root only.
CanRun(p) == cred[p].e = "root"

-----------------------------------------------------------------------------
(* main: setting up.                                                       *)

Goto(from, to) == pc = from /\ pc' = to

\* An object is constructed at one step.
Build(from, to, object) ==
    /\ Goto(from, to)
    /\ CanRun("main")
    /\ built' = Append(built, object)
    /\ UNCHANGED <<kernelWillDestroy, pending, lost, box, env, cred>>

check_requirements ==
    /\ Goto("start", "ifaddrs")
    /\ CanRun("main")
    /\ UNCHANGED <<built, kernelWillDestroy, pending, host, box, env, cred, addrVars>>

LookAtInterfaces ==
    /\ Goto("ifaddrs", "routes")
    /\ getifaddrs(Me)
    /\ UNCHANGED <<built, kernelWillDestroy, pending, host, box, env, cred>>

ChooseAddresses ==
    /\ \/ Goto("routes", "veth") /\ two_unassigned_addresses(Me)
       \/ Goto("routes", "unwind") /\ Exhausted(Me) /\ UNCHANGED addrVars
    /\ UNCHANGED <<built, kernelWillDestroy, pending, host, box, env, cred>>

VirtualEthernetPair ==
    /\ Build("veth", "addr", "veth")
    /\ dev' = "host"
    /\ UNCHANGED <<rules, addrVars>>

AssignEgress ==
    /\ \/ Goto("addr", "up") /\ SetAddress(Me)
       \/ Goto("up", "pre") /\ BringUp(Me)
    /\ UNCHANGED <<built, kernelWillDestroy, pending, host, box, env, cred>>

\* NAT has two rules as members, DNAT one.
NATRule(rule, to) ==
    /\ Build(rule, to, rule)
    /\ rules' = rules \cup {rule}
    /\ UNCHANGED <<dev, addrVars>>

\* TCP_Splitter_Client: its listener and its UDP socket.
OpenSockets ==
    /\ Goto("listen", "dnat")
    /\ UNCHANGED <<built, kernelWillDestroy, pending, host, box, env, cred, addrVars>>

EventLoop ==
    /\ Build("mask", "clone", "loop")
    /\ UNCHANGED <<dev, rules, addrVars>>

CloneContainer ==
    /\ Goto("clone", "move")
    /\ ctr' = "wait"
    /\ cred' = [cred EXCEPT !["container"] = cred["main"]]
    /\ UNCHANGED <<built, kernelWillDestroy, pending, host, hungUp, proc, listening, attempts,
                   started, escaped, env, addrVars>>

\* Fault: the container is told to go on before it has its device.
GiveIngressAfterGo ==
    /\ pc = "move"
    /\ IF ctr = "wait" THEN ctr' = "lo" /\ UNCHANGED <<dev, pc, kernelWillDestroy>>
       ELSE /\ ctr' = ctr
            /\ dev' = "split" /\ pc' = "go" /\ kernelWillDestroy' = TRUE
    /\ UNCHANGED <<built, pending, rules, lost, hungUp, proc, listening, attempts,
                   started, escaped, env, cred, addrVars>>

\* ip link set netns fails for a container that has ended.
GiveIngress ==
    /\ \/ /\ Goto("move", "go")
          /\ ctr # "ended"
          /\ dev' = "split"
          /\ kernelWillDestroy' = TRUE
       \/ /\ Goto("move", "unwind")
          /\ ctr = "ended"
          /\ UNCHANGED <<dev, kernelWillDestroy>>
    /\ UNCHANGED <<built, pending, rules, lost, box, env, cred, addrVars>>

\* pipe.first.write("x"): a container that lives is let go.
SendGo ==
    /\ Goto("go", "fork")
    /\ ctr' = IF ctr = "wait" THEN "lo" ELSE ctr
    /\ UNCHANGED <<built, kernelWillDestroy, pending, host, hungUp, proc, listening, attempts,
                   started, escaped, env, cred, addrVars>>

\* The splitter client drops its privileges before it serves.
ForkSplitter ==
    /\ Goto("fork", "enter")
    /\ proc' = [proc EXCEPT !["splitter"] = "run"]
    /\ cred' = [cred EXCEPT !["splitter"] = drop_privileges(cred["main"])]
    /\ UNCHANGED <<built, kernelWillDestroy, pending, host, ctr, hungUp, listening, attempts,
                   started, escaped, env, addrVars>>

EnterLoop ==
    /\ Goto("enter", "serve")
    /\ cred' = [cred EXCEPT !["main"] = Unprivileged(@)]
    /\ UNCHANGED <<built, kernelWillDestroy, pending, host, box, env, addrVars>>

\* A signal, or a child that has ended: exit or exception, main leaves the loop.
LeaveLoop ==
    /\ Goto("serve", "unwind")
    /\ pending \/ ctr = "ended" \/ proc["splitter"] = "ended"
    /\ cred' = [cred EXCEPT !["main"] = Restored(@)]
    /\ UNCHANGED <<built, kernelWillDestroy, pending, host, box, env, addrVars>>

\* Any step that calls the kernel or another program may throw.
MainThrows ==
    /\ pc \in Unmasked \cup {"clone", "move", "fork"}
    /\ pc # "mask"
    /\ faults < MaxFaults
    /\ faults' = faults + 1
    /\ pc' = "unwind"
    /\ UNCHANGED <<built, kernelWillDestroy, pending, host, box, user, signals, nbr, cred, addrVars>>

-----------------------------------------------------------------------------
(* main: destructors, last object first.                                   *)

Top == IF built = <<>> THEN "none" ELSE Last(built)

Unwinding(object) == pc = "unwind" /\ Top = object

\* Fault: the object that is gone is taken to be the oldest.
PopOldest == built' = Tail(built)

Pop == built' = Front(built)

\* ~ChildProcess of the container: SIGHUP, which is blocked once it has an
\* EventLoop; then wait().
HangUpContainer ==
    /\ Unwinding("loop")
    /\ ctr \notin {"none", "ended"} /\ ~hungUp
    /\ ctr' = IF ctr \in CtrUnmasked THEN "ended" ELSE ctr
    /\ hungUp' = TRUE
    /\ UNCHANGED <<main, host, proc, listening, attempts, started, escaped, env, cred, addrVars>>

\* The children are destroyed in the order in which they were added.
HangUpSplitter ==
    /\ Unwinding("loop")
    /\ ctr \in {"none", "ended"}
    /\ proc["splitter"] = "run"
    /\ proc' = [proc EXCEPT !["splitter"] = "ended"]
    /\ UNCHANGED <<main, host, ctr, hungUp, listening, attempts, started, escaped, env, cred, addrVars>>

DestroyLoop ==
    /\ Unwinding("loop")
    /\ ctr \in {"none", "ended"} /\ proc["splitter"] # "run"
    /\ Pop
    /\ UNCHANGED <<pc, kernelWillDestroy, pending, host, box, env, cred, addrVars>>

\* A removal by run(), whose exception is only printed.
Removal(object, removed) ==
    \/ /\ removed = CanRun("main")
       /\ UNCHANGED <<lost, faults>>
    \/ /\ removed = FALSE
       /\ faults < MaxFaults
       /\ faults' = faults + 1
       /\ lost' = lost \cup {object}

\* ~NATRule
RemoveRule(rule) ==
    /\ Unwinding(rule)
    /\ Pop
    /\ \E removed \in BOOLEAN :
        /\ Removal(rule, removed)
        /\ rules' = IF removed THEN rules \ {rule} ELSE rules
    /\ UNCHANGED <<pc, kernelWillDestroy, pending, dev, box, user, signals, nbr, cred, addrVars>>

\* ~VirtualEthernetPair
RemoveDevices ==
    /\ Unwinding("veth")
    /\ Pop
    /\ IF kernelWillDestroy
       THEN UNCHANGED <<dev, lost, faults, addrVars>>
       ELSE \E removed \in BOOLEAN :
            /\ Removal("veth", removed)
            /\ IF removed THEN dev' = "none" /\ Withdraw(Me) ELSE UNCHANGED <<dev, addrVars>>
    /\ UNCHANGED <<pc, kernelWillDestroy, pending, rules, box, user, signals, nbr, cred>>

End ==
    /\ Unwinding("none")
    /\ pc' = "ended"
    /\ UNCHANGED <<built, kernelWillDestroy, pending, host, box, env, cred, addrVars>>

Unwind == HangUpContainer \/ HangUpSplitter \/ DestroyLoop \/ RemoveDevices \/ End
            \/ \E rule \in Rules : RemoveRule(rule)

MainStep == check_requirements \/ LookAtInterfaces \/ ChooseAddresses \/ VirtualEthernetPair
            \/ AssignEgress \/ NATRule("pre", "post") \/ NATRule("post", "listen") \/ OpenSockets
            \/ NATRule("dnat", "mask") \/ EventLoop \/ CloneContainer \/ GiveIngress \/ SendGo
            \/ ForkSplitter \/ EnterLoop \/ LeaveLoop \/ Unwind

-----------------------------------------------------------------------------
(* The container.                                                          *)

CtrGoto(from, to) == ctr = from /\ ctr' = to

\* lo up; the address of the ingress, which must be here; the default route;
\* the EventLoop; the sockets of the DNS proxy.
Configure ==
    /\ \/ CtrGoto("lo", "addr")
       \/ CtrGoto("addr", IF dev = "split" THEN "route" ELSE "unwind")
       \/ CtrGoto("route", "mask")
       \/ CtrGoto("mask", "dns")
       \/ CtrGoto("dns", "spawn")
    /\ UNCHANGED <<host, main, hungUp, proc, listening, attempts, started, escaped, env, cred, addrVars>>

\* start_dnsmasq: fork, then probe with pairs of datagrams.
SpawnDnsmasq ==
    /\ CtrGoto("spawn", "probe")
    /\ proc' = [proc EXCEPT !["dnsmasq"] = "run"]
    /\ UNCHANGED <<host, main, hungUp, listening, attempts, started, escaped, env, cred, addrVars>>

\* Fault: one datagram is written and its fate not waited for.
ProbeOnce ==
    /\ CtrGoto("probe", "drop")
    /\ attempts' = attempts + 1
    /\ UNCHANGED <<host, main, hungUp, proc, listening, started, escaped, env, cred, addrVars>>

\* One attempt: nobody listening is known at the second write.
Probe ==
    /\ ctr = "probe"
    /\ attempts' = attempts + 1
    /\ ctr' = IF attempts' >= MaxAttempts THEN "unwind" ELSE IF listening THEN "drop" ELSE "probe"
    /\ UNCHANGED <<host, main, hungUp, proc, listening, started, escaped, env, cred, addrVars>>

ContainerDrops ==
    /\ CtrGoto("drop", "fork")
    /\ cred' = [cred EXCEPT !["container"] = drop_privileges(@)]
    /\ UNCHANGED <<host, main, hungUp, proc, listening, attempts, started, escaped, env, addrVars>>

\* ezexec refuses to be root with the user's environment and a search of PATH;
\* the child then ends at once.
ForkCommand ==
    /\ CtrGoto("fork", "serve")
    /\ proc' = [proc EXCEPT !["command"] = IF CanRun("container") THEN "ended" ELSE "run"]
    /\ started' = ~CanRun("container")
    /\ UNCHANGED <<host, main, hungUp, listening, attempts, escaped, env, cred, addrVars>>

ContainerLeavesLoop ==
    /\ CtrGoto("serve", "unwind")
    /\ hungUp \/ proc["dnsmasq"] = "ended" \/ proc["command"] = "ended"
    /\ UNCHANGED <<host, main, hungUp, proc, listening, attempts, started, escaped, env, cred, addrVars>>

\* Fault: ~ChildProcess waits but sends nothing.
WaitForDnsmasq ==
    /\ ctr = "unwind"
    /\ proc["dnsmasq"] = "told"
    /\ UNCHANGED vars

\* ~ChildProcess: SIGTERM to dnsmasq, wait.
StopDnsmasq ==
    /\ ctr = "unwind"
    /\ proc["dnsmasq"] = "run"
    /\ proc' = [proc EXCEPT !["dnsmasq"] = "ended"]
    /\ UNCHANGED <<host, main, ctr, hungUp, listening, attempts, started, escaped, env, cred, addrVars>>

\* ~ChildProcess: SIGHUP to the command, wait.  kill() is refused for a command
\* of another user: the destructor prints the exception and gives up.
MayKillCommand == ~escaped \/ CanRun("container")

HangUpCommand ==
    /\ ctr = "unwind"
    /\ proc["dnsmasq"] # "run"
    /\ proc["command"] = "run" /\ MayKillCommand
    /\ proc' = [proc EXCEPT !["command"] = "told"]
    /\ UNCHANGED <<host, main, ctr, hungUp, listening, attempts, started, escaped, env, cred, addrVars>>

\* _exit: the container runs no destructor of main's objects.
ContainerExits ==
    /\ CtrGoto("unwind", "ended")
    /\ proc["dnsmasq"] # "run"
    /\ proc["command"] \in {"none", "ended"} \/ (proc["command"] = "run" /\ ~MayKillCommand)
    /\ UNCHANGED <<host, main, hungUp, proc, listening, attempts, started, escaped, env, cred, addrVars>>

ContainerThrows ==
    /\ ctr \in {"lo", "addr", "route", "dns", "spawn", "probe", "drop", "fork"}
    /\ faults < MaxFaults
    /\ faults' = faults + 1
    /\ ctr' = "unwind"
    /\ UNCHANGED <<host, main, hungUp, proc, listening, attempts, started, escaped, user, signals, nbr,
                   cred, addrVars>>

ContainerStep == Configure \/ SpawnDnsmasq \/ Probe \/ ContainerDrops \/ ForkCommand
                    \/ ContainerLeavesLoop \/ StopDnsmasq \/ HangUpCommand \/ ContainerExits

-----------------------------------------------------------------------------
(* The environment.                                                        *)

DnsmasqListens ==
    /\ proc["dnsmasq"] = "run" /\ ~listening
    /\ listening' = TRUE
    /\ UNCHANGED <<host, main, ctr, hungUp, proc, attempts, started, escaped, env, cred, addrVars>>

\* dnsmasq or the splitter client ends by itself.
ServiceEnds ==
    /\ faults < MaxFaults
    /\ faults' = faults + 1
    /\ \E p \in {"dnsmasq", "splitter"} :
        proc[p] = "run" /\ proc' = [proc EXCEPT ![p] = "ended"]
    /\ UNCHANGED <<host, main, ctr, hungUp, listening, attempts, started, escaped, user, signals, nbr,
                   cred, addrVars>>

CommandEnds ==
    /\ proc["command"] = "run"
    /\ proc' = [proc EXCEPT !["command"] = "ended"]
    /\ UNCHANGED <<host, main, ctr, hungUp, listening, attempts, started, escaped, env, cred, addrVars>>

\* A command that was sent SIGHUP ends (it may take its time).
CommandObeys ==
    /\ proc["command"] = "told"
    /\ proc' = [proc EXCEPT !["command"] = "ended"]
    /\ UNCHANGED <<host, main, ctr, hungUp, listening, attempts, started, escaped, env, cred, addrVars>>

CommandChangesUser ==
    /\ proc["command"] = "run" /\ ~escaped
    /\ escaped' = TRUE
    /\ UNCHANGED <<host, main, ctr, hungUp, proc, listening, attempts, started, env, cred, addrVars>>

\* The last process of the namespace has ended: the ingress goes, and the egress with it.
NamespaceEnds ==
    /\ dev = "split" /\ ctr = "ended"
    /\ \A p \in {"dnsmasq", "command"} : proc[p] \in {"none", "ended"}
    /\ dev' = "none"
    /\ Withdraw(Me)
    /\ UNCHANGED <<rules, lost, main, box, env, cred>>

\* SIGINT and main: it dies, or the signal is blocked.  A program that main is
\* running has no mask and may die: the removal fails, the move throws.
MainInterrupted ==
    \/ /\ pc \in Unmasked
       /\ pc' = "killed"
       /\ UNCHANGED <<built, kernelWillDestroy, pending, host>>
    \/ /\ pc \notin Unmasked
       /\ pending' = TRUE
       /\ UNCHANGED <<pc, built, kernelWillDestroy, host>>
    \/ /\ Goto("move", "unwind")
       /\ pending' = TRUE
       /\ \E d \in {"host", "split"} : dev' = d /\ (d = "split" => ctr = "wait")
       /\ UNCHANGED <<built, kernelWillDestroy, rules, lost>>
    \/ /\ pc = "unwind"
       /\ Top \in Rules \/ (Top = "veth" /\ ~kernelWillDestroy)
       /\ Pop
       /\ lost' = lost \cup {Top}
       /\ pending' = TRUE
       /\ UNCHANGED <<pc, kernelWillDestroy, dev, rules>>

\* SIGINT to the process group.  The command may be in one of its own.
Interrupt ==
    /\ pc \notin {"ended", "killed"}
    /\ signals < MaxSignals
    /\ signals' = signals + 1
    /\ MainInterrupted
    /\ ctr' = IF ctr \in CtrUnmasked THEN "ended" ELSE ctr
    /\ hungUp' = (hungUp \/ ctr \notin {"none", "ended"})
    /\ \E hit \in SUBSET {"dnsmasq", "command"} :
        proc' = [p \in DOMAIN proc |->
                    IF proc[p] = "run" /\ p \in hit \cup {"splitter"} THEN "ended" ELSE proc[p]]
    /\ UNCHANGED <<listening, attempts, started, escaped, user, faults, nbr, cred, addrVars>>

\* SIGKILL, or the out-of-memory killer.
Kill ==
    /\ pc \notin {"ended", "killed"}
    /\ signals < MaxSignals
    /\ signals' = signals + 1
    /\ pc' = "killed"
    /\ UNCHANGED <<built, kernelWillDestroy, pending, host, box, user, faults, nbr, cred, addrVars>>

\* Another koho-client, as far as its addresses go.
NeighbourGoto(q, from, to) ==
    /\ nbr[q] = from
    /\ nbr' = [nbr EXCEPT ![q] = to]
    /\ UNCHANGED <<host, main, box, user, faults, signals, cred>>

Neighbour(q) ==
    \/ NeighbourGoto(q, "ifaddrs", "routes") /\ getifaddrs(q)
    \/ NeighbourGoto(q, "routes", "addr") /\ two_unassigned_addresses(q)
    \/ NeighbourGoto(q, "addr", "up") /\ SetAddress(q)
    \/ NeighbourGoto(q, "up", "serve") /\ BringUp(q)
    \/ NeighbourGoto(q, "serve", "ended") /\ Withdraw(q)

Environment == DnsmasqListens \/ ServiceEnds \/ CommandEnds \/ CommandObeys \/ CommandChangesUser
                \/ NamespaceEnds \/ Interrupt \/ Kill \/ \E q \in Clients \ {Me} : Neighbour(q)

Next == MainStep \/ MainThrows \/ ContainerStep \/ ContainerThrows \/ Environment

Spec == Init /\ [][Next]_vars

(***************************************************************************)
(* Fairness.  Both processes are sequential programs that only wait for a  *)
(* child, a signal or the go message; the kernel removes an empty          *)
(* namespace; and a command that was sent SIGHUP is taken to end.          *)
(***************************************************************************)
Fairness ==
    /\ WF_vars(MainStep)
    /\ WF_vars(ContainerStep)
    /\ WF_vars(NamespaceEnds)
    /\ WF_vars(CommandObeys)

FairSpec == Spec /\ Fairness

-----------------------------------------------------------------------------
(* Properties.                                                             *)

\* Every variable has its type, and main's objects are always a beginning of
\* the order in which main constructs them.
TypeOK ==
    /\ user \in Users
    /\ pc \in MainPc /\ ctr \in CtrPc
    /\ IsPrefix(built, <<"veth", "pre", "post", "dnat", "loop">>)
    /\ dev \in {"none", "host", "split"} /\ rules \subseteq Rules
    /\ lost \subseteq Rules \cup {"veth"}
    /\ cred \in [{"main", "container", "splitter"} -> Credentials]
    /\ proc \in [{"splitter", "dnsmasq", "command"} -> {"none", "run", "told", "ended"}]
    /\ {kernelWillDestroy, pending, hungUp, listening, started, escaped} \subseteq BOOLEAN
    /\ attempts \in 0 .. MaxAttempts /\ faults \in 0 .. MaxFaults /\ signals \in 0 .. MaxSignals
    /\ nbr \in [Clients \ {Me} -> {"ifaddrs", "routes", "addr", "up", "serve", "ended"}]
    /\ AddrTypeOK

\* However main left its try block, when it ends by itself its processes have ended, every NAT rule
\* is gone but those whose removal failed or was interrupted, and the devices are gone or die with
\* the namespace.
NothingLeft ==
    pc = "ended" =>
        /\ rules \subseteq lost
        /\ dev = "host" => "veth" \in lost
        /\ ctr \in {"none", "ended"} /\ proc["splitter"] # "run" /\ proc["dnsmasq"] # "run"

\* From the moment the command starts until it ends, and also while everything is taken
\* down around it, it has its device, all three rules and a dnsmasq that has answered; unless it
\* is a setuid program that koho-client may not signal.
CommandServed ==
    proc["command"] \in {"run", "told"} /\ ~escaped =>
        rules = Rules /\ dev = "split" /\ Me \in routed /\ listening

\* The command never runs as root; and neither it nor the splitter client, which read what strangers
\* send, can become root again, unless koho-client was started by root.
NeverRoot ==
    /\ started => cred["container"].e # "root"
    /\ user # "root" =>
        /\ proc["splitter"] # "none" => cred["splitter"].s # "root"
        /\ started => cred["container"].s # "root"

\* Something outside koho-client went wrong.
Trouble ==
    faults > 0 \/ signals > 0 \/ user = "root" \/ attempts = MaxAttempts
        \/ (pc = "unwind" /\ addrs[Me].egress = NoOctet)

\* When nothing fails, no signal comes, addresses are free and dnsmasq answers in
\* time, the set-up of main and container, running side by side, gets to the command.
CommandStarts == <>(started \/ Trouble)

\* When the command has ended, the devices disappear, even if main was killed; and main ends,
\* unless it was killed.
ClientEnds ==
    started /\ proc["command"] = "ended" ~> dev = "none" /\ pc \in {"ended", "killed"}
=============================================================================
