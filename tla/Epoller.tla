-------------------------------- MODULE Epoller --------------------------------
(***************************************************************************)
(* The Epoller under the loops of the two splitters, at the level of file  *)
(* descriptors.  epoll_wait returns a batch of descriptors that are ready; *)
(* the callbacks run one after the other, and each may close descriptors   *)
(* and open others that take their numbers, while the rest of the batch    *)
(* still waits under the old numbers.                                      *)
(*                                                                         *)
(* The splitter client has a listener, a UDP socket and the accepted       *)
(* connections; the splitter server a UDP socket and the connections it    *)
(* has made.                                                               *)
(***************************************************************************)
EXTENDS Naturals, Sequences, FiniteSets, FiniteSetsExt, SequencesExt

CONSTANTS
    Roles,      \* the splitters looked at: {"client"}, {"server"} or both
    MaxFd,      \* descriptors for connections
    MaxConns,   \* connections opened in all
    MaxPackets  \* datagrams and pieces of data that arrive in all

ASSUME EpollerAssumption ==
    /\ Roles \subseteq {"client", "server"} /\ Roles # {}
    /\ MaxFd \in Nat \ {0} /\ MaxConns \in Nat \ {0} /\ MaxPackets \in Nat

Fd == 1 .. MaxFd
Udp == MaxFd + 1
Listener == MaxFd + 2
NoConn == 0
Conn == 1 .. MaxConns

VARIABLES
    role,       \* the splitter this is: "client" or "server"
    opened,     \* connections opened so far; they are numbered from 1
    file,       \* the connection behind each descriptor, or NoConn
    actions,    \* the descriptors of connections that have an action
    input,      \* what waits to be read from each connection: bytes or eof
    datagrams,  \* datagrams waiting
    arriving,   \* connections waiting in the listener's backlog
    batch,      \* the rest of the events that epoll_wait returned
    status,     \* running, blocked in a read, or ended: threw or assert
    arrived     \* datagrams and pieces of data that arrived so far

vars == <<role, opened, file, actions, input, datagrams, arriving, batch, status, arrived>>

Open == {f \in Fd : file[f] # NoConn}

Init ==
    /\ role \in Roles
    /\ opened = 0
    /\ file = [f \in Fd |-> NoConn]
    /\ actions = {}
    /\ input = [c \in Conn |-> {}]
    /\ datagrams = 0
    /\ arriving = 0
    /\ batch = <<>>
    /\ status = "running"
    /\ arrived = 0

-----------------------------------------------------------------------------
(* poll.                                                                   *)

Ready ==
    {f \in actions : input[file[f]] # {}}
        \cup (IF datagrams > 0 THEN {Udp} ELSE {})
        \cup (IF arriving > 0 THEN {Listener} ELSE {})

\* epoll_wait returns all that is ready, in an order of the kernel's.
Wait ==
    /\ status = "running"
    /\ batch = <<>>
    /\ Ready # {}
    /\ batch' \in SetToSeqs(Ready)
    /\ UNCHANGED <<role, opened, file, actions, input, datagrams, arriving, status, arrived>>

Dispatches(f) ==
    /\ status \in {"running", "blocked"}
    /\ batch # <<>>
    /\ Head(batch) = f
    /\ batch' = Tail(batch)

\* The descriptor's action was removed since epoll_wait returned.
SkipRemoved ==
    /\ \E f \in Fd \ actions : Dispatches(f)
    /\ UNCHANGED <<role, opened, file, actions, input, datagrams, arriving, status, arrived>>

\* The callback reads bytes.
ReadInput ==
    /\ \E f \in actions :
        /\ Dispatches(f)
        /\ "bytes" \in input[file[f]]
        /\ input' = [input EXCEPT ![file[f]] = @ \ {"bytes"}]
    /\ status' = "running"
    /\ UNCHANGED <<role, opened, file, actions, datagrams, arriving, arrived>>

\* Fault: the descriptor is closed but its action stays.
CloseFile(f) ==
    /\ file' = [file EXCEPT ![f] = NoConn]
    /\ actions' = actions

\* close_connection: remove_action, and the descriptor's number is free.
close_connection(f) ==
    /\ file' = [file EXCEPT ![f] = NoConn]
    /\ actions' = actions \ {f}

\* The callback reads end of file and closes the connection.  poll then asks the
\* action and the descriptor it has just freed for their service count: it goes
\* on, or takes what it finds for a busy wait and throws.
ReadEof ==
    /\ \E f \in actions :
        /\ Dispatches(f)
        /\ input[file[f]] = {"eof"}
        /\ close_connection(f)
    /\ status' \in {"running", "threw"}
    /\ UNCHANGED <<role, opened, input, datagrams, arriving, arrived>>

\* The callback reads from a connection that has nothing to read: the descriptors
\* are blocking, so the thread waits here until something arrives on it.
BlockInRead ==
    /\ status = "running"
    /\ batch # <<>> /\ Head(batch) \in actions
    /\ input[file[Head(batch)]] = {}
    /\ status' = "blocked"
    /\ UNCHANGED <<role, opened, file, actions, input, datagrams, arriving, batch, arrived>>

\* Fault: the connection is opened without an action.
OpenUnwatched ==
    /\ Open # Fd /\ opened < MaxConns
    /\ opened' = opened + 1
    /\ file' = [file EXCEPT ![Min(Fd \ Open)] = opened + 1]
    /\ UNCHANGED <<actions, status>>

\* A connection gets the lowest free descriptor and an action.
OpenConnection ==
    /\ Open # Fd /\ opened < MaxConns
    /\ opened' = opened + 1
    /\ LET f == Min(Fd \ Open)
       IN  /\ file' = [file EXCEPT ![f] = opened + 1]
           /\ actions' = actions \cup {f}
           /\ status' = IF f \in actions THEN "assert" ELSE "running"

\* The listener's callback accepts a connection.
Accept ==
    /\ Dispatches(Listener)
    /\ arriving' = arriving - 1
    /\ OpenConnection
    /\ UNCHANGED <<role, input, datagrams, arrived>>

\* Fault: the UDP callback drains its socket; the end of one connection and the
\* opening of the next may come in the same call.
TakeDatagrams ==
    /\ Dispatches(Udp)
    /\ datagrams' = 0
    /\ \/ UNCHANGED <<opened, file>>
       \/ /\ datagrams > 1 /\ opened < MaxConns
          /\ opened' = opened + 1
          /\ \E f \in Open : file' = [file EXCEPT ![f] = opened + 1]
       \/ /\ Open # Fd /\ opened < MaxConns
          /\ opened' = opened + 1
          /\ file' = [file EXCEPT ![Min(Fd \ Open)] = opened + 1]
    /\ actions' = {f \in Fd : file'[f] # NoConn}
    /\ UNCHANGED <<role, input, arriving, status, arrived>>

\* The UDP callback takes a datagram: data for a connection or for none, the end
\* of a connection, or, on the server, a connection to make.
TakeDatagram ==
    /\ Dispatches(Udp)
    /\ datagrams' = datagrams - 1
    /\ \/ UNCHANGED <<opened, file, actions, status>>
       \/ (\E f \in Open : close_connection(f)) /\ UNCHANGED <<opened, status>>
       \/ role = "server" /\ OpenConnection
    /\ UNCHANGED <<role, input, arriving, arrived>>

-----------------------------------------------------------------------------
(* What arrives.                                                           *)

InputArrives ==
    /\ arrived < MaxPackets
    /\ arrived' = arrived + 1
    /\ \E f \in Open, what \in {"bytes", "eof"} :
        /\ "eof" \notin input[file[f]] /\ what \notin input[file[f]]
        /\ input' = [input EXCEPT ![file[f]] = @ \cup {what}]
    /\ UNCHANGED <<role, opened, file, actions, datagrams, arriving, batch, status>>

DatagramArrives ==
    /\ arrived < MaxPackets
    /\ arrived' = arrived + 1
    /\ datagrams' = datagrams + 1
    /\ UNCHANGED <<role, opened, file, actions, input, arriving, batch, status>>

ConnectionArrives ==
    /\ role = "client"
    /\ opened + arriving < MaxConns
    /\ Cardinality(Open) + arriving < MaxFd     \* descriptors do not run out
    /\ arriving' = arriving + 1
    /\ UNCHANGED <<role, opened, file, actions, input, datagrams, batch, status, arrived>>

-----------------------------------------------------------------------------

Poll == Wait \/ SkipRemoved \/ ReadInput \/ ReadEof \/ BlockInRead \/ Accept \/ TakeDatagram

Next == Poll \/ InputArrives \/ DatagramArrives \/ ConnectionArrives

Spec == Init /\ [][Next]_vars

\* The thread calls poll for ever.
FairSpec == Spec /\ WF_vars(Poll)

-----------------------------------------------------------------------------
(* Properties.                                                             *)

\* Each open connection has an action under its own descriptor, and no action is
\* left under a number that may be given away again (so that add_action's
\* assertion holds).
ActionsMatchFiles == actions = Open /\ status # "assert"

\* In the splitter server, which opens connections in one callback only, no event
\* that outlived its connection is taken for one of a connection that has
\* inherited its number: no callback reads in vain.
ServerNeverBlocked == role = "server" => status # "blocked"

\* A callback is called only for a descriptor that has something to read: an event
\* that outlived its connection is never taken for one of the connection that has
\* inherited its number.
NeverBlocked == status # "blocked"

\* The bytes of a connection are read, or the connection is closed, unless the
\* thread ends or is held up by another connection.
InputServed ==
    \A c \in Conn :
        "bytes" \in input[c] ~> \/ "bytes" \notin input[c]
                                \/ \A f \in Fd : file[f] # c
                                \/ status \in {"threw", "blocked"}
=============================================================================
