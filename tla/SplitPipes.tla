------------------------------- MODULE SplitPipes -------------------------------
(***************************************************************************)
(* What the pair of TCP splitters promises its users when the UDP path     *)
(* between them neither loses, reorders nor duplicates: every connection   *)
(* accepted on the client side is a pair of byte pipes to its destination. *)
(* A pipe delivers what was taken from the other end, in order and without *)
(* gaps; an end whose own peer has ended its stream is closed when all the *)
(* peer wrote was taken, or on behalf of the other end; and an end whose   *)
(* own peer is still connected is closed only when the other end has       *)
(* closed and everything taken there was delivered here, or when the       *)
(* destination was never reached.                                          *)
(***************************************************************************)
EXTENDS Naturals, Sequences

CONSTANTS Conn, MaxChunks

Side == {"client", "server"}
Other(side) == IF side = "client" THEN "server" ELSE "client"

VARIABLES
    end,        \* each end: "none", "open", "ended" by its own peer, or "closed"
    written,    \* how many pieces the peer of each end has written
    taken,      \* how many of them were read from that end
    given       \* the pieces delivered to each end

vars == <<end, written, taken, given>>

Init ==
    /\ end = [s \in Side |-> [c \in Conn |-> "none"]]
    /\ written = [s \in Side |-> [c \in Conn |-> 0]]
    /\ taken = written
    /\ given = [s \in Side |-> [c \in Conn |-> <<>>]]

\* The destination is dialled only for a connection that was accepted.
Open(side, c) ==
    /\ end[side][c] = "none"
    /\ side = "server" => end["client"][c] # "none"
    /\ end' = [end EXCEPT ![side][c] = "open"]
    /\ UNCHANGED <<written, taken, given>>

Write(side, c) ==
    /\ end[side][c] = "open"
    /\ written[side][c] < MaxChunks
    /\ written' = [written EXCEPT ![side][c] = @ + 1]
    /\ UNCHANGED <<end, taken, given>>

Take(side, c) ==
    /\ end[side][c] \in {"open", "ended"}
    /\ taken[side][c] < written[side][c]
    /\ taken' = [taken EXCEPT ![side][c] = @ + 1]
    /\ UNCHANGED <<end, written, given>>

Give(side, c) ==
    LET next == Len(given[side][c]) + 1
    IN  /\ end[side][c] \in {"open", "ended"}
        /\ next <= taken[Other(side)][c]
        /\ given' = [given EXCEPT ![side][c] = Append(@, [c |-> c, k |-> next])]
        /\ UNCHANGED <<end, written, taken>>

\* The peer behind an end shuts down, closes or resets its connection.
EndedByPeer(side, c) ==
    /\ end[side][c] = "open"
    /\ end' = [end EXCEPT ![side][c] = "ended"]
    /\ UNCHANGED <<written, taken, given>>

\* The other end has closed, or the destination was never reached.
OtherGone(side, c) ==
    end[Other(side)][c] = "closed" \/ (side = "client" /\ end["server"][c] = "none")

\* An end that its peer has ended is closed when everything was taken from it, or
\* on behalf of the other end.
CloseEnded(side, c) ==
    /\ end[side][c] = "ended"
    /\ taken[side][c] = written[side][c] \/ OtherGone(side, c)
    /\ end' = [end EXCEPT ![side][c] = "closed"]
    /\ UNCHANGED <<written, taken, given>>

\* An end whose peer is connected is closed on behalf of the other end.
CloseOpen(side, c) ==
    /\ end[side][c] = "open"
    /\ OtherGone(side, c)
    /\ Len(given[side][c]) = taken[Other(side)][c]
    /\ end' = [end EXCEPT ![side][c] = "closed"]
    /\ UNCHANGED <<written, taken, given>>

Next ==
    \E side \in Side, c \in Conn :
        Open(side, c) \/ Write(side, c) \/ Take(side, c) \/ Give(side, c) \/ EndedByPeer(side, c)
            \/ CloseEnded(side, c) \/ CloseOpen(side, c)

Spec == Init /\ [][Next]_vars
=============================================================================
