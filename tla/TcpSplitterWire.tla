--------------------------- MODULE TcpSplitterWire ---------------------------
(***************************************************************************)
(* TcpSplitter with its packets on the wire.                               *)
(***************************************************************************)
EXTENDS TcpSplitter, SplitPacket

\* A body as a string: nothing at end of file, or something.
BodyString(body) == IF body = Empty THEN <<>> ELSE <<body>>

\* Every packet on its way is parsed by the other side as the packet that was sent: an
\* announcement stays one, the uid survives the change of byte order, and an end of file, which is
\* an empty body and nothing else, is not taken for data nor data for an end of file.
PacketsDecode ==
    \A side \in Side : \A i \in DOMAIN chan[side] :
        LET p == chan[side][i]
            wire == toString(p.new, p.uid, BodyString(p.body))
        IN  /\ Parsable(wire)
            /\ Parsed(wire) = [new |-> p.new, uid |-> p.uid, body |-> BodyString(p.body)]
=============================================================================
