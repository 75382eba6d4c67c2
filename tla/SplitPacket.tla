------------------------------ MODULE SplitPacket ------------------------------
(***************************************************************************)
(* The wire format of a SplitTCPPacket: two fields of 64 bits in network   *)
(* byte order, then the body.  A wire is a sequence of bytes; what a body  *)
(* is made of does not matter, since a body is never looked into here.     *)
(***************************************************************************)
EXTENDS Naturals, Sequences

ByteValues == 256
FieldSize == 8      \* sizeof( uint64_t )

\* What is left of n without its last k bytes.
Shifted(n, k) ==
    LET shift[i \in 0 .. k] == IF i = 0 THEN n ELSE shift[i - 1] \div ByteValues
    IN  shift[k]

\* htobe64: the most significant byte first.
put_header_field(n) == [k \in 1 .. FieldSize |-> Shifted(n, FieldSize - k) % ByteValues]

\* be64toh of the field at index n, which must be there.
get_header_field(n, wire) ==
    LET value[k \in 0 .. FieldSize] ==
            IF k = 0 THEN 0 ELSE value[k - 1] * ByteValues + wire[n * FieldSize + k]
    IN  value[FieldSize]

\* A bool is written as 0 or 1; any other value reads as true.
Flag(b) == IF b THEN 1 ELSE 0

\* SplitTCPPacket::toString
toString(new, uid, body) == put_header_field(Flag(new)) \o put_header_field(uid) \o body

\* Fault: the flag takes one byte of the structure.
packed_Header == 1 + FieldSize

\* sizeof( Header ): the flag is padded to the alignment of the uid.
sizeof_Header == 2 * FieldSize

\* Both fields are there: otherwise get_header_field throws.
Parsable(wire) == Len(wire) >= 2 * FieldSize

\* SplitTCPPacket( str )
Parsed(wire) == [
    new |-> get_header_field(0, wire) # 0,
    uid |-> get_header_field(1, wire),
    body |-> SubSeq(wire, sizeof_Header + 1, Len(wire))]
=============================================================================
