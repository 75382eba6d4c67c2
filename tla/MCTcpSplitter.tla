----------------------------- MODULE MCTcpSplitter -----------------------------
(***************************************************************************)
(* TcpSplitterWire with the bound of its largest run.                      *)
(***************************************************************************)
EXTENDS TcpSplitterWire

\* At most two datagrams on their way in each direction.
FewPackets == \A side \in Side : Len(chan[side]) <= 2
=============================================================================
