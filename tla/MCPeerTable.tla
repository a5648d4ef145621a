----------------------------- MODULE MCPeerTable -----------------------------
(* Small instances of PeerTable for TLC. *)
EXTENDS PeerTable, TLC
CONSTANTS a1, a2, b1

MCOut == {a1}
MCOut2 == {a1, a2}
MCIn == {b1}
None == {}
=============================================================================
