-------------------------- MODULE MCPieceDownload --------------------------
(* Small instances of PieceDownload for TLC. *)
EXTENDS PieceDownload, TLC
CONSTANTS q1, q2

MCPeers == {q1, q2}
OnePeer == {q1}
(* Peers differ only by name. *)
Symmetry == Permutations(Peers)
=============================================================================
