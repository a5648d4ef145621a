------------------------ MODULE MCPieceAvailability ------------------------
(* A small instance of PieceAvailability for TLC. *)
EXTENDS PieceAvailability, TLC
CONSTANTS c1, c2, a1, a2

MCConns == {c1, c2}
MCAddrs == {a1, a2}
(* Tasks and addresses differ only by name. *)
Symmetry == Permutations(MCConns)
=============================================================================
