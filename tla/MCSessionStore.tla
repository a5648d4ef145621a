--------------------------- MODULE MCSessionStore ---------------------------
(* A small instance of SessionStore for TLC. *)
EXTENDS SessionStore, TLC
CONSTANTS h1, h2

MCHashes == {h1, h2}
(* Torrents differ only by their hash. *)
Symmetry == Permutations(MCHashes)
=============================================================================
