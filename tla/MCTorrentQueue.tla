--------------------------- MODULE MCTorrentQueue ---------------------------
(* A small instance: two or three torrents, limits of one or none. *)
EXTENDS TorrentQueue

MCLimits == {[dl |-> 1, ul |-> 1], [dl |-> 0, ul |-> 1]}
MCInitialLimits == {[dl |-> 1, ul |-> 1]}

(* One kind of trouble at a time: old data, removals, moves, limits that   *)
(* change, share limits.                                                   *)
MCScenarios == {{"seeded"}, {"removal"}, {"moves"}, {"settings"}, {"shares"}}
OldData == {{"seeded"}}
=============================================================================
