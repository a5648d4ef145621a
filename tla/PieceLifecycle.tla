--------------------------- MODULE PieceLifecycle ---------------------------
(***************************************************************************)
(* What the download promises of each piece, whatever the peers send and   *)
(* however their tasks interleave: a piece is claimed by one verification  *)
(* at a time; the verification passes only at a moment when every block of *)
(* the piece is correct on the disk; only a piece that passed becomes      *)
(* ours, and it stays ours.  Blocks may be written at any time, which is   *)
(* all that peers can do.                                                  *)
(***************************************************************************)
CONSTANTS Pieces, Blocks, Data

VARIABLES
    phase,  \* of each piece: missing, claimed, passed or ours
    disk    \* what is written for each block of each piece

vars == <<phase, disk>>

Init ==
    /\ phase = [p \in Pieces |-> "missing"]
    /\ disk = [p \in Pieces |-> [b \in Blocks |-> "none"]]

Advance(p, from, to) ==
    /\ phase[p] = from
    /\ phase' = [phase EXCEPT ![p] = to]
    /\ UNCHANGED disk

Claim(p) == Advance(p, "missing", "claimed")

Pass(p) ==
    /\ \A b \in Blocks : disk[p][b] = "good"
    /\ Advance(p, "claimed", "passed")

Fail(p) == Advance(p, "claimed", "missing")

Own(p) == Advance(p, "passed", "ours")

Write(p, b, d) ==
    /\ disk' = [disk EXCEPT ![p][b] = d]
    /\ UNCHANGED phase

Next ==
    \E p \in Pieces :
        \/ Claim(p) \/ Pass(p) \/ Fail(p) \/ Own(p)
        \/ \E b \in Blocks, d \in Data : Write(p, b, d)

Spec == Init /\ [][Next]_vars
=============================================================================
