--------------------------- MODULE MCBuiltinPatch ---------------------------
(* A critical patch and one that only the recheck looks after; then also   *)
(* the cave of the first and the patched instruction of the game that the  *)
(* invalidated ranges leave out.                                           *)
EXTENDS BuiltinPatch, TLC

CONSTANTS rotation, rotationCave, sway, culling, p1, p2

MCCovered == {rotation, sway}
MCCritical == {rotation}
MCCaves == {}
MCSite == [c \in {} |-> rotation]

MCAllPatches == MCCovered \cup {rotationCave, culling}
MCAllCritical == {rotation, rotationCave}
MCAllCaves == {rotationCave}
MCAllSite == [c \in MCAllCaves |-> rotation]

MCPlayers == {p1, p2}
Symmetry == Permutations(MCPlayers)
=============================================================================
