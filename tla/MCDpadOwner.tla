---------------------------- MODULE MCDpadOwner ----------------------------
(* Two player addresses, so that a level load can reuse one or change it.  *)
EXTENDS DpadOwner, TLC

CONSTANTS p1, p2

MCPlayers == {p1, p2}
Symmetry == Permutations(MCPlayers)
=============================================================================
