---------------------------- MODULE MCCannonFeed ----------------------------
(* Two players, and three objects that are given one UID, two of them at one *)
(* address.                                                                  *)
EXTENDS CannonFeed, TLC

CONSTANTS p1, p2, o1, o2, o3

MCPlayers == {p1, p2}
MCObjects == {o1, o2, o3}
MCAddr == o1 :> "a" @@ o2 :> "a" @@ o3 :> "b"
Symmetry == Permutations(MCPlayers) \cup Permutations({o1, o2})
=============================================================================
