---------------------------- MODULE MCHookPatch ----------------------------
(* A hook that reads the instruction it replaces from the game beside one *)
(* that knows it, in states of this and of other builds.                   *)
EXTENDS HookPatch, TLC

CONSTANTS flow, pitch

MCKind == flow :> "anyWord" @@ pitch :> "pitchLoad"
\* Foreign stands for every word but the game's and none.
MCLeftovers == {Zero, Game, Foreign}
=============================================================================
