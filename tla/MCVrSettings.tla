--------------------------- MODULE MCVrSettings ---------------------------
(* Two options with two values each: one the menu shows, and the one that  *)
(* switches the menu off.                                                  *)
EXTENDS VrSettings
=============================================================================
