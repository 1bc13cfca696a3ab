----------------------------- MODULE MCPadInput -----------------------------
(* Two beams to choose from, and a pulse of two polls. *)
EXTENDS PadInput

MCBeams == {"ice", "wave"}
MCPulsePolls == 2
=============================================================================
