--------------------------- MODULE MCDpadGesture ---------------------------
(* One stick position per case of StickToDpad: at rest, full deflection on *)
(* either axis, and the two kinds of position between the dead zones.      *)
EXTENDS DpadGesture

Stick(zone, larger) == [zone |-> zone, v |-> Up, h |-> Right, larger |-> larger]

MCSticks == {Stick("rest", "tie"), Stick("full", "v"), Stick("full", "h"),
             Stick("exit", "tie"), Stick("exit", "h")}
=============================================================================
