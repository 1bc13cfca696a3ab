------------------------------ MODULE XrCalls ------------------------------
(***************************************************************************)
(* What an OpenXR runtime expects of an application: sessions begin and    *)
(* end, and inside one every frame is waited for, begun and ended, in this *)
(* order and one at a time.  This is the abstract specification of the     *)
(* frame loop, which XrFrame implements.  A runtime that has lost the      *)
(* session takes no more frame calls.                                      *)
(***************************************************************************)

VARIABLES
  running, \* xrBeginSession was called, xrEndSession was not
  frame,   \* the last frame call: "none" after xrEndFrame
  lost     \* the session is lost

vars == <<running, frame, lost>>

TypeOK ==
  /\ running \in BOOLEAN /\ lost \in BOOLEAN
  /\ frame \in {"none", "waited", "begun"}

Init == running = FALSE /\ frame = "none" /\ lost = FALSE

Goes(from, to) ==
  /\ running /\ ~lost
  /\ frame = from /\ frame' = to
  /\ UNCHANGED <<running, lost>>

WaitFrame == Goes("none", "waited")
BeginFrame == Goes("waited", "begun")
EndFrame == Goes("begun", "none")

BeginSession ==
  /\ ~running /\ (frame = "none" \/ lost)
  /\ running' = TRUE
  /\ UNCHANGED <<frame, lost>>

\* A session ends between two frames, unless it is lost anyhow.
EndSession ==
  /\ running /\ (frame = "none" \/ lost)
  /\ running' = FALSE /\ frame' = "none"
  /\ UNCHANGED lost

Lose == ~lost /\ lost' = TRUE /\ UNCHANGED <<running, frame>>

Next == \/ WaitFrame \/ BeginFrame \/ EndFrame
        \/ BeginSession \/ EndSession \/ Lose

\* A frame that was begun is ended.
FramesEnd == frame = "begun" ~> frame = "none" \/ lost

\* The calls come in order.
Order == Init /\ [][Next]_vars

Spec == Order /\ FramesEnd

\* No frame is open in a session that does not run.
FramesAreInSessions == frame # "none" => running \/ lost
=============================================================================
