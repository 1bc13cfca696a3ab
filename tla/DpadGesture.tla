---------------------------- MODULE DpadGesture ----------------------------
(***************************************************************************)
(* UpdateXrDpad: the left controller held by the head turns its stick into *)
(* D-pad presses.  Every delay of the gesture is a difference of           *)
(* s_frame_counter and a frame number kept in a static of the function.    *)
(* ResetNativeRuntime sets the counter back to zero and cannot reach those *)
(* statics, and the differences are unsigned, so a frame number taken      *)
(* before a reset lies in the future after it.                             *)
(*                                                                         *)
(* One action is one call of PrimedGun::OnFrameEnd.  What the gesture does *)
(* to the player's disable-input bit is DpadOwner.  The D-pad bits of the  *)
(* game's final input, which an armed frame rewrites each time, follow     *)
(* lastDir and command and are left out.                                   *)
(*                                                                         *)
(* The theorems of this module and of DpadOwner are proved in one module,  *)
(* so the names that both would have start with Gesture here.              *)
(***************************************************************************)
EXTENDS Naturals

CONSTANTS
  NearHold,      \* frames the head zone outlives the hand leaving it (16)
  LatchFrames,   \* frames a direction outlives the stick (8)
  InitialFrames, \* frames a new direction is pressed for (11)
  RepeatFrames,  \* frames between two presses after that (10)
  Sticks,        \* the stick positions considered
  MaxFrame       \* bound on s_frame_counter

Up == "up"
Down == "down"
Left == "left"
Right == "right"
Dirs == {Up, Down, Left, Right}
None == "none"
Vertical == {Up, Down}

\* A stick position: inside the exit dead zone, between the two dead zones or
\* outside the outer one; the sign of each axis; and the axis that is larger,
\* or "tie" when neither is larger by more than axis_switch_bias.
StickPositions ==
  [zone : {"rest", "exit", "full"}, v : {Up, Down}, h : {Left, Right},
   larger : {"v", "h", "tie"}]

ASSUME DpadGestureAssumption ==
  /\ {NearHold, LatchFrames, InitialFrames, RepeatFrames, MaxFrame} \subseteq Nat \ {0}
  /\ Sticks \subseteq StickPositions

VARIABLES
  frame,      \* s_frame_counter
  lastDir,    \* s_last_dir
  latchedDir, \* s_latched_dir
  latchUntil, \* s_latch_until_frame
  dirStart,   \* s_dir_start_frame
  lastPress,  \* s_last_press_frame
  lastNear,   \* s_last_near_head_frame
  suppressed, \* s_c_stick_suppressed: the gesture is armed
  command,    \* guest: DPAD_PRESS_SCRATCH, the direction or None
  stick,      \* the stick position of the last frame
  ran,        \* UpdateXrDpad was called in the last frame
  awayFor,    \* history: frames since the hand was seen in the head zone
  centredFor, \* history: frames since the stick gave a direction
  sinceTurn,  \* history: frames since the direction changed
  sincePulse, \* history: frames since a press was sent
  nearStale,  \* history: the counter was reset since lastNear was set
  dirStale    \* history: the counter was reset since the gesture was armed

statics == <<lastDir, latchedDir, latchUntil, dirStart, lastPress, suppressed>>
ages == <<awayFor, centredFor, sinceTurn, sincePulse>>
gestureVars == <<frame, statics, lastNear, command, stick, ran, ages, nearStale, dirStale>>

----------------------------------------------------------------------------
\* An unsigned difference of frame numbers is below n.
WithinFrames(t, n) == t <= frame' /\ frame' - t < n

\* StickToDpad: a direction starts outside the outer dead zone; between the
\* two the axis of the last direction is kept unless the other is larger.
StickToDpad(s, last) ==
  IF s.zone = "rest" \/ (s.zone = "exit" /\ last = None) THEN None
  ELSE IF s.larger = "v" \/ (s.larger = "tie" /\ (s.zone = "full" \/ last \in Vertical))
    THEN s.v
    ELSE s.h

Aged(n) == IF n < MaxFrame THEN n + 1 ELSE n

\* The histories of the direction and of the presses, when neither happens.
AgePress ==
  /\ centredFor' = Aged(centredFor)
  /\ sinceTurn' = Aged(sinceTurn)
  /\ sincePulse' = Aged(sincePulse)

----------------------------------------------------------------------------
GestureInit ==
  /\ frame = 0
  /\ lastDir = None /\ latchedDir = None
  /\ latchUntil = 0 /\ dirStart = 0 /\ lastPress = 0 /\ lastNear = 0
  /\ suppressed = FALSE
  /\ command = None
  /\ stick \in Sticks
  /\ ran = FALSE
  /\ awayFor = MaxFrame /\ centredFor = MaxFrame
  /\ sinceTurn = MaxFrame /\ sincePulse = MaxFrame
  /\ nearStale = FALSE /\ dirStale = FALSE

\* ++s_frame_counter.
NextFrame(s) ==
  /\ frame < MaxFrame
  /\ frame' = frame + 1
  /\ stick' = s

\* The lambda disarm.
Disarm ==
  /\ ran' = TRUE
  /\ lastDir' = None
  /\ latchedDir' = None
  /\ latchUntil' = 0
  /\ dirStart' = 0
  /\ lastPress' = 0
  /\ suppressed' = FALSE
  /\ dirStale' = FALSE
  /\ command' = None

\* Mutant: the zone is left for good only by the other disarming conditions.
NearHeadAlways(near) == near \/ lastNear # 0
\* The hand is in the head zone or was there less than NearHold frames ago.
InHeadZone(near) == near \/ (lastNear # 0 /\ WithinFrames(lastNear, NearHold))

\* Mutant: the latched direction lasts until the hand leaves the head.
DirectionForever(s) ==
  LET dir == StickToDpad(s, lastDir) IN IF dir = None THEN latchedDir ELSE dir

\* The direction of the stick, or the latched one while its time lasts.
Direction(s) ==
  LET dir == StickToDpad(s, lastDir) IN
  IF dir = None /\ latchedDir # None /\ frame' < latchUntil THEN latchedDir ELSE dir

SeeHand(near) ==
  /\ lastNear' = IF near THEN frame' ELSE lastNear
  /\ awayFor' = IF near THEN 0 ELSE Aged(awayFor)
  /\ nearStale' = (~near /\ nearStale)

----------------------------------------------------------------------------
\* PrimedGun is off, or the headset runtime is inactive: UpdateXrDpad is not
\* called, and what it last wrote to DPAD_PRESS_SCRATCH stays there.
FrameSkipped(s) ==
  /\ NextFrame(s)
  /\ ran' = FALSE
  /\ awayFor' = Aged(awayFor)
  /\ AgePress
  /\ UNCHANGED <<statics, lastNear, command, nearStale, dirStale>>

\* The game stopped: ResetNativeRuntime.  A new game starts with cleared
\* guest memory.
FrameReset ==
  /\ frame' = 0
  /\ ran' = FALSE
  /\ command' = None
  /\ nearStale' = (lastNear # 0)
  /\ dirStale' = suppressed
  /\ awayFor' = Aged(awayFor)
  /\ AgePress
  /\ UNCHANGED <<statics, lastNear, stick>>

\* The gesture is switched off, or the hand or the head is not tracked.
FrameUntracked(s) ==
  /\ NextFrame(s)
  /\ Disarm
  /\ awayFor' = Aged(awayFor)
  /\ AgePress
  /\ UNCHANGED <<lastNear, nearStale>>

\* The hand is away from the head, or the stick gives no direction.
FrameIdle(near, s) ==
  /\ NextFrame(s)
  /\ ~InHeadZone(near) \/ Direction(s) = None
  /\ SeeHand(near)
  /\ Disarm
  /\ AgePress

\* Mutants: a direction is pressed only while it is new; it is new for one
\* frame too many.
PressDueWhileNew(turned, start) == start # 0 /\ WithinFrames(start, InitialFrames)
PressDueLonger(turned, start) ==
  \/ start # 0 /\ WithinFrames(start, InitialFrames + 1)
  \/ turned \/ lastPress = 0 \/ ~WithinFrames(lastPress, RepeatFrames)

\* initial_press || repeat_press.
PressDue(turned, start) ==
  \/ start # 0 /\ WithinFrames(start, InitialFrames)
  \/ turned \/ lastPress = 0 \/ ~WithinFrames(lastPress, RepeatFrames)

\* Mutant: each stick frame prolongs the latch instead of restarting it.
LatchEndProlonged == latchUntil + LatchFrames

LatchEnd == frame' + LatchFrames

\* The gesture gives a direction.
FrameArmed(near, s) ==
  LET dir == Direction(s)
      turned == dir # lastDir
      start == IF turned THEN frame' ELSE dirStart
      fromStick == StickToDpad(s, lastDir) # None
      press == PressDue(turned, start)
  IN
  /\ NextFrame(s)
  /\ InHeadZone(near)
  /\ dir # None
  /\ SeeHand(near)
  /\ latchedDir' = dir
  /\ latchUntil' = IF fromStick THEN LatchEnd ELSE latchUntil
  /\ suppressed' = TRUE
  /\ dirStart' = start
  /\ lastPress' = IF press THEN frame' ELSE IF turned THEN 0 ELSE lastPress
  /\ lastDir' = dir
  /\ command' = IF press THEN dir ELSE None
  /\ centredFor' = IF fromStick THEN 0 ELSE Aged(centredFor)
  /\ sinceTurn' = IF turned THEN 0 ELSE Aged(sinceTurn)
  /\ sincePulse' = IF press THEN 0 ELSE Aged(sincePulse)
  /\ ran' = TRUE
  /\ UNCHANGED dirStale

GestureNext ==
  \/ \E s \in Sticks : FrameSkipped(s)
  \/ \E s \in Sticks : FrameUntracked(s)
  \/ \E near \in BOOLEAN, s \in Sticks : FrameIdle(near, s)
  \/ \E near \in BOOLEAN, s \in Sticks : FrameArmed(near, s)
  \/ FrameReset

GestureSpec == GestureInit /\ [][GestureNext]_gestureVars

----------------------------------------------------------------------------
(* Properties.                                                             *)

GestureTypeOK ==
  /\ frame \in 0 .. MaxFrame
  /\ {lastDir, latchedDir, command} \subseteq Dirs \cup {None}
  /\ latchUntil \in 0 .. (MaxFrame + LatchFrames)
  /\ {dirStart, lastPress, lastNear} \subseteq 0 .. MaxFrame
  /\ {suppressed, ran, nearStale, dirStale} \subseteq BOOLEAN
  /\ stick \in Sticks
  /\ {awayFor, centredFor, sinceTurn, sincePulse} \subseteq 0 .. MaxFrame

\* The stick acts as a D-pad only while the hand is, or was NearHold frames
\* ago at most, by the head.  The exception is a counter that was reset and
\* has come to the frame number at which the hand was seen before the reset.
ArmedNearHead == ran /\ suppressed => awayFor < NearHold \/ nearStale

\* A direction does not outlive the stick by LatchFrames frames, however the
\* head zone comes and goes.  The exception is a gesture that was armed when
\* the counter was reset.
ArmedByStick == ran /\ suppressed => centredFor < LatchFrames \/ dirStale

\* A direction that is held is pressed again at least every RepeatFrames
\* frames, also across changes of direction and skipped frames.  The exception
\* is again a gesture that was armed when the counter was reset: the counter
\* meets the frame number of the last press a second time.
PressRepeats == ran /\ suppressed => sincePulse < RepeatFrames \/ dirStale

\* Once a direction is no longer new it is pressed at most every RepeatFrames
\* frames, unless the counter was reset under it.
PressNotTooFast ==
  [][ran' /\ command' # None =>
       \/ sinceTurn' < InitialFrames
       \/ Aged(sincePulse) >= RepeatFrames
       \/ dirStale']_gestureVars
=============================================================================
