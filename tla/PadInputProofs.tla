--------------------------- MODULE PadInputProofs ---------------------------
(* Proofs about the weapon panel: what the player sees, what is committed  *)
(* and by which hand, for any beams and any length of the pulse.           *)
EXTENDS PadInput, TLAPS

-----------------------------------------------------------------------------
(* Type correctness.                                                       *)

\* What the CPU thread holds at each place.
LEMMA CpuHolds ==
  ASSUME cpu \in Cpu
  PROVE  /\ cpu.at \in {"idle", "polled", "panel", "panelRead", "start", "frame", "pointer",
                         "setting", "frameRead", "pointerRead"}
         /\ cpu.at = "polled" => cpu.input \in Input
         /\ cpu.at = "panel" => cpu.show \in BOOLEAN /\ cpu.beam \in Choices
         /\ cpu.at \in {"panelRead", "frameRead", "pointerRead"} => cpu.overlay \in Overlay
         /\ cpu.at \in {"start", "frame", "pointer", "setting", "frameRead", "pointerRead"} =>
              cpu.copy \in Settings
         /\ cpu.at \in {"frame", "pointer", "setting", "frameRead", "pointerRead"} =>
              cpu.live \in BOOLEAN
BY DEF Cpu, Idle

\* The type invariant, its parts apart.
InputTypes == input \in Input /\ (~input.active => input = NoInput)
GameTypes ==
  /\ settings \in Settings /\ menu \in BOOLEAN /\ game \in BOOLEAN /\ gameplay \in BOOLEAN
  /\ unseen \in BOOLEAN /\ stale \in BOOLEAN
HandTypes ==
  /\ gesture \in [on : BOOLEAN, beam : Choices]
  /\ pulse \in [beam : Choices, left : 0..PulsePolls]
  /\ (pulse.left = 0) <=> (pulse.beam = NoBeam)
Types == InputTypes /\ GameTypes /\ HandTypes /\ overlay \in Overlay /\ cpu \in Cpu

LEMMA NoOverlayType == NoOverlay \in Overlay
BY DEF NoOverlay, Overlay, Choices

\* A pulse stays a pulse, of PulsePolls polls at most.
LEMMA PulseTypes ==
  ASSUME HandTypes
  PROVE  /\ PulseHeld \in [beam : Choices, left : 0..PulsePolls]
         /\ (PulseHeld.left = 0) <=> (PulseHeld.beam = NoBeam)
         /\ \A b \in Beams :
              LET begun == [beam |-> b, left |-> PulsePolls]
              IN  /\ begun \in [beam : Choices, left : 0..PulsePolls]
                  /\ (begun.left = 0) <=> (begun.beam = NoBeam)
BY PadInputAssumption DEF HandTypes, PulseHeld, Choices, PadInputAssumption

LEMMA TypesHold == Spec => []Types
<1>1. Init => Types
  <2> SUFFICES ASSUME Init PROVE Types
    OBVIOUS
  <2>1. InputTypes
    BY DEF Init, InputTypes, NoInput, Input
  <2>2. GameTypes /\ overlay \in Overlay /\ cpu \in Cpu
    BY NoOverlayType DEF Init, GameTypes, Cpu
  <2>3. HandTypes
    BY PadInputAssumption DEF Init, HandTypes, Choices, PadInputAssumption
  <2>4. QED
    BY <2>1, <2>2, <2>3 DEF Types
<1>2. Types /\ [Next]_vars => Types'
  <2> SUFFICES ASSUME Types, [Next]_vars PROVE Types'
    OBVIOUS
  <2> USE CpuHolds DEF Types
  <2>1. CASE Video
    <3>1. UNCHANGED <<settings, menu, game, gameplay, hand, cpu>> /\ unseen' \in BOOLEAN /\ stale' \in BOOLEAN
      BY <2>1 DEF Video, PublishControllers, Reset, GameTypes, history
    <3>2. overlay' \in Overlay
      BY <2>1, NoOverlayType DEF Video, PublishControllers, Reset
    <3>3. InputTypes'
      <4>1. CASE PublishControllers
        BY <4>1 DEF PublishControllers, InputTypes, Input
      <4>2. CASE Reset
        BY <4>2 DEF Reset, InputTypes, Input, NoInput
      <4>3. QED
        BY <2>1, <4>1, <4>2 DEF Video
    <3>4. QED
      BY <3>1, <3>2, <3>3 DEF GameTypes, HandTypes, hand
  <2>2. CASE WindowSets
    BY <2>2 DEF WindowSets, InputTypes, GameTypes, HandTypes, hand
  <2>3. CASE Poll
    <3>1. UNCHANGED <<input, settings, menu, game, gameplay, stale>>
      BY <2>3 DEF Poll, PollReadsInput, PollIgnored, PollHeld, PollReleased, PanelReads,
                  PanelWrites, shared, history
    <3>2. InputTypes'
      BY <3>1 DEF InputTypes
    <3>3. overlay' \in Overlay /\ unseen' \in BOOLEAN
      BY <2>3 DEF Poll, PollReadsInput, PollIgnored, PollHeld, PollReleased, PanelReads,
                  PanelWrites, shared, history, GameTypes
    <3>4. HandTypes'
      <4>1. CASE PollHeld
        BY <4>1, PulseTypes DEF PollHeld, HandTypes, Choices
      <4>2. CASE PollReleased
        <5>1. gesture' = [on |-> FALSE, beam |-> NoBeam]
          BY <4>2 DEF PollReleased
        <5>2. pulse' = PulseHeld \/ \E b \in Beams : pulse' = [beam |-> b, left |-> PulsePolls]
          BY <4>2 DEF PollReleased, HandTypes, Choices
        <5>3. QED
          BY <5>1, <5>2, PulseTypes DEF HandTypes, Choices
      <4>3. CASE UNCHANGED hand
        BY <4>3 DEF HandTypes, hand
      <4>4. QED
        BY <2>3, <4>1, <4>2, <4>3 DEF Poll, PollReadsInput, PollIgnored, PanelReads, PanelWrites
    <3>5. cpu' \in Cpu
      <4>1. CASE PollReadsInput
        BY <4>1 DEF PollReadsInput, Cpu, InputTypes
      <4>2. CASE PollIgnored \/ PanelWrites
        BY <4>2 DEF PollIgnored, PanelWrites, Cpu
      <4>3. CASE PollHeld \/ PollReleased
        <5>1. \E show \in BOOLEAN, b \in Choices : cpu' = [at |-> "panel", show |-> show, beam |-> b]
          BY <4>3 DEF PollHeld, PollReleased, Choices
        <5>2. QED
          BY <5>1 DEF Cpu
      <4>4. CASE PanelReads
        <5>1. cpu'.overlay \in Overlay /\ cpu' = [at |-> "panelRead", overlay |-> cpu'.overlay]
          BY <4>4 DEF PanelReads, GameTypes, Settings, Overlay
        <5>2. QED
          BY <5>1 DEF Cpu
      <4>5. QED
        BY <2>3, <4>1, <4>2, <4>3, <4>4 DEF Poll
    <3>6. QED
      BY <3>1, <3>2, <3>3, <3>4, <3>5 DEF GameTypes
  <2>4. CASE Frame
    <3>1. UNCHANGED <<input, hand>>
      BY <2>4 DEF Frame, FrameBegins, FrameRuns, FrameSeesInput, FrameReads, FrameWrites,
                  PointerReads, PointerWrites, FrameSets, FrameWithoutGame, shared
    <3>2. InputTypes' /\ HandTypes'
      BY <3>1 DEF InputTypes, HandTypes, hand
    <3>3. overlay' \in Overlay
      BY <2>4, NoOverlayType
         DEF Frame, FrameBegins, FrameRuns, FrameSeesInput, FrameReads, FrameWrites,
             PointerReads, PointerWrites, FrameSets, FrameWithoutGame, shared
    <3>4. GameTypes'
      <4>1. CASE FrameBegins \/ FrameWithoutGame
        BY <4>1, Zenon DEF FrameBegins, FrameWithoutGame, GameTypes
      <4>2. CASE FrameSeesInput
        BY <4>2 DEF FrameSeesInput, GameTypes, history
      <4>3. CASE FrameReads \/ FrameWrites \/ PointerReads \/ PointerWrites \/ FrameSets
        BY <4>3 DEF FrameReads, FrameWrites, PointerReads, PointerWrites, FrameSets, GameTypes, history
      <4>4. QED
        BY <2>4, <4>1, <4>2, <4>3 DEF Frame, FrameRuns
    <3>5. cpu' \in Cpu
      <4>1. CASE FrameBegins
        BY <4>1 DEF FrameBegins, Cpu, GameTypes
      <4>2. CASE FrameSeesInput
        <5>1. \A copy \in Clicked(cpu.copy) : copy \in Settings
          BY <4>2 DEF FrameSeesInput, Clicked, Settings
        <5>2. \E copy \in Settings : cpu' = [at |-> "frame", copy |-> copy, live |-> input.active]
          BY <4>2, <5>1 DEF FrameSeesInput
        <5>3. QED
          <6>1. input.active \in BOOLEAN
            BY DEF InputTypes, Input
          <6>2. QED
            BY <5>2, <6>1 DEF Cpu
      <4>3. CASE FrameReads
        <5>1. cpu'.overlay \in Overlay
          BY <4>3 DEF FrameReads, GameTypes, Settings, Overlay
        <5>2. /\ cpu' = [at |-> "frameRead", copy |-> cpu.copy, live |-> cpu.live, overlay |-> cpu'.overlay]
              /\ cpu.copy \in Settings /\ cpu.live \in BOOLEAN
          BY <4>3 DEF FrameReads
        <5>3. QED
          BY <5>1, <5>2 DEF Cpu
      <4>4. CASE FrameWrites \/ PointerWrites
        <5>1. \/ cpu' = Idle
              \/ \E at \in {"pointer", "setting"}, live \in BOOLEAN :
                   cpu' = [at |-> at, copy |-> cpu.copy, live |-> live]
          BY <4>4 DEF FrameWrites, PointerWrites
        <5>2. cpu.copy \in Settings
          BY <4>4 DEF FrameWrites, PointerWrites
        <5>3. QED
          BY <5>1, <5>2 DEF Cpu
      <4>5. CASE PointerReads
        BY <4>5 DEF PointerReads, Cpu
      <4>6. CASE FrameSets \/ FrameWithoutGame
        BY <4>6 DEF FrameSets, FrameWithoutGame, Cpu
      <4>7. QED
        BY <2>4, <4>1, <4>2, <4>3, <4>4, <4>5, <4>6 DEF Frame, FrameRuns
    <3>6. QED
      BY <3>2, <3>3, <3>4, <3>5
  <2>5. CASE UNCHANGED vars
    BY <2>5 DEF vars, shared, hand, history, InputTypes, GameTypes, HandTypes
  <2>6. QED
    BY <2>1, <2>2, <2>3, <2>4, <2>5 DEF Next
<1>3. QED
  BY <1>1, <1>2, PTL DEF Spec

\* The variables stay in their sets, for any beams and any length of a pulse:
\* a pulse always has a beam, and only an active session has controllers.
THEOREM TypeCorrect == Spec => []TypeOK
<1>1. Types => TypeOK
  BY DEF Types, InputTypes, GameTypes, HandTypes, TypeOK
<1>2. QED
  BY <1>1, TypesHold, PTL

-----------------------------------------------------------------------------
(* What the panel shows.                                                   *)

\* An overlay shows no panel but that of the gesture.
Shows(o) == o.panel => gesture.on /\ o.beam = gesture.beam

\* An overlay shows the panel of a gesture that goes on, unless it was wiped
\* or hidden.
Seen(o) == gesture.on /\ ~unseen => o.panel

\* Both hold of the overlay that is there, and of the copy a call is about to
\* write back; the pad's own call is about to see to both.
PanelInv ==
  /\ cpu.at \notin {"panel", "panelRead"} => Shows(overlay) /\ Seen(overlay)
  /\ cpu.at = "panel" => (cpu.show => gesture.on /\ cpu.beam = gesture.beam)
  /\ cpu.at \in {"panelRead", "frameRead", "pointerRead"} => Shows(cpu.overlay)
  /\ cpu.at = "frameRead" => (cpu.copy.overlays => Seen(cpu.overlay))
  /\ cpu.at = "pointerRead" => Seen(cpu.overlay)

LEMMA PanelKnown == Spec => []PanelInv
<1>1. Init => PanelInv
  BY DEF Init, NoOverlay, PanelInv, Shows, Seen, Idle
<1>2. PanelInv /\ overlay \in Overlay /\ [Next]_vars => PanelInv'
  <2> SUFFICES ASSUME PanelInv, overlay \in Overlay, [Next]_vars PROVE PanelInv'
    OBVIOUS
  <2> USE DEF PanelInv, Shows, Seen, Idle, Overlay
  <2>1. CASE UNCHANGED <<overlay, gesture, cpu, unseen>>
    BY <2>1
  <2>2. CASE PublishControllers \/ WindowSets \/ UNCHANGED vars
    BY <2>1, <2>2 DEF PublishControllers, WindowSets, hand, history, shared, vars
  <2>3. CASE Reset
    <3>1. overlay' = NoOverlay /\ unseen' = TRUE /\ UNCHANGED <<gesture, cpu>>
      BY <2>3 DEF Reset, hand
    <3>2. NoOverlay.panel = FALSE
      BY DEF NoOverlay
    <3>3. QED
      BY <3>1, <3>2
  <2>4. CASE PollReadsInput \/ PollIgnored
    BY <2>4 DEF PollReadsInput, PollIgnored, shared, hand, history
  <2>5. CASE PollHeld
    BY <2>5 DEF PollHeld
  <2>6. CASE PollReleased
    BY <2>6 DEF PollReleased
  <2>7. CASE PanelReads
    BY <2>7 DEF PanelReads, hand
  <2>8. CASE PanelWrites
    BY <2>8 DEF PanelWrites, hand
  <2>9. CASE FrameBegins
    BY <2>9 DEF FrameBegins, shared, hand
  <2>10. CASE FrameSeesInput
    BY <2>10 DEF FrameSeesInput, shared, hand, history
  <2>11. CASE FrameReads
    <3>1. /\ cpu.at = "frame" /\ cpu'.at = "frameRead" /\ cpu'.copy = cpu.copy
          /\ cpu'.overlay.beam = overlay.beam /\ UNCHANGED <<overlay, gesture, unseen>>
      BY <2>11 DEF FrameReads, shared, hand, history
    <3>2. cpu'.overlay.panel <=> cpu.copy.overlays /\ overlay.panel
      BY <2>11 DEF FrameReads
    <3>3. Shows(overlay) /\ Seen(overlay)
      BY <3>1
    <3>4. Shows(cpu.overlay)' /\ (cpu'.copy.overlays => Seen(cpu.overlay)')
      BY <3>1, <3>2, <3>3
    <3>5. QED
      BY <3>1, <3>3, <3>4
  <2>12. CASE FrameWrites
    <3>1. /\ cpu.at = "frameRead" /\ cpu'.at \in {"idle", "pointer", "setting"}
          /\ overlay' = cpu.overlay /\ gesture' = gesture
      BY <2>12 DEF FrameWrites, hand
    <3>2. ~unseen' => ~unseen /\ cpu.copy.overlays
      BY <2>12, Zenon DEF FrameWrites
    <3>3. Shows(cpu.overlay) /\ (cpu.copy.overlays => Seen(cpu.overlay))
      BY <3>1
    <3>4. Shows(overlay)' /\ Seen(overlay)'
      BY <3>1, <3>2, <3>3
    <3>5. QED
      BY <3>1, <3>4
  <2>13. CASE PointerReads
    <3>1. /\ cpu.at = "pointer" /\ cpu'.at = "pointerRead" /\ cpu'.overlay = overlay
          /\ UNCHANGED <<overlay, gesture, unseen>>
      BY <2>13 DEF PointerReads, shared, hand, history
    <3>2. Shows(overlay) /\ Seen(overlay)
      BY <3>1
    <3>3. QED
      BY <3>1, <3>2
  <2>14. CASE PointerWrites
    BY <2>14 DEF PointerWrites, hand, history
  <2>15. CASE FrameSets
    BY <2>15 DEF FrameSets, hand, history
  <2>16. CASE FrameWithoutGame
    BY <2>16 DEF FrameWithoutGame, hand, NoOverlay
  <2>17. QED
    BY <2>2, <2>3, <2>4, <2>5, <2>6, <2>7, <2>8, <2>9, <2>10, <2>11, <2>12, <2>13, <2>14,
       <2>15, <2>16 DEF Next, Video, Poll, Frame, FrameRuns
<1>3. Types => overlay \in Overlay
  BY DEF Types
<1>4. QED
  BY <1>1, <1>2, <1>3, TypesHold, PTL DEF Spec

\* Between two calls of the CPU thread a panel in the headset is that of the
\* gesture, however pad, frames and resets write over each other.
THEOREM PanelShows == Spec => []PanelShowsChoice
<1>1. PanelInv => PanelShowsChoice
  BY DEF PanelInv, Shows, PanelShowsChoice, Idle
<1>2. QED
  BY <1>1, PanelKnown, PTL

\* What is committed was on the panel, unless it was wiped or hidden.
THEOREM CommittedWasShown == Spec => CommitWasShown
<1>1. ASSUME PanelInv, Commits, ~unseen
      PROVE  overlay.panel /\ overlay.beam = pulse'.beam
  <2>1. cpu.at = "polled" /\ gesture.on /\ pulse' = [beam |-> gesture.beam, left |-> PulsePolls]
    BY <1>1 DEF Commits, PollReleased
  <2>2. Shows(overlay) /\ Seen(overlay)
    BY <1>1, <2>1 DEF PanelInv
  <2>3. QED
    BY <1>1, <2>1, <2>2 DEF Shows, Seen
<1>2. QED
  BY <1>1, PanelKnown, PTL DEF CommitWasShown

-----------------------------------------------------------------------------
(* Whose the overlay is.                                                   *)

\* An overlay has the hand of the settings, and the menu if it is open.
Agrees(o, s) == (o.right <=> s.right) /\ (o.menu <=> menu /\ s.overlays)

\* As long as nobody changed the one or the other since the frame's copy was
\* taken, the overlay between two frames agrees with the settings, and the
\* one a frame publishes with the copy that will be the settings.
HandInv ==
  ~stale =>
    /\ cpu.at \in {"idle", "polled", "panel"} => Agrees(overlay, settings)
    /\ cpu.at = "panelRead" => Agrees(cpu.overlay, settings)
    /\ cpu.at = "start" => cpu.copy = settings
    /\ cpu.at \in {"frame", "frameRead"} => (cpu.live \/ cpu.copy = settings)
    /\ cpu.at \in {"frameRead", "pointerRead"} => Agrees(cpu.overlay, cpu.copy)
    /\ cpu.at \in {"pointer", "setting"} => Agrees(overlay, cpu.copy)

LEMMA HandKnown == Spec => []HandInv
<1>1. Init => HandInv
  BY DEF Init, HandInv
<1>2. HandInv /\ overlay \in Overlay /\ [Next]_vars => HandInv'
  <2> SUFFICES ASSUME HandInv, overlay \in Overlay, [Next]_vars PROVE HandInv'
    OBVIOUS
  <2> USE DEF HandInv, Agrees, Idle, Overlay
  <2>1. CASE stale' = TRUE
    BY <2>1
  <2>2. CASE Reset \/ WindowSets \/ FrameWithoutGame
    BY <2>1, <2>2 DEF Reset, WindowSets, FrameWithoutGame
  <2>3. CASE PublishControllers \/ UNCHANGED vars
    BY <2>3 DEF PublishControllers, history, shared, vars
  <2>4. CASE PollReadsInput \/ PollIgnored \/ PollHeld \/ PollReleased
    BY <2>4 DEF PollReadsInput, PollIgnored, PollHeld, PollReleased, shared, history
  <2>5. CASE PanelReads
    BY <2>5 DEF PanelReads, shared, history
  <2>6. CASE PanelWrites
    BY <2>6 DEF PanelWrites
  <2>7. CASE FrameBegins
    BY <2>7 DEF FrameBegins, shared
  <2>8. CASE FrameSeesInput
    <3>1. cpu.at = "start" /\ cpu'.at = "frame" /\ UNCHANGED <<settings, stale>>
          /\ cpu'.live = input.active
      BY <2>8 DEF FrameSeesInput, history
    <3>2. ~input.active => cpu'.copy = cpu.copy
      BY <2>8 DEF FrameSeesInput
    <3>3. QED
      BY <3>1, <3>2
  <2>9. CASE FrameReads
    BY <2>9 DEF FrameReads, history
  <2>10. CASE FrameWrites
    BY <2>10 DEF FrameWrites
  <2>11. CASE PointerReads
    BY <2>11 DEF PointerReads, shared, history
  <2>12. CASE PointerWrites
    BY <2>12 DEF PointerWrites, history
  <2>13. CASE FrameSets
    BY <2>13 DEF FrameSets, history
  <2>14. QED
    BY <2>2, <2>3, <2>4, <2>5, <2>6, <2>7, <2>8, <2>9, <2>10, <2>11, <2>12, <2>13
       DEF Next, Video, Poll, Frame, FrameRuns
<1>3. Types => overlay \in Overlay
  BY DEF Types
<1>4. QED
  BY <1>1, <1>2, <1>3, TypesHold, PTL DEF Spec

\* A beam is committed by the hand of the settings, with the menu closed,
\* unless overlay or settings changed since the last frame took its copy.
THEOREM CommittedByWeaponHand == Spec => CommitIsTheWeaponHands
<1>1. ASSUME HandInv, Commits, ~stale
      PROVE  /\ cpu.input.hands[IF settings.right THEN "right" ELSE "left"] = "up"
             /\ ~(menu /\ settings.overlays)
  <2>1. cpu.at = "polled" /\ ~overlay.menu /\ cpu.input.hands[WeaponHand] = "up"
    BY <1>1 DEF Commits, PollReleased, ForTheGame
  <2>2. Agrees(overlay, settings)
    BY <1>1, <2>1 DEF HandInv
  <2>3. QED
    BY <2>1, <2>2 DEF Agrees, WeaponHand
<1>2. QED
  BY <1>1, HandKnown, PTL DEF CommitIsTheWeaponHands
=============================================================================
