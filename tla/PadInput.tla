------------------------------ MODULE PadInput ------------------------------
(***************************************************************************)
(* The controllers and the overlay of OpenXRInputState, which the          *)
(* headset's frame loop shares with the emulated pad (its rumble is        *)
(* module Rumble).                                                         *)
(*                                                                         *)
(* The video thread publishes the controllers of a running session and     *)
(* wipes everything when the session stops or a sync fails.  The CPU       *)
(* thread polls the pad and ends frames: it reads the overlay, changes its *)
(* part and writes all of it back, and each lock is for one call only.     *)
(* The window thread changes the settings.                                 *)
(*                                                                         *)
(* Holding the secondary button of the weapon hand opens a panel, pointing *)
(* chooses a beam, and letting go commits it: the C-stick is then held for *)
(* PulsePolls polls.                                                       *)
(***************************************************************************)
EXTENDS Naturals

CONSTANTS
  Beams,      \* the four beams; which one the hand points at is free
  NoBeam,     \* PrimedGunBeamSlot::None
  PulsePolls  \* polls for which a committed beam holds the C-stick (8)

ASSUME PadInputAssumption ==
  /\ NoBeam \notin Beams
  /\ PulsePolls \in Nat \ {0}

VARIABLES
  input,    \* s_state: runtime_active, and of each hand whether it is
            \* connected and holds the button with a valid pose
  overlay,  \* s_primegun_overlay, as far as anybody acts on it
  settings, \* s_settings: use_right_hand, vr_overlays_enabled
  menu,     \* s_vr_menu_visible
  game,     \* s_game_was_active
  gameplay, \* s_gameplay_input_active
  gesture,  \* s_gesture_active and s_selected_slot
  pulse,    \* s_pulse_slot and s_pulse_frames
  cpu,      \* where the CPU thread is and the copies it holds there
  unseen,   \* history: the overlay was wiped or hidden since the panel's
            \* last update
  stale     \* history: overlay or settings changed since a frame's copy

shared == <<input, overlay>>
hand == <<gesture, pulse>>
history == <<unseen, stale>>
vars == <<shared, settings, menu, game, gameplay, hand, cpu, history>>

Hands == {"left", "right"}
Choices == Beams \cup {NoBeam}

Input == [active : BOOLEAN, hands : [Hands -> {"off", "up", "held"}]]
Overlay == [menu : BOOLEAN, panel : BOOLEAN, beam : Choices, right : BOOLEAN]
Settings == [right : BOOLEAN, overlays : BOOLEAN]

NoInput == [active |-> FALSE, hands |-> [h \in Hands |-> "off"]]
NoOverlay == [menu |-> FALSE, panel |-> FALSE, beam |-> NoBeam, right |-> TRUE]

Idle == [at |-> "idle"]
Cpu ==
  {Idle}
    \cup [at : {"polled"}, input : Input]
    \cup [at : {"panel"}, show : BOOLEAN, beam : Choices]
    \cup [at : {"panelRead"}, overlay : Overlay]
    \cup [at : {"start"}, copy : Settings]
    \cup [at : {"frame", "pointer", "setting"}, copy : Settings, live : BOOLEAN]
    \cup [at : {"frameRead", "pointerRead"}, copy : Settings, live : BOOLEAN,
          overlay : Overlay]

Init ==
  /\ input = NoInput /\ overlay = NoOverlay
  /\ settings \in Settings
  /\ menu = FALSE /\ game = FALSE /\ gameplay = FALSE
  /\ gesture = [on |-> FALSE, beam |-> NoBeam]
  /\ pulse = [beam |-> NoBeam, left |-> 0]
  /\ cpu = Idle
  /\ unseen = FALSE /\ stale = TRUE

----------------------------------------------------------------------------
(* Video thread *)

\* A frame of a running session: what the runtime says of the controllers.
PublishControllers ==
  /\ \E hands \in [Hands -> {"off", "up", "held"}] :
       input' = [active |-> TRUE, hands |-> hands]
  /\ UNCHANGED <<overlay, settings, menu, game, gameplay, hand, cpu, history>>

\* The session stops, is lost, or the actions cannot be synchronised.
Reset ==
  /\ input' = NoInput
  /\ overlay' = NoOverlay
  /\ unseen' = TRUE
  /\ stale' = TRUE
  /\ UNCHANGED <<settings, menu, game, gameplay, hand, cpu>>

----------------------------------------------------------------------------
(* Window thread *)

\* SetRuntimeSettings from the desktop window.
WindowSets ==
  /\ settings' \in Settings \ {settings}
  /\ stale' = TRUE
  /\ UNCHANGED <<input, overlay, menu, game, gameplay, hand, cpu, unseen>>

----------------------------------------------------------------------------
(* CPU thread: the pad is polled *)

PollReadsInput ==
  /\ cpu = Idle
  /\ cpu' = [at |-> "polled", input |-> input]
  /\ UNCHANGED <<shared, settings, menu, game, gameplay, hand, history>>

\* The hand of the last published overlay.
WeaponHand == IF overlay.right THEN "right" ELSE "left"

\* Mutant: the open menu does not take the buttons from the game.
ForTheGameInMenu ==
  /\ cpu.input.active
  /\ \E h \in Hands : cpu.input.hands[h] # "off"
  /\ gameplay

\* A poll of a session with a controller, with the menu closed, in play.
ForTheGame ==
  /\ cpu.input.active
  /\ \E h \in Hands : cpu.input.hands[h] # "off"
  /\ ~overlay.menu
  /\ gameplay

\* The poll is not for the game: no session, no controller, the menu is open,
\* the game is not in play, or the weapon hand is not connected.
PollIgnored ==
  /\ cpu.at = "polled"
  /\ ~ForTheGame \/ cpu.input.hands[WeaponHand] = "off"
  /\ cpu' = Idle
  /\ UNCHANGED <<shared, settings, menu, game, gameplay, hand, history>>

\* Mutant: the beam of a pulse that has ended is kept.
PulseHeldKeepsBeam == [pulse EXCEPT !.left = IF @ > 0 THEN @ - 1 ELSE 0]

\* A pulse that is running holds the C-stick once more.
PulseHeld ==
  IF pulse.left > 1 THEN [pulse EXCEPT !.left = @ - 1]
                    ELSE [beam |-> NoBeam, left |-> 0]

\* The button is held: the poll that opens the panel chooses nothing, as the
\* first hit is the centre that later ones are measured from.
PollHeld ==
  /\ cpu.at = "polled"
  /\ ForTheGame
  /\ cpu.input.hands[WeaponHand] = "held"
  /\ \E b \in Choices :
       /\ ~gesture.on => b = NoBeam
       /\ gesture' = [on |-> TRUE, beam |-> b]
       /\ cpu' = [at |-> "panel", show |-> TRUE, beam |-> b]
  /\ pulse' = PulseHeld
  /\ UNCHANGED <<shared, settings, menu, game, gameplay, history>>

\* Mutant: the panel is left as it is when the button is let go.
PollReleasedQuietly ==
  /\ cpu.at = "polled"
  /\ ForTheGame
  /\ cpu.input.hands[WeaponHand] = "up"
  /\ pulse' = IF gesture.on /\ gesture.beam # NoBeam
                THEN [beam |-> gesture.beam, left |-> PulsePolls] ELSE PulseHeld
  /\ gesture' = [on |-> FALSE, beam |-> NoBeam]
  /\ cpu' = Idle
  /\ UNCHANGED <<shared, settings, menu, game, gameplay, history>>

\* The button is up, or the hand's pose is lost: what is chosen is committed.
PollReleased ==
  /\ cpu.at = "polled"
  /\ ForTheGame
  /\ cpu.input.hands[WeaponHand] = "up"
  /\ pulse' = IF gesture.on /\ gesture.beam # NoBeam
                THEN [beam |-> gesture.beam, left |-> PulsePolls] ELSE PulseHeld
  /\ gesture' = [on |-> FALSE, beam |-> NoBeam]
  /\ cpu' = [at |-> "panel", show |-> FALSE, beam |-> NoBeam]
  /\ UNCHANGED <<shared, settings, menu, game, gameplay, history>>

\* PublishPrimedGunWeaponPanel: read the overlay, write all of it back.
PanelReads ==
  /\ cpu.at = "panel"
  /\ cpu' = [at |-> "panelRead",
             overlay |-> [overlay EXCEPT !.panel = settings.overlays /\ cpu.show,
                                         !.beam = cpu.beam]]
  /\ UNCHANGED <<shared, settings, menu, game, gameplay, hand, history>>

PanelWrites ==
  /\ cpu.at = "panelRead"
  /\ overlay' = cpu.overlay
  /\ unseen' = (gesture.on /\ ~cpu.overlay.panel)
  /\ cpu' = Idle
  /\ UNCHANGED <<input, settings, menu, game, gameplay, hand, stale>>

----------------------------------------------------------------------------
(* CPU thread: a frame ends *)

\* OnFrameEnd with the game running: a pad poll may be for the game or not
\* from here on, and UpdateCannonTracking takes its copy of the settings.
FrameBegins ==
  /\ cpu = Idle
  /\ game' = TRUE
  /\ gameplay' \in BOOLEAN
  /\ stale' = FALSE
  /\ cpu' = [at |-> "start", copy |-> settings]
  /\ UNCHANGED <<shared, settings, menu, hand, unseen>>

\* What a click of the open menu leaves of the copy.
Clicked(copy) == {[copy EXCEPT !.right = r] : r \in BOOLEAN}

\* The snapshot of the input, and UpdateVrMenu up to what it publishes.  The
\* menu opens and closes with a button of the other hand, is clicked on with the
\* weapon hand, and is closed while the overlays are off.
FrameSeesInput ==
  /\ cpu.at = "start"
  /\ LET other == IF cpu.copy.right THEN "left" ELSE "right"
         pointer == IF cpu.copy.right THEN "right" ELSE "left"
     IN  /\ menu' \in IF ~input.active THEN {menu}
                       ELSE IF ~cpu.copy.overlays THEN {FALSE}
                       ELSE IF input.hands[other] = "off" THEN {menu} ELSE BOOLEAN
         /\ \E copy \in IF input.active /\ cpu.copy.overlays /\ menu'
                               /\ input.hands[pointer] # "off"
                          THEN Clicked(cpu.copy) ELSE {cpu.copy} :
              cpu' = [at |-> "frame", copy |-> copy, live |-> input.active]
  /\ UNCHANGED <<shared, settings, game, gameplay, hand, history>>

\* Mutant: the chosen beam is not carried over.
FrameReadsAnew ==
  /\ cpu.at = "frame"
  /\ LET on == cpu.copy.overlays
     IN  cpu' = [at |-> "frameRead", copy |-> cpu.copy, live |-> cpu.live,
                 overlay |-> [menu |-> on /\ menu, panel |-> on /\ overlay.panel,
                              beam |-> NoBeam, right |-> cpu.copy.right]]
  /\ UNCHANGED <<shared, settings, menu, game, gameplay, hand, history>>

\* PublishVrOverlayState: the panel's fields are carried over from what is
\* there, the others come from the copy.
FrameReads ==
  /\ cpu.at = "frame"
  /\ LET on == cpu.copy.overlays
     IN  cpu' = [at |-> "frameRead", copy |-> cpu.copy, live |-> cpu.live,
                 overlay |-> [menu |-> on /\ menu, panel |-> on /\ overlay.panel,
                              beam |-> overlay.beam, right |-> cpu.copy.right]]
  /\ UNCHANGED <<shared, settings, menu, game, gameplay, hand, history>>

FrameWrites ==
  /\ cpu.at = "frameRead"
  /\ overlay' = cpu.overlay
  /\ unseen' = (unseen \/ ~cpu.copy.overlays)
  /\ cpu' = IF ~cpu.live THEN Idle
            ELSE [at |-> IF cpu.copy.overlays THEN "pointer" ELSE "setting",
                  copy |-> cpu.copy, live |-> TRUE]
  /\ UNCHANGED <<input, settings, menu, game, gameplay, hand, stale>>

\* The rest of UpdateVrMenu: only the pointer is set, all of it is written.
PointerReads ==
  /\ cpu.at = "pointer"
  /\ cpu' = [at |-> "pointerRead", copy |-> cpu.copy, live |-> cpu.live,
             overlay |-> overlay]
  /\ UNCHANGED <<shared, settings, menu, game, gameplay, hand, history>>

PointerWrites ==
  /\ cpu.at = "pointerRead"
  /\ overlay' = cpu.overlay
  /\ cpu' = [at |-> "setting", copy |-> cpu.copy, live |-> cpu.live]
  /\ UNCHANGED <<input, settings, menu, game, gameplay, hand, history>>

\* SetRuntimeSettings with the copy.
FrameSets ==
  /\ cpu.at = "setting"
  /\ settings' = cpu.copy
  /\ cpu' = Idle
  /\ UNCHANGED <<input, overlay, menu, game, gameplay, hand, history>>

\* OnFrameEnd without the game: the first one resets the runtime's state.
FrameWithoutGame ==
  /\ cpu = Idle
  /\ gameplay' = FALSE
  /\ game' = FALSE
  /\ menu' = (menu /\ ~game)
  /\ overlay' = IF game THEN NoOverlay ELSE overlay
  /\ unseen' = (unseen \/ game)
  /\ stale' = TRUE
  /\ UNCHANGED <<input, settings, hand, cpu>>

----------------------------------------------------------------------------
Video == PublishControllers \/ Reset
Poll == PollReadsInput \/ PollIgnored \/ PollHeld \/ PollReleased \/ PanelReads \/ PanelWrites
FrameRuns == FrameSeesInput \/ FrameReads \/ FrameWrites \/ PointerReads \/ PointerWrites
               \/ FrameSets
Frame == FrameBegins \/ FrameRuns \/ FrameWithoutGame

Next == Video \/ WindowSets \/ Poll \/ Frame

Spec == Init /\ [][Next]_vars

----------------------------------------------------------------------------
(* Properties *)

\* The variables stay in their sets, a pulse always has a beam, and only an
\* active session has controllers.
TypeOK ==
  /\ input \in Input /\ overlay \in Overlay
  /\ settings \in Settings
  /\ menu \in BOOLEAN /\ game \in BOOLEAN /\ gameplay \in BOOLEAN
  /\ gesture \in [on : BOOLEAN, beam : Choices]
  /\ pulse \in [beam : Choices, left : 0..PulsePolls]
  /\ (pulse.left = 0) <=> (pulse.beam = NoBeam)
  /\ cpu \in Cpu
  /\ unseen \in BOOLEAN /\ stale \in BOOLEAN
  /\ ~input.active => input = NoInput

\* Between two calls of the CPU thread, a weapon panel in the headset is that
\* of a gesture that goes on, with the beam the gesture has chosen, although
\* the pad, the frame end and the session's reset write over each other.
PanelShowsChoice ==
  cpu = Idle /\ overlay.panel => gesture.on /\ overlay.beam = gesture.beam

\* A beam is committed only if it was on the panel in the headset when the
\* button was let go, unless the panel was wiped or hidden since the last
\* poll of the held button.
Commits == gesture.on /\ gesture.beam # NoBeam /\ PollReleased
CommitWasShown ==
  [][Commits /\ ~unseen => overlay.panel /\ overlay.beam = pulse'.beam]_vars

\* A beam is committed by the weapon hand of the settings, with the menu
\* closed, unless the overlay or the settings changed since the last frame
\* took its copy.
CommitIsTheWeaponHands ==
  [][Commits /\ ~stale =>
       /\ cpu.input.hands[IF settings.right THEN "right" ELSE "left"] = "up"
       /\ ~(menu /\ settings.overlays)]_vars
=============================================================================
