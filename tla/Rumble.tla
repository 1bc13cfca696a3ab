------------------------------- MODULE Rumble -------------------------------
(***************************************************************************)
(* The rumble of OpenXRInputState: what the game asks of the pad's motor,  *)
(* the player's switch, and what the headset's controllers do.             *)
(*                                                                         *)
(* The CPU thread drives the motor and, at the end of a frame, hands the   *)
(* switch on; the window thread hands it on when it changes.  The video    *)
(* thread reads both once per frame of a running session.  The reset of    *)
(* the session wipes the amplitude and puts the switch to its default, on. *)
(*                                                                         *)
(* The switch is a field of the settings of VrSettings, whose theorems are *)
(* proved in one module with those of this one; so the names that both     *)
(* would have carry the module's name here.                                *)
(***************************************************************************)
EXTENDS Naturals

VARIABLES
  session, \* s_state.runtime_active
  haptics, \* s_haptics: requested_amplitude and enabled
  rumble,  \* s_settings.rumble_enabled
  game,    \* the game runs, so that OnFrameEnd gets past its early returns
  shakes,  \* the controllers were told to vibrate by the last frame
  motor,   \* what the game last wanted of the motor
  bound,   \* the pad's motor is bound to the headset's device as well
  cpu,     \* where the CPU thread is, and what it holds there
  late     \* history: the amplitude was set when no session was active

host == <<motor, bound>>
rumbleVars == <<session, haptics, rumble, game, shakes, host, cpu, late>>

Haptics == [wanted : BOOLEAN, enabled : BOOLEAN]
NoHaptics == [wanted |-> FALSE, enabled |-> TRUE]

Idle == [at |-> "idle"]
Cpu == {Idle}
         \cup [at : {"bound", "headset"}, on : BOOLEAN]
         \cup [at : {"setRumble"}, on : BOOLEAN]
         \cup [at : {"frame", "setting"}, copy : BOOLEAN]

RumbleInit ==
  /\ session = FALSE /\ haptics = NoHaptics
  /\ rumble \in BOOLEAN /\ bound \in BOOLEAN
  /\ game = FALSE /\ shakes = FALSE /\ motor = FALSE /\ late = FALSE
  /\ cpu = Idle

\* RefreshRumbleLocked: an amplitude under a switch that is off is none.
Amplitude == haptics.wanted /\ haptics.enabled

----------------------------------------------------------------------------
(* Video thread *)

\* A frame of a running session: SetControllers, then UpdateHaptics.
SessionFrame ==
  /\ session' = TRUE
  /\ shakes' = Amplitude
  /\ UNCHANGED <<haptics, rumble, host, game, cpu, late>>

\* ResetInputActionsState: the controllers are forgotten without a stop, as a
\* vibration lasts no longer than 15 ms.
Reset ==
  /\ session' = FALSE
  /\ haptics' = NoHaptics
  /\ shakes' = FALSE
  /\ late' = FALSE
  /\ UNCHANGED <<rumble, host, game, cpu>>

----------------------------------------------------------------------------
(* Window thread *)

\* SetRuntimeSettings, which hands the switch on under the settings' lock,
\* whichever setting it is called for.
WindowSets ==
  /\ rumble' \in BOOLEAN
  /\ haptics' = [haptics EXCEPT !.enabled = rumble']
  /\ UNCHANGED <<session, shakes, host, game, cpu, late>>

----------------------------------------------------------------------------
(* CPU thread: GCPad::SetOutput *)

\* The amplitude is set, whoever is there to take it.
SetRumble(on) ==
  /\ haptics' = [haptics EXCEPT !.wanted = on]
  /\ late' = (on /\ ~session)

MotorCalled ==
  /\ cpu = Idle
  /\ \E on \in BOOLEAN :
       /\ motor' = on
       /\ cpu' = [at |-> IF bound THEN "bound" ELSE "headset", on |-> on]
  /\ UNCHANGED <<session, haptics, rumble, shakes, bound, game, late>>

\* The output the motor is bound to takes it in any case.
MotorBound ==
  /\ cpu.at = "bound"
  /\ SetRumble(cpu.on)
  /\ cpu' = [cpu EXCEPT !.at = "headset"]
  /\ UNCHANGED <<session, rumble, shakes, host, game>>

\* Mutant: the headset hears of the motor only when it is switched on.
MotorAsksWhenOn ==
  /\ cpu.at = "headset"
  /\ cpu' = IF session /\ cpu.on THEN [cpu EXCEPT !.at = "setRumble"] ELSE Idle
  /\ UNCHANGED <<session, haptics, rumble, shakes, host, game, late>>

\* The headset takes it only in a session: the question and the answer's use
\* are two calls.
MotorAsks ==
  /\ cpu.at = "headset"
  /\ cpu' = IF session THEN [cpu EXCEPT !.at = "setRumble"] ELSE Idle
  /\ UNCHANGED <<session, haptics, rumble, shakes, host, game, late>>

MotorSets ==
  /\ cpu.at = "setRumble"
  /\ SetRumble(cpu.on)
  /\ cpu' = Idle
  /\ UNCHANGED <<session, rumble, shakes, host, game>>

----------------------------------------------------------------------------
(* CPU thread: UpdateCannonTracking *)

\* OnFrameEnd looks for the game at every frame.
GameComesAndGoes ==
  /\ cpu = Idle
  /\ game' = ~game
  /\ UNCHANGED <<session, haptics, rumble, shakes, host, cpu, late>>

FrameCopies ==
  /\ cpu = Idle
  /\ game
  /\ cpu' = [at |-> "frame", copy |-> rumble]
  /\ UNCHANGED <<session, haptics, rumble, shakes, host, game, late>>

\* Without a session the frame hands nothing on; with one, a click of the
\* menu may have changed the copy.
FrameAsks ==
  /\ cpu.at = "frame"
  /\ \/ /\ ~session
        /\ cpu' = Idle
     \/ /\ session
        /\ \E copy \in BOOLEAN : cpu' = [at |-> "setting", copy |-> copy]
  /\ UNCHANGED <<session, haptics, rumble, shakes, host, game, late>>

\* Mutant: a copy that changes nothing is not handed on.
FrameSetsChanges ==
  /\ cpu.at = "setting"
  /\ rumble' = cpu.copy
  /\ haptics' = IF cpu.copy = rumble THEN haptics
                ELSE [haptics EXCEPT !.enabled = cpu.copy]
  /\ cpu' = Idle
  /\ UNCHANGED <<session, shakes, host, game, late>>

\* SetRuntimeSettings with the copy.
FrameSets ==
  /\ cpu.at = "setting"
  /\ rumble' = cpu.copy
  /\ haptics' = [haptics EXCEPT !.enabled = cpu.copy]
  /\ cpu' = Idle
  /\ UNCHANGED <<session, shakes, host, game, late>>

----------------------------------------------------------------------------
MotorRuns == MotorBound \/ MotorAsks \/ MotorSets
FrameRuns == FrameAsks \/ FrameSets

RumbleNext ==
  \/ SessionFrame \/ Reset \/ WindowSets
  \/ MotorCalled \/ MotorRuns
  \/ GameComesAndGoes \/ FrameCopies \/ FrameRuns

\* A call the CPU thread has begun goes on, the game ends its frames
\* whatever it does with its motor, and so does the video thread's loop.
RumbleFairness ==
  /\ WF_rumbleVars(MotorRuns)
  /\ WF_rumbleVars(FrameRuns)
  /\ SF_rumbleVars(FrameCopies)
  /\ WF_rumbleVars(SessionFrame)

RumbleSpec == RumbleInit /\ [][RumbleNext]_rumbleVars /\ RumbleFairness

----------------------------------------------------------------------------
(* Properties *)

\* The variables stay in their sets.
RumbleTypeOK ==
  /\ session \in BOOLEAN /\ haptics \in Haptics /\ rumble \in BOOLEAN
  /\ game \in BOOLEAN /\ shakes \in BOOLEAN /\ motor \in BOOLEAN /\ bound \in BOOLEAN
  /\ cpu \in Cpu /\ late \in BOOLEAN

\* Rumble that the game has switched off is still asked for, once SetOutput
\* has returned, only if it was set for a session that had already been reset:
\* SetOutput asks whether there is one and sets the amplitude in two calls.
LeftoverRumbleHasCause ==
  haptics.wanted /\ ~motor => late \/ cpu.at \in {"bound", "headset", "setRumble"}

\* Once the player has switched rumble off for good, and session and game
\* go on, the controllers fall silent for good, although the reset before it had put
\* the switch back to on.
RumbleOffSettles ==
  <>[](~rumble /\ session /\ game) => <>[]~shakes
=============================================================================
