--------------------------- MODULE SettingsProofs ---------------------------
(* Proofs about the runtime settings and about the rumble, whose switch is *)
(* one of them: what two threads may overwrite, and what is left over.     *)
EXTENDS VrSettings, Rumble, TLAPS

(* The type invariant, its parts apart, and what ties the histories to the *)
(* frame: nothing was changed by the menu of a frame it was not used in.   *)
MapTypes ==
  /\ settings \in Settings /\ copy \in Settings /\ window \in Settings
  /\ file \in Settings /\ meant \in Settings
FlagTypes ==
  /\ inFrame \in BOOLEAN /\ menuUsed \in BOOLEAN /\ requested \in BOOLEAN
  /\ unsaved \in BOOLEAN /\ raced \in BOOLEAN
  /\ timer \in {"idle", "clear", "clearAndWrite", "write"}
  /\ changes \in 0 .. MaxChanges
HistoryTypes ==
  /\ byMenu \subseteq Fields /\ exposed \subseteq Fields /\ unseen \subseteq Fields
  /\ inMenu \subseteq Fields /\ lost \subseteq Fields
FrameHistory ==
  /\ ~inFrame => exposed = {} /\ inMenu = {}
  /\ ~menuUsed => inMenu = {}
Types == MapTypes /\ FlagTypes /\ HistoryTypes /\ FrameHistory

LEMMA DefaultsType == Defaults \in Settings
BY VrSettingsAssumption DEF Defaults, Settings

\* A click, in the menu or in the window, is of one option or of all.
LEMMA ClickTypes ==
  ASSUME NEW old \in Settings, NEW f \in Fields, NEW v \in Values
  PROVE  [old EXCEPT ![f] = v] \in Settings
BY DEF Settings

LEMMA MeantType ==
  ASSUME MapTypes, NEW changed \in SUBSET Fields, NEW new \in Settings
  PROVE  [f \in Fields |-> IF f \in changed THEN new[f] ELSE meant[f]] \in Settings
BY DEF MapTypes, Settings

LEMMA Clicks ==
  ASSUME Types, NEW changed \in SUBSET Fields, NEW new \in Settings,
         MenuClick(changed, new) \/ WindowClick(changed, new)
  PROVE  Types'
<1> USE DEF Types
<1>1. changes' \in 0 .. MaxChanges
  BY VrSettingsAssumption DEF MenuClick, WindowClick, FlagTypes
<1>2. meant' \in Settings
  BY MeantType DEF MenuClick, WindowClick
<1>3. CASE MenuClick(changed, new)
  BY <1>1, <1>2, <1>3
     DEF MenuClick, MenuUsed, MapTypes, FlagTypes, HistoryTypes, FrameHistory, saving
<1>4. CASE WindowClick(changed, new)
  BY <1>1, <1>2, <1>4
     DEF WindowClick, Applied, MapTypes, FlagTypes, HistoryTypes, FrameHistory, frameVars, saving
<1>5. QED
  BY <1>3, <1>4

\* Every step but the clicks.
Others ==
  \/ FrameBegins \/ MenuSaves \/ FrameEnds \/ WindowSyncs \/ WindowSaves
  \/ TimerReads \/ TimerClears \/ TimerWrites \/ Restart \/ UNCHANGED vars

LEMMA StepsAre ==
  ASSUME MapTypes, [Next]_vars
  PROVE  \/ \E f \in Fields, new \in Settings :
               /\ new = [copy EXCEPT ![f] = new[f]]
               /\ MenuClick({f}, new)
         \/ \E f \in Fields, new \in Settings :
               /\ new = [window EXCEPT ![f] = new[f]]
               /\ WindowClick({f}, new)
         \/ MenuClick(Fields, Defaults) \/ WindowClick(Fields, Defaults)
         \/ Others
<1>1. ASSUME NEW f \in Fields, NEW v \in Values, NEW old \in Settings
      PROVE  LET new == [old EXCEPT ![f] = v]
             IN new \in Settings /\ new = [old EXCEPT ![f] = new[f]]
  BY DEF Settings
<1>2. copy \in Settings /\ window \in Settings
  BY DEF MapTypes
<1>3. ASSUME NEW f \in Fields, NEW v \in Values, MenuChanges(f, v)
      PROVE  \E new \in Settings : new = [copy EXCEPT ![f] = new[f]] /\ MenuClick({f}, new)
  BY <1>1, <1>2, <1>3 DEF MenuChanges
<1>4. ASSUME NEW f \in Fields, NEW v \in Values, WindowChanges(f, v)
      PROVE  \E new \in Settings : new = [window EXCEPT ![f] = new[f]] /\ WindowClick({f}, new)
  BY <1>1, <1>2, <1>4 DEF WindowChanges
<1>5. QED
  BY <1>3, <1>4 DEF Next, CpuThread, Window, MenuResets, WindowResets, Others

LEMMA TypesHold == Spec => []Types
<1>1. Init => Types
  <2> SUFFICES ASSUME Init PROVE Types
    OBVIOUS
  <2>1. MapTypes
    BY DefaultsType DEF Init, MapTypes
  <2>2. FlagTypes
    <3>1. changes \in 0 .. MaxChanges
      BY VrSettingsAssumption DEF Init
    <3>2. QED
      BY <3>1 DEF Init, FlagTypes
  <2>3. HistoryTypes /\ FrameHistory
    BY DEF Init, HistoryTypes, FrameHistory
  <2>4. QED
    BY <2>1, <2>2, <2>3 DEF Types
<1>2. Types /\ [Next]_vars => Types'
  <2> SUFFICES ASSUME Types, [Next]_vars PROVE Types'
    OBVIOUS
  <2>1. CASE Others
    <3>1. MapTypes'
      BY <2>1 DEF Others, FrameBegins, MenuSaves, FrameEnds, WindowSyncs, WindowSaves, TimerReads,
                  TimerClears, TimerWrites, Restart, Synced, Written, vars, frameVars, saving,
                  Types, MapTypes
    <3>2. FlagTypes'
      <4>1. changes' \in 0 .. MaxChanges
        BY <2>1, VrSettingsAssumption
           DEF Others, FrameBegins, MenuSaves, FrameEnds, WindowSyncs, WindowSaves, TimerReads,
               TimerClears, TimerWrites, Restart, vars, Types, FlagTypes
      <4>2. CASE MenuSaves
        BY <4>1, <4>2 DEF MenuSaves, MenuUsed, Types, FlagTypes
      <4>3. CASE ~MenuSaves
        BY <2>1, <4>1, <4>3
           DEF Others, FrameBegins, FrameEnds, WindowSyncs, WindowSaves, TimerReads, TimerClears,
               TimerWrites, Restart, vars, frameVars, saving, Types, FlagTypes
      <4>4. QED
        BY <4>2, <4>3
    <3>3. HistoryTypes' /\ FrameHistory'
      BY <2>1 DEF Others, FrameBegins, MenuSaves, MenuUsed, FrameEnds, WindowSyncs, WindowSaves,
                  TimerReads, TimerClears, TimerWrites, Restart, vars, frameVars, saving,
                  Types, HistoryTypes, FrameHistory
    <3>4. QED
      BY <3>1, <3>2, <3>3 DEF Types
  <2>2. ASSUME NEW changed \in SUBSET Fields, NEW new \in Settings,
               MenuClick(changed, new) \/ WindowClick(changed, new)
        PROVE  Types'
    BY <2>2, Clicks
  <2>3. \A f \in Fields : {f} \in SUBSET Fields
    OBVIOUS
  <2>4. QED
    BY <2>1, <2>2, <2>3, StepsAre, DefaultsType DEF Types
<1>3. QED
  BY <1>1, <1>2, PTL DEF Spec

\* For any options, values and number of changes the three copies of the
\* settings stay complete, and only a frame has something under way.
THEOREM TypeCorrect == Spec => []TypeOK
<1>1. Types => TypeOK
  BY DEF Types, MapTypes, FlagTypes, HistoryTypes, FrameHistory, TypeOK
<1>2. QED
  BY <1>1, TypesHold, PTL

-----------------------------------------------------------------------------
(* What each of the three copies may lack of what the user chose last: the *)
(* settings what the frame has yet to write, the frame's copy what the     *)
(* window changed meanwhile, the window's what it has not read.            *)
SettingsInv == \A f \in Fields : settings[f] # meant[f] => f \in lost \cup inMenu
CopyInv == inFrame => \A f \in Fields : copy[f] # meant[f] => f \in lost \cup exposed
WindowInv == \A f \in Fields : window[f] # meant[f] => f \in lost \cup unseen
MeantInv == SettingsInv /\ CopyInv /\ WindowInv

LEMMA MenuClickKeepsMeant ==
  ASSUME Types, MeantInv, NEW changed \in SUBSET Fields, NEW new \in Settings,
         \A f \in Fields \ changed : new[f] = copy[f],
         MenuClick(changed, new)
  PROVE  MeantInv'
<1>1. /\ inFrame /\ inMenu = {} /\ copy' = new /\ inMenu' = changed
      /\ unseen' = unseen \cup changed /\ exposed' = exposed \ changed
      /\ lost' = lost \ changed /\ UNCHANGED <<settings, window>>
      /\ \A f \in Fields : meant'[f] = IF f \in changed THEN new[f] ELSE meant[f]
  BY DEF MenuClick, MenuUsed, Types, FrameHistory
<1>2. QED
  BY <1>1 DEF MeantInv, SettingsInv, CopyInv, WindowInv

LEMMA WindowClickKeepsMeant ==
  ASSUME Types, MeantInv, NEW changed \in SUBSET Fields, NEW new \in Settings,
         \A f \in Fields \ changed : new[f] = window[f],
         WindowClick(changed, new)
  PROVE  MeantInv'
<1>1. /\ settings' = new /\ window' = new /\ UNCHANGED <<inFrame, copy, inMenu>>
      /\ exposed' = IF inFrame THEN exposed \cup changed ELSE exposed
      /\ lost' = (lost \cup (unseen \ inMenu)) \ changed
      /\ unseen' = unseen \ changed
      /\ \A f \in Fields : meant'[f] = IF f \in changed THEN new[f] ELSE meant[f]
  BY DEF WindowClick, Applied, frameVars
<1>2. SettingsInv'
  BY <1>1 DEF MeantInv, SettingsInv, WindowInv
<1>3. CopyInv'
  BY <1>1 DEF MeantInv, CopyInv
<1>4. WindowInv'
  BY <1>1 DEF MeantInv, WindowInv
<1>5. QED
  BY <1>2, <1>3, <1>4 DEF MeantInv

LEMMA MeantKnown == Spec => []MeantInv
<1>1. Init => MeantInv
  BY DEF Init, MeantInv, SettingsInv, CopyInv, WindowInv
<1>2. Types /\ MeantInv /\ [Next]_vars => MeantInv'
  <2> SUFFICES ASSUME Types, MeantInv, [Next]_vars PROVE MeantInv'
    OBVIOUS
  <2>1. CASE FrameBegins
    <3>1. inMenu = {} /\ copy' = settings /\ UNCHANGED <<settings, window, meant, lost, unseen>>
      BY <2>1 DEF FrameBegins, Types, FrameHistory
    <3>2. QED
      BY <3>1 DEF MeantInv, SettingsInv, CopyInv, WindowInv
  <2>2. CASE FrameEnds
    BY <2>2 DEF FrameEnds, MeantInv, SettingsInv, CopyInv, WindowInv
  <2>3. CASE WindowSyncs
    BY <2>3 DEF WindowSyncs, Synced, MeantInv, SettingsInv, CopyInv, WindowInv, frameVars
  <2>4. CASE Restart
    BY <2>4 DEF Restart, MeantInv, SettingsInv, CopyInv, WindowInv
  <2>5. CASE \/ MenuSaves \/ WindowSaves \/ TimerReads \/ TimerClears \/ TimerWrites
             \/ UNCHANGED vars
    BY <2>5 DEF MenuSaves, WindowSaves, TimerReads, TimerClears, TimerWrites, vars, frameVars,
                MeantInv, SettingsInv, CopyInv, WindowInv
  <2>6. ASSUME NEW f \in Fields, NEW new \in Settings, new = [copy EXCEPT ![f] = new[f]],
               MenuClick({f}, new)
        PROVE  MeantInv'
    <3>1. \A g \in Fields \ {f} : new[g] = copy[g]
      BY <2>6 DEF Types, MapTypes, Settings
    <3>2. QED
      BY <2>6, <3>1, MenuClickKeepsMeant
  <2>7. ASSUME NEW f \in Fields, NEW new \in Settings, new = [window EXCEPT ![f] = new[f]],
               WindowClick({f}, new)
        PROVE  MeantInv'
    <3>1. \A g \in Fields \ {f} : new[g] = window[g]
      BY <2>7 DEF Types, MapTypes, Settings
    <3>2. QED
      BY <2>7, <3>1, WindowClickKeepsMeant
  <2>8. CASE MenuClick(Fields, Defaults)
    BY <2>8, DefaultsType, MenuClickKeepsMeant
  <2>9. CASE WindowClick(Fields, Defaults)
    BY <2>9, DefaultsType, WindowClickKeepsMeant
  <2>10. QED
    BY <2>1, <2>2, <2>3, <2>4, <2>5, <2>6, <2>7, <2>8, <2>9, StepsAre DEF Types, Others
<1>3. QED
  BY <1>1, <1>2, TypesHold, PTL DEF Spec

\* However the two threads overwrite each other, with any number of options
\* and values, an option that is not what the user chose last is still in a
\* frame's copy or was lost in one of the two named ways.
THEOREM LostChangeIsExplained == Spec => []LostChangeHasCause
<1>1. MeantInv => LostChangeHasCause
  BY DEF MeantInv, SettingsInv, LostChangeHasCause
<1>2. QED
  BY <1>1, MeantKnown, PTL

\* Every file that is written, by the button or by the timer, holds the last
\* choice for every option but the victims and what its writer had not seen.
THEOREM FileIsMeant == Spec => SavedIsMeant
<1> DEFINE Saved ==
             \A f \in Fields :
               \/ file'[f] = meant[f]
               \/ f \in lost
               \/ f \in (IF timer = "write" THEN inMenu ELSE unseen)
<1>1. MeantInv /\ [Next]_vars => [file' # file => Saved]_vars
  <2> SUFFICES ASSUME MeantInv, [Next]_vars, file' # file PROVE Saved
    OBVIOUS
  <2>1. CASE WindowSaves
    BY <2>1 DEF WindowSaves, MeantInv, WindowInv
  <2>2. CASE TimerWrites
    BY <2>2 DEF TimerWrites, Written, MeantInv, SettingsInv
  <2>3. WindowSaves \/ TimerWrites
    BY DEF Next, CpuThread, Window, FrameBegins, MenuChanges, MenuResets, MenuClick, MenuSaves,
           FrameEnds, WindowChanges, WindowResets, WindowClick, WindowSyncs, TimerReads,
           TimerClears, Restart, vars, saving
  <2>4. QED
    BY <2>1, <2>2, <2>3
<1>2. QED
  BY <1>1, MeantKnown, PTL DEF Spec, SavedIsMeant

-----------------------------------------------------------------------------
(* The rumble.                                                             *)

MotorCalls == {"bound", "headset", "setRumble"}

\* A call of SetOutput that goes on carries what the game last wanted.
CallIsCurrent == cpu.at \in MotorCalls => cpu.on = motor

\* An amplitude without a session was set too late: the reset wipes one that
\* was set before it.
WantedWithoutSession == haptics.wanted /\ ~session => late

MotorInv ==
  /\ motor \in BOOLEAN /\ session \in BOOLEAN /\ late \in BOOLEAN /\ rumble \in BOOLEAN
  /\ haptics \in Haptics /\ cpu \in Cpu
  /\ CallIsCurrent /\ WantedWithoutSession /\ LeftoverRumbleHasCause

\* Rumble that outlives the game's wish was set for a session that was already
\* reset, however calls of the motor, frames, settings and resets interleave.
THEOREM LeftoverExplained == RumbleSpec => []LeftoverRumbleHasCause
<1>1. RumbleInit => MotorInv
  <2> SUFFICES ASSUME RumbleInit PROVE MotorInv
    OBVIOUS
  <2>1. NoHaptics \in Haptics /\ NoHaptics.wanted = FALSE /\ Idle \in Cpu /\ Idle.at = "idle"
    BY DEF NoHaptics, Haptics, Idle, Cpu
  <2>2. motor \in BOOLEAN /\ session \in BOOLEAN /\ late \in BOOLEAN /\ rumble \in BOOLEAN
    BY DEF RumbleInit
  <2>3. CallIsCurrent
    BY <2>1 DEF RumbleInit, CallIsCurrent, MotorCalls
  <2>4. WantedWithoutSession /\ LeftoverRumbleHasCause
    BY <2>1, Zenon DEF RumbleInit, WantedWithoutSession, LeftoverRumbleHasCause
  <2>5. QED
    BY <2>1, <2>2, <2>3, <2>4 DEF RumbleInit, MotorInv
<1>2. MotorInv /\ [RumbleNext]_rumbleVars => MotorInv'
  <2> SUFFICES ASSUME MotorInv, [RumbleNext]_rumbleVars PROVE MotorInv'
    OBVIOUS
  <2> USE DEF MotorInv, CallIsCurrent, WantedWithoutSession, LeftoverRumbleHasCause,
              Haptics, Idle, Cpu, MotorCalls
  <2>1. CASE SessionFrame
    BY <2>1 DEF SessionFrame, host
  <2>2. CASE Reset
    BY <2>2 DEF Reset, host, NoHaptics
  <2>3. CASE WindowSets
    BY <2>3 DEF WindowSets, host
  <2>4. CASE MotorCalled
    BY <2>4 DEF MotorCalled
  <2>5. CASE MotorBound
    BY <2>5 DEF MotorBound, SetRumble, host
  <2>6. CASE MotorAsks
    BY <2>6 DEF MotorAsks, host
  <2>7. CASE MotorSets
    BY <2>7 DEF MotorSets, SetRumble, host
  <2>8. CASE GameComesAndGoes \/ FrameCopies \/ FrameAsks
    BY <2>8 DEF GameComesAndGoes, FrameCopies, FrameAsks, host
  <2>9. CASE FrameSets
    BY <2>9 DEF FrameSets, host
  <2>10. CASE UNCHANGED rumbleVars
    BY <2>10 DEF rumbleVars, host
  <2>11. QED
    BY <2>1, <2>2, <2>3, <2>4, <2>5, <2>6, <2>7, <2>8, <2>9, <2>10
       DEF RumbleNext, MotorRuns, FrameRuns
<1>3. MotorInv => LeftoverRumbleHasCause
  BY DEF MotorInv
<1>4. QED
  BY <1>1, <1>2, <1>3, PTL DEF RumbleSpec
=============================================================================
