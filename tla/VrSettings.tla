----------------------------- MODULE VrSettings -----------------------------
(***************************************************************************)
(* The runtime settings and the two threads that change them.              *)
(*                                                                         *)
(* The CPU thread copies s_settings at the start of each frame, lets the   *)
(* in-headset menu change the copy and writes all of it back.  The desktop *)
(* window keeps a copy of its own, changes a field of it and writes all of *)
(* it; a timer brings the copy up to date.  The mutex makes each read and  *)
(* each write atomic, not the two together.                                *)
(*                                                                         *)
(* Save in the menu raises a flag, without the mutex; another timer of the *)
(* window takes the flag down and writes the settings file.                *)
(***************************************************************************)
EXTENDS Naturals

CONSTANTS
  Fields,     \* the options that the window or the menu can change
  Shown,      \* those the menu shows; its reset resets all of them
  Overlays,   \* vr_overlays_enabled, without which there is no menu
  Values,     \* the values of an option
  Default,    \* its default value
  MaxChanges  \* bound on the number of clicks and restarts

ASSUME VrSettingsAssumption ==
  /\ Default \in Values
  /\ Shown \subseteq Fields
  /\ Overlays \in Fields \ Shown
  /\ MaxChanges \in Nat

VARIABLES
  settings,  \* s_settings
  inFrame,   \* CPU thread: between GetRuntimeSettings and SetRuntimeSettings
  copy,      \* CPU thread: its copy, while inFrame
  menuUsed,  \* CPU thread: the menu was clicked in this frame
  window,    \* window thread: *runtime
  timer,     \* window thread: where the save timer's callback is
  requested, \* s_vr_settings_save_requested
  file,      \* the settings file
  changes,   \* number of changes so far
  meant,     \* history: the value the user last chose for each option
  byMenu,    \* history: the options last chosen in the menu
  exposed,   \* history: options the window changed during the frame
  unseen,    \* history: options the menu changed and the window has not read
  inMenu,    \* history: the options the menu changed in this frame
  lost,      \* history: options whose last change was overwritten
  unsaved,   \* history: Save was clicked in the menu and no file written since
  raced      \* history: it was clicked while the timer took the flag down

frameVars == <<inFrame, copy, menuUsed, inMenu>>
saving == <<timer, requested, file, unsaved, raced>>
vars == <<settings, frameVars, window, saving, changes, meant, byMenu, exposed,
          unseen, lost>>

Settings == [Fields -> Values]
Defaults == [f \in Fields |-> Default]

Init ==
  /\ settings = Defaults
  /\ inFrame = FALSE
  /\ copy = Defaults
  /\ menuUsed = FALSE
  /\ window = Defaults
  /\ timer = "idle"
  /\ requested = FALSE
  /\ file = Defaults
  /\ changes = 0
  /\ meant = Defaults
  /\ byMenu = {} /\ exposed = {} /\ unseen = {} /\ inMenu = {} /\ lost = {}
  /\ unsaved = FALSE /\ raced = FALSE

----------------------------------------------------------------------------
(* CPU thread: UpdateCannonTracking.                                       *)

\* settings = GetRuntimeSettings().
FrameBegins ==
  /\ ~inFrame
  /\ inFrame' = TRUE
  /\ copy' = settings
  /\ menuUsed' = FALSE
  /\ inMenu' = {}
  /\ exposed' = {}
  /\ UNCHANGED <<settings, window, saving, changes, meant, byMenu, unseen, lost>>

\* Mutant: the menu also runs outside the frame's read and write.
MenuUsedAnytime ==
  /\ ~menuUsed
  /\ copy[Overlays] = Default
  /\ menuUsed' = TRUE

\* A click on the open menu; the button must be released between two clicks.
MenuUsed ==
  /\ inFrame
  /\ ~menuUsed
  /\ copy[Overlays] = Default
  /\ menuUsed' = TRUE

\* UpdateVrMenu, for a click that changes the options in changed.
MenuClick(changed, new) ==
  /\ MenuUsed
  /\ changes < MaxChanges
  /\ changes' = changes + 1
  /\ copy' = new
  /\ inMenu' = changed
  /\ meant' = [f \in Fields |-> IF f \in changed THEN new[f] ELSE meant[f]]
  /\ byMenu' = byMenu \cup changed
  /\ unseen' = unseen \cup changed
  /\ exposed' = exposed \ changed
  /\ lost' = lost \ changed
  /\ UNCHANGED <<settings, inFrame, window, saving>>

\* AdjustVrMenuSetting and ActivateVrMenuSelection.
MenuChanges(f, v) ==
  /\ f \in Shown
  /\ MenuClick({f}, [copy EXCEPT ![f] = v])

\* ResetVrRuntimeSettings.
MenuResets == MenuClick(Fields, Defaults)

\* SaveVrMenuSettingsNotice.
MenuSaves ==
  /\ MenuUsed
  /\ changes < MaxChanges
  /\ changes' = changes + 1
  /\ requested' = TRUE
  /\ unsaved' = TRUE
  /\ raced' = (timer = "clear")
  /\ UNCHANGED <<settings, inFrame, copy, inMenu, window, timer, file, meant, byMenu, exposed,
                 unseen, lost>>

\* SetRuntimeSettings(settings).
FrameEnds ==
  /\ inFrame
  /\ inFrame' = FALSE
  /\ settings' = copy
  /\ lost' = lost \cup exposed
  /\ exposed' = {}
  /\ inMenu' = {}
  /\ UNCHANGED <<copy, menuUsed, window, saving, changes, meant, byMenu, unseen>>

----------------------------------------------------------------------------
(* Window thread.  Its callbacks do not interleave with each other.        *)

\* Mutant: the handler forgets apply_runtime.
AppliedNot(new) == settings
\* apply_runtime: all of *runtime becomes the settings.
Applied(new) == new

\* A widget changes the options in changed of *runtime.
WindowClick(changed, new) ==
  /\ timer = "idle"
  /\ changes < MaxChanges
  /\ changes' = changes + 1
  /\ window' = new
  /\ settings' = Applied(new)
  /\ meant' = [f \in Fields |-> IF f \in changed THEN new[f] ELSE meant[f]]
  /\ exposed' = IF inFrame THEN exposed \cup changed ELSE exposed
  /\ lost' = (lost \cup (unseen \ inMenu)) \ changed
  /\ byMenu' = byMenu \ changed
  /\ unseen' = unseen \ changed
  /\ UNCHANGED <<frameVars, saving>>

WindowChanges(f, v) == WindowClick({f}, [window EXCEPT ![f] = v])

\* The button that resets everything.
WindowResets == WindowClick(Fields, Defaults)

\* Mutant: the timer was never started.
SyncedNever == window
\* What the window copies from the runtime.
Synced == settings

\* runtime_ui_sync_timer, every 100 ms.
WindowSyncs ==
  /\ timer = "idle"
  /\ window' = Synced
  /\ unseen' = inMenu
  /\ UNCHANGED <<settings, frameVars, saving, changes, meant, byMenu, exposed, lost>>

\* The Save Settings button writes the window's copy.
WindowSaves ==
  /\ timer = "idle"
  /\ file' = window
  /\ UNCHANGED <<settings, frameVars, window, timer, requested, unsaved, raced, changes, meant, byMenu,
                 exposed, unseen, lost>>

\* Mutant: the flag is taken down before it is looked at.
TimerSawCleared == FALSE
\* What ConsumeVrSettingsSaveRequest returns.
TimerSaw == requested

\* primegun_vr_save_timer, every 250 ms: ConsumeVrSettingsSaveRequest reads
\* the flag, then takes it down, also when it was not up.
TimerReads ==
  /\ timer = "idle"
  /\ timer' = IF TimerSaw THEN "clearAndWrite" ELSE "clear"
  /\ UNCHANGED <<settings, frameVars, window, requested, file, unsaved, raced, changes, meant, byMenu,
                 exposed, unseen, lost>>

TimerClears ==
  /\ timer \in {"clear", "clearAndWrite"}
  /\ requested' = FALSE
  /\ timer' = IF timer = "clear" THEN "idle" ELSE "write"
  /\ UNCHANGED <<settings, frameVars, window, file, unsaved, raced, changes, meant, byMenu, exposed,
                 unseen, lost>>

\* Mutant: the timer saves the window's copy, as the button does.
WrittenFromWindow == window
\* What the timer saves.
Written == settings

\* save_primegun_runtime_settings(GetRuntimeSettings()).
TimerWrites ==
  /\ timer = "write"
  /\ timer' = "idle"
  /\ file' = Written
  /\ unsaved' = FALSE
  /\ UNCHANGED <<settings, frameVars, window, requested, raced, changes, meant, byMenu, exposed, unseen,
                 lost>>

\* PrimedGun is closed and opened again: load_primegun_runtime_settings.
Restart ==
  /\ timer = "idle"
  /\ changes < MaxChanges
  /\ changes' = changes + 1
  /\ settings' = file /\ window' = file /\ meant' = file
  /\ inFrame' = FALSE
  /\ byMenu' = {} /\ inMenu' = {} /\ exposed' = {} /\ unseen' = {} /\ lost' = {}
  /\ requested' = FALSE /\ unsaved' = FALSE
  /\ UNCHANGED <<copy, menuUsed, timer, file, raced>>

CpuThread ==
  \/ FrameBegins
  \/ \E f \in Fields, v \in Values : MenuChanges(f, v)
  \/ MenuResets \/ MenuSaves
  \/ FrameEnds

Window ==
  \/ \E f \in Fields, v \in Values : WindowChanges(f, v)
  \/ WindowResets \/ WindowSyncs \/ WindowSaves
  \/ TimerReads \/ TimerClears \/ TimerWrites

Next == CpuThread \/ Window \/ Restart

\* A frame that has begun ends, and the window's event loop fires both timers
\* and finishes their callbacks, however often it is busy with something else.
Fairness ==
  /\ WF_vars(FrameEnds)
  /\ SF_vars(WindowSyncs)
  /\ WF_vars(TimerReads) /\ WF_vars(TimerClears) /\ WF_vars(TimerWrites)

Spec == Init /\ [][Next]_vars /\ Fairness

----------------------------------------------------------------------------
(* Properties.                                                             *)

TypeOK ==
  /\ {settings, copy, window, file, meant} \subseteq Settings
  /\ {inFrame, menuUsed, requested, unsaved, raced} \subseteq BOOLEAN
  /\ timer \in {"idle", "clear", "clearAndWrite", "write"}
  /\ changes \in 0 .. MaxChanges
  /\ {byMenu, exposed, unseen, inMenu, lost} \subseteq SUBSET Fields
  /\ ~inFrame => exposed \cup inMenu = {}

\* What the user chose last is what is set, unless the choice is still in a
\* frame's copy, or is one of two kinds of victim: chosen in the window during
\* a frame, which then wrote its older copy back, or chosen in the menu and
\* overwritten from a window that had not read it yet.
LostChangeHasCause ==
  \A f \in Fields : settings[f] # meant[f] => f \in lost \cup inMenu

\* A file that is written holds what the user chose last for every option but
\* the victims.  What the menu changed is missing if its frame has not ended,
\* or, in a file the window's button writes, if the window has not read it.
SavedIsMeant ==
  [][file' # file =>
       \A f \in Fields :
         \/ file'[f] = meant[f]
         \/ f \in lost
         \/ f \in (IF timer = "write" THEN inMenu ELSE unseen)]_vars

\* When the user is done the window comes to show the settings in force.
WindowConverges == <>[](window = settings)

\* README.md:60, "Use Save Settings after changing PrimedGun options to apply
\* them": a file written holds the last choice for every option last chosen in
\* the window.
WindowChangeIsSaved ==
  [][file' # file => \A f \in Fields \ byMenu : file'[f] = meant[f]]_vars

\* The same line, of the menu's own Save Settings button: a click on it is
\* followed by the settings being written, unless the flag was raised between
\* the timer's look at it and its clearing.
MenuSaveIsWritten == unsaved ~> ~unsaved \/ raced
=============================================================================
