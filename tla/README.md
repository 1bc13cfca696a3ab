# A TLA+ model of PrimedGun

PrimedGun is a fork of the Dolphin emulator that turns *Metroid Prime* (GameCube,
Rev 0) into a game for OpenXR headsets. While the game runs, PrimedGun patches its
machine code, writes poses and flags into its memory after every frame, turns motion
of the controllers into input, and renders both eyes through an OpenXR session.

This directory holds TLA+ modules that model the parts of it that keep state and meet
other actors, TLC configurations that check them on small instances, and proofs that
TLAPS checks for every instance. `PROJECT.json` lists, for machines, what this file
explains: which lines of the source each definition stands for, each run with its
properties, for each property a mutation of the model that breaks it, the hazards of
the code and where they bite.

Paths without a directory are under `src/Source/Core/`: `NativeRuntime.cpp` and the
`.inc` in `Core/PrimedGun/`, `OpenXRInputState.h` in `Common/VR/`, `GCPadEmu.cpp` in
`Core/HW/`, `OpenXRManager.cpp` in `VideoCommon/VR/`, `Present.cpp`,
`GeometryShaderManager.cpp` and `BPStructs.cpp` in `VideoCommon/`, `VulkanOpenXR.cpp` in
`VideoBackends/Vulkan/`, `MainWindow.cpp` and `VRPane.cpp` in `DolphinQt/`.

## 1. The system

### Threads and other actors

| actor | runs | touches |
|---|---|---|
| CPU thread | guest code through the JIT; `OnFrameEnd` once per field; `CSIDevice` polls of the emulated pad | guest memory, all statics of `NativeRuntime.cpp` and `GCPadEmu.cpp` |
| video thread | draws, XFB copies, `Presenter::Present` with the OpenXR frame calls | `OpenXRManager`, `GeometryShaderManager`, the shared input state |
| submit thread (Android) | the command buffers, and with them the end of an OpenXR frame | the queued frame, swapchain images, a failure flag |
| window thread | widgets, a 100 ms and a 250 ms timer | its own copy of the settings, `Get/SetRuntimeSettings`, the settings file |
| OpenXR runtime | session state machine, poses, compositor | swapchain images, the queue of events |
| the game | its own code and objects | guest memory |
| the user | saved states, cheat codes, debugger, start, stop and restart, the menu in the headset | guest memory, the settings, the host's lifetime |

A saved state replaces all guest memory and none of the host's variables. Stopping
the game, and starting another, keeps the host's variables until a frame end notices
(`ResetNativeRuntime`). A restart of the program loses the host's variables and keeps
saved states and files. Most of what is hard here comes from this: two memories, each
of which can be set back without the other.

### Components

| component | state | operations | must hold | module |
|---|---|---|---|---|
| D-pad input lease | host record, record in guest scratch memory, bit of the guest's player | take, refresh, release, restore at another player or from a loaded record | the bit returns to what the game wants; no other object is written | `DpadOwner` |
| D-pad gesture | last direction, latch, frame numbers | arm, latch, press, repeat, disarm | fires only by the head and by the stick, repeats in time and not too often | `DpadGesture` |
| code hooks | site, cave, `patch.original`, JIT blocks | install, repair, recover, remove | the replaced instruction is lost only to a user's write or another build's word; the JIT runs what memory holds | `HookPatch` |
| builtin patches | patched words, four schedules over one frame counter, JIT blocks | apply, recheck, reapply, watchdog, reset | a patch undone comes back within a bound | `BuiltinPatch` |
| runtime settings | settings in force, the frame's copy, the window's copy, save flag, file | change in menu or window, reset, save, sync | no choice and no save is lost, but for named windows | `VrSettings` |
| OpenXR frame loop | session, begun frame, poses and their snapshot, images, pictures | poll, wait, begin, locate, draw, copy, blit, end | frames and images are paired; a layer has the pose its picture was drawn with | `XrFrame` |
| cannon feed, gun targeting | scratch with basis, expected gun and target, the pick it holds, watchdog counters | feed, pick, hold, drop, look, repair | what was hit is offered, or what has its UID at its address, and not for long; a feed that never came is noticed | `CannonFeed` |
| controllers, overlay, weapon selection | snapshot, overlay, gesture, panel, pulse | publish, reset, three read-modify-writes of the overlay, open, point, commit | the panel is the gesture's; what is committed was shown, and by the weapon hand | `PadInput` |
| rumble | amplitude, switch | motor call in two bindings, copy of the switch, reset | rumble that is off stays off | `Rumble` |
| Android submission | queued frame, in-flight and failed flags, images | queue, release, end, wait, refuse | a frame goes out once, with its own picture; trouble does not last | `AsyncSubmit` |
| VR menu, height prompt | visible tab and item, notice deadlines, prompt stages | open, hover, click, prompt, recentre | every click acts once | clicks in `VrSettings` |
| PowerPC block trace | active and flushing flags, three counters | start, record, flush | a report shows one trace | not modelled |
| the rest | see section 8 | | | not modelled |

### How the components interact

- `OnFrameEnd` runs, in this order, the patches, the hooks, the cannon feed and menu
  (`UpdateCannonTracking`), the gesture and its lease. All share `s_frame_counter`,
  which `ResetNativeRuntime` puts back to 0. `DpadGesture`, `BuiltinPatch` and
  `CannonFeed` each have it as a variable; a reset under a deadline is one of their cases.
- The gesture asks for the lease and holds it while armed. In `DpadOwner` the asking
  is free, so what it shows holds for any gesture.
- Patches and hooks share one invalidation of the JIT's code. Each module has the
  other's as an input (`other` in `FrameApply`, `hooked` in `FrameActive`).
- The settings are read and written back by the frame and by the window; the menu
  changes the frame's copy.
- The frame loop offers controller state to the CPU thread through
  `OpenXRInputState`; `inputActive` in `XrFrame` is the bit every consumer tests first.
  `PadInput` and `Rumble` have that session as an input that comes and goes, and model
  what the consumers do with it: the pad's poll and the frame's end on the CPU thread,
  each lock held for one call only.
- On Android `SubmitFrame` hands the frame to the submit thread. `XrFrame` has the frame
  loop with a submission that ends at once, `AsyncSubmit` the threaded one with a loop
  around it that is reduced to the calls. Both are held against the same order of calls,
  `XrCalls`.

### What is hard here

Two memories that are restored separately; a lease on a bit that has another owner;
an instruction that exists only in a cave after it was replaced; deadlines as sums with
a counter that is set back; read-modify-write of settings from two threads; a flag read
and cleared without the lock that guards it; frame calls split over two calls of
`Present` with an event queue between them; poses copied at different times;
swapchain images whose release one backend leaves to a later step or to another thread;
a shared overlay that three callers read, change and write back; statics of functions
that no reset reaches. `PROJECT.json` lists each one at the line where it bites.

## 2. Modules

Each component has a module with its state, one action per operation and its
properties, an `MC` module with the values TLC uses, and, where something is proved, a
`Proofs` module. The mutated operators beside the originals are the bugs the properties
are shown to catch; no specification uses them.

**`DpadOwner`** — `SetPlayerInputDisabledForDpad` and helpers (`NativeRuntime.cpp`
2060–2198). `flag` is the guest's bit; `wish` is a history of what it would be if only
the game had written it. `lease` is the host's record (`s_dpad_forced_input_disabled`
and what goes with it), `owner` the copy in guest scratch memory, which `SaveState`
saves and `LoadState` brings back with everything else in guest memory. One action is
one `OnFrameEnd` as far as it concerns the lease (`FrameRelease`, the four `FrameHold…`
for its early returns, the three frames that do not get there) or one event of game or
user.

**`DpadGesture`** — `UpdateXrDpad` (2427–2566). One action is one frame: skipped,
untracked, idle, armed, or the reset of the counter. The frame numbers are statics of
the function that a reset cannot reach; unsigned subtraction is modelled where it wraps
(`WithinFrames`). Stick positions are classes (dead zone, sign, larger axis).

**`HookPatch`** — every `Apply…Patch` of the dynamic hooks (298–375, 700–718,
3698–4235). A place has the word at the site, the cave's code and the instruction kept
in its last slot. `Kind` says how a hook treats its site; `ReplacedWord` is the order
in which the code looks for the instruction it replaced. `own`, a history, is the
game's instruction there. The first saved state may have been taken under another build
of PrimedGun (`OtherBuilds`): a site may be unhooked, lead to a cave elsewhere, or lead
to a cave where this build has its own, with any word at the fixed offset this build
reads. `misread` is the history of the hooks for which a frame took such a word, or the
branch itself (`ApplyGameFlowFlagPatch`), for the game's instruction. `jit` is what the
JIT compiled.

**`BuiltinPatch`** — `ApplyBuiltinPatches`, the schedule in `OnFrameEnd` 4414–4487, the
watchdog 4262–4306. Words of a patch are one bit: `missing`. A cave is patched code of
its own, reached when its site is.

**`VrSettings`** — `UpdateCannonTracking`'s read at its start and write at its end
(3505, 3522), the menu in between, `MainWindow`'s page with its copy, its timers and
both save buttons, and `ConsumeVrSettingsSaveRequest` as the two steps it is for a
thread that sets the flag without the lock. Histories: `meant` is the user's last
choice, `lost` and its companions say which window ate it.

**`XrFrame`** — `OpenXRManager`'s session state machine and frame calls, the two blocks
of `Present` that begin a frame (933–976, 1046–1090), the pose snapshot of
`GeometryShaderManager::SetConstants` (148–231), the eye images of the D3D11 and the
Vulkan backend. The runtime is external, after the OpenXR specification: it moves the
session between any two steps, gives out images and takes them back in order, and
refuses calls once the session is lost. A `setup` chosen at the start says which
backend, which setting and which runtime. Poses are two names: only equality with the
snapshot counts, and a picture whose pose leaves the snapshot is `Stale` from then on.

**`XrCalls`** — the abstract specification of the frame loop: what an OpenXR runtime
expects of an application. Sessions begin and end; inside one each frame is waited for,
begun and ended, in this order and one at a time, and a begun frame is ended unless the
session is lost. `XrFrame` implements it: `Calls == INSTANCE XrCalls` with `frame <-
xrFrame` and `lost <- (loss = "lost")`, checked as the property `ImplementsCallOrder`.
`AsyncSubmit` maps its own variables to it (`frame` is computed from `waited` and `open`).

**`AsyncSubmit`** — `SubmitFrame` for Android, `FinalizePendingXRFrame` and the wait for
the submit thread (`VulkanOpenXR.cpp` 1687–1916) between Present's poll, wait, begin and
render of the next frame. The queued frame is `job`, which goes from queued to released
to ended; `images` is the runtime's order of the held images, each marked by who has it;
`failed` is the flag the submit thread leaves for the next submission. A `setup` says
whether the thread is prompt, whether views may be missing, and how sessions stop.

**`PadInput`** — the controllers and the overlay of `OpenXRInputState`, the weapon
selection of `UpdatePrimedGunWeaponSelect` (`GCPadEmu.cpp` 578–712) with the panel it
publishes, `PublishVrOverlayState` and the pointer's part of the frame. `cpu` says where
the CPU thread is in a poll or in a frame end, with the copies it holds there; every
read and every write of the shared state is a step of its own, since each takes the lock
for itself. `unseen` and `stale` are histories that name the exceptions.

**`Rumble`** — `SetRumble`/`SetOutput` in both bindings of the pad's motor (the modern
controls' direct call and the headset as a device), the switch that the frame's end and
the settings hand on, the session's frame that reads both, and its reset. `late` is the
history of an amplitude set after the session was gone.

**`CannonFeed`** — `UpdateCannonTracking` (3502–3697) with its early returns and what
each leaves in the scratch, `UpdateGunTargeting` with the pick that it holds
(1682–1740), `VerifyCannonFeedWatchdog` (4308–4381). One action is one frame; what the
frame finds (`Seen`) and the state of the hand are free. Histories count the frames
without a hit (`missedFor`) and without a feed (`emptyFor`). Objects have addresses
(`Addr`), and two may have the same at different times: `Held` compares address and UID
as `TargetUidStillExists` does (1344–1360), while the object in `pick` stands for what was
hit; `reused` says that the UID was given away since.

## 3. Runs

| run | module, cfg | properties | expected |
|---|---|---|---|
| `dpad_owner` | `MCDpadOwner` | `StuckInputHasCause`, `LostDisableHasCause`, `RecordMatchesLease` | hold |
| `dpad_gesture` | `MCDpadGesture` | `GestureTypeOK`, `ArmedNearHead`, `ArmedByStick`, `PressRepeats`, `PressNotTooFast` | hold |
| `hooks` | `MCHookPatch` | `InstructionKept`, `CheckedIsHooked`, `CodeIsFresh` | hold |
| `builtin_patches` | `MCBuiltinPatch` | `UndoneIsRewritten`, `CriticalIsRewritten`, `CoveredCodeIsFresh` | hold |
| `builtin_patches_stale` | `…Culling.cfg` | `UndoneIsRunAgain` | violated |
| `settings` | `MCVrSettings` | `TypeOK`, `LostChangeHasCause`, `SavedIsMeant`, `WindowConverges`, `MenuSaveIsWritten` | hold |
| `settings_window_lost` | `…Window.cfg` | `WindowChangeIsSaved` | violated |
| `xr_frame` | `MCXrFrame` | `ImplementsCallOrder`, `NoImageLeftHeld`, `InputEndsWithSession`, `ImmediatePictureHasItsPose`, `SettledSessionIsShown` | hold |
| `async_submit` | `MCAsyncSubmit` | `TypeOK`, `NoImageLeftHeldWhenSound`, `PromptCallsInOrder`, `OwnPictureIsShown`, `SettledFramesAreShown` | hold |
| `pad_input` | `MCPadInput` | `TypeOK`, `PanelShowsChoice`, `CommitWasShown`, `CommitIsTheWeaponHands` | hold |
| `rumble` | `Rumble`, `MCRumble.cfg` | `LeftoverRumbleHasCause`, `RumbleOffSettles` | hold |
| `cannon_feed` | `MCCannonFeed` | `HoldIsShort`, `EmptyFeedIsRepaired`, `FedNeverLooksEmpty`, `OffersWhatItHit` | hold |

### What the passing runs show

- *Lease.* Input stays disabled against the game's wish only while the guest's own
  record says so (a released frame undoes it and leaves no record) or after one of
  three named events; input the game wants disabled is enabled only where the game
  disabled it under PrimedGun's lease. The two records agree unless guest memory was
  replaced since the last released frame.
- *Gesture.* It fires only near the head and by the stick, repeats in time and not too
  often. The exceptions are explicit: after a reset the counter can meet an old frame
  number (`nearStale`, `dirStale`).
- *Hooks.* The replaced instruction survives every sequence of boots, resets, soft
  resets, restarts and saved states of this and other builds, except where the user
  wrote over the site or a frame misread another build's hook; hooks whose instruction
  is a constant of the program never misread. A site that was looked at is hooked by
  this build, or holds a word the hook refuses, or leads to another build's cave with
  nothing to recover. The JIT is stale only at the repaired cave of the pitch load hook.
- *Patches.* A patch that was undone is back within the recheck interval, a critical
  one within the watchdog's; covered code is fresh.
- *Settings.* A choice is lost in exactly two windows, a requested save in one
  (`raced`); the window comes to agree with the settings in force, and a save in the
  menu reaches the file.
- *Frame loop.* It implements `XrCalls`: frames are paired and in order whatever the
  runtime does between two calls. Images are given back, input ends with the session,
  every layer of an immediate picture goes out with the pose it was drawn with, and a
  session that the runtime neither hides nor stops any more is shown layers for ever.
- *Android submission.* With a prompt submit thread the calls of both threads are in
  `XrCalls`' order. A frame takes the image of another only after an image was left
  behind, and after any refusal frames are ended and shown again.
- *Pad.* Between two calls the panel is the one of the gesture, although three callers
  write over each other. What is committed was on the panel and by the hand of the
  settings with the menu closed; the exceptions are a panel that was wiped since the
  last poll and a copy that has become old.
- *Rumble.* Rumble outlives the game's wish only if it was set for a session already
  reset, and a switch that is off for good silences the controllers for good, although a
  reset puts it back to on.
- *Cannon.* An aimed cannon offers what it hits, to this player, or holds what it hit
  for no longer than the hold while something has that UID at that address: the object
  itself, unless the game or a loaded state gave its UID away in between; a feed that never came is repaired at the second look, and the
  watchdog never takes a feed that only stopped for one that never came.

### What the violated runs show

Each quotes a statement of the repository that the code does not keep.

- `builtin_patches_stale`: the recheck "so user/loaded-state changes cannot silently
  undo PrimedGun patches" rewrites memory, but `InvalidatePrimedGunPatchICache` names
  two ranges and one patched instruction and the caves are outside: what the JIT
  compiled before goes on running.
- `settings_window_lost`: an option changed in the window while a frame holds its copy
  is overwritten when the frame ends; the sync timer then shows the old value, and Save
  Settings saves it.

### What the exceptions of the passing properties name

Where the code does not keep a promise that a passing property is about, the property
carries an exception or a premise, named here in brackets; without it, TLC finds the
property violated. The locked pose and the watchdog are told of for completeness: no
property asks for more there than the code does.

- *Save race* (`raced`): a Save clicked in the headset between the timer's look at the
  flag and its clearing is never carried out, although the overlay says SETTINGS SAVED.
- *Images of a stopped session* (`hidesFirst`): a Vulkan session that stops right after
  a frame that was to be rendered leaves `ShouldRender()` true (`Present.cpp:870`);
  `Present` goes on acquiring without a frame, and the backend, which releases in
  `SubmitFrame`, never gives the images back (`OpenXRManager.h:49` says it must).
- *Picture of the wrong pose* (`mirrorFails`): without an image of the desktop window the eyes are not
  drawn (`Present.cpp:1006`), and the old pictures are submitted with the new pose.
- *Locked pose*: nothing calls `InvalidateVRHeadPose`, so a locked head pose is fetched
  by the very first draw and never again (`GeometryShaderManager.cpp:185–197`).
- *Views not located* (`viewsFail`): on Android such a frame is ended without layers and
  the images acquired for it stay acquired (`VulkanOpenXR.cpp:1764–1768`). From then on
  (`left`) every frame shows the picture of an earlier one.
- *A slow submit thread* (`prompt`): `Present` begins frame N+1 (`Present.cpp:1077`)
  before the thread has ended frame N; the runtime discards the one, ends the other in
  its place, and the next submission refuses.
- *The watchdog* looks for a scratch of zeros (`NativeRuntime.cpp:4320`); a frame that
  stops the feed leaves words in it. `FedNeverLooksEmpty` is what makes the repair safe,
  and it also says that a feed that broke later is never repaired.
- *A word of another build* (`misread`): the caves are at fixed addresses and the replaced
  instruction is read from a fixed offset (`NativeRuntime.cpp:3753`, and 0x10, 0x14, 0x18
  or 0x80 for other hooks) once the host has forgotten it; nothing checks that the word
  found is one the hook would replace. With another layout it is not. At a game flow site
  any word counts, another build's branch included (4066–4083).
- *Another object in the place of the pick* (`reused`): `TargetUidStillExists` compares
  the UID and the address (`NativeRuntime.cpp:1356`), and both can be another object's
  after a level or a loaded state. It is then offered until the hold ends.
- *A pick across a reset* (`recounted`): the last pick is a static of the function
  (`NativeRuntime.cpp:1721`) and survives `ResetNativeRuntime`. When the counter comes to
  its frame number again, it passes for fresh.
- *A late amplitude* (`late`): `SetOutput` asks for a session and sets the amplitude in
  two calls (`GCPadEmu.cpp:914`); the next session begins with that rumble.

## 4. Bounds

| run | bound | why it is enough |
|---|---|---|
| `dpad_owner` | two player addresses, symmetric, refresh interval 2, one saved state | a lease, a record in a loaded state and the current player can name two different objects; the third record of a chain is the first again after the restore |
| `dpad_gesture` | delays 2, 3, 4 and 5 frames, counter to 7, five stick classes | the delays keep the code's order (latch 8 < repeat 10 < new direction 11 < near hold 16); a reset can happen at every frame number and the counter can pass every old one |
| `hooks` | two hooks, of the kinds `anyWord` and `pitchLoad` | hooks share only the one invalidation; a second hook shows that one hook's write covers the other's. Another build's cave has the game's instruction, none, or one word that stands for all others. `anyWord` is the one kind that can misread the site as well as the cave, `pitchLoad` the one that writes without reporting; the other kinds differ in how they find the instruction and are covered by the proofs |
| `builtin_patches` | recheck 6, window 3, watchdog 2 and 3, startup 8, counter to 14; one critical patch and one that is not, both in the invalidated ranges | two recheck periods and both watchdog intervals fit under the counter; window and recheck overlap and do not divide each other. The cave of the first and an instruction outside the ranges are added in `builtin_patches_stale` |
| `settings` | two options (one shown in the menu), two values, four user actions | a victim, a later change of the other option, a save and a restart fit; the second option shows that changing one writes all |
| `xr_frame` | three images, four setups: D3D11 as shipped, D3D11 with a locked pose, Vulkan on a runtime that hides first, with and without a window | an eye holds one image at a time in these setups; two pose names are exact for the properties |
| `async_submit` | three images, four setups: prompt, prompt with missing views, stops without hiding, slow | a drawn image, a queued one and one left behind fit; with two left behind the eye runs dry, which is reached as well |
| `pad_input` | two beams, a pulse of two polls | changing the beam between two polls needs two; a pulse can be cut at its start and at its end |
| `rumble` | none: the state is finite | |
| `cannon_feed` | two players, three objects that get one UID, two of them at one address, a hold of 1, a look every 2 frames, counter to 4, symmetric | the UID can move while its pick is held, to the same address or another; two looks fit under the counter, and after a reset it can come to the number of a pick that was left |

Counters are bounded by a guard on the action that counts (`MaxFrame`, `MaxChanges`),
and the histories saturate (`Aged`, `LongAgo`). The image count and the queue of events
are bounded by the code's own behaviour; no state constraint is used. Symmetry is
used only in runs without liveness.

## 5. Fairness

Four specifications state any. In `VrSettings` a begun frame ends (weak), and the
window's event loop gets round to its timers: weak for the two halves of the save
timer, strong for the sync timer, whose turn other callbacks may take. In `XrFrame` the
video thread goes on with a Present it has begun (weak), the game goes on copying (weak:
a game that hangs shows nothing), and tracking is not lost for ever: views are located
again and again and such a frame is drawn (strong, since frames without views come in
between). The runtime takes a session that submits frames as far as showing it (weak),
which is what OpenXR says of the states READY, SYNCHRONIZED and VISIBLE. In `Rumble` a
motor call and a frame's end that were begun go on and the session's frame runs (weak);
frames end again and again among motor calls (strong). In `AsyncSubmit` both threads go
on (weak), and frames are not for ever denied, left without a desktop image or without
views just when they are to be rendered (strong). Nothing is assumed about stopping,
hiding, losing, the user or saved states.

Deadlock checking is on in every run.

## 6. Proofs

TLAPS proves, for all values of the constants that satisfy the named assumptions:

| module | theorem | states |
|---|---|---|
| `DpadProofs` | `TypeCorrect`, `StuckInputIsExplained`, `LostDisableIsExplained`, `RecordAgrees` | all of `dpad_owner` |
| | `GestureTypeCorrect`, `ArmedByTheHead`, `ArmedByTheStick`, `PressesRepeat`, `PressesApart` | all of `dpad_gesture`, for any delays, the real 16, 8, 11 and 10 among them, and any stick positions |
| `HookPatchProofs` | `TypeCorrect`, `ReplacedInstructionKept`, `CompiledCodeIsFresh`, `CheckedAreHooked` | all of `hooks`, for any set of hooks of all seven kinds, also those no run instantiates |
| `BuiltinPatchProofs` | `TypeCorrect`, `UndoneComesBack`, `CriticalComesBack`, `NewPlayerGetsPatches`, `CompiledCodeIsFresh` | for any intervals, with the real 60, 180, 5, 30 and 600 among them |
| `XrFrameProofs` | `TypeCorrect`, `FramesPaired`, `InputEnds`, `ImagesGivenBackUntilLoss`, `ImagesGivenBack`, `CallsInOrder`, `PictureHasItsPose` | the safety of `xr_frame`, for any setups and any number of images |
| `PadInputProofs` | `TypeCorrect`, `PanelShows`, `CommittedWasShown`, `CommittedByWeaponHand` | all of `pad_input`, for any beams and any pulse |
| `SettingsProofs` | `TypeCorrect`, `LostChangeIsExplained`, `FileIsMeant` | the safety of `settings`, for any options and values |
| | `LeftoverExplained` | the safety of `rumble`, whose switch is one of the settings |
| `AsyncSubmitProofs` | `TypeCorrect`, `OwnPictureShown`, `PromptCalls`, `ImagesGivenBackWhenSound` | the safety of `async_submit`, for any setups and any number of images |
| `CannonFeedProofs` | `HoldShort`, `EmptyFeedRepaired`, `FedNeverEmpty`, `OffersWhatWasHit` | all of `cannon_feed`, for any hold and distance of looks, the real 12 and 60 among them |

The inductive invariants, and why the properties need them:

- `StuckIInv` and `LostIInv` say of the *saved* state, too, what the property says of
  the current one, with the host's lease of the moment: a loaded state must not bring a
  stuck bit the invariant did not account for.
- `GestureInv` has three parts. `ArmingIsWhole`: the statics of the gesture are set and
  wiped together, so that an armed gesture always has a last press and a direction, and
  one that is not armed has nothing a reset could make stale. `NearAge` and `DirAges`:
  a frame number that is kept and what has happened since add up to the counter, unless
  the counter was reset in between. Each delay of the code is then a bound on an age.
- `KeptInv` (hooks) says, of each hook that neither the user nor a misread word has
  touched, that the host's copy of the replaced instruction is either unknown or the
  game's, that this build's cave in memory and in the saved state has the game's
  instruction, and that a site holds it or a branch. Of another build's cave it says
  nothing: a host that remembers repairs it, one that does not may misread it
  (`NothingMisread` is the lemma that no other word is taken). `FreshInv` ties each compiled block to the memory of its hook. `CheckedInv` says of the guest and of
  the saved state that a place is `Backed`: where there is no instruction to replace, at
  the site or in the cave a branch leads to, the game has not loaded any or the cave is
  another build's. Without it a hook that finds none could be one whose instruction this
  build had lost. `LooksHooked` is what
  each kind of hook leaves behind, and it survives what is not a write to that hook.
- `UndoneComesBack` needs that the counter and the count of frames without the patch
  move together: a count of k means no multiple of the interval among the last k frame
  numbers. The lemmas on remainders give that at most `Recheck - 1` can pass.
- `FrameInv` (frame loop) says for each step of `Present` what the runtime holds: no
  frame while polling, a waited one before `xrBeginFrame`, a begun one after it, and
  none where `vr_frame_started` is false, unless the session is lost. `CallsInOrder`,
  the safety part of the refinement, adds in `CallInv` that the session runs wherever
  a call is made; each action is then one action of `XrCalls` or leaves its variables.
- `QueueInv`: each start or stop is queued at most once and tells of the state the session
  is in, and a visible session has been synced. `LossInv` and `ExitInv`: until a loss is
  pending the loop exits only with the session, and once it exits no frame is begun.
  From these follows `RenderInv`, for Vulkan and until `Present` learns of a loss:
  `shouldRender` means a session that can be seen and a frame that is begun at the blit
  and at the submission, so that `SubmitFrame` releases what the blit acquired
  (`ImageInv`). It needs a runtime that hides a session before it stops it
  (`HidesFirst`); that no image is held at the end needs one that loses none as well
  (`Gentle`). For D3D11 no premise is needed.
- `PictureHasItsPose` follows a pose to the eye. `EfbInv` and `XfbInv`: what the game
  draws and what `Present` took is blank, of a loaded state, or a scene of the one pose
  the frame has, or was drawn before the session ran, in which case nothing shows it
  (`FlatAllowed`). `ShownInv` says the same of each eye from the blit to the submission.
  It needs `HidesFirst`, since an image that Vulkan leaves behind shifts every later
  picture, but sessions may be lost.
- `LeftInv` (Android submission): until an image is left behind at most one is held,
  and its owner is the thread that will release it; `JobInv`, part of the types, says
  that a queued frame has its image and that Present holds none beside it. `PromptInv`
  gives the owner of the open frame at each place of `Present` and of the job, as long
  as the submit thread has finished when `Present` polls. `SoundInv` adds that a picture
  is drawn only for a frame that was begun; it takes the three premises of the property
  (prompt, hidden before it stops, views located) and a session that is not lost.
- `MeantInv` (settings) says of each of the three copies, the shared one, the frame's and
  the window's, where it may differ from what the user meant: the shared one in the
  victims and in what the menu of the running frame changed, the frame's in the victims
  and in what the window changed under it, the window's in the victims and in what it
  has not read yet. A step that copies one to another moves the difference along, and
  what is written to the file is one of them.
- `PanelInv` and `HandInv` (pad) say of the shared overlay what the property says of it
  between calls, and the same of each copy that a call is about to write back: a copy
  taken before a change would otherwise bring back a panel that was closed.
- `MotorInv` (rumble): a motor call carries what the game wants at the moment, and an
  amplitude without a session was set late.
- `WatchdogInv` (cannon) counts the frames at fault against the looks that were had
  since; `PickInv` ties `missedFor` to the difference between the counter and the frame
  number of the pick, unless the counter was reset under it. `ReusedInv`: a valid pick
  whose UID was not given away is the object that has the UID now.

Assumptions: the named `ASSUME` of each module (addresses differ, intervals are
positive, kinds are known), which TLC evaluates in every run, and `HidesFirst` or `Gentle`
in the three theorems that state one. Both hold of the setups of the run `xr_frame` and
restrict Vulkan only. Each invariant was an invariant of a TLC run before it was proved.

Two modules are proved about together with another one: the gesture with the lease it
asks for (`DpadProofs`), rumble with the settings that hold its switch
(`SettingsProofs`). Their specifications are `GestureSpec` and `RumbleSpec`, so that both
can be extended at once.

Every safety property of every passing run is stated by a theorem. Only model-checked
is what is out of the prover's reach: liveness (`WindowConverges`, `MenuSaveIsWritten`,
`SettledSessionIsShown`, `RumbleOffSettles`, `SettledFramesAreShown`, and the part
`FramesEnd` of `ImplementsCallOrder`), with whatever needs ENABLED or induction over
data. No module here uses RECURSIVE.

## 7. Plan

Done, in this order: lease and gesture, hooks, settings, builtin patches, frame loop;
then pad, rumble, Android submission, the order of calls with its refinement, cannon
feed; then the proofs. The components left are listed in section 8 with the reason.
What is left to prove goes beyond the properties of the runs: the safety steps on which
the liveness properties rest, such as that what the window has not read shrinks with
each `WindowSyncs`, and that only a call of the motor sets an amplitude.

## 8. Not modelled, and why

- *Numbers*: pose arithmetic, smoothing, projection, scan pitch, scan targeting,
  directional movement. Floating point without control; nothing for TLC to tell apart.
- *Pure I/O and layout*: cannon texture files, overlay drawing, settings parsing,
  controller bindings, logging (`ENABLE_PRIMEDGUN_RUNTIME_LOGGING` is false).
- *Menu navigation and the height prompt*: hovering, tabs and key repeat lay out text;
  the prompt is ten seconds of text whose shown flag nothing resets. What a click does
  to the settings is in `VrSettings`.
- *PowerPC block trace*: a tool for developers that changes nothing of the game.
- *Straight-line setup*: instance, session and swapchain creation, the utility session
  of the mapping window.
- *Tables*: shader hunter, element classification, the words of the patches.
- *Off by default or elsewhere*: opcode replay, the Android application, Dolphin itself. Of
  Dolphin the models have what they need: boot, stop, saved states, and what the JIT has
  compiled.
- *Code that nothing calls*: `InvalidateVRHeadPose` (hence the locked
  pose of section 3), `ResetCalibrationOffsets`, `ApplySamusArmPreset`; the window's
  Reconnect buttons are in a hidden header, so `ResetNativeRuntime` is reached from
  `OnFrameEnd` only.

Simplifications inside the modelled parts: one eye stands for both in `AsyncSubmit`,
one UID for the object list in `CannonFeed`; one of the three trace hooks also refuses a
recovered word that is no prologue, only with logging, which `HookPatch` leaves out;
failed reads and writes of the game's static memory, once it is there, are left
out (such as the early return of the gesture at `NativeRuntime.cpp:2525–2531`); the reset
after a failed `xrSyncActions` (`OpenXRManager.cpp:699–703`) and the path of
`vr_dont_clear_screen` (`Present.cpp:1084`) are not in `XrFrame`; a poll of the pad takes
its copy of the overlay and uses it in one step of `PadInput`; which beam, object or hand is pointed at is
free wherever it is geometry; the stereo mode does not change in a run of
`XrFrame`; both eyes are blitted in one step; `xrEndSession` is taken to succeed;
`xrBeginSession`, `xrWaitFrame` and the image calls fail only once the session is lost
(or an image is waited for twice); the clamping of three settings to the range their
widgets offer is left out; restoring a bit at the address of a player object that was
freed writes into whatever is there now, which `flag` at that address stands for.
