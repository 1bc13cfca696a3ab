---------------------------- MODULE BuiltinPatch ----------------------------
(***************************************************************************)
(* The fixed patches of PrimedGunBuiltinPatches.inc and what keeps them in *)
(* the running game's memory.  OnFrameEnd does not look at them on every   *)
(* frame: it writes them when it has not done so in this boot, for a while *)
(* after the player object changed, when a watchdog misses one of the      *)
(* critical groups, and on every Recheck-th frame in any case.             *)
(*                                                                         *)
(* The JIT runs what it has compiled.  After a write OnFrameEnd asks it to *)
(* drop its blocks for two ranges of addresses, 0x80000000 to 0x801fffff   *)
(* and 0x817f8000 to 0x817f8fff.  One patched instruction of the game,     *)
(* 0x80345200 of Disable Frustum Culling, is in neither, nor are the caves *)
(* of these patches, which begin at 0x817f9040.                            *)
(*                                                                         *)
(* No caller ever turns builtin_patches_enabled or a group off, so all of  *)
(* them are on.  The distances between two frames are scaled down.         *)
(***************************************************************************)
EXTENDS Naturals

CONSTANTS
  Patches,   \* the stretches of code written: of each group its sites in the
             \* game's code and its cave
  Caves,     \* those that are caves
  Site,      \* the patch whose branch leads to a cave
  Critical,  \* those of PatchCannonRotation, PatchGunRayTarget, PatchReticle
  Covered,   \* those in the ranges InvalidatePrimedGunPatchICache drops
  Players,   \* the addresses the game's player object can have
  NoPlayer,  \* no player object: address 0
  Recheck,   \* frames between two unconditional checks (60)
  Window,    \* frames every one of which is checked after a new player (180)
  Early,     \* frames between two watchdog checks at first (5)
  Late,      \* the same, later (30)
  Startup,   \* the frame from which on it is later (600)
  MaxFrame   \* bound on s_frame_counter

ASSUME BuiltinPatchAssumption ==
  /\ {Critical, Covered, Caves} \subseteq SUBSET Patches
  /\ Site \in [Caves -> Patches \ Caves]
  /\ NoPlayer \notin Players
  /\ {Recheck, Window, Early, Late, Startup, MaxFrame} \subseteq Nat \ {0}
  /\ Early <= Late

VARIABLES
  running,      \* Metroid Prime runs
  player,       \* guest: the address of the player object, or NoPlayer
  missing,      \* guest: the patches memory does not hold completely
  compiled,     \* JIT: what it runs for each patch: "nothing" yet, or code
                \* compiled from memory "with" or "without" the patch
  frame,        \* s_frame_counter
  wasActive,    \* s_game_was_active
  applied,      \* s_patches_applied_this_boot
  lastPlayer,   \* s_last_patch_player
  reapplyUntil, \* s_patch_reapply_until_frame
  watched,      \* s_last_patch_watchdog_frame
  frameEnded,   \* the last step was a frame PrimedGun handled
  missingFor,   \* history: handled frames that ended with a patch missing
  criticalFor,  \* history: those with a player and a critical patch missing
  staleFor,     \* history: those with the JIT running unpatched code
  playerFor     \* history: frames since the player object was replaced by
                \* one at another address than OnFrameEnd last saw

guest == <<running, player, missing, compiled>>
host == <<frame, wasActive, applied, lastPlayer, reapplyUntil, watched>>
counts == <<missingFor, criticalFor, staleFor>>
vars == <<guest, host, frameEnded, counts, playerFor>>

Addresses == Players \cup {NoPlayer}
NothingCompiled == [g \in Patches |-> "nothing"]
LongAgo == Window + 1

Init ==
  /\ running = FALSE
  /\ player = NoPlayer
  /\ missing = Patches
  /\ compiled = NothingCompiled
  /\ frame = 0
  /\ wasActive = FALSE
  /\ applied = FALSE
  /\ lastPlayer = NoPlayer
  /\ reapplyUntil = 0
  /\ watched = 0
  /\ frameEnded = FALSE
  /\ missingFor = 0 /\ criticalFor = 0 /\ staleFor = 0
  /\ playerFor = LongAgo

----------------------------------------------------------------------------
(* The game, the user and the emulator, outside PrimedGun.                 *)

\* Guest memory is replaced: patches, player object and all.
GuestBecomes(absent, p) ==
  /\ missing' = absent
  /\ player' = p
  /\ compiled' = NothingCompiled
  /\ playerFor' = IF p = lastPlayer THEN LongAgo ELSE 0
  /\ frameEnded' = FALSE
  /\ UNCHANGED <<host, counts>>

\* A boot loads the game's executable; the host's state is PrimedGun's.
BootGame ==
  /\ ~running
  /\ running' = TRUE
  /\ GuestBecomes(Patches, NoPlayer)

StopGame ==
  /\ running
  /\ running' = FALSE
  /\ frameEnded' = FALSE
  /\ UNCHANGED <<player, missing, compiled, host, counts, playerFor>>

\* A state saved with any of the patches in memory, by this build of
\* PrimedGun, another one or a plain Dolphin; JitInterface::DoState clears
\* the JIT.  A soft reset of the game loads the executable again.
LoadState(absent, p) ==
  /\ running
  /\ running' = TRUE
  /\ GuestBecomes(absent, p)

\* A cheat code or the debugger, which tells the JIT, undoes a patch.
UserUndoes(g) ==
  /\ running
  /\ missing' = missing \cup {g}
  /\ compiled' = [compiled EXCEPT ![g] = "nothing"]
  /\ frameEnded' = FALSE
  /\ UNCHANGED <<running, player, host, counts, playerFor>>

\* The game creates its player, drops it between levels or moves on to
\* another one.
GameSetsPlayer(p) ==
  /\ running
  /\ p # player
  /\ player' = p
  /\ playerFor' = IF p = lastPlayer THEN LongAgo ELSE 0
  /\ frameEnded' = FALSE
  /\ UNCHANGED <<running, missing, compiled, host, counts>>

\* The JIT compiles the code of a patch the first time the game runs it; a
\* cave is run from its site, and may be that of another build.
GameRuns(g) ==
  /\ running
  /\ g \in Caves => Site[g] \notin missing
  /\ compiled[g] = "nothing"
  /\ compiled' = [compiled EXCEPT ![g] = IF g \in missing THEN "without" ELSE "with"]
  /\ frameEnded' = FALSE
  /\ UNCHANGED <<running, player, missing, host, counts, playerFor>>

----------------------------------------------------------------------------
(* PrimedGun::OnFrameEnd.                                                  *)

\* Mutant: the periodic check is forgotten.
RecheckNever == FALSE
\* s_frame_counter % 60 == 0.
RecheckDue == frame' % Recheck = 0

HavePlayer == player # NoPlayer

\* A player at another address than the last one seen.
NewPlayer == HavePlayer /\ player # lastPlayer

\* s_last_patch_player and s_patch_reapply_until_frame.
NotePlayer ==
  /\ lastPlayer' = player
  /\ reapplyUntil' = IF player # lastPlayer THEN frame' + Window ELSE reapplyUntil

\* patch_reapply_window.
InWindow == HavePlayer /\ frame' < reapplyUntil'

\* Mutant: the startup interval is used the wrong way round.
WatchdogDueSwapped ==
  HavePlayer /\ frame' >= watched + (IF frame' < Startup THEN Late ELSE Early)
\* VerifyCriticalBuiltinPatches looks at the critical patches.
WatchdogDue ==
  HavePlayer /\ frame' >= watched + (IF frame' < Startup THEN Early ELSE Late)

\* The first two places where OnFrameEnd calls ApplyBuiltinPatches.
ApplyDue == ~applied \/ NewPlayer \/ InWindow \/ RecheckDue

\* The watchdog finds a critical patch missing.
WatchdogBites == WatchdogDue /\ ~ApplyDue /\ missing \cap Critical # {}

\* InvalidatePrimedGunPatchICache.
Invalidated == [g \in Patches |-> IF g \in Covered THEN "nothing" ELSE compiled[g]]

\* Mutant: the cache is not invalidated after a write of ApplyBuiltinPatches.
DropsBlocksUnlessWritten(feedReset, hooked) == feedReset \/ hooked
\* Whether the handler calls it: ApplyBuiltinPatches wrote an instruction, or
\* the cannon feed was reset, or one of the hooks of HookPatch was written.
DropsBlocks(feedReset, hooked) ==
  \/ (ApplyDue \/ WatchdogBites) /\ missing # {}
  \/ feedReset \/ hooked

----------------------------------------------------------------------------
Counted(n, yes) == IF yes THEN n + 1 ELSE 0

\* The histories at the end of a handled frame.
Count ==
  /\ frameEnded' = TRUE
  /\ missingFor' = Counted(missingFor, missing' # {})
  /\ criticalFor' = Counted(criticalFor, HavePlayer /\ missing' \cap Critical # {})
  /\ staleFor' = Counted(staleFor, \E g \in Patches : compiled'[g] = "without")

NextFrame ==
  /\ frame < MaxFrame
  /\ frame' = frame + 1
  /\ playerFor' = IF playerFor < LongAgo THEN playerFor + 1 ELSE LongAgo

\* PrimedGun is off.
FrameDisabled ==
  /\ NextFrame
  /\ frameEnded' = FALSE
  /\ missingFor' = 0 /\ criticalFor' = 0 /\ staleFor' = 0
  /\ UNCHANGED <<guest, wasActive, applied, lastPlayer, reapplyUntil, watched>>

\* ResetNativeRuntime, when the game that ran is gone.
FrameReset ==
  /\ ~running
  /\ wasActive
  /\ wasActive' = FALSE
  /\ applied' = FALSE
  /\ frame' = 0
  /\ watched' = 0
  /\ lastPlayer' = NoPlayer
  /\ reapplyUntil' = 0
  /\ frameEnded' = FALSE
  /\ missingFor' = 0 /\ criticalFor' = 0 /\ staleFor' = 0
  /\ playerFor' = LongAgo
  /\ UNCHANGED guest

\* A frame of the game.  Whether VerifyCannonFeedWatchdog resets the feed, and
\* then writes the patches again, and whether a hook was written depends on
\* guest memory this module leaves out.
FrameActive(feedReset, hooked) ==
  /\ feedReset => HavePlayer
  /\ running
  /\ NextFrame
  /\ wasActive' = TRUE
  /\ NotePlayer
  /\ watched' = IF WatchdogDue THEN frame' ELSE watched
  /\ applied' = ~(WatchdogBites \/ feedReset)
  /\ missing' = IF ApplyDue \/ WatchdogBites \/ feedReset THEN {} ELSE missing
  /\ compiled' = IF DropsBlocks(feedReset, hooked) THEN Invalidated ELSE compiled
  /\ Count
  /\ UNCHANGED <<running, player>>

Next ==
  \/ BootGame \/ StopGame
  \/ \E absent \in SUBSET Patches, p \in Addresses : LoadState(absent, p)
  \/ \E g \in Patches : UserUndoes(g) \/ GameRuns(g)
  \/ \E p \in Addresses : GameSetsPlayer(p)
  \/ FrameDisabled \/ FrameReset
  \/ \E feedReset, hooked \in BOOLEAN : FrameActive(feedReset, hooked)

Spec == Init /\ [][Next]_vars

----------------------------------------------------------------------------
(* Properties.                                                             *)

TypeOK ==
  /\ running \in BOOLEAN /\ wasActive \in BOOLEAN
  /\ applied \in BOOLEAN /\ frameEnded \in BOOLEAN
  /\ player \in Addresses /\ lastPlayer \in Addresses
  /\ missing \subseteq Patches
  /\ compiled \in [Patches -> {"nothing", "with", "without"}]
  /\ frame \in 0 .. MaxFrame
  /\ reapplyUntil \in 0 .. frame + Window
  /\ playerFor \in 0 .. LongAgo
  /\ {watched, missingFor, criticalFor, staleFor} \subseteq 0 .. frame

\* However often saved states or the user undo a patch, and whatever the host
\* still holds from an earlier boot, Recheck handled frames in a row never end
\* with a patch missing.
UndoneIsRewritten == missingFor < Recheck

\* With a player in the game the critical patches are back much sooner.
CriticalIsRewritten ==
  criticalFor < (IF frame < Startup THEN Early ELSE Late)

\* After the game replaced the player object every patch is in memory at the
\* end of each handled frame of the window, whatever undoes it there.  One
\* that has the address OnFrameEnd last saw goes unnoticed.
NewPlayerIsPatched ==
  frameEnded /\ HavePlayer /\ playerFor <= Window => missing = {}

\* The JIT never runs unpatched code of a patch that memory holds, nor patched
\* code of one that was undone, as far as the invalidated ranges reach.
CoveredCodeIsFresh ==
  \A g \in Covered :
    /\ compiled[g] = "with" => g \notin missing
    /\ compiled[g] = "without" => g \in missing

\* NativeRuntime.cpp:4431, "Recheck occasionally so user/loaded-state changes
\* cannot silently undo PrimedGun patches": the game does not go on running
\* unpatched code past the next recheck.
UndoneIsRunAgain == staleFor < Recheck
=============================================================================
