----------------------------- MODULE HookPatch -----------------------------
(***************************************************************************)
(* The hooks PrimedGun keeps in the running game's code.  A hook replaces  *)
(* one instruction of the game, its site, by a branch to a cave in high    *)
(* MEM1; the cave runs PrimedGun's code, then the instruction it replaced, *)
(* and branches back.  OnFrameEnd checks every hook on every frame: a      *)
(* loaded state, a reboot or the user may have undone it.                  *)
(*                                                                         *)
(* For some hooks the replaced instruction is a constant of the program,   *)
(* for others it is read from the site when the hook is first installed,   *)
(* and recovered from the cave when the host no longer knows it.           *)
(*                                                                         *)
(* The JIT runs what it has compiled, not what memory holds, until the     *)
(* instruction cache is invalidated.                                       *)
(***************************************************************************)
CONSTANTS
  Hooks,     \* the hooks
  Kind,      \* how each hook treats its site
  Logging,   \* ENABLE_PRIMEDGUN_RUNTIME_LOGGING
  Leftovers  \* words in the caves of other builds of PrimedGun

\* prologue:    RenderModelOffset; hooks any stwu prologue
\* projectile:  ProjectileTransform; the same, patch_beam_projectile_timing asks
\* anyWord:     GameFlowFlag; hooks whatever word it finds
\* pitchLoad:   FirstPersonPitchLoad; constant original
\* known:       ScanIndicatorViewBasis, ConditionalElevationPitch; the same
\* conditional: ConditionalCombatPitch; also hooks its own replacement
\* trace:       ScanReticleTrace; a prologue hook, removed unless logging (one
\*              of the three also refuses a recovered word that is no prologue)
Kinds ==
  {"prologue", "projectile", "anyWord", "pitchLoad", "known", "conditional", "trace"}

ASSUME HookPatchAssumption ==
  /\ Kind \in [Hooks -> Kinds]
  /\ Logging \in BOOLEAN

\* The words a site can hold: nothing yet, the game's own instruction, the
\* replacement a combat pitch hook also accepts, an instruction nobody knows,
\* a branch of another build of PrimedGun to a cave this build does not know,
\* and the branch to the cave.
Zero == "zero"
Game == "game"
Replacement == "replacement"
Foreign == "foreign"
Elsewhere == "elsewhere"
Branch == "branch"
Words == {Zero, Game, Replacement, Foreign, Elsewhere, Branch}
Instructions == Words \ {Branch}

ASSUME LeftoversAssumption == Leftovers \subseteq Instructions

\* The code in a cave apart from the replaced instruction: none, that of
\* another build of PrimedGun, whose layout may differ, this build's.
Codes == {"none", "older", "ours"}

\* site and cave in guest memory; slot is the word at the offset in the cave
\* at which this build keeps the replaced instruction; own is the instruction
\* that belongs at the site (a history, as replaced and as saved with the rest).
Places == [site : Words, code : Codes, slot : Instructions, own : Instructions]

VARIABLES
  guest,    \* guest memory: the place of each hook
  saved,    \* the places in the saved state: at first one taken as the game
            \* booted, or one taken under another build of PrimedGun
  original, \* host: the field original of each hook
  wasActive,\* host: s_game_was_active
  running,  \* Metroid Prime runs
  jit,      \* what the JIT has compiled for each hook, or NotCompiled
  checked,  \* the hooks the last step of the frame handler looked at
  foreign,  \* history: the hooks whose site the user ever changed
  misread   \* history: the hooks for which a frame took a word of another
            \* build's hook for the game's instruction

history == <<foreign, misread>>
vars == <<guest, saved, original, wasActive, running, jit, checked, history>>

NotCompiled == [none |-> TRUE]
Blocks == {NotCompiled} \cup [site : Words, code : Codes, slot : Instructions]

\* What a block compiled now would run.
Compiled(place) == [site |-> place.site, code |-> place.code, slot |-> place.slot]

Blank == [site |-> Zero, code |-> "none", slot |-> Zero, own |-> Zero]
\* What another build of PrimedGun may leave in a state of the same game: no
\* hook, a hook with its cave elsewhere, or one with its cave where this build
\* has it, which holds any word at the offset this build reads.
Unhooked == [site |-> Game, code |-> "none", slot |-> Zero, own |-> Game]
HookedElsewhere == [site |-> Elsewhere, code |-> "none", slot |-> Zero, own |-> Game]
HookedHere(word) == [site |-> Branch, code |-> "older", slot |-> word, own |-> Game]
OtherBuilds == {Unhooked, HookedElsewhere} \cup {HookedHere(word) : word \in Leftovers}

\* patch.original before a hook is installed: a constant of the program, or 0.
HasConstant(h) == Kind[h] \in {"pitchLoad", "known", "conditional"}
FreshOriginal == [h \in Hooks |-> IF HasConstant(h) THEN Game ELSE Zero]

NothingCompiled == [h \in Hooks |-> NotCompiled]

Init ==
  /\ guest = [h \in Hooks |-> Blank]
  /\ saved \in {[h \in Hooks |-> Blank]} \cup [Hooks -> OtherBuilds]
  /\ original = FreshOriginal
  /\ wasActive = FALSE
  /\ running = FALSE
  /\ jit = NothingCompiled
  /\ checked = {}
  /\ foreign = {} /\ misread = {}

----------------------------------------------------------------------------
(* Installing one hook.  The result says what guest memory and the host    *)
(* hold afterwards and whether the caller is told to invalidate the cache. *)

Result(place, orig, wrote) == [place |-> place, original |-> orig, wrote |-> wrote]
Untouched(h) == Result(guest[h], original[h], FALSE)
Hooked(h, word) == [guest[h] EXCEPT !.site = Branch, !.code = "ours", !.slot = word]

\* Mutant: the word at the site is taken for the game's, even a branch.
ReplacedWordAlwaysSite(h) == guest[h].site
\* Mutant: the cave is not asked for an instruction the host has forgotten.
ReplacedWordFromHost(h) ==
  IF guest[h].site # Branch THEN guest[h].site ELSE original[h]
\* The instruction a hook replaces, if the site already holds the branch.
ReplacedWord(h) ==
  IF guest[h].site # Branch THEN guest[h].site
  ELSE IF original[h] # Zero THEN original[h] ELSE guest[h].slot

\* Mutant: only a new branch is reported, as for the pitch load.
InstallQuietly(h, word) ==
  Result(Hooked(h, word), word, guest[h].site # Branch)
\* InstallBranchAfterCaveWrite: reports whether it wrote anything.
Install(h, word) == Result(Hooked(h, word), word, guest[h] # Hooked(h, word))

ApplyPrologue(h) ==
  IF ReplacedWord(h) # Zero /\ guest[h].site \in {Branch, Game}
    THEN Install(h, ReplacedWord(h))
    ELSE Untouched(h)

ApplyProjectile(h) == ApplyPrologue(h)

\* ApplyGameFlowFlagPatch looks at no prologue; a word that is not the branch
\* to this cave is the game's to it.
ApplyAnyWord(h) ==
  IF guest[h].site = Branch => ReplacedWord(h) # Zero
    THEN Install(h, ReplacedWord(h))
    ELSE Untouched(h)

\* ApplyFirstPersonPitchLoadPatch repairs the cave and returns false.
ApplyPitchLoad(h) ==
  CASE guest[h].site = Branch -> Result(Hooked(h, Game), original[h], FALSE)
    [] guest[h].site = Game -> Result(Hooked(h, Game), original[h], TRUE)
    [] OTHER -> Untouched(h)

\* The words at a site that these hooks, and the prologue hooks, replace.
Accepts(h) ==
  IF Kind[h] = "conditional" THEN {Branch, Game, Replacement} ELSE {Branch, Game}

ApplyKnown(h) ==
  IF guest[h].site \in {Branch, Game} THEN Install(h, Game) ELSE Untouched(h)

ApplyConditional(h) ==
  IF guest[h].site \in Accepts(h) THEN Install(h, Game) ELSE Untouched(h)

\* RestoreTracePatchIfInstalled.
RestoreTrace(h) ==
  IF guest[h].site = Branch /\ ReplacedWord(h) # Zero
    THEN Result([guest[h] EXCEPT !.site = ReplacedWord(h)], ReplacedWord(h), TRUE)
    ELSE Untouched(h)

\* ApplyScanReticleTracePatch, when logging is on.
ApplyTrace(h) == IF Logging THEN ApplyPrologue(h) ELSE RestoreTrace(h)

\* What OnFrameEnd does with one hook.
Apply(h) ==
  CASE Kind[h] = "prologue" -> ApplyPrologue(h)
    [] Kind[h] = "projectile" -> ApplyProjectile(h)
    [] Kind[h] = "anyWord" -> ApplyAnyWord(h)
    [] Kind[h] = "pitchLoad" -> ApplyPitchLoad(h)
    [] Kind[h] = "known" -> ApplyKnown(h)
    [] Kind[h] = "conditional" -> ApplyConditional(h)
    [] Kind[h] = "trace" -> ApplyTrace(h)

----------------------------------------------------------------------------
(* The game, the user and the emulator, outside PrimedGun.                 *)

\* A boot clears guest memory and the JIT; the host's state is PrimedGun's.
BootGame ==
  /\ ~running
  /\ running' = TRUE
  /\ guest' = [h \in Hooks |-> Blank]
  /\ jit' = NothingCompiled
  /\ checked' = {}
  /\ UNCHANGED <<saved, original, wasActive, history>>

StopGame ==
  /\ running
  /\ running' = FALSE
  /\ checked' = {}
  /\ UNCHANGED <<guest, saved, original, wasActive, jit, history>>

\* The emulator's process ends and a new one starts; the saved state is a file.
RestartProcess ==
  /\ ~running
  /\ original' = FreshOriginal
  /\ wasActive' = FALSE
  /\ UNCHANGED <<guest, saved, running, jit, checked, history>>

\* The game's executable is loaded, at the start or by a soft reset, which
\* leaves the caves alone; the loader invalidates the instruction cache.
GameLoadsCode ==
  /\ running
  /\ guest' = [h \in Hooks |-> [guest[h] EXCEPT !.site = Game, !.own = Game]]
  /\ jit' = NothingCompiled
  /\ checked' = {}
  /\ UNCHANGED <<saved, original, wasActive, running, history>>

\* The JIT compiles the hooked code the first time the game runs it.
GameRuns(h) ==
  /\ running
  /\ jit[h] = NotCompiled
  /\ guest[h].site # Zero
  /\ jit' = [jit EXCEPT ![h] = Compiled(guest[h])]
  /\ UNCHANGED <<guest, saved, original, wasActive, running, checked, history>>

\* A cheat code or the debugger writes a site.
UserWrites(h, word) ==
  /\ running
  /\ guest' = [guest EXCEPT ![h].site = word, ![h].own = word]
  /\ jit' = [jit EXCEPT ![h] = NotCompiled]
  /\ foreign' = foreign \cup {h}
  /\ checked' = checked \ {h}
  /\ UNCHANGED <<saved, original, wasActive, running, misread>>

SaveState ==
  /\ running
  /\ saved' = guest
  /\ UNCHANGED <<guest, original, wasActive, running, jit, checked, history>>

\* A loaded state replaces guest memory; JitInterface::DoState clears the JIT.
LoadState ==
  /\ running
  /\ guest' = saved
  /\ jit' = NothingCompiled
  /\ checked' = {}
  /\ UNCHANGED <<saved, original, wasActive, running, history>>

----------------------------------------------------------------------------
(* PrimedGun's frame handler.  Frames with PrimedGun or its patches off    *)
(* change nothing here.                                                    *)

\* ResetNativeRuntime, when the game that ran is gone.
FrameReset ==
  /\ ~running
  /\ wasActive
  /\ wasActive' = FALSE
  /\ original' = FreshOriginal
  /\ UNCHANGED <<guest, saved, running, jit, checked, history>>

\* A word of another build's hook passes for the game's instruction: its branch
\* at the site, where any word is taken, or what its cave has at the offset from
\* which an instruction the host has forgotten is read.
Misreads(h) ==
  \/ Kind[h] = "anyWord" /\ guest[h].site = Elsewhere
  \/ /\ ~HasConstant(h) /\ original[h] = Zero
     /\ guest[h].site = Branch /\ guest[h].code = "older"
     /\ guest[h].slot \notin {Zero, guest[h].own}

\* Whether the caller invalidates the instruction cache.
CacheStale(asked) == \E h \in asked : Apply(h).wrote

\* ApplyCombatPitchPatches and ApplyProjectileTransformPatches; other says
\* that ApplyBuiltinPatches or a watchdog invalidates the cache anyway.
FrameApply(asked, other) ==
  LET result == [h \in Hooks |-> IF h \in asked THEN Apply(h) ELSE Untouched(h)] IN
  /\ running
  /\ wasActive' = TRUE
  /\ guest' = [h \in Hooks |-> result[h].place]
  /\ original' = [h \in Hooks |-> result[h].original]
  /\ jit' = IF CacheStale(asked) \/ other THEN NothingCompiled ELSE jit
  /\ checked' = asked
  /\ misread' = misread \cup {h \in asked : Misreads(h)}
  /\ UNCHANGED <<saved, running, foreign>>

Next ==
  \/ BootGame \/ StopGame \/ RestartProcess \/ GameLoadsCode
  \/ \E h \in Hooks : GameRuns(h)
  \/ \E h \in Hooks, word \in {Game, Replacement, Foreign} : UserWrites(h, word)
  \/ SaveState \/ LoadState
  \/ FrameReset
  \/ \E timing, other \in BOOLEAN :
       FrameApply({h \in Hooks : Kind[h] = "projectile" => timing}, other)

Spec == Init /\ [][Next]_vars

----------------------------------------------------------------------------
(* Properties.                                                             *)

TypeOK ==
  /\ guest \in [Hooks -> Places]
  /\ saved \in [Hooks -> Places]
  /\ original \in [Hooks -> Instructions]
  /\ {wasActive, running} \subseteq BOOLEAN
  /\ jit \in [Hooks -> Blocks]
  /\ {checked, foreign, misread} \subseteq SUBSET Hooks

\* The instruction a hook replaces survives boots, soft resets, restarts and
\* saved states of this and of other builds, whatever the host still
\* remembers: a site that leads to this build's cave leads to it, and one that
\* leads to no cave holds it.  The exceptions are a site the user wrote to, and
\* a word of another build's hook that a frame has taken for the game's: the
\* code reads fixed offsets in the cave and checks nothing of what it finds.
InstructionKept ==
  \A h \in Hooks \ (foreign \cup misread) :
    /\ guest[h].site = Branch /\ guest[h].own # Zero =>
         \/ guest[h].code = "ours" /\ guest[h].slot = guest[h].own
         \/ guest[h].code = "older"
    /\ guest[h].site \notin {Branch, Elsewhere} => guest[h].site = guest[h].own

\* No one can tell what belongs at the site: the game is not loaded yet, or
\* another build's cave has no word where this build looks for it.
Unrecoverable(place) ==
  place.own = Zero \/ (place.code = "older" /\ place.slot = Zero)

\* A site the frame handler has looked at is hooked by this build's cave, or
\* holds a word the hook does not accept; a trace hook is gone, or wanted.
CheckedIsHooked ==
  \A h \in checked :
    IF Kind[h] = "trace" /\ ~Logging
      THEN guest[h].site = Branch => Unrecoverable(guest[h])
      ELSE \/ guest[h].site = Branch /\ (guest[h].code = "ours" \/ Unrecoverable(guest[h]))
           \/ guest[h].site \in Words \ Accepts(h) /\ Kind[h] # "anyWord"

\* The JIT never runs hook code that memory no longer holds.  The exception
\* is the pitch load hook, whose repaired cave no one is told about.
CodeIsFresh ==
  \A h \in Hooks :
    jit[h] # NotCompiled =>
      \/ jit[h] = Compiled(guest[h])
      \/ Kind[h] = "pitchLoad" /\ jit[h].site = Branch /\ guest[h].code = "ours"
=============================================================================
