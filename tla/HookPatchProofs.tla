-------------------------- MODULE HookPatchProofs --------------------------
(* Proofs about the code hooks, for any set of hooks of any kinds.         *)
EXTENDS HookPatch, TLAPS

Results == [place : Places, original : Instructions, wrote : BOOLEAN]

LEMMA WordTypes ==
  /\ Zero \in Instructions /\ Game \in Instructions
  /\ Replacement \in Instructions /\ Foreign \in Instructions /\ Elsewhere \in Instructions
  /\ Branch \in Words /\ Instructions \subseteq Words
  /\ Branch # Zero /\ Branch # Game
BY DEF Instructions, Words, Zero, Game, Replacement, Foreign, Elsewhere, Branch

LEMMA PlaceTypes == Blank \in Places /\ OtherBuilds \subseteq Places
<1>1. \A word \in Leftovers : HookedHere(word) \in Places
  BY LeftoversAssumption, WordTypes DEF HookedHere, Places, Codes
<1>2. Blank \in Places /\ Unhooked \in Places /\ HookedElsewhere \in Places
  BY WordTypes DEF Blank, Unhooked, HookedElsewhere, Places, Codes
<1>3. QED
  BY <1>1, <1>2 DEF OtherBuilds

\* The first saved state has a place for each hook.
LEMMA FirstSaved ==
  ASSUME Init PROVE saved \in [Hooks -> {Blank} \cup OtherBuilds]
BY DEF Init

LEMMA FreshOriginalType == FreshOriginal \in [Hooks -> {Zero, Game}]
BY DEF FreshOriginal

----------------------------------------------------------------------------
(* What applying one hook returns.                                         *)

\* The instruction a hook replaces is one, or the branch was found where no
\* branch should be read.
LEMMA ReplacedWordType ==
  ASSUME TypeOK, NEW h \in Hooks
  PROVE  ReplacedWord(h) \in Instructions
<1>1. guest[h].site \in Words /\ guest[h].slot \in Instructions /\ original[h] \in Instructions
  BY DEF TypeOK, Places
<1>2. QED
  BY <1>1 DEF ReplacedWord, Instructions

LEMMA HookedType ==
  ASSUME TypeOK, NEW h \in Hooks, NEW word \in Instructions
  PROVE  /\ Hooked(h, word) \in Places
         /\ Hooked(h, word).site = Branch
         /\ Hooked(h, word).code = "ours"
         /\ Hooked(h, word).slot = word
         /\ Hooked(h, word).own = guest[h].own
<1>1. guest[h] \in Places
  BY DEF TypeOK
<1>2. QED
  BY <1>1, WordTypes DEF Hooked, Places, Codes

LEMMA InstallType ==
  ASSUME TypeOK, NEW h \in Hooks, NEW word \in Instructions
  PROVE  /\ Install(h, word) \in Results
         /\ Install(h, word).place = Hooked(h, word)
         /\ Install(h, word).original = word
         /\ ~Install(h, word).wrote => Hooked(h, word) = guest[h]
BY HookedType DEF Install, Result, Results

LEMMA UntouchedType ==
  ASSUME TypeOK, NEW h \in Hooks
  PROVE  /\ Untouched(h) \in Results
         /\ Untouched(h).place = guest[h]
         /\ Untouched(h).original = original[h]
BY DEF Untouched, Result, Results, TypeOK

\* Every way to apply a hook is one of five.
Outcome(h) ==
  \/ Apply(h) = Untouched(h)
  \/ Apply(h) = Install(h, Game) /\ guest[h].site \in Accepts(h)
  \/ /\ Apply(h) = Install(h, ReplacedWord(h)) /\ ~HasConstant(h)
     /\ guest[h].site = Branch => ReplacedWord(h) # Zero
     /\ Kind[h] = "anyWord" \/ guest[h].site \in Accepts(h)
  \/ /\ Kind[h] = "pitchLoad"
     /\ \/ Apply(h) = Result(Hooked(h, Game), original[h], FALSE) /\ guest[h].site = Branch
        \/ Apply(h) = Result(Hooked(h, Game), original[h], TRUE) /\ guest[h].site = Game
  \/ /\ Kind[h] = "trace" /\ guest[h].site = Branch /\ ReplacedWord(h) # Zero
     /\ Apply(h) = Result([guest[h] EXCEPT !.site = ReplacedWord(h)], ReplacedWord(h), TRUE)

LEMMA Outcomes == ASSUME NEW h \in Hooks PROVE Outcome(h)
<1>1. Kind[h] \in Kinds
  BY HookPatchAssumption
<1>2. CASE Kind[h] = "prologue"
  BY <1>2 DEF Apply, Outcome, ApplyPrologue, Accepts, HasConstant
<1>3. CASE Kind[h] = "projectile"
  BY <1>3 DEF Apply, Outcome, ApplyProjectile, ApplyPrologue, Accepts, HasConstant
<1>4. CASE Kind[h] = "anyWord"
  <2>1. Apply(h) = ApplyAnyWord(h)
    BY <1>4 DEF Apply
  <2>2. QED
    BY <1>4, <2>1 DEF Outcome, ApplyAnyWord, HasConstant
<1>5. CASE Kind[h] = "pitchLoad"
  <2>1. Apply(h) = ApplyPitchLoad(h)
    BY <1>5 DEF Apply
  <2>2. QED
    BY <1>5, <2>1 DEF Outcome, ApplyPitchLoad
<1>6. CASE Kind[h] = "known"
  BY <1>6 DEF Apply, Outcome, ApplyKnown, Accepts
<1>7. CASE Kind[h] = "conditional"
  BY <1>7 DEF Apply, Outcome, ApplyConditional, Accepts
<1>8. CASE Kind[h] = "trace"
  BY <1>8 DEF Apply, Outcome, ApplyTrace, ApplyPrologue, RestoreTrace, Accepts, HasConstant
<1>9. QED
  BY <1>1, <1>2, <1>3, <1>4, <1>5, <1>6, <1>7, <1>8 DEF Kinds

\* The result is well typed, and a result that is not reported changes
\* nothing, except where the pitch load hook repairs its cave.
LEMMA ApplyType ==
  ASSUME TypeOK, NEW h \in Hooks
  PROVE  /\ Apply(h) \in Results
         /\ Apply(h).place.own = guest[h].own
         /\ ~Apply(h).wrote =>
              \/ Apply(h).place = guest[h]
              \/ Kind[h] = "pitchLoad" /\ guest[h].site = Branch
                   /\ Apply(h).place = Hooked(h, Game)
<1>1. guest[h] \in Places /\ original[h] \in Instructions
  BY DEF TypeOK
<1>2. ReplacedWord(h) \in Instructions /\ ReplacedWord(h) \in Words
  BY ReplacedWordType, WordTypes
<1>3. CASE Apply(h) = Untouched(h)
  BY <1>3, UntouchedType
<1>4. CASE Apply(h) = Install(h, Game)
  BY <1>4, InstallType, HookedType, WordTypes
<1>5. CASE Apply(h) = Install(h, ReplacedWord(h))
  BY <1>2, <1>5, InstallType, HookedType
<1>6. CASE /\ Kind[h] = "pitchLoad" /\ guest[h].site = Branch
           /\ Apply(h) = Result(Hooked(h, Game), original[h], FALSE)
  BY <1>1, <1>6, HookedType, WordTypes DEF Result, Results
<1>7. CASE Apply(h) = Result(Hooked(h, Game), original[h], TRUE)
  BY <1>1, <1>7, HookedType, WordTypes DEF Result, Results
<1>8. CASE Apply(h) = Result([guest[h] EXCEPT !.site = ReplacedWord(h)], ReplacedWord(h), TRUE)
  BY <1>1, <1>2, <1>8 DEF Result, Results, Places
<1>9. QED
  BY <1>3, <1>4, <1>5, <1>6, <1>7, <1>8, Outcomes DEF Outcome

----------------------------------------------------------------------------
(* Type correctness.                                                       *)

\* What a step of the frame handler leaves in memory and in the host.
LEMMA FrameTypes ==
  ASSUME TypeOK, NEW asked \in SUBSET Hooks, NEW other \in BOOLEAN, FrameApply(asked, other)
  PROVE  /\ guest' \in [Hooks -> Places]
         /\ original' \in [Hooks -> Instructions]
         /\ \A h \in Hooks : guest'[h] = (IF h \in asked THEN Apply(h).place ELSE guest[h])
         /\ \A h \in Hooks : original'[h] = (IF h \in asked THEN Apply(h).original ELSE original[h])
<1> DEFINE result(h) == IF h \in asked THEN Apply(h) ELSE Untouched(h)
<1>1. \A h \in Hooks : result(h) \in Results
  BY ApplyType, UntouchedType
<1>2. /\ guest' = [h \in Hooks |-> result(h).place]
      /\ original' = [h \in Hooks |-> result(h).original]
  BY DEF FrameApply
<1>3. \A h \in Hooks : result(h).place \in Places /\ result(h).original \in Instructions
  BY <1>1 DEF Results
<1>4. \A h \in Hooks : Untouched(h).place = guest[h] /\ Untouched(h).original = original[h]
  BY UntouchedType
<1>5. QED
  BY <1>2, <1>3, <1>4

LEMMA NothingCompiledType == NothingCompiled \in [Hooks -> Blocks]
BY DEF NothingCompiled, Blocks

\* The hooks, the saved state, the host's copies and the compiled blocks stay
\* well typed; in particular no cave ever runs a branch as the game's
\* instruction, whatever loaded states and user writes leave behind.
THEOREM TypeCorrect == Spec => []TypeOK
<1>1. Init => TypeOK
  <2> SUFFICES ASSUME Init PROVE TypeOK
    OBVIOUS
  <2>1. guest \in [Hooks -> Places] /\ saved \in [Hooks -> Places]
    BY PlaceTypes, FirstSaved DEF Init
  <2>2. original \in [Hooks -> Instructions]
    BY FreshOriginalType, WordTypes DEF Init
  <2>3. jit \in [Hooks -> Blocks]
    BY NothingCompiledType DEF Init
  <2>4. QED
    BY <2>1, <2>2, <2>3 DEF Init, history, TypeOK
<1>2. TypeOK /\ [Next]_vars => TypeOK'
  <2> SUFFICES ASSUME TypeOK, [Next]_vars PROVE TypeOK'
    OBVIOUS
  <2>1. CASE BootGame
    <3>1. guest' \in [Hooks -> Places]
      BY <2>1, PlaceTypes DEF BootGame
    <3>2. QED
      BY <2>1, <3>1, NothingCompiledType DEF BootGame, history, TypeOK
  <2>2. CASE StopGame
    BY <2>2 DEF StopGame, history, TypeOK
  <2>3. CASE RestartProcess
    <3>1. original' \in [Hooks -> Instructions]
      BY <2>3, FreshOriginalType, WordTypes DEF RestartProcess
    <3>2. QED
      BY <2>3, <3>1 DEF RestartProcess, history, TypeOK
  <2>4. CASE GameLoadsCode
    <3>1. \A h \in Hooks : guest[h] \in Places
      BY DEF TypeOK
    <3>2. guest' \in [Hooks -> Places]
      BY <2>4, <3>1, WordTypes DEF GameLoadsCode, Places
    <3>3. QED
      BY <2>4, <3>2, NothingCompiledType DEF GameLoadsCode, history, TypeOK
  <2>5. ASSUME NEW h \in Hooks, GameRuns(h) PROVE TypeOK'
    <3>1. guest[h] \in Places
      BY DEF TypeOK
    <3>2. Compiled(guest[h]) \in Blocks
      BY <3>1 DEF Compiled, Blocks, Places
    <3>3. jit' \in [Hooks -> Blocks]
      BY <2>5, <3>2 DEF GameRuns, history, TypeOK
    <3>4. QED
      BY <2>5, <3>3 DEF GameRuns, history, TypeOK
  <2>6. ASSUME NEW h \in Hooks, NEW word \in {Game, Replacement, Foreign}, UserWrites(h, word)
        PROVE  TypeOK'
    <3>1. guest[h] \in Places
      BY DEF TypeOK
    <3>2. [guest[h] EXCEPT !.site = word, !.own = word] \in Places
      BY <3>1, WordTypes DEF Places
    <3>3. guest' \in [Hooks -> Places]
      BY <2>6, <3>2 DEF UserWrites, history, TypeOK
    <3>4. jit' \in [Hooks -> Blocks]
      BY <2>6 DEF UserWrites, TypeOK, Blocks
    <3>5. QED
      BY <2>6, <3>3, <3>4 DEF UserWrites, history, TypeOK
  <2>7. CASE SaveState
    BY <2>7 DEF SaveState, history, TypeOK
  <2>8. CASE LoadState
    BY <2>8, NothingCompiledType DEF LoadState, history, TypeOK
  <2>9. CASE FrameReset
    <3>1. original' \in [Hooks -> Instructions]
      BY <2>9, FreshOriginalType, WordTypes DEF FrameReset
    <3>2. QED
      BY <2>9, <3>1 DEF FrameReset, history, TypeOK
  <2>10. ASSUME NEW asked \in SUBSET Hooks, NEW other \in BOOLEAN, FrameApply(asked, other)
         PROVE  TypeOK'
    <3>1. guest' \in [Hooks -> Places] /\ original' \in [Hooks -> Instructions]
      BY <2>10, FrameTypes
    <3>2. jit' = NothingCompiled \/ jit' = jit
      BY <2>10 DEF FrameApply
    <3>3. jit' \in [Hooks -> Blocks]
      BY <3>2, NothingCompiledType DEF TypeOK
    <3>4. QED
      BY <2>10, <3>1, <3>3 DEF FrameApply, history, TypeOK
  <2>11. CASE UNCHANGED vars
    BY <2>11 DEF vars, history, TypeOK
  <2>12. QED
    BY <2>1, <2>2, <2>3, <2>4, <2>5, <2>6, <2>7, <2>8, <2>9, <2>10, <2>11 DEF Next
<1>3. QED
  BY <1>1, <1>2, PTL DEF Spec

----------------------------------------------------------------------------
(* The replaced instruction.                                               *)

\* A place neither the user nor a misread word has touched: the site holds what
\* belongs there, another build's branch, or the branch to the cave (before the
\* game is loaded only the hooks that ask for no prologue put one there).  This
\* build's cave has the game's instruction; another build's may have any word.
Sound(h, place) ==
  /\ place.own \in {Zero, Game}
  /\ place.site = Branch /\ Kind[h] # "anyWord" => place.own # Zero
  /\ place.site \in {place.own, Branch, Elsewhere}
  /\ place.code # "older" => place.slot \in {Zero, Game}
  /\ place.site = Branch /\ place.own # Zero =>
       \/ place.code = "ours" /\ place.slot = place.own
       \/ place.code = "older"

SoundHook(h) == Sound(h, guest[h]) /\ Sound(h, saved[h]) /\ original[h] \in {Zero, Game}

KeptInv == \A h \in Hooks \ (foreign \cup misread) : SoundHook(h)

LEMMA SoundPlaces == \A h \in Hooks : \A place \in {Blank} \cup OtherBuilds : Sound(h, place)
<1>1. \A h \in Hooks : Sound(h, Blank) /\ Sound(h, Unhooked) /\ Sound(h, HookedElsewhere)
  BY DEF Sound, Blank, Unhooked, HookedElsewhere, Zero, Game, Branch, Elsewhere
<1>2. \A h \in Hooks : \A word \in Leftovers : Sound(h, HookedHere(word))
  BY DEF Sound, HookedHere, Zero, Game, Branch
<1>3. QED
  BY <1>1, <1>2 DEF OtherBuilds

\* Unless it misreads a word, a hook takes the game's instruction for the one
\* it replaces, or none.
LEMMA NothingMisread ==
  ASSUME TypeOK, NEW h \in Hooks, Sound(h, guest[h]), original[h] \in {Zero, Game},
         ~Misreads(h), ~HasConstant(h), Kind[h] = "anyWord" \/ guest[h].site \in Accepts(h)
  PROVE  /\ ReplacedWord(h) \in {Zero, Game}
         /\ guest[h].site # Branch => ReplacedWord(h) = guest[h].own
<1>1. CASE guest[h].site # Branch
  <2>1. guest[h].site # Elsewhere
    BY <1>1 DEF Misreads, Accepts, Elsewhere, Game, Replacement, Branch
  <2>2. QED
    BY <1>1, <2>1 DEF Sound, ReplacedWord
<1>2. CASE guest[h].site = Branch /\ original[h] # Zero
  BY <1>2 DEF ReplacedWord
<1>3. CASE guest[h].site = Branch /\ original[h] = Zero
  <2>1. ReplacedWord(h) = guest[h].slot
    BY <1>3 DEF ReplacedWord
  <2>2. CASE guest[h].code = "older"
    BY <1>3, <2>1, <2>2 DEF Misreads, Sound
  <2>3. CASE guest[h].code # "older"
    BY <1>3, <2>1, <2>3 DEF Sound
  <2>4. QED
    BY <2>2, <2>3
<1>4. QED
  BY <1>1, <1>2, <1>3

\* Applying a hook to a sound place leaves it sound.
LEMMA ApplyKeeps ==
  ASSUME TypeOK, NEW h \in Hooks, Sound(h, guest[h]), original[h] \in {Zero, Game}, ~Misreads(h)
  PROVE  Sound(h, Apply(h).place) /\ Apply(h).original \in {Zero, Game}
<1>1. guest[h] \in Places /\ guest[h].own \in {Zero, Game}
  BY DEF TypeOK, Sound
<1>2. ASSUME NEW word \in {Zero, Game}, guest[h].own # Zero => word = Game,
             Kind[h] = "anyWord" \/ guest[h].site \in Accepts(h)
      PROVE  Sound(h, Hooked(h, word))
  <2>1. word \in Instructions
    BY WordTypes
  <2>2. Kind[h] # "anyWord" => guest[h].own # Zero
    <3>1. Kind[h] # "anyWord" /\ guest[h].site # Branch => guest[h].site \in {Game, Replacement}
      BY <1>2 DEF Accepts
    <3>2. QED
      BY <3>1 DEF Sound, Elsewhere, Replacement, Zero, Game, Branch
  <2>3. QED
    BY <1>1, <1>2, <2>1, <2>2, HookedType, WordTypes DEF Sound
<1>3. CASE Apply(h) = Untouched(h)
  BY <1>3, UntouchedType
<1>4. CASE Apply(h) = Install(h, Game) /\ guest[h].site \in Accepts(h)
  BY <1>1, <1>2, <1>4, InstallType, WordTypes
<1>5. CASE /\ Apply(h) = Install(h, ReplacedWord(h)) /\ ~HasConstant(h)
           /\ guest[h].site = Branch => ReplacedWord(h) # Zero
           /\ Kind[h] = "anyWord" \/ guest[h].site \in Accepts(h)
  <2>1. ReplacedWord(h) \in {Zero, Game} /\ (guest[h].own # Zero => ReplacedWord(h) = Game)
    BY <1>1, <1>5, NothingMisread
  <2>2. Sound(h, Hooked(h, ReplacedWord(h)))
    BY <1>2, <1>5, <2>1
  <2>3. QED
    BY <1>5, <2>1, <2>2, InstallType, ReplacedWordType
<1>6. CASE /\ guest[h].site \in {Branch, Game}
           /\ \E wrote \in BOOLEAN : Apply(h) = Result(Hooked(h, Game), original[h], wrote)
  BY <1>1, <1>2, <1>6 DEF Result, Accepts
<1>7. CASE /\ Kind[h] = "trace" /\ guest[h].site = Branch /\ ReplacedWord(h) # Zero
           /\ Apply(h) = Result([guest[h] EXCEPT !.site = ReplacedWord(h)], ReplacedWord(h), TRUE)
  <2>1. ReplacedWord(h) = Game
    BY <1>7, NothingMisread DEF HasConstant, Accepts
  <2>2. guest[h].own = Game
    BY <1>1, <1>7 DEF Sound
  <2>3. Apply(h).place = [guest[h] EXCEPT !.site = Game] /\ Apply(h).original = Game
    BY <1>7, <2>1 DEF Result
  <2>4. Sound(h, [guest[h] EXCEPT !.site = Game])
    BY <1>1, <2>2, WordTypes DEF Sound, Places
  <2>5. QED
    BY <2>3, <2>4
<1>8. QED
  BY <1>3, <1>4, <1>5, <1>6, <1>7, Outcomes DEF Outcome

\* What belongs to a user's word or to another build's stays out.
LEMMA HistoryGrows ==
  ASSUME [Next]_vars PROVE foreign \cup misread \subseteq foreign' \cup misread'
BY DEF Next, vars, history, BootGame, StopGame, RestartProcess, GameLoadsCode, GameRuns,
       UserWrites, SaveState, LoadState, FrameReset, FrameApply

LEMMA KeptStep == TypeOK /\ KeptInv /\ [Next]_vars => KeptInv'
<1> SUFFICES ASSUME TypeOK, KeptInv, [Next]_vars, NEW i \in Hooks \ (foreign' \cup misread')
             PROVE  SoundHook(i)'
  BY DEF KeptInv
<1> USE DEF SoundHook
<1>1. i \in Hooks /\ i \notin foreign \cup misread
  BY HistoryGrows
<1>2. SoundHook(i)
  BY <1>1 DEF KeptInv
<1>3. FreshOriginal[i] \in {Zero, Game}
  BY FreshOriginalType
<1>4. CASE BootGame
  <2>1. guest'[i] = Blank
    BY <1>4 DEF BootGame
  <2>2. QED
    BY <1>2, <1>4, <2>1, SoundPlaces DEF BootGame
<1>5. CASE StopGame \/ SaveState \/ LoadState \/ UNCHANGED vars
  BY <1>2, <1>5 DEF StopGame, SaveState, LoadState, vars
<1>6. CASE RestartProcess \/ FrameReset
  BY <1>2, <1>3, <1>6 DEF RestartProcess, FrameReset
<1>7. CASE GameLoadsCode
  <2>1. guest'[i] = [guest[i] EXCEPT !.site = Game, !.own = Game]
    BY <1>7 DEF GameLoadsCode
  <2>2. guest[i] \in Places
    BY DEF TypeOK
  <2>3. Sound(i, guest'[i])
    BY <1>2, <2>1, <2>2, WordTypes DEF Sound, Places
  <2>4. QED
    BY <1>2, <1>7, <2>3 DEF GameLoadsCode
<1>8. ASSUME NEW h \in Hooks, GameRuns(h) PROVE SoundHook(i)'
  BY <1>2, <1>8 DEF GameRuns
<1>9. ASSUME NEW h \in Hooks, NEW word \in {Game, Replacement, Foreign}, UserWrites(h, word)
      PROVE  SoundHook(i)'
  <2>1. i # h
    BY <1>9 DEF UserWrites
  <2>2. guest'[i] = guest[i]
    BY <1>9, <2>1 DEF UserWrites, TypeOK
  <2>3. QED
    BY <1>2, <1>9, <2>2 DEF UserWrites
<1>10. ASSUME NEW asked \in SUBSET Hooks, NEW other \in BOOLEAN, FrameApply(asked, other)
       PROVE  SoundHook(i)'
  <2>1. /\ guest'[i] = IF i \in asked THEN Apply(i).place ELSE guest[i]
        /\ original'[i] = IF i \in asked THEN Apply(i).original ELSE original[i]
    BY <1>10, FrameTypes
  <2>2. i \in asked => ~Misreads(i)
    BY <1>10 DEF FrameApply
  <2>3. i \in asked => Sound(i, Apply(i).place) /\ Apply(i).original \in {Zero, Game}
    BY <1>2, <2>2, ApplyKeeps
  <2>4. saved' = saved
    BY <1>10 DEF FrameApply
  <2>5. QED
    BY <1>2, <2>1, <2>3, <2>4
<1>11. QED
  BY <1>4, <1>5, <1>6, <1>7, <1>8, <1>9, <1>10 DEF Next

\* For hooks of any kinds, and whatever words the caves of other builds hold:
\* no boot, reset, restart, soft reset or saved state loses the instruction a
\* hook replaced, except where a frame takes another build's word for it.
THEOREM ReplacedInstructionKept == Spec => []InstructionKept
<1>1. Init => KeptInv
  <2> SUFFICES ASSUME Init, NEW h \in Hooks PROVE SoundHook(h)
    BY DEF KeptInv
  <2>1. guest[h] = Blank /\ saved[h] \in {Blank} \cup OtherBuilds
    BY FirstSaved DEF Init
  <2>2. original[h] \in {Zero, Game}
    BY FreshOriginalType DEF Init
  <2>3. QED
    BY <2>1, <2>2, SoundPlaces DEF SoundHook
<1>2. KeptInv => InstructionKept
  BY DEF KeptInv, SoundHook, Sound, InstructionKept
<1>3. QED
  BY <1>1, <1>2, KeptStep, TypeCorrect, PTL DEF Spec

----------------------------------------------------------------------------
(* The compiled code.                                                      *)

FreshInv ==
  \A h \in Hooks :
    jit[h] # NotCompiled =>
      \/ jit[h] = Compiled(guest[h])
      \/ /\ Kind[h] = "pitchLoad" /\ jit[h].site = Branch
         /\ guest[h].site = Branch /\ guest[h].code = "ours"

LEMMA FreshStep == TypeOK /\ FreshInv /\ [Next]_vars => FreshInv'
<1> SUFFICES ASSUME TypeOK, FreshInv, [Next]_vars, NEW i \in Hooks, jit'[i] # NotCompiled
             PROVE  \/ jit'[i] = Compiled(guest'[i])
                    \/ /\ Kind[i] = "pitchLoad" /\ jit'[i].site = Branch
                       /\ guest'[i].site = Branch /\ guest'[i].code = "ours"
  BY DEF FreshInv
<1> DEFINE Fresh(b, place) ==
             \/ b = Compiled(place)
             \/ /\ Kind[i] = "pitchLoad" /\ b.site = Branch
                /\ place.site = Branch /\ place.code = "ours"
<1>1. jit[i] # NotCompiled => Fresh(jit[i], guest[i])
  BY DEF FreshInv
<1>2. NothingCompiled[i] = NotCompiled
  BY DEF NothingCompiled
<1>3. CASE BootGame \/ GameLoadsCode \/ LoadState
  BY <1>2, <1>3 DEF BootGame, GameLoadsCode, LoadState
<1>4. CASE StopGame \/ RestartProcess \/ SaveState \/ FrameReset \/ UNCHANGED vars
  BY <1>1, <1>4 DEF StopGame, RestartProcess, SaveState, FrameReset, vars
<1>5. ASSUME NEW h \in Hooks, GameRuns(h) PROVE Fresh(jit'[i], guest'[i])
  <2>1. guest' = guest /\ (jit'[i] = jit[i] \/ (i = h /\ jit'[i] = Compiled(guest[h])))
    BY <1>5 DEF GameRuns
  <2>2. QED
    BY <1>1, <2>1
<1>6. ASSUME NEW h \in Hooks, NEW word \in {Game, Replacement, Foreign}, UserWrites(h, word)
      PROVE  Fresh(jit'[i], guest'[i])
  <2>1. i # h => guest'[i] = guest[i] /\ jit'[i] = jit[i]
    BY <1>6 DEF UserWrites, TypeOK
  <2>2. i = h => jit'[i] = NotCompiled
    BY <1>6 DEF UserWrites, TypeOK
  <2>3. QED
    BY <1>1, <2>1, <2>2
<1>7. ASSUME NEW asked \in SUBSET Hooks, NEW other \in BOOLEAN, FrameApply(asked, other)
      PROVE  Fresh(jit'[i], guest'[i])
  <2>1. ~CacheStale(asked) /\ jit' = jit
    BY <1>2, <1>7 DEF FrameApply
  <2>2. guest'[i] = IF i \in asked THEN Apply(i).place ELSE guest[i]
    BY <1>7, FrameTypes
  <2>3. CASE guest'[i] = guest[i]
    BY <1>1, <2>1, <2>3
  <2>4. CASE guest'[i] # guest[i]
    <3>1. i \in asked /\ ~Apply(i).wrote
      BY <2>1, <2>2, <2>4 DEF CacheStale
    <3>2. Kind[i] = "pitchLoad" /\ guest[i].site = Branch /\ guest'[i] = Hooked(i, Game)
      BY <2>2, <2>4, <3>1, ApplyType
    <3>3. guest'[i].site = Branch /\ guest'[i].code = "ours"
      BY <3>2, HookedType, WordTypes
    <3>4. jit[i].site = Branch
      BY <1>1, <2>1, <3>2 DEF Compiled
    <3>5. QED
      BY <2>1, <3>2, <3>3, <3>4
  <2>5. QED
    BY <2>3, <2>4
<1>8. QED
  BY <1>3, <1>4, <1>5, <1>6, <1>7 DEF Next

\* Every write to a hook reaches the JIT before the game runs the hook again,
\* except a repair of the pitch load hook's cave.
THEOREM CompiledCodeIsFresh == Spec => []CodeIsFresh
<1>1. Init => FreshInv
  BY DEF Init, FreshInv, NothingCompiled
<1>2. FreshInv => CodeIsFresh
  BY DEF FreshInv, CodeIsFresh
<1>3. QED
  BY <1>1, <1>2, FreshStep, TypeCorrect, PTL DEF Spec

----------------------------------------------------------------------------
(* What a frame has looked at is hooked.                                   *)

\* A place without an instruction at its site, or in the cave its branch
\* leads to, is one to which the game has not loaded any, or the cave is
\* another build's.
Backed(place) ==
  /\ place.site = Zero => place.own = Zero
  /\ place.site = Branch /\ place.slot = Zero => Unrecoverable(place)

\* What the frame handler leaves of a hook, as CheckedIsHooked has it.
LooksHooked(h, place) ==
  IF Kind[h] = "trace" /\ ~Logging
    THEN place.site = Branch => Unrecoverable(place)
    ELSE \/ place.site = Branch /\ (place.code = "ours" \/ Unrecoverable(place))
         \/ place.site \in Words \ Accepts(h) /\ Kind[h] # "anyWord"

CheckedInv ==
  /\ \A h \in Hooks : Backed(guest[h]) /\ Backed(saved[h])
  /\ \A h \in checked : LooksHooked(h, guest[h])

\* Without an instruction to replace no one can tell it.
LEMMA NothingReplaced ==
  ASSUME NEW h \in Hooks, Backed(guest[h]), ReplacedWord(h) = Zero
  PROVE  Unrecoverable(guest[h])
BY DEF Backed, ReplacedWord, Unrecoverable

LEMMA ApplyBacks ==
  ASSUME TypeOK, NEW h \in Hooks, Backed(guest[h])
  PROVE  Backed(Apply(h).place)
<1>1. guest[h] \in Places
  BY DEF TypeOK
<1>2. Game # Zero /\ Branch # Zero
  BY DEF Game, Zero, Branch
<1>3. ASSUME NEW word \in Instructions, word = Zero => guest[h].own = Zero
      PROVE  Backed(Hooked(h, word))
  BY <1>2, <1>3, HookedType DEF Backed, Unrecoverable
<1>4. ReplacedWord(h) \in Instructions
  BY ReplacedWordType
<1>5. Backed(Hooked(h, Game))
  BY <1>2, <1>3, WordTypes
<1>6. CASE Apply(h) = Untouched(h)
  BY <1>6, UntouchedType
<1>7. CASE /\ Apply(h) = Install(h, ReplacedWord(h))
           /\ guest[h].site = Branch => ReplacedWord(h) # Zero
  <2>1. ReplacedWord(h) = Zero => guest[h].site = Zero
    BY <1>7 DEF ReplacedWord
  <2>2. ReplacedWord(h) = Zero => guest[h].own = Zero
    BY <2>1 DEF Backed
  <2>3. QED
    BY <1>3, <1>4, <1>7, <2>2, InstallType
<1>8. CASE /\ ReplacedWord(h) # Zero
           /\ Apply(h) = Result([guest[h] EXCEPT !.site = ReplacedWord(h)], ReplacedWord(h), TRUE)
  <2>1. Apply(h).place.site = ReplacedWord(h)
    BY <1>1, <1>8 DEF Result, Places
  <2>2. ReplacedWord(h) # Branch
    BY <1>4 DEF Instructions
  <2>3. QED
    BY <1>8, <2>1, <2>2 DEF Backed
<1>9. CASE Apply(h).place = Hooked(h, Game)
  BY <1>5, <1>9
<1>10. QED
  BY <1>6, <1>7, <1>8, <1>9, Outcomes, InstallType, WordTypes DEF Outcome, Result

LEMMA ApplyHooks ==
  ASSUME TypeOK, NEW h \in Hooks, Backed(guest[h])
  PROVE  LooksHooked(h, Apply(h).place)
<1>1. guest[h] \in Places /\ guest[h].site \in Words /\ Kind[h] \in Kinds
  BY HookPatchAssumption DEF TypeOK, Places
<1>2. ReplacedWord(h) \in Instructions /\ Game \in Instructions
  BY ReplacedWordType, WordTypes
<1>3. ASSUME NEW word \in Instructions, NEW orig, NEW wrote,
             ~(Kind[h] = "trace" /\ ~Logging)
      PROVE  LooksHooked(h, Result(Hooked(h, word), orig, wrote).place)
  BY <1>3, HookedType DEF LooksHooked, Result
<1>4. ASSUME ~(Kind[h] = "trace" /\ ~Logging), Kind[h] # "anyWord",
             guest[h].site \notin Accepts(h)
      PROVE  LooksHooked(h, Untouched(h).place)
  BY <1>1, <1>4, UntouchedType DEF LooksHooked
<1>5. ASSUME guest[h].site = Branch, ReplacedWord(h) = Zero
      PROVE  LooksHooked(h, Untouched(h).place)
  BY <1>5, NothingReplaced, UntouchedType DEF LooksHooked
<1>6. guest[h].site # Branch => ReplacedWord(h) = guest[h].site
  BY DEF ReplacedWord
<1>7. Game # Zero
  BY DEF Game, Zero
<1>8. CASE Kind[h] \in {"prologue", "projectile"} \/ (Kind[h] = "trace" /\ Logging)
  <2>1. Apply(h) = ApplyPrologue(h) /\ Accepts(h) = {Branch, Game}
    BY <1>8 DEF Apply, ApplyProjectile, ApplyTrace, Accepts
  <2>2. CASE ReplacedWord(h) # Zero /\ guest[h].site \in {Branch, Game}
    BY <1>2, <1>3, <1>8, <2>1, <2>2 DEF ApplyPrologue, Install
  <2>3. CASE guest[h].site \notin {Branch, Game}
    BY <1>4, <1>8, <2>1, <2>3 DEF ApplyPrologue
  <2>4. CASE ReplacedWord(h) = Zero /\ guest[h].site \in {Branch, Game}
    BY <1>5, <1>6, <1>7, <2>1, <2>4 DEF ApplyPrologue
  <2>5. QED
    BY <2>2, <2>3, <2>4
<1>9. CASE Kind[h] = "anyWord"
  <2>1. Apply(h) = ApplyAnyWord(h)
    BY <1>9 DEF Apply
  <2>2. CASE guest[h].site = Branch /\ ReplacedWord(h) = Zero
    BY <1>5, <2>1, <2>2 DEF ApplyAnyWord
  <2>3. CASE ~(guest[h].site = Branch /\ ReplacedWord(h) = Zero)
    BY <1>2, <1>3, <1>9, <2>1, <2>3 DEF ApplyAnyWord, Install
  <2>4. QED
    BY <2>2, <2>3
<1>10. CASE Kind[h] = "pitchLoad"
  <2>1. Apply(h) = ApplyPitchLoad(h) /\ Accepts(h) = {Branch, Game} /\ Branch # Game
    BY <1>10, WordTypes DEF Apply, Accepts
  <2>2. CASE guest[h].site = Branch
    BY <1>2, <1>3, <1>10, <2>1, <2>2 DEF ApplyPitchLoad
  <2>3. CASE guest[h].site = Game
    BY <1>2, <1>3, <1>10, <2>1, <2>3 DEF ApplyPitchLoad
  <2>4. CASE guest[h].site \notin {Branch, Game}
    BY <1>4, <1>10, <2>1, <2>4 DEF ApplyPitchLoad
  <2>5. QED
    BY <2>2, <2>3, <2>4
<1>11. CASE Kind[h] = "known"
  <2>1. Apply(h) = ApplyKnown(h) /\ Accepts(h) = {Branch, Game}
    BY <1>11 DEF Apply, Accepts
  <2>2. QED
    BY <1>2, <1>3, <1>4, <1>11, <2>1 DEF ApplyKnown, Install
<1>12. CASE Kind[h] = "conditional"
  <2>1. Apply(h) = ApplyConditional(h)
    BY <1>12 DEF Apply
  <2>2. QED
    BY <1>2, <1>3, <1>4, <1>12, <2>1 DEF ApplyConditional, Install
<1>13. CASE Kind[h] = "trace" /\ ~Logging
  <2>1. Apply(h) = RestoreTrace(h)
    BY <1>13 DEF Apply, ApplyTrace
  <2>2. CASE guest[h].site = Branch /\ ReplacedWord(h) # Zero
    <3>1. Apply(h).place = [guest[h] EXCEPT !.site = ReplacedWord(h)]
      BY <2>1, <2>2 DEF RestoreTrace, Result
    <3>2. Apply(h).place.site # Branch
      BY <1>1, <1>2, <3>1 DEF Places, Instructions
    <3>3. QED
      BY <1>13, <3>2 DEF LooksHooked
  <2>3. CASE guest[h].site = Branch /\ ReplacedWord(h) = Zero
    BY <1>5, <2>1, <2>3 DEF RestoreTrace
  <2>4. CASE guest[h].site # Branch
    BY <1>13, <2>1, <2>4, UntouchedType DEF RestoreTrace, LooksHooked
  <2>5. QED
    BY <2>2, <2>3, <2>4
<1>14. QED
  BY <1>1, <1>8, <1>9, <1>10, <1>11, <1>12, <1>13 DEF Kinds

LEMMA CheckedStep == TypeOK /\ CheckedInv /\ [Next]_vars => CheckedInv'
<1> SUFFICES ASSUME TypeOK, CheckedInv, [Next]_vars PROVE CheckedInv'
  OBVIOUS
<1>1. \A h \in Hooks : Backed(guest[h]) /\ Backed(saved[h])
  BY DEF CheckedInv
<1>2. \A h \in checked : LooksHooked(h, guest[h])
  BY DEF CheckedInv
<1>3. Game # Zero /\ Branch # Game
  BY DEF Game, Zero, Branch
<1>4. CASE BootGame
  <2>1. Backed(Blank)
    BY DEF Backed, Unrecoverable, Blank
  <2>2. \A h \in Hooks : guest'[h] = Blank
    BY <1>4 DEF BootGame
  <2>3. QED
    BY <1>1, <1>4, <2>1, <2>2 DEF BootGame, CheckedInv
<1>5. CASE StopGame \/ LoadState
  BY <1>1, <1>5 DEF StopGame, LoadState, CheckedInv
<1>6. CASE RestartProcess \/ FrameReset \/ SaveState \/ UNCHANGED vars
  BY <1>1, <1>2, <1>6 DEF RestartProcess, FrameReset, SaveState, vars, CheckedInv
<1>7. CASE GameLoadsCode
  <2>1. \A h \in Hooks : guest'[h] = [guest[h] EXCEPT !.site = Game, !.own = Game]
    BY <1>7 DEF GameLoadsCode
  <2>2. \A h \in Hooks : Backed(guest'[h])
    <3>1. \A h \in Hooks : guest[h] \in Places
      BY DEF TypeOK
    <3>2. \A h \in Hooks : guest'[h].site = Game
      BY <2>1, <3>1 DEF Places
    <3>3. QED
      BY <1>3, <3>2 DEF Backed
  <2>3. QED
    BY <1>1, <1>7, <2>2 DEF GameLoadsCode, CheckedInv
<1>8. ASSUME NEW h \in Hooks, GameRuns(h) PROVE CheckedInv'
  BY <1>1, <1>2, <1>8 DEF GameRuns, CheckedInv
<1>9. ASSUME NEW h \in Hooks, NEW word \in {Game, Replacement, Foreign}, UserWrites(h, word)
      PROVE  CheckedInv'
  <2>1. \A i \in Hooks \ {h} : guest'[i] = guest[i]
    BY <1>9 DEF UserWrites, TypeOK
  <2>2. guest'[h].site = word
    BY <1>9 DEF UserWrites, TypeOK, Places
  <2>3. word # Zero /\ word # Branch
    BY DEF Game, Replacement, Foreign, Zero, Branch
  <2>4. \A i \in Hooks : Backed(guest'[i])
    BY <1>1, <2>1, <2>2, <2>3 DEF Backed
  <2>5. checked' = checked \ {h} /\ saved' = saved /\ checked \subseteq Hooks
    BY <1>9 DEF UserWrites, TypeOK
  <2>6. QED
    BY <1>1, <1>2, <2>1, <2>4, <2>5 DEF CheckedInv
<1>10. ASSUME NEW asked \in SUBSET Hooks, NEW other \in BOOLEAN, FrameApply(asked, other)
       PROVE  CheckedInv'
  <2>1. \A h \in Hooks : guest'[h] = (IF h \in asked THEN Apply(h).place ELSE guest[h])
    BY <1>10, FrameTypes
  <2>2. \A h \in Hooks : Backed(guest'[h])
    BY <1>1, <2>1, ApplyBacks
  <2>3. \A h \in asked : LooksHooked(h, guest'[h])
    BY <1>1, <2>1, ApplyHooks
  <2>4. checked' = asked /\ saved' = saved
    BY <1>10 DEF FrameApply
  <2>5. QED
    BY <1>1, <2>2, <2>3, <2>4 DEF CheckedInv
<1>11. QED
  BY <1>4, <1>5, <1>6, <1>7, <1>8, <1>9, <1>10 DEF Next

\* A site a frame has looked at is hooked by this build's cave or holds a word
\* the hook does not accept, and a trace hook that is not wanted is gone, until
\* the game, the user or a loaded state writes there.
THEOREM CheckedAreHooked == Spec => []CheckedIsHooked
<1>1. Init => CheckedInv
  <2>1. Backed(Blank) /\ Backed(Unhooked) /\ Backed(HookedElsewhere)
    BY DEF Backed, Unrecoverable, Blank, Unhooked, HookedElsewhere, Elsewhere, Game, Zero, Branch
  <2>2. \A word \in Leftovers : Backed(HookedHere(word))
    BY DEF Backed, Unrecoverable, HookedHere, Zero, Branch
  <2>3. ASSUME Init, NEW h \in Hooks PROVE Backed(guest[h]) /\ Backed(saved[h])
    BY <2>1, <2>2, <2>3, FirstSaved DEF Init, OtherBuilds
  <2>4. QED
    BY <2>3 DEF Init, CheckedInv
<1>2. CheckedInv => CheckedIsHooked
  BY DEF CheckedInv, LooksHooked, CheckedIsHooked
<1>3. QED
  BY <1>1, <1>2, CheckedStep, TypeCorrect, PTL DEF Spec
=============================================================================
