------------------------- MODULE BuiltinPatchProofs -------------------------
(* Proofs about the builtin patches, for any set of patches and any        *)
(* distances between the checks.                                           *)
EXTENDS BuiltinPatch, Integers, TLAPS

LEMMA Distances ==
  /\ Recheck \in Nat /\ Recheck > 0 /\ Window \in Nat /\ Window > 0
  /\ Early \in Nat /\ Early > 0 /\ Late \in Nat /\ Late > 0
  /\ Startup \in Nat /\ MaxFrame \in Nat
  /\ Early <= Late /\ LongAgo = Window + 1
BY BuiltinPatchAssumption DEF LongAgo

\* The type invariant, with every variable on its own.
LEMMA Typed ==
  ASSUME TypeOK
  PROVE  /\ frame \in Nat /\ frame <= MaxFrame
         /\ watched \in Nat /\ watched <= frame
         /\ reapplyUntil \in Nat /\ reapplyUntil <= frame + Window
         /\ missingFor \in Nat /\ missingFor <= frame
         /\ criticalFor \in Nat /\ criticalFor <= frame
         /\ staleFor \in Nat /\ staleFor <= frame
         /\ playerFor \in Nat /\ playerFor <= LongAgo
         /\ player \in Addresses /\ lastPlayer \in Addresses
         /\ missing \subseteq Patches
BY Distances DEF TypeOK

LEMMA CountedType ==
  ASSUME NEW n \in Nat, NEW m \in Nat, n <= m, NEW yes
  PROVE  Counted(n, yes) \in 0 .. m + 1
BY DEF Counted

\* A step on which no frame ends changes nothing but the game and the JIT.
LEMMA QuietStepTyped ==
  ASSUME TypeOK, UNCHANGED <<host, counts>>, frameEnded' = FALSE,
         running' \in BOOLEAN, player' \in Addresses, missing' \subseteq Patches,
         compiled' \in [Patches -> {"nothing", "with", "without"}],
         playerFor' \in 0 .. LongAgo
  PROVE  TypeOK'
<1>1. /\ frame' = frame /\ watched' = watched /\ reapplyUntil' = reapplyUntil
      /\ missingFor' = missingFor /\ criticalFor' = criticalFor /\ staleFor' = staleFor
  BY DEF host, counts
<1>2. /\ wasActive' \in BOOLEAN /\ applied' \in BOOLEAN /\ frameEnded' \in BOOLEAN
      /\ lastPlayer' \in Addresses
  BY DEF host, TypeOK
<1>3. /\ frame' \in 0 .. MaxFrame /\ reapplyUntil' \in 0 .. frame' + Window
      /\ {watched', missingFor', criticalFor', staleFor'} \subseteq 0 .. frame'
  BY <1>1 DEF TypeOK
<1>4. QED
  BY <1>2, <1>3 DEF TypeOK

LEMMA CompiledType ==
  ASSUME compiled \in [Patches -> {"nothing", "with", "without"}]
  PROVE  /\ NothingCompiled \in [Patches -> {"nothing", "with", "without"}]
         /\ Invalidated \in [Patches -> {"nothing", "with", "without"}]
BY DEF NothingCompiled, Invalidated

LEMMA AgeType ==
  ASSUME NEW p
  PROVE  (IF p = lastPlayer THEN LongAgo ELSE 0) \in 0 .. LongAgo
BY Distances

LEMMA BecomesTyped ==
  ASSUME TypeOK, NEW absent \in SUBSET Patches, NEW p \in Addresses, running' = TRUE,
         GuestBecomes(absent, p)
  PROVE  TypeOK'
<1>1. playerFor' \in 0 .. LongAgo
  BY AgeType DEF GuestBecomes
<1>2. compiled' \in [Patches -> {"nothing", "with", "without"}]
  BY CompiledType DEF GuestBecomes, TypeOK
<1>3. UNCHANGED <<host, counts>> /\ frameEnded' = FALSE
  BY DEF GuestBecomes
<1>4. player' \in Addresses /\ missing' \subseteq Patches /\ running' \in BOOLEAN
  BY DEF GuestBecomes
<1>5. QED
  BY <1>1, <1>2, <1>3, <1>4, QuietStepTyped

\* Every state is well typed; no frame number lies in the future, and no
\* history is longer than the game has run.
THEOREM TypeCorrect == Spec => []TypeOK
<1>1. Init => TypeOK
  <2> SUFFICES ASSUME Init PROVE TypeOK
    OBVIOUS
  <2>1. running \in BOOLEAN /\ wasActive \in BOOLEAN
    BY DEF Init
  <2>11. applied \in BOOLEAN /\ frameEnded \in BOOLEAN
    BY DEF Init
  <2>2. player \in Addresses /\ lastPlayer \in Addresses /\ missing \subseteq Patches
    BY DEF Init, Addresses
  <2>3. compiled \in [Patches -> {"nothing", "with", "without"}]
    BY DEF Init, NothingCompiled
  <2>4. frame \in 0 .. MaxFrame /\ reapplyUntil \in 0 .. frame + Window
    BY Distances DEF Init
  <2>5. playerFor \in 0 .. LongAgo
    BY Distances DEF Init
  <2>6. {watched, missingFor, criticalFor, staleFor} \subseteq 0 .. frame
    BY Distances DEF Init
  <2>7. QED
    BY <2>1, <2>11, <2>2, <2>3, <2>4, <2>5, <2>6 DEF TypeOK
<1>2. TypeOK /\ [Next]_vars => TypeOK'
  <2> SUFFICES ASSUME TypeOK, [Next]_vars PROVE TypeOK'
    OBVIOUS
  <2> USE Distances, Typed
  <2>1. CASE BootGame
    BY <2>1, BecomesTyped DEF BootGame, Addresses
  <2>2. CASE StopGame
    BY <2>2, QuietStepTyped DEF StopGame, TypeOK
  <2>3. ASSUME NEW absent \in SUBSET Patches, NEW p \in Addresses, LoadState(absent, p)
        PROVE  TypeOK'
    BY <2>3, BecomesTyped DEF LoadState
  <2>4. ASSUME NEW g \in Patches, UserUndoes(g) PROVE TypeOK'
    BY <2>4, QuietStepTyped DEF UserUndoes, TypeOK
  <2>5. ASSUME NEW g \in Patches, GameRuns(g) PROVE TypeOK'
    BY <2>5, QuietStepTyped DEF GameRuns, TypeOK
  <2>6. ASSUME NEW p \in Addresses, GameSetsPlayer(p) PROVE TypeOK'
    <3>1. playerFor' \in 0 .. LongAgo
      BY <2>6, AgeType DEF GameSetsPlayer
    <3>2. QED
      BY <2>6, <3>1, QuietStepTyped DEF GameSetsPlayer, TypeOK
  <2>7. CASE FrameDisabled
    <3>1. /\ frame' \in 0 .. MaxFrame /\ frame' = frame + 1 /\ playerFor' \in 0 .. LongAgo
          /\ reapplyUntil' \in 0 .. frame' + Window
      BY <2>7 DEF FrameDisabled, NextFrame
    <3>2. {watched', missingFor', criticalFor', staleFor'} \subseteq 0 .. frame'
      BY <2>7, <3>1 DEF FrameDisabled
    <3>3. QED
      BY <2>7, <3>1, <3>2 DEF FrameDisabled, guest, TypeOK
  <2>8. CASE FrameReset
    <3>1. /\ frame' \in 0 .. MaxFrame /\ playerFor' \in 0 .. LongAgo
          /\ reapplyUntil' \in 0 .. frame' + Window
          /\ {watched', missingFor', criticalFor', staleFor'} \subseteq 0 .. frame'
      BY <2>8 DEF FrameReset
    <3>2. QED
      BY <2>8, <3>1 DEF FrameReset, guest, TypeOK, Addresses
  <2>9. ASSUME NEW f \in BOOLEAN, NEW k \in BOOLEAN, FrameActive(f, k) PROVE TypeOK'
    <3>1. frame' \in 0 .. MaxFrame /\ frame' = frame + 1 /\ playerFor' \in 0 .. LongAgo
      BY <2>9 DEF FrameActive, NextFrame
    <3>2. /\ missingFor' \in 0 .. frame' /\ criticalFor' \in 0 .. frame'
          /\ staleFor' \in 0 .. frame'
      BY <2>9, <3>1, CountedType DEF FrameActive, Count
    <3>3. watched' \in 0 .. frame' /\ reapplyUntil' \in 0 .. frame' + Window
      BY <2>9, <3>1 DEF FrameActive, NotePlayer
    <3>4. compiled' \in [Patches -> {"nothing", "with", "without"}]
      BY <2>9, CompiledType DEF FrameActive, TypeOK
    <3>5. /\ running' \in BOOLEAN /\ wasActive' \in BOOLEAN /\ applied' \in BOOLEAN
          /\ frameEnded' \in BOOLEAN /\ player' \in Addresses /\ lastPlayer' \in Addresses
          /\ missing' \subseteq Patches
      BY <2>9 DEF FrameActive, Count, NotePlayer, TypeOK
    <3>6. QED
      BY <3>1, <3>2, <3>3, <3>4, <3>5 DEF TypeOK
  <2>10. CASE UNCHANGED vars
    BY <2>10 DEF vars, guest, host, counts, TypeOK
  <2>11. QED
    BY <2>1, <2>2, <2>3, <2>4, <2>5, <2>6, <2>7, <2>8, <2>9, <2>10 DEF Next
<1>3. QED
  BY <1>1, <1>2, PTL DEF Spec

----------------------------------------------------------------------------
(* How long a patch stays undone.                                          *)

\* Division with remainder, by a divisor that is not a number.
LEMMA Remainder ==
  ASSUME NEW n \in Nat, NEW k \in Nat, k > 0
  PROVE  n % k \in 0 .. k - 1 /\ n \div k \in Int /\ n % k = n - k * (n \div k)
OBVIOUS

LEMMA RemainderBound ==
  ASSUME NEW n \in Nat, NEW k \in Nat, k > 0
  PROVE  n % k \in Nat /\ n % k < k
OBVIOUS

LEMMA RemainderUnique ==
  ASSUME NEW n \in Int, NEW k \in Nat, k > 0, NEW q \in Int, NEW r \in 0 .. k - 1,
         n = k * q + r
  PROVE  n % k = r
OBVIOUS

LEMMA ProductType == ASSUME NEW k \in Int, NEW q \in Int PROVE k * q \in Int
OBVIOUS

LEMMA ProductGrows == ASSUME NEW k \in Int, NEW q \in Int PROVE k * (q + 1) = k * q + k
OBVIOUS

\* The frame number and its remainder go up together until the recheck.
LEMMA RemainderGrows ==
  ASSUME NEW n \in Nat, NEW k \in Nat, k > 0, (n + 1) % k # 0
  PROVE  (n + 1) % k = (n % k) + 1
<1> DEFINE q == n \div k
           r == n % k
<1>1. q \in Int /\ r \in 0 .. k - 1 /\ r = n - k * q
  BY Remainder
<1> HIDE DEF q, r
<1>2. PICK m \in Int : m = k * q
  BY <1>1, ProductType
<1>3. CASE r + 1 < k
  <2>1. r + 1 \in 0 .. k - 1 /\ n + 1 \in Int
    BY <1>1, <1>3
  <2>2. n + 1 = m + (r + 1)
    BY <1>1, <1>2
  <2>3. n + 1 = k * q + (r + 1)
    BY <1>2, <2>2
  <2>4. (n + 1) % k = r + 1
    BY <1>1, <2>1, <2>3, RemainderUnique
  <2>5. QED
    BY <2>4 DEF r
<1>4. CASE r + 1 = k
  <2>1. 0 \in 0 .. k - 1 /\ n + 1 \in Int /\ q + 1 \in Int
    BY <1>1
  <2>2. n + 1 = m + k
    BY <1>1, <1>2, <1>4
  <2>3. k * (q + 1) = m + k
    BY <1>1, <1>2, ProductGrows
  <2>4. n + 1 = k * (q + 1) + 0
    BY <2>2, <2>3
  <2>5. (n + 1) % k = 0
    BY <2>1, <2>4, RemainderUnique
  <2>6. QED
    BY <2>5
<1>5. QED
  BY <1>1, <1>3, <1>4

\* The handled frames that ended with a patch missing lie since the recheck.
MissingSinceRecheck == missingFor <= frame % Recheck

\* Recheck handled frames in a row never end with a patch missing.
THEOREM UndoneComesBack == Spec => []UndoneIsRewritten
<1>1. Init => MissingSinceRecheck
  BY Distances, Remainder DEF Init, MissingSinceRecheck
<1>2. TypeOK /\ MissingSinceRecheck /\ [Next]_vars => MissingSinceRecheck'
  <2> SUFFICES ASSUME TypeOK, MissingSinceRecheck, [Next]_vars PROVE MissingSinceRecheck'
    OBVIOUS
  <2>1. CASE UNCHANGED <<frame, missingFor>>
    BY <2>1 DEF MissingSinceRecheck
  <2>2. CASE FrameDisabled \/ FrameReset
    <3>1. missingFor' = 0 /\ frame' \in Nat
      BY <2>2, Typed DEF FrameDisabled, FrameReset, NextFrame
    <3>2. frame' % Recheck \in Nat
      BY <3>1, RemainderBound, Distances, Zenon
    <3>3. QED
      BY <3>1, <3>2 DEF MissingSinceRecheck
  <2>3. ASSUME NEW f \in BOOLEAN, NEW k \in BOOLEAN, FrameActive(f, k)
        PROVE  MissingSinceRecheck'
    <3>1. frame' = frame + 1 /\ frame \in Nat /\ missingFor \in Nat
      BY <2>3, Typed DEF FrameActive, NextFrame
    <3>2. \/ missingFor' = 0
          \/ missingFor' = missingFor + 1 /\ missing' # {}
      <4>1. missingFor' = IF missing' # {} THEN missingFor + 1 ELSE 0
        BY <2>3, Zenon DEF FrameActive, Count, Counted
      <4>2. CASE missing' = {}
        BY <4>1, <4>2, Zenon
      <4>3. CASE missing' # {}
        BY <4>1, <4>3
      <4>4. QED
        BY <4>2, <4>3
    <3>3. CASE missingFor' = 0
      <4>1. frame' \in Nat
        BY <3>1
      <4>2. frame' % Recheck \in Nat
        BY <4>1, RemainderBound, Distances, Zenon
      <4>3. QED
        BY <3>3, <4>2 DEF MissingSinceRecheck
    <3>4. CASE missingFor' = missingFor + 1 /\ missing' # {}
      <4>1. frame' % Recheck # 0
        BY <2>3, <3>4 DEF FrameActive, ApplyDue, RecheckDue
      <4>2. frame' % Recheck = (frame % Recheck) + 1
        BY <3>1, <4>1, RemainderGrows, Distances
      <4>3. frame % Recheck \in Nat
        BY <3>1, RemainderBound, Distances, Zenon
      <4>4. QED
        BY <3>1, <3>4, <4>2, <4>3 DEF MissingSinceRecheck
    <3>5. QED
      BY <3>2, <3>3, <3>4
  <2>4. QED
    BY <2>1, <2>2, <2>3 DEF Next, BootGame, StopGame, LoadState, UserUndoes, GameRuns,
       GameSetsPlayer, GuestBecomes, host, counts, vars
<1>3. TypeOK /\ MissingSinceRecheck => UndoneIsRewritten
  <2> SUFFICES ASSUME TypeOK, MissingSinceRecheck PROVE UndoneIsRewritten
    OBVIOUS
  <2>1. frame % Recheck \in Nat /\ frame % Recheck < Recheck
    BY Typed, RemainderBound, Distances, Zenon
  <2>2. QED
    BY <2>1, Typed, Distances DEF MissingSinceRecheck, UndoneIsRewritten
<1>4. QED
  BY <1>1, <1>2, <1>3, TypeCorrect, PTL DEF Spec

\* The frames that ended with a critical patch missing lie since the watchdog
\* last looked.
CriticalSinceWatchdog ==
  /\ criticalFor <= frame - watched
  /\ CriticalIsRewritten

\* Between an earlier frame and a later one lie no fewer than none.
LEMMA DistanceIsNat ==
  ASSUME NEW a \in Nat, NEW b \in Nat, b <= a
  PROVE  0 <= a - b
  OBVIOUS

\* A history that starts again is within the bounds.
LEMMA CriticalStartsAgain ==
  ASSUME criticalFor' = 0, frame' \in Nat, watched' \in Nat, watched' <= frame'
  PROVE  CriticalSinceWatchdog'
<1>1. 0 <= frame' - watched'
  BY DistanceIsNat, Zenon
<1>4. criticalFor' <= frame' - watched'
  BY <1>1
<1>2. criticalFor' < (IF frame' < Startup THEN Early ELSE Late)
  BY Distances
<1>3. QED
  BY <1>2, <1>4 DEF CriticalSinceWatchdog, CriticalIsRewritten

\* With a player in the game the critical patches are back within the
\* watchdog's interval.
THEOREM CriticalComesBack == Spec => []CriticalIsRewritten
<1>1. Init => CriticalSinceWatchdog
  BY Distances DEF Init, CriticalSinceWatchdog, CriticalIsRewritten
<1>2. TypeOK /\ CriticalSinceWatchdog /\ [Next]_vars => CriticalSinceWatchdog'
  <2> SUFFICES ASSUME TypeOK, CriticalSinceWatchdog, [Next]_vars PROVE CriticalSinceWatchdog'
    OBVIOUS
  <2>1. CASE UNCHANGED <<frame, watched, criticalFor>>
    BY <2>1 DEF CriticalSinceWatchdog, CriticalIsRewritten
  <2>2. CASE FrameDisabled \/ FrameReset
    <3>1. criticalFor' = 0 /\ frame' \in Nat /\ watched' \in Nat /\ watched' <= frame'
      BY <2>2, Typed DEF FrameDisabled, FrameReset, NextFrame
    <3>2. QED
      BY <3>1, CriticalStartsAgain
  <2>3. ASSUME NEW f \in BOOLEAN, NEW k \in BOOLEAN, FrameActive(f, k)
        PROVE  CriticalSinceWatchdog'
    <3>1. /\ frame' = frame + 1 /\ frame \in Nat
          /\ watched \in Nat /\ watched <= frame /\ criticalFor \in Nat
      BY <2>3, Typed DEF FrameActive, NextFrame
    <3>2. criticalFor' =
            IF HavePlayer /\ missing' \cap Critical # {} THEN criticalFor + 1 ELSE 0
      BY <2>3, Zenon DEF FrameActive, Count, Counted
    <3>3. watched' \in Nat /\ watched' <= frame'
      BY <2>3, <3>1 DEF FrameActive
    <3>4. CASE ~(HavePlayer /\ missing' \cap Critical # {})
      <4>1. criticalFor' = 0
        BY <3>2, <3>4, Zenon
      <4>2. QED
        BY <3>1, <3>3, <4>1, CriticalStartsAgain
    <3>5. CASE HavePlayer /\ missing' \cap Critical # {}
      <4>1. ~ApplyDue /\ ~WatchdogBites /\ missing' = missing
        <5>1. missing' = IF ApplyDue \/ WatchdogBites \/ f THEN {} ELSE missing
          BY <2>3, Zenon DEF FrameActive
        <5>2. QED
          BY <3>5, <5>1
      <4>2. ~WatchdogDue
        BY <3>5, <4>1 DEF WatchdogBites
      <4>3. watched' = watched /\ frame' < watched + (IF frame' < Startup THEN Early ELSE Late)
        BY <2>3, <3>1, <3>5, <4>2, Distances DEF FrameActive, WatchdogDue
      <4>4. criticalFor' = criticalFor + 1
        BY <3>2, <3>5
      <4>5. QED
        BY <3>1, <4>3, <4>4, Distances DEF CriticalSinceWatchdog, CriticalIsRewritten
    <3>6. QED
      BY <3>4, <3>5
  <2>4. QED
    BY <2>1, <2>2, <2>3 DEF Next, BootGame, StopGame, LoadState, UserUndoes, GameRuns,
       GameSetsPlayer, GuestBecomes, host, counts, vars
<1>3. CriticalSinceWatchdog => CriticalIsRewritten
  BY DEF CriticalSinceWatchdog
<1>4. QED
  BY <1>1, <1>2, <1>3, TypeCorrect, PTL DEF Spec

----------------------------------------------------------------------------
(* A new player, and the JIT.                                              *)

\* A new player that OnFrameEnd has not seen yet, or one whose window is still
\* open.
WindowOpen ==
  running /\ HavePlayer /\ playerFor <= Window =>
    player # lastPlayer \/ reapplyUntil >= frame - playerFor + 1 + Window

PatchedInWindow ==
  /\ WindowOpen
  /\ NewPlayerIsPatched
  /\ frameEnded => running

\* Every patch is in memory at the end of each handled frame of the window
\* that a new player opens.
THEOREM NewPlayerGetsPatches == Spec => []NewPlayerIsPatched
<1>1. Init => PatchedInWindow
  BY DEF Init, PatchedInWindow, WindowOpen, NewPlayerIsPatched
<1>2. TypeOK /\ PatchedInWindow /\ [Next]_vars => PatchedInWindow'
  <2> SUFFICES ASSUME TypeOK, PatchedInWindow, [Next]_vars PROVE PatchedInWindow'
    OBVIOUS
  <2> USE Distances, Typed DEF PatchedInWindow, NewPlayerIsPatched
  <2>1. CASE BootGame
    BY <2>1 DEF BootGame, GuestBecomes, WindowOpen, HavePlayer
  <2>2. CASE StopGame
    BY <2>2 DEF StopGame, WindowOpen
  <2>3. ASSUME NEW absent \in SUBSET Patches, NEW p \in Addresses, LoadState(absent, p)
        PROVE  PatchedInWindow'
    BY <2>3 DEF LoadState, GuestBecomes, WindowOpen, HavePlayer, host
  <2>4. ASSUME NEW g \in Patches, UserUndoes(g) PROVE PatchedInWindow'
    BY <2>4 DEF UserUndoes, WindowOpen, HavePlayer, host
  <2>5. ASSUME NEW g \in Patches, GameRuns(g) PROVE PatchedInWindow'
    BY <2>5 DEF GameRuns, WindowOpen, HavePlayer, host
  <2>6. ASSUME NEW p \in Addresses, GameSetsPlayer(p) PROVE PatchedInWindow'
    BY <2>6 DEF GameSetsPlayer, WindowOpen, HavePlayer, host
  <2>7. CASE FrameDisabled
    BY <2>7 DEF FrameDisabled, NextFrame, WindowOpen, HavePlayer, guest
  <2>8. CASE FrameReset
    BY <2>8 DEF FrameReset, WindowOpen, guest
  <2>9. ASSUME NEW f \in BOOLEAN, NEW k \in BOOLEAN, FrameActive(f, k)
        PROVE  PatchedInWindow'
    <3>1. /\ frame' = frame + 1 /\ running' /\ running /\ player' = player
          /\ playerFor' = IF playerFor < LongAgo THEN playerFor + 1 ELSE LongAgo
      BY <2>9 DEF FrameActive, NextFrame
    <3>2. /\ lastPlayer' = player
          /\ reapplyUntil' = IF player # lastPlayer THEN frame' + Window ELSE reapplyUntil
      BY <2>9 DEF FrameActive, NotePlayer
    <3>3. ASSUME HavePlayer, playerFor' <= Window
          PROVE  reapplyUntil' >= frame' - playerFor' + 1 + Window
      <4>1. playerFor' = playerFor + 1 /\ playerFor <= Window
        BY <3>1, <3>3
      <4>2. QED
        BY <3>1, <3>2, <3>3, <4>1 DEF WindowOpen
    <3>4. WindowOpen'
      BY <3>1, <3>3 DEF WindowOpen, HavePlayer
    <3>5. ASSUME HavePlayer, playerFor' <= Window PROVE missing' = {}
      <4>1. reapplyUntil' \in Nat /\ playerFor' \in Nat /\ frame' < reapplyUntil'
        BY <3>1, <3>2, <3>3, <3>5
      <4>2. QED
        BY <2>9, <3>5, <4>1 DEF FrameActive, ApplyDue, InWindow
    <3>6. NewPlayerIsPatched'
      BY <3>1, <3>5 DEF HavePlayer
    <3>7. QED
      BY <3>1, <3>4, <3>6
  <2>10. CASE UNCHANGED vars
    BY <2>10 DEF vars, guest, host, WindowOpen, HavePlayer
  <2>11. QED
    BY <2>1, <2>2, <2>3, <2>4, <2>5, <2>6, <2>7, <2>8, <2>9, <2>10 DEF Next
<1>3. PatchedInWindow => NewPlayerIsPatched
  BY DEF PatchedInWindow
<1>4. QED
  BY <1>1, <1>2, <1>3, TypeCorrect, PTL DEF Spec

\* As far as the invalidated ranges reach, the JIT runs what memory holds.
THEOREM CompiledCodeIsFresh == Spec => []CoveredCodeIsFresh
<1>1. Init => CoveredCodeIsFresh
  BY BuiltinPatchAssumption DEF Init, CoveredCodeIsFresh, NothingCompiled
<1>2. TypeOK /\ CoveredCodeIsFresh /\ [Next]_vars => CoveredCodeIsFresh'
  <2> SUFFICES ASSUME TypeOK, CoveredCodeIsFresh, [Next]_vars, NEW c \in Covered
               PROVE  /\ compiled'[c] = "with" => c \notin missing'
                      /\ compiled'[c] = "without" => c \in missing'
    BY DEF CoveredCodeIsFresh
  <2>1. c \in Patches /\ compiled \in [Patches -> {"nothing", "with", "without"}]
    BY BuiltinPatchAssumption DEF TypeOK
  <2>2. CASE compiled' = NothingCompiled
    BY <2>1, <2>2 DEF NothingCompiled
  <2>3. CASE UNCHANGED <<compiled, missing>>
    BY <2>3 DEF CoveredCodeIsFresh
  <2>4. ASSUME NEW g \in Patches, UserUndoes(g)
        PROVE  /\ compiled'[c] = "with" => c \notin missing'
               /\ compiled'[c] = "without" => c \in missing'
    BY <2>1, <2>4 DEF UserUndoes, CoveredCodeIsFresh
  <2>5. ASSUME NEW g \in Patches, GameRuns(g)
        PROVE  /\ compiled'[c] = "with" => c \notin missing'
               /\ compiled'[c] = "without" => c \in missing'
    BY <2>1, <2>5 DEF GameRuns, CoveredCodeIsFresh
  <2>6. ASSUME NEW f \in BOOLEAN, NEW k \in BOOLEAN, FrameActive(f, k)
        PROVE  /\ compiled'[c] = "with" => c \notin missing'
               /\ compiled'[c] = "without" => c \in missing'
    <3>1. CASE DropsBlocks(f, k)
      <4>1. compiled'[c] = "nothing"
        BY <2>1, <2>6, <3>1 DEF FrameActive, Invalidated
      <4>2. QED
        BY <4>1
    <3>2. CASE ~DropsBlocks(f, k)
      <4>1. compiled' = compiled
        BY <2>6, <3>2 DEF FrameActive
      <4>2. missing' = missing
        BY <2>6, <3>2 DEF FrameActive, DropsBlocks
      <4>3. QED
        BY <4>1, <4>2, <2>3
    <3>3. QED
      BY <3>1, <3>2
  <2>7. QED
    BY <2>2, <2>3, <2>4, <2>5, <2>6 DEF Next, BootGame, StopGame, LoadState, GameSetsPlayer,
       FrameDisabled, FrameReset, GuestBecomes, guest, vars
<1>3. QED
  BY <1>1, <1>2, TypeCorrect, PTL DEF Spec
=============================================================================
