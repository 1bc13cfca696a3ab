----------------------------- MODULE DpadProofs -----------------------------
(* Proofs about the D-pad: the input lease for any set of player           *)
(* addresses, and after it the gesture that asks for the lease, for any    *)
(* delays and any set of stick positions.                                  *)
EXTENDS DpadOwner, DpadGesture, TLAPS

\* A freshly booted guest is well typed.
LEMMA BootType == BootImage \in Image
BY DEF BootImage, Image, Record

\* A live record and a lease that is on name a player.
LEMMA RecordNamesPlayer ==
  ASSUME NEW o \in Record, o.live
  PROVE  o.at \in Players /\ o.orig \in BOOLEAN
<1>1. o # NoRecord
  BY DEF NoRecord
<1>2. o \in [live : {TRUE}, at : Players, orig : BOOLEAN]
  BY <1>1 DEF Record
<1>3. QED
  BY <1>2

LEMMA LeaseNamesPlayer ==
  ASSUME NEW l \in Lease, l.on
  PROVE  l.at \in Players /\ l.was \in BOOLEAN
<1>1. l # NoLease
  BY DEF NoLease
<1>2. l \in [on : {TRUE}, was : BOOLEAN, at : Players, age : 0 .. RefreshFrames]
  BY <1>1 DEF Lease
<1>3. QED
  BY <1>2

\* A lease just taken or refreshed, and one a frame older, are well typed.
LEMMA NewLeaseType ==
  ASSUME NEW p \in Players, NEW b \in BOOLEAN
  PROVE  [on |-> TRUE, was |-> b, at |-> p, age |-> 0] \in Lease
BY DpadOwnerAssumption DEF Lease

LEMMA OlderLeaseType ==
  ASSUME NEW l \in Lease
  PROVE  /\ Older(l) \in Lease
         /\ Older(l).on = l.on /\ Older(l).at = l.at /\ Older(l).was = l.was
         /\ l.on => [l EXCEPT !.age = 0] \in Lease
<1>1. CASE l = NoLease
  BY <1>1 DEF Older, NoLease, Lease
<1>2. CASE l # NoLease
  <2>1. PICK n \in Nat \ {0} : n = RefreshFrames
    BY DpadOwnerAssumption
  <2>2. l \in [on : {TRUE}, was : BOOLEAN, at : Players, age : 0 .. n]
    BY <1>2, <2>1 DEF Lease
  <2>3. l.age < n => l.age + 1 \in 0 .. n
    BY <2>2
  <2>4. 0 \in 0 .. n
    BY <2>1
  <2>5. QED
    BY <2>1, <2>2, <2>3, <2>4 DEF Older, Lease
<1>3. QED
  BY <1>1, <1>2

\* What the restore helpers return is again a bit for every player.
LEMMA RestoreTypes ==
  ASSUME NEW f \in [Players -> BOOLEAN]
  PROVE  /\ RestoreTracked(f) \in [Players -> BOOLEAN]
         /\ RestorePersisted(f) \in [Players -> BOOLEAN]
BY DEF RestoreTracked, RestorePersisted, RestoreAt

\* The variables and the records stay in their types, whatever the guest and
\* the user do.
THEOREM TypeCorrect == Spec => []TypeOK
<1>1. Init => TypeOK
  BY BootType DEF Init, TypeOK, Record, Lease, GuestImage, Image, BootImage
<1>2. TypeOK /\ [Next]_vars => TypeOK'
  <2> SUFFICES ASSUME TypeOK, [Next]_vars
               PROVE  TypeOK'
    OBVIOUS
  <2> USE DpadOwnerAssumption
  <2>0. /\ cur \in Players \cup {NoPlayer, Unreadable}
        /\ flag \in [Players -> BOOLEAN]
        /\ owner \in Record
        /\ wish \in [Players -> BOOLEAN]
    BY DEF TypeOK, GuestImage, Image
  <2>1. ASSUME NEW p \in Players, NEW b \in BOOLEAN, GameCreatesPlayer(p, b)
        PROVE  TypeOK'
    BY <2>0, <2>1 DEF GameCreatesPlayer, GameWrites, TypeOK, GuestImage, Image
  <2>2. ASSUME NEW q \in {NoPlayer, Unreadable}, GameDropsPlayer(q)
        PROVE  TypeOK'
    BY <2>0, <2>2 DEF GameDropsPlayer, TypeOK, GuestImage, Image, history
  <2>3. ASSUME NEW b \in BOOLEAN, GameSetsInput(b)
        PROVE  TypeOK'
    BY <2>0, <2>3 DEF GameSetsInput, GameWrites, TypeOK, GuestImage, Image
  <2>4. CASE SaveState
    BY <2>0, <2>4 DEF SaveState, TypeOK, GuestImage, Image, guest, history
  <2>5. CASE LoadState
    BY <2>5 DEF LoadState, GuestBecomes, TypeOK, GuestImage, Image
  <2>6. CASE StopGame
    BY <2>0, <2>6 DEF StopGame, TypeOK, GuestImage, Image, guest, history
  <2>7. CASE BootGame
    <3>1. GuestImage' = BootImage
      BY <2>7 DEF BootGame, GuestBecomes, GuestImage, BootImage
    <3>2. QED
      BY <2>7, <3>1, BootType DEF BootGame, GuestBecomes, TypeOK
  <2>8. CASE RestartProcess
    BY <2>8 DEF RestartProcess, Lease, TypeOK, GuestImage, guest, history
  <2>9. lease \in Lease /\ Older(lease) \in Lease
    BY OlderLeaseType DEF TypeOK
  <2>10. CASE FrameDisabled
    BY <2>0, <2>9, <2>10 DEF FrameDisabled, TypeOK, GuestImage, Image, guest, history
  <2>11. CASE FrameGameInactive
    BY <2>9, <2>11 DEF FrameGameInactive, Lease, TypeOK, GuestImage, guest, history
  <2>12. CASE FrameRuntimeInactive
    BY <2>0, <2>9, <2>12 DEF FrameRuntimeInactive, TypeOK, GuestImage, Image, guest, history
  <2>13. CASE FrameRelease
    <3>1. flag' \in [Players -> BOOLEAN]
      BY <2>0, <2>13, RestoreTypes DEF FrameRelease
    <3>2. owner' \in Record /\ lease' \in Lease
      BY <2>13 DEF FrameRelease, RecordCleared, Record, Lease
    <3>3. QED
      BY <2>0, <2>13, <3>1, <3>2 DEF FrameRelease, TypeOK, GuestImage, Image
  <2>14. CASE FrameHoldNoPlayer
    BY <2>0, <2>9, <2>14 DEF FrameHoldNoPlayer, TypeOK, GuestImage, guest, history
  <2>15. CASE FrameHoldUnreadable
    <3>1. flag' \in [Players -> BOOLEAN]
      BY <2>0, <2>15, RestoreTypes DEF FrameHoldUnreadable
    <3>2. owner' \in Record /\ lease' \in Lease
      BY <2>0, <2>15 DEF FrameHoldUnreadable, RecordCleared, Record, Lease
    <3>3. owner.live => owner.at \in Players
      BY <2>0, RecordNamesPlayer
    <3>4. tainted' \subseteq Players
      BY <2>15, <3>3 DEF FrameHoldUnreadable, TypeOK
    <3>5. QED
      BY <2>0, <2>15, <3>1, <3>2, <3>4 DEF FrameHoldUnreadable, TypeOK, GuestImage, Image
  <2>16. CASE FrameHoldRefresh
    <3>1. lease.on /\ cur \in Players
      BY <2>16 DEF FrameHoldRefresh
    <3>2. [lease EXCEPT !.age = 0] \in Lease
      BY <2>9, <3>1, OlderLeaseType
    <3>3. lease' \in {Older(lease), [lease EXCEPT !.age = 0]}
      BY <2>16 DEF FrameHoldRefresh
    <3>4. lease' \in Lease
      BY <2>9, <3>2, <3>3
    <3>5. flag' \in {flag, [flag EXCEPT ![cur] = TRUE]}
      BY <2>16 DEF FrameHoldRefresh
    <3>6. flag' \in [Players -> BOOLEAN]
      BY <2>0, <3>5
    <3>7. tainted' \in {tainted, tainted \cup {cur}}
      BY <2>16 DEF FrameHoldRefresh
    <3>8. tainted' \subseteq Players
      BY <3>1, <3>7 DEF TypeOK
    <3>9. QED
      BY <2>0, <2>16, <3>4, <3>6, <3>8 DEF FrameHoldRefresh, TypeOK, GuestImage, Image
  <2>17. CASE FrameHoldTake
    <3> DEFINE f == RestoreTracked(flag)
    <3>1. f \in [Players -> BOOLEAN] /\ f[cur] \in BOOLEAN /\ cur \in Players
      BY <2>0, <2>17, RestoreTypes DEF FrameHoldTake
    <3>2. lease' \in Lease
      BY <2>17, <3>1, NewLeaseType DEF FrameHoldTake
    <3>3. flag' \in [Players -> BOOLEAN] /\ owner' \in Record
      BY <2>17, <3>1 DEF FrameHoldTake, Record
    <3>4. owner.live => owner.at \in Players
      BY <2>0, RecordNamesPlayer
    <3>5. tainted' \subseteq Players
      BY <2>17, <3>1, <3>4 DEF FrameHoldTake, TypeOK
    <3>6. QED
      BY <2>0, <2>17, <3>2, <3>3, <3>5 DEF FrameHoldTake, TypeOK, GuestImage, Image
  <2>18. CASE UNCHANGED vars
    BY <2>18 DEF vars, guest, history, TypeOK, GuestImage
  <2>19. QED
    BY <2>1, <2>2, <2>3, <2>4, <2>5, <2>6, <2>7, <2>8, <2>10, <2>11, <2>12, <2>13, <2>14,
       <2>15, <2>16, <2>17, <2>18 DEF Next, FrameHold
<1>3. QED
  BY <1>1, <1>2, PTL DEF Spec

----------------------------------------------------------------------------
(* Stuck input.  A saved state may be loaded at any time, so its image must *)
(* satisfy what current memory satisfies; and a lease over a bit that was  *)
(* already set taints its player, for a refresh may set the bit again      *)
(* after the game has cleared it.                                          *)

StuckImage(g) ==
  \A p \in Players : g.flag[p] /\ ~g.wish[p] => p \in tainted \/ RecordClaims(g.owner, p)

StuckIInv ==
  /\ StuckImage(GuestImage)
  /\ StuckImage(saved)
  /\ lease.on /\ lease.was => lease.at \in tainted

LEMMA StuckStep == TypeOK /\ StuckIInv /\ [Next]_vars => StuckIInv'
<1> SUFFICES ASSUME TypeOK, StuckIInv, [Next]_vars
             PROVE  StuckIInv'
  OBVIOUS
<1> USE DpadOwnerAssumption
<1>0. /\ cur \in Players \cup {NoPlayer, Unreadable}
      /\ flag \in [Players -> BOOLEAN]
      /\ owner \in Record
      /\ wish \in [Players -> BOOLEAN]
      /\ lease \in Lease
  BY DEF TypeOK, GuestImage, Image
<1>a. \A p \in Players : flag[p] /\ ~wish[p] => p \in tainted \/ RecordClaims(owner, p)
  BY DEF StuckIInv, StuckImage, GuestImage
<1>b. ASSUME tainted \subseteq tainted', UNCHANGED saved
      PROVE  StuckImage(saved)'
  BY <1>b DEF StuckIInv, StuckImage, RecordClaims
<1>c. ASSUME UNCHANGED <<guest, tainted>>
      PROVE  StuckImage(GuestImage)'
  BY <1>a, <1>c DEF StuckImage, GuestImage, guest, RecordClaims
<1>1. ASSUME NEW p \in Players, NEW b \in BOOLEAN, GameCreatesPlayer(p, b)
      PROVE  StuckIInv'
  BY <1>0, <1>a, <1>b, <1>1 DEF GameCreatesPlayer, GameWrites, StuckIInv, StuckImage, GuestImage,
     RecordClaims
<1>2. ASSUME NEW q \in {NoPlayer, Unreadable}, GameDropsPlayer(q)
      PROVE  StuckIInv'
  BY <1>a, <1>b, <1>2 DEF GameDropsPlayer, StuckIInv, StuckImage, GuestImage, history, RecordClaims
<1>3. ASSUME NEW b \in BOOLEAN, GameSetsInput(b)
      PROVE  StuckIInv'
  BY <1>0, <1>a, <1>b, <1>3 DEF GameSetsInput, GameWrites, StuckIInv, StuckImage, GuestImage,
     RecordClaims
<1>4. CASE SaveState
  BY <1>a, <1>c, <1>4 DEF SaveState, StuckIInv, StuckImage, GuestImage, history, guest, RecordClaims
<1>5. CASE LoadState
  BY <1>b, <1>5 DEF LoadState, GuestBecomes, StuckIInv, StuckImage, GuestImage, RecordClaims
<1>6. CASE StopGame
  BY <1>b, <1>c, <1>6 DEF StopGame, StuckIInv, history
<1>7. CASE BootGame
  BY <1>b, <1>7 DEF BootGame, GuestBecomes, BootImage, StuckIInv, StuckImage, GuestImage
<1>8. CASE RestartProcess
  BY <1>b, <1>c, <1>8 DEF RestartProcess, NoLease, StuckIInv, history
<1>9. Older(lease).on = lease.on /\ Older(lease).was = lease.was /\ Older(lease).at = lease.at
  BY <1>0, OlderLeaseType
<1>10. CASE FrameDisabled
  BY <1>b, <1>c, <1>9, <1>10 DEF FrameDisabled, StuckIInv, history
<1>11. CASE FrameGameInactive
  BY <1>b, <1>c, <1>9, <1>11 DEF FrameGameInactive, NoLease, StuckIInv, history
<1>12. CASE FrameRuntimeInactive
  BY <1>b, <1>c, <1>9, <1>12 DEF FrameRuntimeInactive, StuckIInv, history
<1>13. CASE FrameRelease
  <2>1. ASSUME NEW p \in Players, flag'[p], ~wish'[p]
        PROVE  p \in tainted'
    BY <1>0, <1>a, <1>13, <2>1 DEF FrameRelease, RestoreTracked, RestorePersisted, RestoreAt,
       RecordClaims
  <2>2. QED
    BY <1>b, <1>13, <2>1 DEF FrameRelease, NoLease, StuckIInv, StuckImage, GuestImage
<1>14. CASE FrameHoldNoPlayer
  BY <1>b, <1>c, <1>9, <1>14 DEF FrameHoldNoPlayer, StuckIInv, history
<1>15. CASE FrameHoldUnreadable
  <2>1. ASSUME NEW p \in Players, flag'[p], ~wish'[p]
        PROVE  p \in tainted' \/ RecordClaims(owner', p)
    BY <1>0, <1>a, <1>15, <2>1 DEF FrameHoldUnreadable, RestoreTracked, RestoreAt,
       RecordClaims, StuckIInv
  <2>2. QED
    BY <1>b, <1>15, <2>1 DEF FrameHoldUnreadable, NoLease, StuckIInv, StuckImage, GuestImage
<1>16. CASE FrameHoldRefresh
  <2>1. ASSUME NEW p \in Players, flag'[p], ~wish'[p]
        PROVE  p \in tainted' \/ RecordClaims(owner', p)
    BY <1>0, <1>a, <1>16, <2>1 DEF FrameHoldRefresh, RecordClaims, StuckIInv
  <2>2. lease'.on = lease.on /\ lease'.was = lease.was /\ lease'.at = lease.at
    BY <1>0, <1>9, <1>16 DEF FrameHoldRefresh, Lease, NoLease
  <2>3. tainted \subseteq tainted'
    BY <1>16 DEF FrameHoldRefresh
  <2>4. QED
    BY <1>b, <1>16, <2>1, <2>2, <2>3 DEF FrameHoldRefresh, StuckIInv, StuckImage, GuestImage
<1>17. CASE FrameHoldTake
  <2> DEFINE f == RestoreTracked(flag)
  <2>1. cur \in Players /\ f \in [Players -> BOOLEAN]
    BY <1>0, <1>17, RestoreTypes DEF FrameHoldTake
  <2>2. ASSUME NEW p \in Players, flag'[p], ~wish'[p]
        PROVE  p \in tainted' \/ RecordClaims(owner', p)
    <3>1. CASE p = cur
      BY <1>17, <2>1, <3>1 DEF FrameHoldTake, RecordClaims
    <3>2. CASE p # cur
      <4>1. f[p] /\ flag[p] /\ (lease.on /\ lease.at = p => lease.was)
        BY <1>0, <1>17, <2>1, <2>2, <3>2 DEF FrameHoldTake, RestoreTracked, RestoreAt
      <4>2. p \in tainted \/ RecordClaims(owner, p)
        BY <1>a, <1>17, <2>2, <4>1 DEF FrameHoldTake
      <4>3. QED
        BY <1>17, <3>2, <4>1, <4>2 DEF FrameHoldTake, RecordClaims, StuckIInv
    <3>3. QED
      BY <3>1, <3>2
  <2>3. lease'.was => lease'.at \in tainted'
    BY <1>17 DEF FrameHoldTake
  <2>4. tainted \subseteq tainted' /\ UNCHANGED saved
    BY <1>17 DEF FrameHoldTake
  <2>5. QED
    BY <1>b, <2>2, <2>3, <2>4 DEF StuckIInv, StuckImage, GuestImage
<1>18. CASE UNCHANGED vars
  BY <1>b, <1>c, <1>18 DEF vars, StuckIInv, history
<1>19. QED
  BY <1>1, <1>2, <1>3, <1>4, <1>5, <1>6, <1>7, <1>8, <1>10, <1>11, <1>12, <1>13, <1>14,
     <1>15, <1>16, <1>17, <1>18 DEF Next, FrameHold

\* Whatever is saved, loaded, rebooted or reloaded, input that is disabled
\* against the game's wish is recorded in guest memory or has one of the
\* named causes.
THEOREM StuckInputIsExplained == Spec => []StuckInputHasCause
<1>1. Init => StuckIInv
  BY DEF Init, StuckIInv, StuckImage, GuestImage, BootImage, NoLease
<1>2. StuckIInv => StuckInputHasCause
  BY DEF StuckIInv, StuckImage, GuestImage, StuckInputHasCause
<1>3. QED
  BY <1>1, <1>2, StuckStep, TypeCorrect, PTL DEF Spec

----------------------------------------------------------------------------
(* Lost disables.  Both records promise to clear a bit; where the game has *)
(* set that bit under the promise, or memory in which it is set has been   *)
(* loaded under the host's promise, the player counts as overruled.        *)

LostImage(g) ==
  \A p \in Players : g.wish[p] /\ (~g.flag[p] \/ RecordClaims(g.owner, p)) => p \in overruled

LostIInv ==
  /\ LostImage(GuestImage)
  /\ LostImage(saved)
  /\ \A p \in Players : LeaseClaims(p) /\ wish[p] => p \in overruled

LEMMA LostStep == TypeOK /\ LostIInv /\ [Next]_vars => LostIInv'
<1> SUFFICES ASSUME TypeOK, LostIInv, [Next]_vars
             PROVE  LostIInv'
  OBVIOUS
<1> USE DpadOwnerAssumption
<1>0. /\ cur \in Players \cup {NoPlayer, Unreadable}
      /\ flag \in [Players -> BOOLEAN]
      /\ owner \in Record
      /\ wish \in [Players -> BOOLEAN]
      /\ lease \in Lease
  BY DEF TypeOK, GuestImage, Image
<1>a. \A p \in Players : wish[p] /\ (~flag[p] \/ RecordClaims(owner, p) \/ LeaseClaims(p))
                            => p \in overruled
  BY DEF LostIInv, LostImage, GuestImage
<1>b. ASSUME overruled \subseteq overruled', UNCHANGED saved
      PROVE  LostImage(saved)'
  BY <1>b DEF LostIInv, LostImage, RecordClaims
<1>c. ASSUME UNCHANGED <<guest, overruled>>
      PROVE  LostImage(GuestImage)'
  BY <1>a, <1>c DEF LostImage, GuestImage, guest, RecordClaims
<1>d. ASSUME UNCHANGED <<guest, overruled, saved>>,
             \/ ~lease'.on
             \/ lease'.on = lease.on /\ lease'.was = lease.was /\ lease'.at = lease.at
      PROVE  LostIInv'
  BY <1>a, <1>b, <1>c, <1>d DEF LostIInv, LeaseClaims, guest
<1>1. ASSUME NEW p \in Players, NEW b \in BOOLEAN, GameWrites(p, b), UNCHANGED <<owner, lease, saved>>
      PROVE  LostIInv'
  <2>1. ASSUME NEW r \in Players, wish'[r],
               ~flag'[r] \/ RecordClaims(owner', r) \/ LeaseClaims(r)'
        PROVE  r \in overruled'
    BY <1>0, <1>a, <1>1, <2>1 DEF GameWrites, RecordClaims, LeaseClaims
  <2>2. QED
    BY <1>b, <1>1, <2>1 DEF GameWrites, LostIInv, LostImage, GuestImage
<1>2. ASSUME NEW q \in {NoPlayer, Unreadable}, GameDropsPlayer(q)
      PROVE  LostIInv'
  BY <1>a, <1>b, <1>2 DEF GameDropsPlayer, LostIInv, LostImage, GuestImage, history, RecordClaims,
     LeaseClaims
<1>4. CASE SaveState
  BY <1>a, <1>c, <1>4 DEF SaveState, LostIInv, LostImage, GuestImage, history, guest, RecordClaims,
     LeaseClaims
<1>5. ASSUME NEW g, LostImage(g), GuestBecomes(g), UNCHANGED <<saved, lease>>
      PROVE  LostIInv'
  BY <1>b, <1>5 DEF GuestBecomes, LostIInv, LostImage, GuestImage, RecordClaims, LeaseClaims
<1>6. CASE LoadState
  BY <1>5, <1>6 DEF LoadState, LostIInv
<1>7. CASE BootGame
  BY <1>5, <1>7 DEF BootGame, BootImage, LostImage
<1>8. CASE StopGame
  BY <1>d, <1>8 DEF StopGame, history
<1>9. CASE RestartProcess
  BY <1>d, <1>9 DEF RestartProcess, NoLease, history
<1>10. Older(lease).on = lease.on /\ Older(lease).was = lease.was /\ Older(lease).at = lease.at
  BY <1>0, OlderLeaseType
<1>11. CASE FrameDisabled
  BY <1>d, <1>10, <1>11 DEF FrameDisabled, history
<1>12. CASE FrameGameInactive
  BY <1>d, <1>10, <1>12 DEF FrameGameInactive, NoLease, history
<1>13. CASE FrameRuntimeInactive
  BY <1>d, <1>10, <1>13 DEF FrameRuntimeInactive, history
<1>14. CASE FrameRelease
  <2>1. ASSUME NEW p \in Players, wish'[p], ~flag'[p]
        PROVE  p \in overruled'
    BY <1>0, <1>a, <1>14, <2>1 DEF FrameRelease, RestoreTracked, RestorePersisted, RestoreAt,
       RecordClaims, LeaseClaims
  <2>2. QED
    BY <1>b, <1>14, <2>1 DEF FrameRelease, RecordCleared, NoRecord, NoLease, LostIInv, LostImage,
       GuestImage, RecordClaims, LeaseClaims
<1>15. CASE FrameHoldNoPlayer
  BY <1>d, <1>10, <1>15 DEF FrameHoldNoPlayer, history
<1>16. CASE FrameHoldUnreadable
  <2>1. ASSUME NEW p \in Players, wish'[p], ~flag'[p] \/ RecordClaims(owner', p)
        PROVE  p \in overruled'
    BY <1>0, <1>a, <1>16, <2>1 DEF FrameHoldUnreadable, RestoreTracked, RestoreAt,
       RecordCleared, NoRecord, RecordClaims, LeaseClaims
  <2>2. QED
    BY <1>b, <1>16, <2>1 DEF FrameHoldUnreadable, NoLease, LostIInv, LostImage, GuestImage,
       LeaseClaims
<1>17. CASE FrameHoldRefresh
  <2>1. lease'.on = lease.on /\ lease'.was = lease.was /\ lease'.at = lease.at
    BY <1>0, <1>10, <1>17 DEF FrameHoldRefresh, Lease, NoLease
  <2>2. ASSUME NEW p \in Players, wish'[p],
               ~flag'[p] \/ RecordClaims(owner', p) \/ LeaseClaims(p)'
        PROVE  p \in overruled'
    BY <1>0, <1>a, <1>17, <2>1, <2>2 DEF FrameHoldRefresh, RecordClaims, LeaseClaims
  <2>3. QED
    BY <1>b, <1>17, <2>2 DEF FrameHoldRefresh, LostIInv, LostImage, GuestImage
<1>18. CASE FrameHoldTake
  <2> DEFINE f == RestoreTracked(flag)
  <2>1. cur \in Players /\ f \in [Players -> BOOLEAN]
    BY <1>0, <1>18, RestoreTypes DEF FrameHoldTake
  <2>2. ASSUME NEW p \in Players, wish[p], ~f[p]
        PROVE  p \in overruled
    BY <1>0, <1>a, <2>2 DEF RestoreTracked, RestoreAt, LeaseClaims
  <2>3. ASSUME NEW p \in Players, wish'[p],
               ~flag'[p] \/ RecordClaims(owner', p) \/ LeaseClaims(p)'
        PROVE  p \in overruled'
    BY <1>18, <2>1, <2>2, <2>3 DEF FrameHoldTake, RecordClaims, LeaseClaims
  <2>4. QED
    BY <1>b, <1>18, <2>3 DEF FrameHoldTake, LostIInv, LostImage, GuestImage
<1>19. CASE UNCHANGED vars
  BY <1>d, <1>19 DEF vars, history
<1>20. QED
  BY <1>1, <1>2, <1>4, <1>6, <1>7, <1>8, <1>9, <1>11, <1>12, <1>13, <1>14, <1>15, <1>16, <1>17,
     <1>18, <1>19 DEF Next, FrameHold, GameCreatesPlayer, GameSetsInput

\* The game's own disable is undone only at a player whom the game disabled
\* while PrimedGun had promised to enable it again.
THEOREM LostDisableIsExplained == Spec => []LostDisableHasCause
<1>1. Init => LostIInv
  BY DEF Init, LostIInv, LostImage, GuestImage, BootImage, NoLease, LeaseClaims
<1>2. LostIInv => LostDisableHasCause
  BY DEF LostIInv, LostImage, GuestImage, LostDisableHasCause
<1>3. QED
  BY <1>1, <1>2, LostStep, TypeCorrect, PTL DEF Spec

----------------------------------------------------------------------------
\* The scratch record and the host's record describe the same lease unless
\* memory was replaced since the last released frame.
THEOREM RecordAgrees == Spec => []RecordMatchesLease
<1>1. Init => RecordMatchesLease
  BY DEF Init, RecordMatchesLease, NoLease, NoRecord
<1>2. TypeOK /\ RecordMatchesLease /\ [Next]_vars => RecordMatchesLease'
  <2> SUFFICES ASSUME TypeOK, RecordMatchesLease, [Next]_vars
               PROVE  RecordMatchesLease'
    OBVIOUS
  <2>0. lease \in Lease
    BY DEF TypeOK
  <2>1. Older(lease).on = lease.on /\ Older(lease).was = lease.was /\ Older(lease).at = lease.at
    BY <2>0, OlderLeaseType
  <2>2. CASE \/ \E p \in Players, b \in BOOLEAN : GameCreatesPlayer(p, b)
             \/ \E q \in {NoPlayer, Unreadable} : GameDropsPlayer(q)
             \/ \E b \in BOOLEAN : GameSetsInput(b)
             \/ SaveState
    BY <2>2 DEF GameCreatesPlayer, GameDropsPlayer, GameSetsInput, SaveState, guest, history,
       RecordMatchesLease
  <2>3. CASE LoadState \/ BootGame \/ StopGame \/ RestartProcess
    BY <2>3 DEF LoadState, BootGame, StopGame, RestartProcess, GuestBecomes, RecordMatchesLease
  <2>4. CASE FrameDisabled \/ FrameRuntimeInactive \/ FrameHoldNoPlayer
    BY <2>1, <2>4 DEF FrameDisabled, FrameRuntimeInactive, FrameHoldNoPlayer, guest, history,
       RecordMatchesLease
  <2>5. CASE FrameGameInactive
    BY <2>5 DEF FrameGameInactive, RecordMatchesLease
  <2>6. CASE FrameRelease
    BY <2>6 DEF FrameRelease, RecordCleared, NoRecord, NoLease, RecordMatchesLease
  <2>7. CASE FrameHoldUnreadable
    <3>1. lease.on \in BOOLEAN
      <4>1. CASE lease = NoLease
        BY <4>1 DEF NoLease
      <4>2. CASE lease \in [on : {TRUE}, was : BOOLEAN, at : Players, age : 0 .. RefreshFrames]
        BY <4>2
      <4>3. QED
        BY <2>0, <4>1, <4>2 DEF Lease
    <3>2. QED
      BY <2>7, <3>1 DEF FrameHoldUnreadable, RecordCleared, NoRecord, NoLease, RecordMatchesLease
  <2>8. CASE FrameHoldRefresh
    <3>1. lease'.on = lease.on /\ lease'.was = lease.was /\ lease'.at = lease.at
      BY <2>0, <2>1, <2>8 DEF FrameHoldRefresh, Lease, NoLease
    <3>2. QED
      BY <2>8, <3>1 DEF FrameHoldRefresh, RecordMatchesLease
  <2>9. CASE FrameHoldTake
    BY <2>9 DEF FrameHoldTake, RecordMatchesLease
  <2>10. CASE UNCHANGED vars
    BY <2>10 DEF vars, guest, history, RecordMatchesLease
  <2>11. QED
    BY <2>2, <2>3, <2>4, <2>5, <2>6, <2>7, <2>8, <2>9, <2>10 DEF Next, FrameHold
<1>3. QED
  BY <1>1, <1>2, TypeCorrect, PTL DEF Spec
----------------------------------------------------------------------------
(* The gesture.                                                            *)

\* A stick position gives a direction or none.
LEMMA StickGives ==
  ASSUME NEW s \in StickPositions, NEW last
  PROVE  StickToDpad(s, last) \in Dirs \cup {None}
BY DEF StickToDpad, StickPositions, Dirs, None, Up, Down, Left, Right

\* An age grows by a frame, as far as it is counted.
LEMMA AgedGrows ==
  ASSUME NEW n \in 0 .. MaxFrame
  PROVE  /\ Aged(n) \in 0 .. MaxFrame
         /\ n < MaxFrame => Aged(n) = n + 1
<1>1. MaxFrame \in Nat
  BY DpadGestureAssumption
<1>2. QED
  BY <1>1 DEF Aged

\* The delays and the bound are positive, one by one.
LEMMA Delays ==
  /\ NearHold \in Nat \ {0} /\ LatchFrames \in Nat \ {0}
  /\ InitialFrames \in Nat \ {0} /\ RepeatFrames \in Nat \ {0} /\ MaxFrame \in Nat \ {0}
BY DpadGestureAssumption

\* The difference the code takes is the age.
LEMMA AgeIsDifference ==
  ASSUME NEW t \in Nat, NEW age \in Nat, NEW now \in Nat, t + age = now
  PROVE  now - t = age /\ t <= now
OBVIOUS

\* The latch set in a frame ends within its type.
LEMMA LatchEnds ==
  ASSUME NEW n \in 0 .. MaxFrame
  PROVE  n + LatchFrames \in 0 .. (MaxFrame + LatchFrames)
<1>1. MaxFrame \in Nat /\ LatchFrames \in Nat
  BY DpadGestureAssumption
<1>2. QED
  BY <1>1

\* Every variable, the frame numbers and the ages apart.
GestureParts ==
  /\ frame \in 0 .. MaxFrame
  /\ lastDir \in Dirs \cup {None} /\ latchedDir \in Dirs \cup {None}
  /\ command \in Dirs \cup {None}
  /\ suppressed \in BOOLEAN /\ ran \in BOOLEAN /\ nearStale \in BOOLEAN /\ dirStale \in BOOLEAN
  /\ stick \in Sticks
FrameNumbers ==
  /\ latchUntil \in 0 .. (MaxFrame + LatchFrames)
  /\ dirStart \in 0 .. MaxFrame /\ lastPress \in 0 .. MaxFrame /\ lastNear \in 0 .. MaxFrame
Ages ==
  /\ awayFor \in 0 .. MaxFrame /\ centredFor \in 0 .. MaxFrame
  /\ sinceTurn \in 0 .. MaxFrame /\ sincePulse \in 0 .. MaxFrame

\* The type invariant is the conjunction of the three.
LEMMA PartsAreTypes == GestureTypeOK <=> GestureParts /\ FrameNumbers /\ Ages
BY DEF GestureTypeOK, GestureParts, FrameNumbers, Ages

\* The type invariant of the gesture, for any delays: every frame number is
\* one the counter had, and the latch ends LatchFrames after it at most.
THEOREM GestureTypeCorrect == GestureSpec => []GestureTypeOK
<1>1. GestureInit => GestureTypeOK
  <2> SUFFICES ASSUME GestureInit PROVE GestureParts /\ FrameNumbers /\ Ages
    BY PartsAreTypes
  <2>1. 0 \in 0 .. MaxFrame /\ MaxFrame \in 0 .. MaxFrame /\ 0 \in 0 .. (MaxFrame + LatchFrames)
    BY Delays
  <2>2. QED
    BY <2>1 DEF GestureInit, GestureParts, FrameNumbers, Ages
<1>2. GestureTypeOK /\ [GestureNext]_gestureVars => GestureTypeOK'
  <2> SUFFICES ASSUME GestureParts, FrameNumbers, Ages, [GestureNext]_gestureVars
               PROVE  GestureParts' /\ FrameNumbers' /\ Ages'
    BY PartsAreTypes DEF GestureTypeOK, GestureParts, FrameNumbers, Ages
  <2>1. /\ Aged(awayFor) \in 0 .. MaxFrame /\ Aged(centredFor) \in 0 .. MaxFrame
        /\ Aged(sinceTurn) \in 0 .. MaxFrame /\ Aged(sincePulse) \in 0 .. MaxFrame
    BY AgedGrows DEF Ages
  <2>2. 0 \in 0 .. MaxFrame /\ 0 \in 0 .. (MaxFrame + LatchFrames)
    BY Delays
  <2>3. ASSUME NEW s \in Sticks, NextFrame(s)
        PROVE  frame' \in 0 .. MaxFrame /\ stick' \in Sticks
    BY <2>3, Delays DEF NextFrame, GestureParts
  <2>4. ASSUME NEW s \in Sticks, FrameSkipped(s) \/ FrameUntracked(s)
        PROVE  GestureParts' /\ FrameNumbers' /\ Ages'
    <3>1. NextFrame(s)
      BY <2>4 DEF FrameSkipped, FrameUntracked
    <3>2. QED
      BY <2>1, <2>2, <2>3, <2>4, <3>1
         DEF FrameSkipped, FrameUntracked, Disarm, AgePress, statics, GestureParts, FrameNumbers, Ages
  <2>5. ASSUME NEW near \in BOOLEAN, NEW s \in Sticks, FrameIdle(near, s)
        PROVE  GestureParts' /\ FrameNumbers' /\ Ages'
    <3>1. frame' \in 0 .. MaxFrame /\ stick' \in Sticks
      BY <2>3, <2>5 DEF FrameIdle
    <3>2. nearStale' \in BOOLEAN
      BY <2>5 DEF FrameIdle, SeeHand
    <3>3. GestureParts'
      BY <2>5, <3>1, <3>2 DEF FrameIdle, Disarm, GestureParts
    <3>4. FrameNumbers' /\ Ages'
      BY <2>1, <2>2, <2>5, <3>1 DEF FrameIdle, SeeHand, Disarm, AgePress, FrameNumbers, Ages
    <3>5. QED
      BY <3>3, <3>4
  <2>6. ASSUME NEW near \in BOOLEAN, NEW s \in Sticks, FrameArmed(near, s)
        PROVE  GestureParts' /\ FrameNumbers' /\ Ages'
    <3>1. frame' \in 0 .. MaxFrame /\ stick' \in Sticks
      BY <2>3, <2>6 DEF FrameArmed
    <3>2. s \in StickPositions
      BY DpadGestureAssumption
    <3>3. Direction(s) \in Dirs \cup {None}
      BY <3>2, StickGives DEF Direction, GestureParts
    <3>4. LatchEnd \in 0 .. (MaxFrame + LatchFrames)
      BY <3>1, LatchEnds DEF LatchEnd
    <3>5. nearStale' \in BOOLEAN
      BY <2>6 DEF FrameArmed, SeeHand
    <3>6. GestureParts'
      BY <2>6, <3>1, <3>3, <3>5 DEF FrameArmed, GestureParts
    <3>7. FrameNumbers'
      BY <2>2, <2>6, <3>1, <3>4 DEF FrameArmed, SeeHand, FrameNumbers
    <3>8. Ages'
      BY <2>1, <2>2, <2>6 DEF FrameArmed, SeeHand, Ages
    <3>9. QED
      BY <3>6, <3>7, <3>8
  <2>7. CASE FrameReset
    BY <2>1, <2>2, <2>7 DEF FrameReset, AgePress, statics, GestureParts, FrameNumbers, Ages
  <2>8. CASE UNCHANGED gestureVars
    BY <2>8 DEF gestureVars, statics, ages, GestureParts, FrameNumbers, Ages
  <2>9. QED
    BY <2>4, <2>5, <2>6, <2>7, <2>8 DEF GestureNext
<1>3. QED
  BY <1>1, <1>2, PTL DEF GestureSpec

\* The statics are set together and wiped together: the function decides by
\* one of them what another is worth.
ArmingIsWhole ==
  \/ /\ suppressed /\ lastDir # None /\ latchedDir # None
     /\ lastPress # 0 /\ dirStart # 0 /\ latchUntil >= LatchFrames
  \/ /\ ~suppressed /\ ~dirStale /\ lastDir = None /\ latchedDir = None
     /\ lastPress = 0 /\ dirStart = 0 /\ latchUntil = 0

\* Unless the counter was reset in between, the frame numbers that are kept
\* lie as far back as what they stand for.
NearAge == lastNear # 0 /\ ~nearStale => lastNear + awayFor = frame
DirAges ==
  suppressed /\ ~dirStale =>
    /\ lastPress + sincePulse = frame
    /\ dirStart + sinceTurn = frame
    /\ latchUntil + centredFor = frame + LatchFrames

GestureInv == ArmingIsWhole /\ NearAge /\ DirAges

\* In a frame that is counted the hand is as long away as lastNear says, or it
\* is seen.
LEMMA HandSeen ==
  ASSUME GestureTypeOK, NearAge, NEW s \in Sticks, NextFrame(s), NEW near \in BOOLEAN
  PROVE  /\ SeeHand(near) => NearAge'
         /\ SeeHand(near) /\ InHeadZone(near) => awayFor' < NearHold \/ nearStale'
         /\ awayFor' = Aged(awayFor) /\ UNCHANGED <<lastNear, nearStale>> => NearAge'
<1> USE PartsAreTypes
<1>1. frame \in Nat /\ frame < MaxFrame /\ frame' = frame + 1
  BY Delays DEF NextFrame, GestureParts
<1>2. awayFor \in 0 .. MaxFrame /\ lastNear \in 0 .. MaxFrame
  BY DEF Ages, FrameNumbers
<1>3. lastNear # 0 /\ ~nearStale => Aged(awayFor) = awayFor + 1
  BY <1>1, <1>2, AgedGrows, Delays DEF NearAge
<1>4. lastNear + Aged(awayFor) = frame' \/ lastNear = 0 \/ nearStale
  BY <1>1, <1>2, <1>3 DEF NearAge
<1>5. SeeHand(near) => NearAge'
  <2>1. CASE near
    BY <1>1, <2>1 DEF SeeHand, NearAge
  <2>2. CASE ~near
    BY <1>4, <2>2 DEF SeeHand, NearAge
  <2>3. QED
    BY <2>1, <2>2
<1>6. SeeHand(near) /\ InHeadZone(near) => awayFor' < NearHold \/ nearStale'
  <2>1. CASE near
    BY <2>1, Delays DEF SeeHand
  <2>2. CASE ~near
    <3>1. Aged(awayFor) \in Nat /\ lastNear \in Nat /\ NearHold \in Nat /\ frame' \in Nat
      BY <1>1, <1>2, AgedGrows, Delays
    <3>2. CASE nearStale
      BY <2>2, <3>2 DEF SeeHand
    <3>3. CASE ~nearStale
      <4>1. lastNear # 0 /\ WithinFrames(lastNear, NearHold) => Aged(awayFor) < NearHold
        <5> SUFFICES ASSUME lastNear # 0, WithinFrames(lastNear, NearHold)
                     PROVE  Aged(awayFor) < NearHold
          OBVIOUS
        <5>1. lastNear + Aged(awayFor) = frame'
          BY <1>4, <3>3
        <5>2. frame' - lastNear = Aged(awayFor)
          BY <3>1, <5>1, AgeIsDifference
        <5>3. QED
          BY <5>2 DEF WithinFrames
      <4>2. QED
        BY <2>2, <4>1 DEF SeeHand, InHeadZone
    <3>4. QED
      BY <3>2, <3>3
  <2>3. QED
    BY <2>1, <2>2
<1>7. QED
  BY <1>4, <1>5, <1>6 DEF NearAge

\* The same for the direction and the presses of a gesture that is armed.
LEMMA DirectionAged ==
  ASSUME GestureTypeOK, ArmingIsWhole, DirAges, suppressed, ~dirStale,
         NEW s \in Sticks, NextFrame(s)
  PROVE  /\ lastPress + Aged(sincePulse) = frame'
         /\ dirStart + Aged(sinceTurn) = frame'
         /\ latchUntil + Aged(centredFor) = frame' + LatchFrames
<1> USE PartsAreTypes
<1>1. frame \in Nat /\ frame < MaxFrame /\ frame' = frame + 1
  BY Delays DEF NextFrame, GestureParts
<1>2. /\ sincePulse \in 0 .. MaxFrame /\ sinceTurn \in 0 .. MaxFrame
      /\ centredFor \in 0 .. MaxFrame /\ lastPress \in Nat /\ dirStart \in Nat
      /\ latchUntil \in Nat
  BY Delays DEF Ages, FrameNumbers
<1>3. sincePulse < MaxFrame /\ sinceTurn < MaxFrame /\ centredFor < MaxFrame
  BY <1>1, <1>2, Delays DEF ArmingIsWhole, DirAges
<1>4. QED
  BY <1>1, <1>2, <1>3, AgedGrows, Delays DEF DirAges

\* What the direction and the presses of an armed frame leave behind.
LEMMA ArmedFrame ==
  ASSUME GestureTypeOK, GestureInv, NEW near \in BOOLEAN, NEW s \in Sticks, FrameArmed(near, s)
  PROVE  /\ ArmingIsWhole' /\ DirAges'
         /\ centredFor' < LatchFrames \/ dirStale'
         /\ sincePulse' < RepeatFrames \/ dirStale'
         /\ command' # None => \/ sinceTurn' < InitialFrames
                               \/ Aged(sincePulse) >= RepeatFrames
                               \/ dirStale'
<1> DEFINE dir == Direction(s)
           turned == dir # lastDir
           start == IF turned THEN frame' ELSE dirStart
           fromStick == StickToDpad(s, lastDir) # None
           press == PressDue(turned, start)
<1>1. /\ NextFrame(s) /\ dir # None
      /\ latchedDir' = dir
      /\ latchUntil' = IF fromStick THEN LatchEnd ELSE latchUntil
      /\ suppressed' = TRUE
      /\ dirStart' = start
      /\ lastPress' = IF press THEN frame' ELSE IF turned THEN 0 ELSE lastPress
      /\ lastDir' = dir
      /\ command' = IF press THEN dir ELSE None
      /\ centredFor' = IF fromStick THEN 0 ELSE Aged(centredFor)
      /\ sinceTurn' = IF turned THEN 0 ELSE Aged(sinceTurn)
      /\ sincePulse' = IF press THEN 0 ELSE Aged(sincePulse)
      /\ dirStale' = dirStale
  BY DEF FrameArmed
<1> HIDE DEF dir, turned, start, fromStick, press
<1>2. /\ frame \in Nat /\ frame' \in Nat \ {0} /\ frame' = frame + 1
      /\ lastPress \in Nat /\ dirStart \in Nat /\ latchUntil \in Nat
      /\ Aged(centredFor) \in Nat /\ Aged(sinceTurn) \in Nat /\ Aged(sincePulse) \in Nat
  BY <1>1, AgedGrows, Delays, PartsAreTypes DEF NextFrame, GestureParts, FrameNumbers, Ages
<1>3. suppressed /\ ~dirStale =>
        /\ lastPress + Aged(sincePulse) = frame'
        /\ dirStart + Aged(sinceTurn) = frame'
        /\ latchUntil + Aged(centredFor) = frame' + LatchFrames
  BY <1>1, DirectionAged DEF GestureInv
<1>4. ~suppressed => turned /\ fromStick /\ ~dirStale
  BY <1>1 DEF GestureInv, ArmingIsWhole, turned, fromStick, dir, Direction
<1>5. turned => press
  BY DEF press, PressDue
<1>6. ~press => ~turned /\ lastPress # 0 /\ WithinFrames(lastPress, RepeatFrames)
  BY DEF press, PressDue
<1>7. ~fromStick => frame' < latchUntil
  BY <1>1 DEF fromStick, dir, Direction
<1>8. fromStick => latchUntil' = frame' + LatchFrames
  BY <1>1 DEF LatchEnd
<1>9. ArmingIsWhole'
  <2>1. suppressed => lastPress # 0 /\ dirStart # 0 /\ latchUntil >= LatchFrames
    BY DEF GestureInv, ArmingIsWhole
  <2>2. lastPress' # 0
    BY <1>1, <1>2, <1>6
  <2>3. dirStart' # 0
    BY <1>1, <1>2, <1>4, <2>1 DEF start
  <2>4. latchUntil' >= LatchFrames
    BY <1>1, <1>2, <1>4, <1>8, <2>1, Delays
  <2>5. QED
    BY <1>1, <2>2, <2>3, <2>4 DEF ArmingIsWhole
<1>10. ~dirStale => latchUntil' + centredFor' = frame' + LatchFrames
  <2>1. CASE fromStick
    BY <1>1, <1>2, <1>8, <2>1, Delays
  <2>2. CASE ~fromStick
    BY <1>1, <1>3, <1>4, <2>2
  <2>3. QED
    BY <2>1, <2>2
<1>11. ~dirStale => dirStart' + sinceTurn' = frame'
  <2>1. CASE turned
    BY <1>1, <1>2, <2>1 DEF start
  <2>2. CASE ~turned
    BY <1>1, <1>3, <1>4, <2>2 DEF start
  <2>3. QED
    BY <2>1, <2>2
<1>12. ~dirStale => lastPress' + sincePulse' = frame'
  <2>1. CASE press
    BY <1>1, <1>2, <2>1
  <2>2. CASE ~press
    BY <1>1, <1>3, <1>4, <1>6, <2>2
  <2>3. QED
    BY <2>1, <2>2
<1>13. DirAges'
  BY <1>1, <1>10, <1>11, <1>12 DEF DirAges
<1>14. ~dirStale => centredFor' < LatchFrames
  <2>1. CASE fromStick
    BY <1>1, <2>1, Delays
  <2>2. ASSUME ~fromStick, ~dirStale
        PROVE  centredFor' < LatchFrames
    <3>1. latchUntil + Aged(centredFor) = frame' + LatchFrames
      BY <1>3, <1>4, <2>2
    <3>2. Aged(centredFor) < LatchFrames
      BY <1>2, <1>7, <2>2, <3>1, Delays
    <3>3. QED
      BY <1>1, <2>2, <3>2
  <2>3. QED
    BY <2>1, <2>2
<1>15. ~dirStale => sincePulse' < RepeatFrames
  <2>1. CASE press
    BY <1>1, <2>1, Delays
  <2>2. ASSUME ~press, ~dirStale
        PROVE  sincePulse' < RepeatFrames
    <3>1. lastPress + Aged(sincePulse) = frame' /\ WithinFrames(lastPress, RepeatFrames)
      BY <1>3, <1>4, <1>6, <2>2
    <3>2. Aged(sincePulse) < RepeatFrames
      BY <1>2, <3>1, Delays DEF WithinFrames
    <3>3. QED
      BY <1>1, <2>2, <3>2
  <2>3. QED
    BY <2>1, <2>2
<1>16. ASSUME command' # None, ~dirStale
       PROVE  sinceTurn' < InitialFrames \/ Aged(sincePulse) >= RepeatFrames
  <2>1. press
    BY <1>1, <1>16
  <2>2. CASE start # 0 /\ WithinFrames(start, InitialFrames)
    <3>1. sinceTurn' \in Nat /\ dirStart' \in Nat /\ dirStart' + sinceTurn' = frame'
      BY <1>1, <1>2, <1>11, <1>16 DEF start
    <3>2. start = dirStart'
      BY <1>1
    <3>3. frame' - dirStart' < InitialFrames
      BY <2>2, <3>2 DEF WithinFrames
    <3>4. frame' - dirStart' = sinceTurn'
      BY <1>2, <3>1, AgeIsDifference
    <3>5. QED
      BY <3>3, <3>4
  <2>3. CASE turned
    BY <1>1, <2>3, Delays
  <2>4. ASSUME ~turned, lastPress = 0 \/ ~WithinFrames(lastPress, RepeatFrames)
        PROVE  Aged(sincePulse) >= RepeatFrames
    <3>1. suppressed
      BY <1>4, <2>4
    <3>2. lastPress # 0
      BY <3>1 DEF GestureInv, ArmingIsWhole
    <3>3. lastPress + Aged(sincePulse) = frame'
      BY <1>3, <1>16, <3>1
    <3>4. QED
      BY <1>2, <2>4, <3>2, <3>3, Delays DEF WithinFrames
  <2>5. QED
    BY <2>1, <2>2, <2>3, <2>4 DEF press, PressDue
<1>17. QED
  BY <1>1, <1>9, <1>13, <1>14, <1>15, <1>16

\* The invariant holds: a reset of the counter voids the ages it disturbs.
LEMMA GestureHolds == GestureSpec => []GestureInv
<1>1. GestureInit => GestureInv
  BY DEF GestureInit, GestureInv, ArmingIsWhole, NearAge, DirAges, None
<1>2. GestureTypeOK /\ GestureInv /\ [GestureNext]_gestureVars => GestureInv'
  <2> SUFFICES ASSUME GestureTypeOK, GestureInv, [GestureNext]_gestureVars
               PROVE  GestureInv'
    OBVIOUS
  <2>1. ASSUME NEW s \in Sticks, FrameSkipped(s)
        PROVE  GestureInv'
    <3>1. NearAge'
      BY <2>1, HandSeen DEF FrameSkipped, GestureInv
    <3>2. ArmingIsWhole'
      BY <2>1 DEF FrameSkipped, statics, GestureInv, ArmingIsWhole
    <3>3. DirAges'
      BY <2>1, DirectionAged DEF FrameSkipped, AgePress, statics, GestureInv, DirAges
    <3>4. QED
      BY <3>1, <3>2, <3>3 DEF GestureInv
  <2>2. ASSUME NEW s \in Sticks, FrameUntracked(s)
        PROVE  GestureInv'
    <3>1. NearAge'
      BY <2>2, HandSeen DEF FrameUntracked, GestureInv
    <3>2. QED
      BY <2>2, <3>1 DEF FrameUntracked, Disarm, GestureInv, ArmingIsWhole, DirAges
  <2>3. ASSUME NEW near \in BOOLEAN, NEW s \in Sticks, FrameIdle(near, s)
        PROVE  GestureInv'
    <3>1. NearAge'
      BY <2>3, HandSeen DEF FrameIdle, GestureInv
    <3>2. QED
      BY <2>3, <3>1 DEF FrameIdle, Disarm, GestureInv, ArmingIsWhole, DirAges
  <2>4. ASSUME NEW near \in BOOLEAN, NEW s \in Sticks, FrameArmed(near, s)
        PROVE  GestureInv'
    <3>1. NearAge'
      BY <2>4, HandSeen DEF FrameArmed, GestureInv
    <3>2. QED
      BY <2>4, <3>1, ArmedFrame DEF GestureInv
  <2>5. CASE FrameReset
    <3>1. NearAge'
      BY <2>5 DEF FrameReset, NearAge
    <3>2. ArmingIsWhole' /\ DirAges'
      BY <2>5 DEF FrameReset, statics, GestureInv, ArmingIsWhole, DirAges
    <3>3. QED
      BY <3>1, <3>2 DEF GestureInv
  <2>6. CASE UNCHANGED gestureVars
    BY <2>6 DEF gestureVars, statics, ages, GestureInv, ArmingIsWhole, NearAge, DirAges
  <2>7. QED
    BY <2>1, <2>2, <2>3, <2>4, <2>5, <2>6 DEF GestureNext
<1>3. QED
  BY <1>1, <1>2, GestureTypeCorrect, PTL DEF GestureSpec

\* The stick presses the D-pad only with the hand in the head zone, or out of
\* it for less than NearHold frames: the zone's hold cannot prolong itself,
\* and only a reset of the counter under it can.
THEOREM ArmedByTheHead == GestureSpec => []ArmedNearHead
<1>1. GestureInit => ArmedNearHead
  BY DEF GestureInit, ArmedNearHead
<1>2. GestureTypeOK /\ GestureInv /\ ArmedNearHead /\ [GestureNext]_gestureVars => ArmedNearHead'
  <2> SUFFICES ASSUME GestureTypeOK, GestureInv, ArmedNearHead, [GestureNext]_gestureVars
               PROVE  ArmedNearHead'
    OBVIOUS
  <2>1. CASE FrameReset \/ \E s \in Sticks : FrameSkipped(s)
    BY <2>1 DEF FrameReset, FrameSkipped, ArmedNearHead
  <2>2. CASE \/ \E s \in Sticks : FrameUntracked(s)
             \/ \E near \in BOOLEAN, s \in Sticks : FrameIdle(near, s)
    BY <2>2 DEF FrameUntracked, FrameIdle, Disarm, ArmedNearHead
  <2>3. ASSUME NEW near \in BOOLEAN, NEW s \in Sticks, FrameArmed(near, s)
        PROVE  ArmedNearHead'
    BY <2>3, HandSeen DEF FrameArmed, GestureInv, ArmedNearHead
  <2>4. CASE UNCHANGED gestureVars
    BY <2>4 DEF gestureVars, statics, ages, ArmedNearHead
  <2>5. QED
    BY <2>1, <2>2, <2>3, <2>4 DEF GestureNext
<1>3. QED
  BY <1>1, <1>2, GestureTypeCorrect, GestureHolds, PTL DEF GestureSpec

\* A direction ends LatchFrames frames after the stick gave it, however long
\* the hand stays, and a direction that is held is pressed again within
\* RepeatFrames frames, whatever turns and skipped frames lie between.
LEMMA ArmedIsTimely == GestureSpec => [](ArmedByStick /\ PressRepeats)
<1>1. GestureInit => ArmedByStick /\ PressRepeats
  BY DEF GestureInit, ArmedByStick, PressRepeats
<1>2. /\ GestureTypeOK /\ GestureInv /\ ArmedByStick /\ PressRepeats
      /\ [GestureNext]_gestureVars
      => (ArmedByStick /\ PressRepeats)'
  <2> SUFFICES ASSUME GestureTypeOK, GestureInv, ArmedByStick, PressRepeats,
                      [GestureNext]_gestureVars
               PROVE  (ArmedByStick /\ PressRepeats)'
    OBVIOUS
  <2>1. CASE FrameReset \/ \E s \in Sticks : FrameSkipped(s)
    BY <2>1 DEF FrameReset, FrameSkipped, ArmedByStick, PressRepeats
  <2>2. CASE \/ \E s \in Sticks : FrameUntracked(s)
             \/ \E near \in BOOLEAN, s \in Sticks : FrameIdle(near, s)
    BY <2>2 DEF FrameUntracked, FrameIdle, Disarm, ArmedByStick, PressRepeats
  <2>3. ASSUME NEW near \in BOOLEAN, NEW s \in Sticks, FrameArmed(near, s)
        PROVE  (ArmedByStick /\ PressRepeats)'
    BY <2>3, ArmedFrame DEF ArmedByStick, PressRepeats
  <2>4. CASE UNCHANGED gestureVars
    BY <2>4 DEF gestureVars, statics, ages, ArmedByStick, PressRepeats
  <2>5. QED
    BY <2>1, <2>2, <2>3, <2>4 DEF GestureNext
<1>3. QED
  BY <1>1, <1>2, GestureTypeCorrect, GestureHolds, PTL DEF GestureSpec

\* No direction outlives the stick by LatchFrames frames.
THEOREM ArmedByTheStick == GestureSpec => []ArmedByStick
BY ArmedIsTimely, PTL

\* A direction that is held is pressed at least every RepeatFrames frames.
THEOREM PressesRepeat == GestureSpec => []PressRepeats
BY ArmedIsTimely, PTL

\* A direction that is no longer new is pressed every RepeatFrames frames at
\* most.
THEOREM PressesApart == GestureSpec => PressNotTooFast
<1>1. /\ GestureTypeOK /\ GestureInv /\ [GestureNext]_gestureVars
      => [ran' /\ command' # None =>
            \/ sinceTurn' < InitialFrames
            \/ Aged(sincePulse) >= RepeatFrames
            \/ dirStale']_gestureVars
  <2> SUFFICES ASSUME GestureTypeOK, GestureInv, GestureNext, ran', command' # None
               PROVE  \/ sinceTurn' < InitialFrames
                      \/ Aged(sincePulse) >= RepeatFrames
                      \/ dirStale'
    OBVIOUS
  <2>1. CASE FrameReset \/ \E s \in Sticks : FrameSkipped(s)
    BY <2>1 DEF FrameReset, FrameSkipped
  <2>2. CASE \/ \E s \in Sticks : FrameUntracked(s)
             \/ \E near \in BOOLEAN, s \in Sticks : FrameIdle(near, s)
    BY <2>2 DEF FrameUntracked, FrameIdle, Disarm
  <2>3. CASE \E near \in BOOLEAN, s \in Sticks : FrameArmed(near, s)
    BY <2>3, ArmedFrame
  <2>4. QED
    BY <2>1, <2>2, <2>3 DEF GestureNext
<1>2. QED
  BY <1>1, GestureTypeCorrect, GestureHolds, PTL DEF GestureSpec, PressNotTooFast
=============================================================================
