-------------------------- MODULE CannonFeedProofs --------------------------
(* Proofs about the cannon's feed and its target, for any players and      *)
(* objects, any length of the hold and any distance of the looks.          *)
EXTENDS CannonFeed, TLAPS

USE DEF CannonFeedAssumption

-----------------------------------------------------------------------------
(* The watchdog.  Only its own variables and what it sees matter.          *)

WatchdogType == sinceLook \in 0..Look /\ stall \in 0..1 /\ emptyFor \in Nat

\* The frames at fault fit between the looks that were had: at most those
\* since the last look, and one distance more after a first empty look.
LooksCount ==
  /\ stall = 0 => emptyFor <= sinceLook /\ emptyFor < Look
  /\ stall = 1 => emptyFor <= Look + sinceLook /\ emptyFor < 2 * Look

WatchdogInv == WatchdogType /\ LooksCount

\* A frame the watchdog takes part in keeps the count.
LEMMA WatchdogCounts ==
  ASSUME CannonFeedAssumption, NEW seen \in Seen, WatchdogInv, Watchdog(seen)
  PROVE  WatchdogInv'
<1> USE DEF WatchdogInv, WatchdogType, LooksCount
<1>1. Look \in Nat /\ Look > 0
  OBVIOUS
<1>2. CASE ~Watched(seen)
  <2>1. ~AtFault(seen)
    BY <1>2 DEF AtFault
  <2>2. emptyFor' = 0 /\ stall' = 0 /\ sinceLook' \in 0..Look
    BY <1>1, <1>2, <2>1 DEF Watchdog, StallAfter, Aged
  <2>3. QED
    BY <1>1, <2>2
<1>3. CASE Watched(seen) /\ ~Due
  <2>1. stall' = stall /\ sinceLook' = sinceLook + 1 /\ sinceLook + 1 < Look
    BY <1>1, <1>3 DEF Watchdog, StallAfter, Aged, Due
  <2>2. emptyFor' = 0 \/ emptyFor' = emptyFor + 1
    BY DEF Watchdog
  <2>3. CASE stall = 0
    BY <1>1, <2>1, <2>2, <2>3
  <2>4. CASE stall = 1
    BY <1>1, <2>1, <2>2, <2>4
  <2>5. QED
    BY <2>3, <2>4
<1>4. CASE Watched(seen) /\ Due
  <2>1. sinceLook' = 0
    BY <1>4 DEF Watchdog
  <2>2. CASE ~AtFault(seen)
    <3>1. emptyFor' = 0 /\ stall' = 0
      BY <1>4, <2>2 DEF Watchdog, StallAfter, AtFault, LooksEmpty
    <3>2. QED
      BY <1>1, <2>1, <3>1
  <2>3. CASE AtFault(seen) /\ stall = 0
    <3>1. emptyFor' = emptyFor + 1 /\ stall' = 1
      BY <1>4, <2>3 DEF Watchdog, StallAfter, AtFault, LooksEmpty, Repairs
    <3>2. QED
      BY <1>1, <2>1, <2>3, <3>1
  <2>4. CASE AtFault(seen) /\ stall = 1
    <3>1. emptyFor' = 0 /\ stall' = 0
      BY <1>4, <2>4 DEF Watchdog, StallAfter, AtFault, LooksEmpty, Repairs
    <3>2. QED
      BY <1>1, <2>1, <3>1
  <2>5. QED
    BY <2>2, <2>3, <2>4
<1>5. QED
  BY <1>2, <1>3, <1>4

\* However levels, visors, settings, saved states and stops come and go, a
\* gun that stays ready is without any feed for less than two looks' time.
THEOREM EmptyFeedRepaired == Spec => []EmptyFeedIsRepaired
<1>1. Init => WatchdogInv
  BY CannonFeedAssumption DEF Init, WatchdogInv, WatchdogType, LooksCount
<1>2. CannonFeedAssumption /\ WatchdogInv /\ [Next]_vars => WatchdogInv'
  <2> SUFFICES ASSUME CannonFeedAssumption, WatchdogInv, [Next]_vars PROVE WatchdogInv'
    OBVIOUS
  <2>1. CASE UNCHANGED watchdogVars
    BY <2>1 DEF WatchdogInv, WatchdogType, LooksCount, watchdogVars
  <2>2. CASE /\ sinceLook' = Aged(sinceLook, Look)
             /\ UNCHANGED <<stall, emptyFor>>
    <3>1. sinceLook' \in 0..Look /\ sinceLook' >= sinceLook
      BY <2>2 DEF WatchdogInv, WatchdogType, Aged
    <3>2. QED
      BY <2>2, <3>1 DEF WatchdogInv, WatchdogType, LooksCount
  <2>3. CASE sinceLook' = 0 /\ stall' = 0 /\ emptyFor' = 0
    BY <2>3 DEF WatchdogInv, WatchdogType, LooksCount
  <2>4. CASE FrameEnd
    BY <2>4, WatchdogCounts DEF FrameEnd
  <2>5. CASE BootGame \/ StopGame \/ PlayerChanges \/ ObjectChanges \/ LoadState
    BY <2>1, <2>5 DEF BootGame, StopGame, PlayerChanges, ObjectChanges, LoadState,
                      hostVars, watchdogVars
  <2>6. CASE Restart
    BY <2>3, <2>6 DEF Restart
  <2>7. CASE FrameDisabled
    BY <2>2, <2>7 DEF FrameDisabled
  <2>8. CASE FrameWithoutGame
    BY <2>2, <2>3, <2>8 DEF FrameWithoutGame
  <2>9. CASE UNCHANGED vars
    BY <2>1, <2>9 DEF vars, hostVars
  <2>10. QED
    BY <2>4, <2>5, <2>6, <2>7, <2>8, <2>9 DEF Next
<1>3. WatchdogInv => EmptyFeedIsRepaired
  BY CannonFeedAssumption DEF WatchdogInv, WatchdogType, LooksCount, EmptyFeedIsRepaired
<1>4. QED
  BY <1>1, <1>2, <1>3, CannonFeedAssumption, PTL DEF Spec

-----------------------------------------------------------------------------
(* The feed.                                                               *)

\* Whatever stops the feed, in whatever order, leaves a basis in the scratch.
THEOREM FedNeverEmpty == Spec => []FedNeverLooksEmpty
<1>1. Init => FedNeverLooksEmpty
  BY DEF Init, FedNeverLooksEmpty
<1>2. FedNeverLooksEmpty /\ [Next]_vars => FedNeverLooksEmpty'
  <2> SUFFICES ASSUME FedNeverLooksEmpty, [Next]_vars PROVE FedNeverLooksEmpty'
    OBVIOUS
  <2> USE DEF FedNeverLooksEmpty, LooksEmpty
  <2>1. CASE BootGame \/ StopGame \/ PlayerChanges \/ ObjectChanges \/ LoadState \/ Restart
    BY <2>1 DEF BootGame, StopGame, PlayerChanges, ObjectChanges, LoadState, Restart,
                NoMemory, image
  <2>2. CASE FrameDisabled \/ FrameWithoutGame \/ UNCHANGED vars
    BY <2>2 DEF FrameDisabled, FrameWithoutGame, image, vars
  <2>3. CASE FrameEnd
    <3> PICK seen \in Seen, hand \in Hands :
            Returns(seen, hand) \/ Stops(seen, hand) \/ Scans(seen, hand) \/ Aims(seen, hand)
      BY <2>3 DEF FrameEnd
    <3>1. \A f : Stopped(f) = "empty" => f = "empty"
      BY DEF Stopped
    <3>2. FeedBefore(seen) = "empty" => feed = "empty"
      BY <3>1 DEF FeedBefore
    <3>3. CASE Returns(seen, hand)
      BY <3>1, <3>2, <3>3 DEF Returns
    <3>4. CASE Stops(seen, hand)
      BY <3>1, <3>4 DEF Stops
    <3>5. CASE Scans(seen, hand)
      BY <3>1, <3>2, <3>5 DEF Scans
    <3>6. CASE Aims(seen, hand)
      BY <3>6 DEF Aims
    <3>7. QED
      BY <3>3, <3>4, <3>5, <3>6
  <2>4. QED
    BY <2>1, <2>2, <2>3 DEF Next
<1>3. QED
  BY <1>1, <1>2, PTL DEF Spec

-----------------------------------------------------------------------------
(* The pick.                                                               *)

PickType ==
  /\ frame \in Nat /\ pick.at \in Nat /\ missedFor \in 0..Hold + 1
  /\ pick.valid \in BOOLEAN /\ recounted \in BOOLEAN

\* The frames since the hit are the difference of the frame numbers, as far
\* as they are counted, unless the counter was reset in between.
PickCounts ==
  pick.valid /\ ~recounted =>
    /\ pick.at <= frame
    /\ \/ missedFor = frame - pick.at
       \/ missedFor = Hold + 1 /\ frame - pick.at > Hold

NoPickIsNotMissed == ~pick.valid => missedFor = 0

\* The target itself may come from a saved state; that the gun saw to it in
\* the last frame is what bounds the frames without a hit.
GunHolds == source = "gun" => missedFor <= Hold \/ recounted

PickInv == PickType /\ PickCounts /\ NoPickIsNotMissed /\ GunHolds

\* A pick that is dropped, or that hits in this frame, is not missed yet.
LEMMA NothingMissed ==
  ASSUME CannonFeedAssumption, frame' \in Nat, pick'.at \in Nat, pick'.valid \in BOOLEAN,
         (pick'.valid => pick'.at = frame'), missedFor' = 0, recounted' = FALSE
  PROVE  PickInv'
<1>1. missedFor' \in 0..Hold + 1
  OBVIOUS
<1>2. recounted' \in BOOLEAN
  BY Zenon
<1>3. PickType'
  BY <1>1, <1>2, Zenon DEF PickType
<1>4. PickCounts'
  <2>1. \A n \in Nat : n <= n /\ 0 = n - n
    OBVIOUS
  <2>2. QED
    BY <2>1, Zenon DEF PickCounts
<1>5. NoPickIsNotMissed' /\ GunHolds'
  BY DEF NoPickIsNotMissed, GunHolds
<1>6. QED
  BY <1>3, <1>4, <1>5 DEF PickInv

\* A frame that does not come to the pick leaves it as it counts.
LEMMA PickIsLeftCounts ==
  ASSUME CannonFeedAssumption, PickInv, Counted, PickIsLeft
  PROVE  PickType' /\ PickCounts' /\ NoPickIsNotMissed'
<1>1. PickType'
  BY DEF PickInv, PickType, Counted, PickIsLeft, Aged
<1>2. PickCounts'
  <2> SUFFICES ASSUME pick.valid, ~recounted PROVE PickCounts'
    BY DEF PickCounts, PickIsLeft
  <2>1. missedFor' = Aged(missedFor, Hold + 1) /\ frame' = frame + 1 /\ UNCHANGED <<pick, recounted>>
    BY DEF PickIsLeft, Counted
  <2>2. CASE missedFor = frame - pick.at
    BY <2>1, <2>2 DEF PickInv, PickType, PickCounts, Aged
  <2>3. CASE missedFor = Hold + 1 /\ frame - pick.at > Hold
    BY <2>1, <2>3 DEF PickInv, PickType, PickCounts, Aged
  <2>4. QED
    BY <2>2, <2>3 DEF PickInv, PickCounts
<1>3. NoPickIsNotMissed'
  BY DEF PickIsLeft, NoPickIsNotMissed
<1>4. QED
  BY <1>1, <1>2, <1>3

\* UpdateGunTargeting hits, holds or drops the pick.
LEMMA TargetingCounts ==
  ASSUME CannonFeedAssumption, PickInv, Counted,
         NEW enabled \in BOOLEAN, NEW lock \in BOOLEAN, NEW hit, Targeting(enabled, lock, hit)
  PROVE  PickInv'
<1>1. frame' \in Nat /\ frame' = frame + 1
  BY DEF PickInv, PickType, Counted
<1>2. CASE PickIsDropped
  <2>1. pick' = NoPick /\ missedFor' = 0 /\ recounted' = FALSE /\ pick'.valid = FALSE /\ pick'.at = 0
    BY <1>2 DEF PickIsDropped, NoPick
  <2>2. pick'.valid \in BOOLEAN /\ (pick'.valid => pick'.at = frame')
    BY <2>1, Zenon
  <2>3. pick'.at \in Nat
    BY <2>1
  <2>4. QED
    BY <1>1, <2>1, <2>2, <2>3, NothingMissed, Zenon
<1>3. CASE hit # Gone /\ pick' = [valid |-> TRUE, obj |-> hit, player |-> player, at |-> frame']
           /\ missedFor' = 0 /\ recounted' = FALSE
  <2>1. pick'.valid = TRUE /\ pick'.at = frame' /\ missedFor' = 0 /\ recounted' = FALSE
    BY <1>3
  <2>2. pick'.valid \in BOOLEAN
    BY <2>1, Zenon
  <2>3. QED
    BY <1>1, <2>1, <2>2, NothingMissed
<1>4. CASE Held(lock) /\ Keeps
  <2>1. PickType' /\ PickCounts' /\ NoPickIsNotMissed'
    BY <1>4, PickIsLeftCounts DEF Keeps
  <2>2. pick.valid /\ pick' = pick /\ recounted' = recounted /\ pick.at <= frame' /\ frame' - pick.at <= Hold
    BY <1>4 DEF Held, Keeps, PickIsLeft
  <2>3. GunHolds'
    BY <1>1, <2>1, <2>2 DEF GunHolds, PickType, PickCounts
  <2>4. QED
    BY <2>1, <2>3 DEF PickInv
<1>5. QED
  BY <1>2, <1>3, <1>4 DEF Targeting

\* The frames without a hit are counted as the code counts them.
LEMMA PickHolds == Spec => []PickInv
<1>1. Init => PickInv
  <2>1. NoPick.valid = FALSE /\ NoPick.at = 0
    BY DEF NoPick
  <2> SUFFICES ASSUME Init PROVE PickInv
    OBVIOUS
  <2>2. /\ frame = 0 /\ pick.valid = FALSE /\ pick.at = 0
        /\ missedFor = 0 /\ recounted = FALSE /\ source = "none"
    BY <2>1 DEF Init
  <2>3. PickType
    <3>1. frame \in Nat /\ pick.at \in Nat /\ missedFor \in 0..Hold + 1
      BY <2>2, CannonFeedAssumption
    <3>2. pick.valid \in BOOLEAN /\ recounted \in BOOLEAN
      BY <2>2, Zenon
    <3>3. QED
      BY <3>1, <3>2, Zenon DEF PickType
  <2>4. PickCounts /\ NoPickIsNotMissed /\ GunHolds
    BY <2>2 DEF PickCounts, NoPickIsNotMissed, GunHolds
  <2>5. QED
    BY <2>3, <2>4 DEF PickInv
<1>2. CannonFeedAssumption /\ PickInv /\ [Next]_vars => PickInv'
  <2> SUFFICES ASSUME CannonFeedAssumption, PickInv, [Next]_vars PROVE PickInv'
    OBVIOUS
  <2>1. CASE UNCHANGED <<frame, pickVars, source>>
    BY <2>1 DEF pickVars, PickInv, PickType, PickCounts, NoPickIsNotMissed, GunHolds
  <2>2. CASE Counted /\ PickIsLeft /\ source' # "gun"
    BY <2>2, PickIsLeftCounts DEF PickInv, GunHolds
  <2>3. CASE BootGame \/ StopGame \/ PlayerChanges \/ ObjectChanges \/ LoadState \/ UNCHANGED vars
    BY <2>1, <2>3 DEF BootGame, StopGame, PlayerChanges, ObjectChanges, LoadState, hostVars, vars
  <2>4. CASE Restart
    <3>1. NoPick.valid = FALSE /\ NoPick.at = 0
      BY DEF NoPick
    <3>2. /\ frame' = 0 /\ pick'.valid = FALSE /\ pick'.at = 0
          /\ missedFor' = 0 /\ recounted' = FALSE
      BY <2>4, <3>1 DEF Restart
    <3>3. pick'.valid \in BOOLEAN /\ (pick'.valid => pick'.at = frame')
      BY <3>2, Zenon
    <3>4. frame' \in Nat /\ pick'.at \in Nat
      BY <3>2
    <3>5. QED
      BY <3>2, <3>3, <3>4, NothingMissed, Zenon
  <2>5. CASE FrameDisabled
    BY <2>2, <2>5 DEF FrameDisabled
  <2>6. CASE FrameWithoutGame
    <3>1. CASE gameActive
      <4>1. frame' = 0 /\ recounted' = pick.valid /\ UNCHANGED <<pick, missedFor>> /\ source' = "none"
        BY <2>6, <3>1 DEF FrameWithoutGame
      <4>2. QED
        BY <4>1 DEF PickInv, PickType, PickCounts, NoPickIsNotMissed, GunHolds
    <3>2. CASE ~gameActive
      BY <2>2, <2>6, <3>2 DEF FrameWithoutGame
    <3>3. QED
      BY <3>1, <3>2
  <2>7. CASE FrameEnd
    <3> PICK seen \in Seen, hand \in Hands :
            Returns(seen, hand) \/ Stops(seen, hand) \/ Scans(seen, hand) \/ Aims(seen, hand)
      BY <2>7 DEF FrameEnd
    <3>1. Counted
      BY <2>7 DEF FrameEnd
    <3>2. CASE Returns(seen, hand) \/ Stops(seen, hand) \/ Scans(seen, hand)
      <4>1. PickIsLeft /\ source' # "gun"
        BY <3>2 DEF Returns, Stops, Scans
      <4>2. QED
        BY <2>2, <3>1, <4>1
    <3>3. CASE Aims(seen, hand)
      BY <3>1, <3>3, TargetingCounts DEF Aims
    <3>4. QED
      BY <3>2, <3>3
  <2>8. QED
    BY <2>3, <2>4, <2>5, <2>6, <2>7 DEF Next
<1>3. QED
  BY <1>1, <1>2, CannonFeedAssumption, PTL DEF Spec

\* For any length of the hold: however hand, visor, levels and saved states
\* come and go, a target that is not hit is offered for Hold frames at most,
\* unless the frame counter was reset under it.
THEOREM HoldShort == Spec => []HoldIsShort
<1>1. PickInv => HoldIsShort
  BY DEF PickInv, GunHolds, HoldIsShort
<1>2. QED
  BY <1>1, PickHolds, PTL

\* A valid pick whose UID was left to it is the object that has the UID.
ReusedInv == pick.valid /\ ~reused => there = pick.obj

LEMMA ReusedInitially == Init => ReusedInv
BY DEF Init, ReusedInv, NoPick

LEMMA ReusedStep == ReusedInv /\ [Next]_vars => ReusedInv'
<1> SUFFICES ASSUME ReusedInv, [Next]_vars PROVE ReusedInv'
  OBVIOUS
<1> USE DEF ReusedInv
<1>1. CASE UNCHANGED <<pick, there, reused>>
  BY <1>1
<1>2. CASE pick' = NoPick
  BY <1>2 DEF NoPick
<1>3. CASE pick' = pick /\ Reusing
  BY <1>3 DEF Reusing
<1>4. CASE StopGame \/ ObjectChanges \/ LoadState
  BY <1>3, <1>4 DEF StopGame, ObjectChanges, LoadState, hostVars, pickVars
<1>5. CASE BootGame \/ PlayerChanges \/ UNCHANGED vars
  BY <1>1, <1>5 DEF BootGame, PlayerChanges, vars, hostVars, pickVars, image
<1>6. CASE Restart
  BY <1>2, <1>6 DEF Restart
<1>7. CASE FrameDisabled \/ FrameWithoutGame
  BY <1>1, <1>7 DEF FrameDisabled, FrameWithoutGame, PickIsLeft, image
<1>8. CASE FrameEnd
  <2> PICK seen \in Seen, hand \in Hands :
          Returns(seen, hand) \/ Stops(seen, hand) \/ Scans(seen, hand) \/ Aims(seen, hand)
    BY <1>8 DEF FrameEnd
  <2>1. there' = there
    BY <1>8 DEF FrameEnd
  <2>2. CASE PickIsLeft
    BY <1>1, <2>1, <2>2 DEF PickIsLeft
  <2>3. ASSUME NEW enabled \in BOOLEAN, NEW lock \in BOOLEAN, NEW hit \in {there, Gone},
               Targeting(enabled, lock, hit)
        PROVE  ReusedInv'
    <3>1. CASE PickIsDropped
      BY <1>2, <3>1 DEF PickIsDropped
    <3>2. CASE hit # Gone /\ pick' = [valid |-> TRUE, obj |-> hit, player |-> player, at |-> frame']
      BY <2>1, <3>2
    <3>3. CASE Keeps
      BY <2>2, <3>3 DEF Keeps
    <3>4. QED
      BY <2>3, <3>1, <3>2, <3>3 DEF Targeting
  <2>4. QED
    BY <2>2, <2>3 DEF Returns, Stops, Scans, Aims
<1>9. QED
  BY <1>4, <1>5, <1>6, <1>7, <1>8 DEF Next

\* An aimed cannon offers, to this player, what has the UID at the address of
\* the object that was hit, and while its UID was left to it that object; only
\* a target that is held can have been replaced at its address.
THEOREM OffersWhatWasHit == Spec => OffersWhatItHit
<1> DEFINE Offered ==
      /\ target'.player = player /\ pick'.player = player
      /\ there # Gone /\ Addr[there] = Addr[pick'.obj]
      /\ pick'.obj # there => missedFor' > 0 /\ reused
<1>1. ASSUME PickInv, ReusedInv,
             NEW enabled \in BOOLEAN, NEW lock \in BOOLEAN, NEW hit \in {there, Gone},
             Targeting(enabled, lock, hit), target'.uid
      PROVE  Offered
  <2>1. target' # Cleared /\ ~Offer(Gone)
    <3>1. Cleared.uid = FALSE
      BY DEF Cleared
    <3>2. ASSUME Offer(Gone) PROVE FALSE
      <4>1. target'.uid = (Gone # Gone)
        BY <3>2, Zenon DEF Offer
      <4>2. QED
        BY <1>1, <4>1, Zenon
    <3>3. QED
      BY <1>1, <3>1, <3>2, Zenon
  <2>2. CASE hit # Gone /\ Offer(hit)
             /\ pick' = [valid |-> TRUE, obj |-> hit, player |-> player, at |-> frame']
    BY <2>2 DEF Offer
  <2>3. CASE Held(lock) /\ Offer(pick.obj) /\ Keeps
    <3>1. pick' = pick /\ pick.valid /\ pick.player = player /\ StillExists
      BY <2>3 DEF Held, Keeps, PickIsLeft
    <3>2. target'.player = player
      BY <2>3 DEF Offer
    <3>3. missedFor' > 0
      <4>1. missedFor' = Aged(missedFor, Hold + 1)
        BY <2>3, <3>1 DEF Keeps, PickIsLeft
      <4>2. QED
        BY <1>1, <4>1, CannonFeedAssumption DEF PickInv, PickType, Aged
    <3>4. pick.obj # there => reused
      BY <1>1, <3>1 DEF ReusedInv
    <3>5. QED
      BY <3>1, <3>2, <3>3, <3>4 DEF StillExists
  <2>4. QED
    BY <1>1, <2>1, <2>2, <2>3 DEF Targeting
<1>2. ASSUME PickInv, ReusedInv, FrameEnd, source' = "gun", target'.uid PROVE Offered
  <2> PICK seen \in Seen, hand \in Hands :
          Returns(seen, hand) \/ Stops(seen, hand) \/ Scans(seen, hand) \/ Aims(seen, hand)
    BY <1>2 DEF FrameEnd
  <2>1. Aims(seen, hand)
    BY <1>2 DEF Returns, Stops, Scans
  <2>2. QED
    BY <1>1, <1>2, <2>1 DEF Aims
<1>3. PickInv /\ ReusedInv /\ [Next]_vars =>
        [FrameEnd /\ source' = "gun" /\ target'.uid => Offered]_vars
  BY <1>2
<1>4. QED
  BY <1>3, PickHolds, ReusedInitially, ReusedStep, PTL DEF Spec, OffersWhatItHit
=============================================================================
