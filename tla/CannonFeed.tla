----------------------------- MODULE CannonFeed -----------------------------
(***************************************************************************)
(* The arm cannon in the player's hand: at the end of each frame           *)
(* UpdateCannonTracking writes the controller's basis, the gun it is meant *)
(* for and the object it points at into scratch memory, where the patched  *)
(* game reads them, and VerifyCannonFeedWatchdog looks whether anything    *)
(* arrives there.                                                          *)
(*                                                                         *)
(* What a frame finds in the game (visor, gun, menu, lock button) and in   *)
(* the hand is free; the arithmetic of basis and ray is left out.  A       *)
(* player object stands for its gun as well.  One UID of the object list   *)
(* is modelled, which the game gives to one object after the other, some   *)
(* of them at an address at which another one was before.                  *)
(* gun_targeting_enabled and patch_gun_ray_target are one setting.         *)
(***************************************************************************)
EXTENDS Naturals

CONSTANTS
  Players,  \* addresses of player objects
  NoPlayer, \* no address
  Objects,  \* objects that are given the UID
  Gone,     \* no object has it
  Addr,     \* the address of each object in guest memory
  Hold,     \* 12: frames a target that is no longer hit is held
  Look,     \* 60: frames between two looks of the watchdog
  MaxFrame  \* bound: no game is played longer than this on the frame counter

ASSUME CannonFeedAssumption ==
  /\ NoPlayer \notin Players /\ Gone \notin Objects
  /\ DOMAIN Addr = Objects
  /\ Hold \in Nat /\ Look \in Nat \ {0} /\ MaxFrame \in Nat \ {0}

VARIABLES
  running,    \* Core::IsRunning
  player,     \* the game's player object
  there,      \* the object that has the UID
  feed,       \* the cannon's words in the scratch: nothing but zeros, a basis
              \* without a gun, or a basis for a gun
  target,     \* the target's words: for which player, and whether the UID
  gameActive, \* s_game_was_active
  frame,      \* s_frame_counter
  handReady,  \* s_cannon_hand_pose_ready
  pick,       \* s_last_pick, s_last_pick_valid, _player (and gun), and
              \* s_last_success_frame; of the object the code has the address
  sinceLook,  \* frames since s_last_cannon_feed_watchdog_frame, up to Look
  stall,      \* s_cannon_feed_stall_frames
  missedFor,  \* history: frames since the valid pick was hit, up to Hold + 1
  recounted,  \* history: the frame counter was reset since then
  emptyFor,   \* history: frames in a row the watchdog might have found fault
  fed,        \* history: a frame has fed the cannon in this memory
  source,     \* history: who saw to the target at the end of the last frame
  reused      \* history: since the valid pick was hit, its UID was taken from
              \* it or given to another object

image == <<player, there, feed, target, fed, reused>>
watchdogVars == <<sinceLook, stall, emptyFor>>
pickVars == <<pick, missedFor, recounted>>
hostVars == <<gameActive, frame, handReady, pickVars, watchdogVars, source>>
vars == <<running, image, hostVars>>

Feeds == {"empty", "stopped", "on"}
Cleared == [player |-> NoPlayer, uid |-> FALSE]
Targets == [player : Players \cup {NoPlayer}, uid : BOOLEAN]
NoPick == [valid |-> FALSE, obj |-> Gone, player |-> NoPlayer, at |-> 0]

TypeOK ==
  /\ {running, gameActive, handReady, recounted, fed, reused} \subseteq BOOLEAN
  /\ player \in Players \cup {NoPlayer}
  /\ there \in Objects \cup {Gone}
  /\ feed \in Feeds /\ target \in Targets
  /\ frame \in 0..MaxFrame
  /\ pick \in [valid : BOOLEAN, obj : Objects \cup {Gone},
               player : Players \cup {NoPlayer}, at : 0..MaxFrame]
  /\ pick.valid => pick.obj \in Objects /\ pick.player \in Players
  /\ sinceLook \in 0..Look /\ stall \in 0..1
  /\ missedFor \in 0..Hold + 1 /\ emptyFor \in Nat
  /\ source \in {"none", "scan", "gun"}

Init ==
  /\ running = FALSE /\ player = NoPlayer /\ there = Gone
  /\ feed = "empty" /\ target = Cleared
  /\ gameActive = FALSE /\ frame = 0 /\ handReady = FALSE
  /\ pick = NoPick /\ sinceLook = 0 /\ stall = 0
  /\ missedFor = 0 /\ recounted = FALSE /\ emptyFor = 0 /\ fed = FALSE
  /\ source = "none" /\ reused = FALSE

-----------------------------------------------------------------------------
(* The game and the emulator, between two frames.                          *)

BootGame ==
  /\ ~running /\ running' = TRUE
  /\ UNCHANGED <<image, hostVars>>

\* The memory goes with the game.
NoMemory ==
  /\ player' = NoPlayer /\ there' = Gone /\ feed' = "empty" /\ target' = Cleared
  /\ fed' = FALSE

\* What becomes of the UID of the pick.
Reusing == reused' = (pick.valid /\ (reused \/ there' # there))

StopGame ==
  /\ running /\ running' = FALSE
  /\ NoMemory /\ Reusing
  /\ UNCHANGED hostVars

\* A level is loaded or left.
PlayerChanges ==
  /\ running
  /\ player' \in (Players \cup {NoPlayer}) \ {player}
  /\ UNCHANGED <<running, there, feed, target, fed, reused>>
  /\ UNCHANGED hostVars

\* The object with the UID is deleted, or another one gets it.
ObjectChanges ==
  /\ running
  /\ there' \in (Objects \cup {Gone}) \ {there} /\ Reusing
  /\ UNCHANGED <<running, player, feed, target, fed>>
  /\ UNCHANGED hostVars

\* A state saved at any time, in this session or in another one.
LoadState ==
  /\ running
  /\ player' \in Players \cup {NoPlayer} /\ there' \in Objects \cup {Gone} /\ Reusing
  /\ feed' \in Feeds
  /\ target' \in {t \in Targets : t.player = NoPlayer => ~t.uid}
  /\ fed' = FALSE
  /\ UNCHANGED <<running, hostVars>>

\* Dolphin is quit and started again.
Restart ==
  /\ running' = FALSE /\ gameActive' = FALSE /\ frame' = 0 /\ handReady' = FALSE
  /\ pick' = NoPick /\ missedFor' = 0 /\ recounted' = FALSE
  /\ sinceLook' = 0 /\ stall' = 0 /\ emptyFor' = 0 /\ source' = "none"
  /\ NoMemory /\ reused' = FALSE

-----------------------------------------------------------------------------
(* The end of a frame.                                                     *)

Counted == frame < MaxFrame /\ frame' = frame + 1
Aged(n, cap) == IF n < cap THEN n + 1 ELSE n

\* What becomes of the last pick in a frame that does not come to it.
PickIsLeft ==
  /\ missedFor' = IF pick.valid THEN Aged(missedFor, Hold + 1) ELSE 0
  /\ UNCHANGED <<pick, recounted, reused>>

\* PrimedGun is switched off.
FrameDisabled ==
  /\ Counted
  /\ sinceLook' = Aged(sinceLook, Look) /\ PickIsLeft /\ source' = "none"
  /\ UNCHANGED <<running, image, gameActive, handReady, stall, emptyFor>>

\* The first frame without the game calls ResetNativeRuntime, which leaves the
\* last pick alone.
FrameWithoutGame ==
  /\ ~running
  /\ gameActive' = FALSE /\ source' = "none"
  /\ IF gameActive
       THEN /\ frame' = 0 /\ handReady' = FALSE
            /\ sinceLook' = 0 /\ stall' = 0 /\ emptyFor' = 0
            /\ recounted' = pick.valid /\ UNCHANGED <<pick, missedFor>>
       ELSE /\ Counted /\ PickIsLeft
            /\ sinceLook' = Aged(sinceLook, Look)
            /\ UNCHANGED <<handReady, stall, emptyFor>>
  /\ UNCHANGED <<running, image>>

\* What a frame finds, as far as the code asks: whether the visor scans, if
\* not, whether the player is in the game, whether the gun is ready, and
\* whether builtin_patches_enabled is set.
Seen ==
  {seen \in [inGame : BOOLEAN, scan : BOOLEAN, gun : BOOLEAN, patches : BOOLEAN] :
     /\ seen.inGame => ~seen.scan
     /\ player = NoPlayer => ~seen.scan /\ ~seen.gun
     /\ player = NoPlayer \/ seen.scan => seen.patches}

\* Mutant: only the gun is looked at, not the basis.
LooksEmptyWithoutGun == feed # "on"

\* CannonFeedScratchLooksEmpty.
LooksEmpty == feed = "empty"

HavePlayer == player # NoPlayer
Watched(seen) == seen.patches /\ HavePlayer /\ ~seen.scan
AtFault(seen) == Watched(seen) /\ seen.gun /\ feed = "empty"
Due == sinceLook + 1 >= Look

\* VerifyCannonFeedWatchdog finds the scratch empty for the second time.
Repairs(seen) == Watched(seen) /\ Due /\ seen.gun /\ LooksEmpty /\ stall = 1

\* Mutant: a frame that is not due to look takes the count back.
StallAfterForgetful(seen) ==
  IF Watched(seen) /\ Due /\ seen.gun /\ LooksEmpty THEN 1 - stall ELSE 0

\* The count of empty looks, which two of them use up.
StallAfter(seen) ==
  IF ~Watched(seen) THEN 0
  ELSE IF ~Due THEN stall
  ELSE IF seen.gun /\ LooksEmpty THEN 1 - stall ELSE 0

Watchdog(seen) ==
  /\ stall' = StallAfter(seen)
  /\ sinceLook' = IF Watched(seen) /\ Due THEN 0 ELSE Aged(sinceLook, Look)
  /\ emptyFor' = IF AtFault(seen) /\ ~Repairs(seen) THEN emptyFor + 1 ELSE 0

\* The hand: the headset runs no session, the controller is not tracked, the
\* trigger is required and not pulled, or the cannon is aimed.
Hands == {"off", "lost", "idle", "aims"}

\* The scratch without a gun; the basis stays.
Stopped(f) == IF f = "on" THEN "stopped" ELSE f

\* What is in the scratch when UpdateCannonTracking gets to it: OnFrameEnd
\* has cleared the target outside of gameplay, the watchdog everything.
TargetBefore(seen) ==
  IF Repairs(seen) \/ ~HavePlayer \/ (~seen.scan /\ ~seen.inGame) THEN Cleared ELSE target
FeedBefore(seen) == IF Repairs(seen) THEN Stopped(feed) ELSE feed
HandBefore(seen) == handReady /\ ~Repairs(seen)

\* UpdateCannonTracking returns before it comes to the gun, and leaves the
\* target to the game for as long as that lasts.
Returns(seen, hand) ==
  /\ hand # "aims"
  /\ LET regained == hand = "idle" /\ ~HandBefore(seen) IN
       /\ feed' = IF regained THEN Stopped(FeedBefore(seen)) ELSE FeedBefore(seen)
       /\ target' = IF regained THEN Cleared ELSE TargetBefore(seen)
  /\ handReady' = CASE hand = "off" -> HandBefore(seen)
                    [] hand = "lost" -> FALSE
                    [] hand = "idle" -> TRUE
  /\ source' = "none" /\ PickIsLeft
  /\ UNCHANGED fed

\* What is at the other end of the ray, if anything.
Offer(obj) == target' = [player |-> player, uid |-> obj # Gone]

\* There is no player, no gun or no intact chain of transforms, and the visor
\* does not scan either: the feed is stopped.
Stops(seen, hand) ==
  /\ hand = "aims" /\ handReady' = TRUE
  /\ \/ ~HavePlayer \/ (~seen.gun /\ ~seen.scan)
     \/ seen.gun \* the transforms are not valid
  /\ feed' = Stopped(feed) /\ target' = Cleared
  /\ source' = "none" /\ PickIsLeft
  /\ UNCHANGED fed

\* UpdateScanTargetingFromHmd picks an object of its own; the gun is fed if it
\* is still there, and otherwise nothing but the pose's return stops the feed.
Scans(seen, hand) ==
  /\ hand = "aims" /\ HavePlayer /\ seen.scan /\ handReady' = TRUE
  /\ \E obj \in {there, Gone} : Offer(obj)
  /\ feed' = IF seen.gun THEN "on"
             ELSE IF HandBefore(seen) THEN FeedBefore(seen) ELSE Stopped(feed)
  /\ fed' = (fed \/ seen.gun)
  /\ source' = "scan" /\ PickIsLeft

\* Mutants: a target that is gone is held; the hold starts anew each frame.
HeldGone(lock) ==
  /\ lock /\ pick.valid /\ pick.player = player
  /\ pick.at <= frame' /\ frame' - pick.at <= Hold
KeepsFromNow ==
  /\ pick' = [pick EXCEPT !.at = frame']
  /\ missedFor' = Aged(missedFor, Hold + 1) /\ UNCHANGED <<recounted, reused>>

\* TargetUidStillExists: an object has the UID at the address of the pick.
StillExists == there # Gone /\ Addr[there] = Addr[pick.obj]

\* The last target is held while the lock button is, if it still exists; the
\* difference of the frame numbers is unsigned.
Held(lock) ==
  /\ lock /\ pick.valid /\ pick.player = player /\ StillExists
  /\ pick.at <= frame' /\ frame' - pick.at <= Hold
Keeps == PickIsLeft

\* A pick that is not valid is nobody's.
PickIsDropped ==
  pick' = NoPick /\ missedFor' = 0 /\ recounted' = FALSE /\ reused' = FALSE

\* UpdateGunTargeting.
Targeting(enabled, lock, hit) ==
  \/ /\ ~enabled /\ ~lock /\ hit = Gone
     /\ target' = Cleared /\ PickIsDropped
  \/ /\ enabled /\ hit # Gone
     /\ Offer(hit)
     /\ pick' = [valid |-> TRUE, obj |-> hit, player |-> player, at |-> frame']
     /\ missedFor' = 0 /\ recounted' = FALSE /\ reused' = FALSE
  \/ /\ enabled /\ hit = Gone
     /\ IF Held(lock) THEN Offer(pick.obj) /\ Keeps
                      ELSE Offer(Gone) /\ PickIsDropped

Aims(seen, hand) ==
  /\ hand = "aims" /\ HavePlayer /\ ~seen.scan /\ seen.gun /\ handReady' = TRUE
  /\ feed' = "on" /\ fed' = TRUE /\ source' = "gun"
  /\ \E enabled \in BOOLEAN, lock \in BOOLEAN, hit \in {there, Gone} :
       Targeting(enabled, lock, hit)

FrameEnd ==
  /\ running /\ Counted /\ gameActive' = TRUE
  /\ \E seen \in Seen, hand \in Hands :
       /\ Watchdog(seen)
       /\ \/ Returns(seen, hand) \/ Stops(seen, hand)
          \/ Scans(seen, hand) \/ Aims(seen, hand)
  /\ UNCHANGED <<running, player, there>>

-----------------------------------------------------------------------------
Next == \/ BootGame \/ StopGame \/ PlayerChanges \/ ObjectChanges \/ LoadState \/ Restart
        \/ FrameDisabled \/ FrameWithoutGame \/ FrameEnd

Spec == Init /\ [][Next]_vars

-----------------------------------------------------------------------------
(* Properties.                                                             *)

\* The hook in the game locks on to whatever has the UID in the scratch.  What
\* a cannon that is aimed offers is the object that was hit, at its address, for
\* this player.  The exception is a target that is held and whose UID was given
\* to another object at the same address since: a level or a loaded state can
\* do that, and nothing else than UID and address is compared.
OffersWhatItHit ==
  [][FrameEnd /\ source' = "gun" /\ target'.uid =>
       /\ target'.player = player /\ pick'.player = player
       /\ there # Gone /\ Addr[there] = Addr[pick'.obj]
       /\ pick'.obj # there => missedFor' > 0 /\ reused]_vars

\* The cannon offers a target it no longer hits for at most Hold frames, however
\* hand, visor, levels and saved states come and go in between.  The exception
\* is a reset of the frame counter, which leaves the pick: when the counter
\* comes to its number again, it passes for fresh.
HoldIsShort == source = "gun" /\ target.uid => missedFor <= Hold \/ recounted

\* A ready gun without any feed is noticed at the second look.
EmptyFeedIsRepaired == emptyFor < 2 * Look

\* The watchdog is for a feed that never came: once the cannon was fed, none
\* of the ways in which the feed stops makes it look empty again.  So the
\* watchdog never takes the feed from a player whose hand is lost, and never
\* notices a feed that broke.
FedNeverLooksEmpty == fed => ~LooksEmpty
=============================================================================
