----------------------------- MODULE DpadOwner -----------------------------
(***************************************************************************)
(* While the player holds the left controller by the head and pushes its   *)
(* stick, PrimedGun turns the stick into D-pad presses and keeps the game  *)
(* from reacting to the stick itself by setting the "disable input" bit of *)
(* the guest's CPlayer object.  That bit also belongs to the game (it sets *)
(* it for cutscenes and hints), so PrimedGun treats its write as a lease:  *)
(* the host remembers the player and the old bit, and a copy of that       *)
(* record is written to guest scratch memory, where a saved state keeps it.*)
(*                                                                         *)
(* One action is one guest or user event, or one call of                   *)
(* PrimedGun::OnFrameEnd as far as it concerns the lease.  OnFrameEnd runs *)
(* on the CPU thread between guest instructions, so it is atomic here.     *)
(***************************************************************************)
EXTENDS Naturals

CONSTANTS
  Players,      \* addresses a CPlayer object can live at
  NoPlayer,     \* the null player pointer of CStateManager
  Unreadable,   \* a pointer >= 0x80000000 that maps to no memory
  RefreshFrames \* frames between two refreshes of a lease (15 in the code)

ASSUME DpadOwnerAssumption ==
  /\ NoPlayer \notin Players
  /\ Unreadable \notin Players
  /\ NoPlayer # Unreadable
  /\ RefreshFrames \in Nat \ {0}

VARIABLES
  cur,        \* guest: the player pointer of CStateManager
  flag,       \* guest: flag[p], the disable-input bit of the bytes at p
  owner,      \* guest: the ownership record in scratch memory
  wish,       \* history: the bit at p if only the game had written it
  saved,      \* the saved state on disk: a copy of the four above
  lease,      \* host: s_dpad_forced_input_disabled and what goes with it
  gameActive, \* the core is Running and the disc is Metroid Prime Rev 0
  wasActive,  \* host: s_game_was_active
  foreign,    \* history: guest memory replaced since the last released frame
  tainted,    \* history: players held in a way that hides the game's own bit
  overruled   \* history: players the game disabled while PrimedGun held them

guest == <<cur, flag, owner, wish>>
history == <<foreign, tainted, overruled>>
vars == <<guest, saved, lease, gameActive, wasActive, history>>

----------------------------------------------------------------------------
(* The records of a lease.                                                 *)

NoRecord == [live |-> FALSE, at |-> NoPlayer, orig |-> FALSE]
Record == {NoRecord} \cup [live : {TRUE}, at : Players, orig : BOOLEAN]

NoLease == [on |-> FALSE, was |-> FALSE, at |-> NoPlayer, age |-> 0]
Lease == {NoLease}
  \cup [on : {TRUE}, was : BOOLEAN, at : Players, age : 0 .. RefreshFrames]

Image == [cur : Players \cup {NoPlayer, Unreadable}, flag : [Players -> BOOLEAN],
          owner : Record, wish : [Players -> BOOLEAN]]
GuestImage == [cur |-> cur, flag |-> flag, owner |-> owner, wish |-> wish]

\* Guest memory right after a boot: no player yet and zeroed scratch memory.
BootImage == [cur |-> NoPlayer, flag |-> [p \in Players |-> FALSE],
              owner |-> NoRecord, wish |-> [p \in Players |-> FALSE]]

\* A record that makes PrimedGun clear the bit at p when it lets go.
LeaseClaims(p) == lease.on /\ lease.at = p /\ ~lease.was
RecordClaims(o, p) == o.live /\ o.at = p /\ ~o.orig

\* All of guest memory is replaced; the host keeps its lease.
GuestBecomes(g) ==
  /\ cur' = g.cur
  /\ flag' = g.flag
  /\ owner' = g.owner
  /\ wish' = g.wish
  /\ foreign' = TRUE
  /\ overruled' = overruled \cup {p \in Players : LeaseClaims(p) /\ g.wish[p]}

\* The game itself writes the bit at p.
GameWrites(p, b) ==
  /\ flag' = [flag EXCEPT ![p] = b]
  /\ wish' = [wish EXCEPT ![p] = b]
  /\ overruled' = IF b /\ (LeaseClaims(p) \/ RecordClaims(owner, p))
                    THEN overruled \cup {p} ELSE overruled

----------------------------------------------------------------------------
(* What the helpers of SetPlayerInputDisabledForDpad leave in the bits f.  *)

\* Mutants: the old bit is ignored; the record is not cleared.
RestoreAtAlways(f, p, orig) ==
  IF p \in Players THEN [f EXCEPT ![p] = FALSE] ELSE f
RecordKept == owner

\* RestoreDpadDisableAt: clear the bit unless it was set before the lease.
RestoreAt(f, p, orig) ==
  IF p \in Players /\ ~orig THEN [f EXCEPT ![p] = FALSE] ELSE f

\* RestorePersistedDpadDisableIfIdle, from the record in scratch memory.
RestorePersisted(f) ==
  IF owner.live THEN RestoreAt(f, owner.at, owner.orig) ELSE f

\* RestoreTrackedDpadDisable, from the host's own record.
RestoreTracked(f) ==
  IF lease.on THEN RestoreAt(f, lease.at, lease.was) ELSE f

\* ClearDpadDisableOwnershipScratch.
RecordCleared == NoRecord

\* s_frame_counter went up by one: the age of the last refresh, saturated.
Older(l) == [l EXCEPT !.age = IF l.on /\ @ < RefreshFrames THEN @ + 1 ELSE @]

----------------------------------------------------------------------------
Init ==
  /\ cur = NoPlayer
  /\ flag = [p \in Players |-> FALSE]
  /\ owner = NoRecord
  /\ wish = [p \in Players |-> FALSE]
  /\ saved = BootImage
  /\ lease = NoLease
  /\ gameActive = TRUE
  /\ wasActive = FALSE
  /\ foreign = FALSE
  /\ tainted = {}
  /\ overruled = {}

----------------------------------------------------------------------------
(* The guest program and the user.                                         *)

\* A level is loaded: a CPlayer is constructed at p, its bit set or clear.
GameCreatesPlayer(p, b) ==
  /\ gameActive
  /\ cur' = p
  /\ GameWrites(p, b)
  /\ UNCHANGED <<owner, saved, lease, gameActive, wasActive, tainted, foreign>>

\* Between levels the pointer is null, or garbage that maps to nothing.
GameDropsPlayer(q) ==
  /\ gameActive
  /\ cur \in Players
  /\ cur' = q
  /\ UNCHANGED <<flag, owner, wish, saved, lease, gameActive, wasActive,
                 history>>

\* A cutscene or a hint starts or ends.
GameSetsInput(b) ==
  /\ gameActive
  /\ cur \in Players
  /\ GameWrites(cur, b)
  /\ UNCHANGED <<cur, owner, saved, lease, gameActive, wasActive, tainted,
                 foreign>>

SaveState ==
  /\ gameActive
  /\ saved' = GuestImage
  /\ UNCHANGED <<guest, lease, gameActive, wasActive, history>>

LoadState ==
  /\ gameActive
  /\ GuestBecomes(saved)
  /\ UNCHANGED <<saved, lease, gameActive, wasActive, tainted>>

\* Emulation stops; the CPU thread may or may not reach another frame end.
StopGame ==
  /\ gameActive
  /\ gameActive' = FALSE
  /\ UNCHANGED <<guest, saved, lease, wasActive, history>>

BootGame ==
  /\ ~gameActive
  /\ gameActive' = TRUE
  /\ GuestBecomes(BootImage)
  /\ UNCHANGED <<saved, lease, wasActive, tainted>>

\* The emulator process exits and is started again; saved states survive.
RestartProcess ==
  /\ gameActive' = FALSE
  /\ wasActive' = FALSE
  /\ lease' = NoLease
  /\ UNCHANGED <<guest, saved, history>>

----------------------------------------------------------------------------
(* PrimedGun::OnFrameEnd.                                                  *)

\* PrimedGun is switched off in the settings: nothing but the frame counter.
FrameDisabled ==
  /\ lease' = Older(lease)
  /\ UNCHANGED <<guest, saved, gameActive, wasActive, history>>

\* The game is not active: ResetNativeRuntime, once.
FrameGameInactive ==
  /\ ~gameActive
  /\ lease' = IF wasActive THEN NoLease ELSE Older(lease)
  /\ wasActive' = FALSE
  /\ UNCHANGED <<guest, saved, gameActive, history>>

\* The headset runtime is inactive: UpdateCannonTracking returns before the
\* D-pad is looked at.
FrameRuntimeInactive ==
  /\ gameActive
  /\ wasActive' = TRUE
  /\ lease' = Older(lease)
  /\ UNCHANGED <<guest, saved, gameActive, history>>

\* SetPlayerInputDisabledForDpad(false).  Whatever becomes of the player
\* pointer, the function ends in RestoreTrackedDpadDisable.
FrameRelease ==
  /\ gameActive
  /\ wasActive' = TRUE
  /\ flag' = RestoreTracked(RestorePersisted(flag))
  /\ owner' = RecordCleared
  /\ lease' = NoLease
  /\ foreign' = FALSE
  /\ UNCHANGED <<cur, wish, saved, gameActive, tainted, overruled>>

\* SetPlayerInputDisabledForDpad(true) with no player: nothing to do.
FrameHoldNoPlayer ==
  /\ gameActive
  /\ cur = NoPlayer
  /\ wasActive' = TRUE
  /\ lease' = Older(lease)
  /\ UNCHANGED <<guest, saved, gameActive, history>>

\* ... with a player pointer that cannot be read: a lease on another player
\* is given up, and nothing is taken.
FrameHoldUnreadable ==
  /\ gameActive
  /\ cur = Unreadable
  /\ wasActive' = TRUE
  /\ flag' = RestoreTracked(flag)
  /\ owner' = IF lease.on THEN RecordCleared ELSE owner
  /\ lease' = NoLease
  /\ tainted' = tainted \cup
       (IF lease.on /\ owner.live /\ owner.at # lease.at THEN {owner.at} ELSE {})
  /\ UNCHANGED <<cur, wish, saved, gameActive, foreign, overruled>>

\* ... with the player the lease is on: the bit is set again once the last
\* refresh is RefreshFrames old; the record in scratch memory is not renewed.
FrameHoldRefresh ==
  /\ gameActive
  /\ cur \in Players
  /\ lease.on /\ lease.at = cur
  /\ wasActive' = TRUE
  /\ IF Older(lease).age < RefreshFrames
       THEN /\ lease' = Older(lease)
            /\ UNCHANGED <<flag, tainted>>
       ELSE /\ lease' = [lease EXCEPT !.age = 0]
            /\ flag' = [flag EXCEPT ![cur] = TRUE]
            /\ tainted' = IF owner.live /\ owner.at = cur /\ owner.orig = lease.was
                            THEN tainted ELSE tainted \cup {cur}
  /\ UNCHANGED <<cur, owner, wish, saved, gameActive, foreign, overruled>>

\* Mutant: the record in scratch memory is made after the bit has been set.
HoldTakeRecordsLate ==
  LET f == RestoreTracked(flag) IN
  /\ gameActive
  /\ cur \in Players
  /\ ~(lease.on /\ lease.at = cur)
  /\ wasActive' = TRUE
  /\ lease' = [on |-> TRUE, was |-> f[cur], at |-> cur, age |-> 0]
  /\ flag' = [f EXCEPT ![cur] = TRUE]
  /\ owner' = [live |-> TRUE, at |-> cur, orig |-> TRUE]
  /\ UNCHANGED <<cur, wish, saved, gameActive, history>>

\* ... with a player there is no lease on: a lease on another player is given
\* up first, then this one is taken and recorded.
FrameHoldTake ==
  LET f == RestoreTracked(flag) IN
  /\ gameActive
  /\ cur \in Players
  /\ ~(lease.on /\ lease.at = cur)
  /\ wasActive' = TRUE
  /\ lease' = [on |-> TRUE, was |-> f[cur], at |-> cur, age |-> 0]
  /\ flag' = [f EXCEPT ![cur] = TRUE]
  /\ owner' = [live |-> TRUE, at |-> cur, orig |-> f[cur]]
  /\ tainted' = tainted
       \cup (IF f[cur] THEN {cur} ELSE {})
       \cup (IF owner.live /\ owner.at # (IF lease.on THEN lease.at ELSE cur)
               THEN {owner.at} ELSE {})
  /\ UNCHANGED <<cur, wish, saved, gameActive, foreign, overruled>>

FrameHold ==
  \/ FrameHoldNoPlayer
  \/ FrameHoldUnreadable
  \/ FrameHoldRefresh
  \/ FrameHoldTake

Next ==
  \/ \E p \in Players, b \in BOOLEAN : GameCreatesPlayer(p, b)
  \/ \E q \in {NoPlayer, Unreadable} : GameDropsPlayer(q)
  \/ \E b \in BOOLEAN : GameSetsInput(b)
  \/ SaveState
  \/ LoadState
  \/ StopGame
  \/ BootGame
  \/ RestartProcess
  \/ FrameDisabled
  \/ FrameGameInactive
  \/ FrameRuntimeInactive
  \/ FrameRelease
  \/ FrameHold

Spec == Init /\ [][Next]_vars

----------------------------------------------------------------------------
(* Properties.                                                             *)

TypeOK ==
  /\ GuestImage \in Image
  /\ saved \in Image
  /\ lease \in Lease
  /\ gameActive \in BOOLEAN
  /\ wasActive \in BOOLEAN
  /\ foreign \in BOOLEAN
  /\ tainted \subseteq Players
  /\ overruled \subseteq Players

\* Across saved states, reboots, level loads and cutscenes, a player's input
\* is disabled against the game's wish only while the record in the guest's
\* own memory says so (and a released frame will therefore undo it), or after
\* one of three events: a lease was taken over a bit that was already set,
\* refreshed although the record did not describe it, or taken while the
\* record named another player.
StuckInputHasCause ==
  \A p \in Players : flag[p] /\ ~wish[p] => p \in tainted \/ RecordClaims(owner, p)

\* The other direction: PrimedGun enables input the game wants disabled only
\* at a player whom the game disabled while PrimedGun held its lease.
LostDisableHasCause ==
  \A p \in Players : wish[p] /\ ~flag[p] => p \in overruled

\* As long as guest memory has not been replaced under a lease, the record in
\* scratch memory and the host's own record describe the same lease; one
\* released frame makes them agree again after a saved state or a reboot.
RecordMatchesLease ==
  gameActive /\ ~foreign =>
    /\ owner.live = lease.on
    /\ lease.on => owner.at = lease.at /\ owner.orig = lease.was
=============================================================================
