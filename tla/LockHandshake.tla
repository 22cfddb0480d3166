---------------------------- MODULE LockHandshake ----------------------------
(***************************************************************************)
(* Pausing, resuming and ending a ride on a bike with a smart lock.  The   *)
(* server cannot close a lock: it arms an expectation in memory and waits  *)
(* for the lock's own report (L1) that it was closed.                      *)
(*                                                                         *)
(*   server/storage/ride.ts            requestPauseRide, requestEndRide,   *)
(*                                     cancelPendingEnd, resumeRide        *)
(*   server/omni/pause-registry.ts     the armed pause                     *)
(*   server/omni/pending-end-registry.ts   the armed end                   *)
(*   server/omni/store.ts              the handler of a closure report     *)
(*   server/storage.ts                 settleEndWithRetry                  *)
(*                                                                         *)
(* One ride on one bike, from the moment its lock has opened.  An action is*)
(* what runs between two awaits: a request, a report's handler and the     *)
(* settlement of an armed end may be overtaken at each of them.            *)
(***************************************************************************)
EXTENDS Integers

CONSTANTS
    Taps,           \* the rider's requests that may be under way together
    Reports,        \* the closure reports that may be under way together
    UnlockMayFail,  \* whether an unlock command may be lost
    MayRepeat,      \* whether the lock may repeat a report already handled
    MayRestart      \* whether the process may restart

ASSUME FlagAssumption ==
    /\ UnlockMayFail \in BOOLEAN
    /\ MayRepeat \in BOOLEAN
    /\ MayRestart \in BOOLEAN

VARIABLES
    lock,           \* the lock itself: "open" or "closed"
    unlocking,      \* an unlock command (L0) is on its way to the lock
    fix,            \* the lock's GPS fix is younger than LOCK_GPS_LIVE_MS
    parked,         \* the bike stands in a parking zone
    status,         \* rides.status
    paused,         \* rides.paused_at IS NOT NULL
    lockedAt,       \* rides.physically_locked_at IS NOT NULL
    pendingPause,   \* an unexpired entry in the map of pause-registry.ts
    pendingEnd,     \* an unexpired entry in the map of pending-end-registry.ts
    settling,       \* settleEndWithRetry is under way
    taps,           \* where each of the rider's requests stands
    reports,        \* where each closure report stands
    leaving         \* the rider has parked the bike and wants to end the ride

row == <<status, paused, lockedAt>>
armed == <<pendingPause, pendingEnd>>
world == <<fix, parked, leaving>>
handshakeVars == <<lock, unlocking, world, row, armed, settling, taps, reports>>

(* "arm": about to arm an end; "settle": about to call endRide; "pause":    *)
(* about to arm a pause; "resumed": the resume is committed; "cancelled":   *)
(* there was nothing to resume; "unlocking": the command is awaited.        *)
TapState == {"none", "arm", "settle", "pause", "resumed", "cancelled", "unlocking"}

(* "sent": not handled yet; "flag", "pause", "auto": the handler is about to*)
(* write physically_locked_at, paused_at, or both.                          *)
ReportState == {"none", "sent", "flag", "pause", "auto"}

HandshakeTypeOK ==
    /\ lock \in {"open", "closed"}
    /\ status \in {"active", "completed"}
    /\ unlocking \in BOOLEAN /\ fix \in BOOLEAN
    /\ parked \in BOOLEAN /\ leaving \in BOOLEAN
    /\ paused \in BOOLEAN /\ lockedAt \in BOOLEAN
    /\ pendingPause \in BOOLEAN /\ pendingEnd \in BOOLEAN
    /\ settling \in BOOLEAN
    /\ taps \in [Taps -> TapState]
    /\ reports \in [Reports -> ReportState]

HandshakeInit ==
    /\ lock = "open" /\ unlocking = FALSE
    /\ fix \in BOOLEAN /\ parked = TRUE /\ leaving = FALSE
    /\ status = "active" /\ paused = FALSE /\ lockedAt = FALSE
    /\ pendingPause = FALSE /\ pendingEnd = FALSE /\ settling = FALSE
    /\ taps = [t \in Taps |-> "none"]
    /\ reports = [p \in Reports |-> "none"]

Active == status = "active"

Tap(t, from, to) == taps[t] = from /\ taps' = [taps EXCEPT ![t] = to]

Report(p, from, to) == reports[p] = from /\ reports' = [reports EXCEPT ![p] = to]

-----------------------------------------------------------------------------
(* endRide, as far as the handshake sees it.  The fix is asked for first.   *)

EndSucceeds == Active /\ fix /\ parked

Ended == status' = "completed" /\ UNCHANGED <<paused, lockedAt>>

-----------------------------------------------------------------------------
(* The rider's requests.                                                    *)

(* requestEndRide: the lock is known to be closed already.                  *)
FastPath == lockedAt \/ paused

RequestEnd(t) ==
    /\ Active
    /\ Tap(t, "none", IF FastPath THEN "settle" ELSE "arm")
    /\ UNCHANGED <<lock, unlocking, world, row, armed, settling, reports>>

(* An armed end clears an armed pause.                                      *)
ArmEnd(t) ==
    /\ Tap(t, "arm", "none")
    /\ pendingEnd' = TRUE
    /\ pendingPause' = FALSE
    /\ UNCHANGED <<lock, unlocking, world, row, settling, reports>>

(* The fast path: one attempt, whose error the rider sees.                  *)
TapSettles(t) ==
    /\ Tap(t, "settle", "none")
    /\ IF EndSucceeds THEN Ended ELSE UNCHANGED row
    /\ UNCHANGED <<lock, unlocking, world, armed, settling, reports>>

CancelEnd(t) ==
    /\ taps[t] = "none" /\ ~leaving
    /\ pendingEnd' = FALSE
    /\ UNCHANGED <<lock, unlocking, world, row, pendingPause, settling, taps, reports>>

RequestPause(t) ==
    /\ Active /\ ~paused /\ ~leaving
    /\ Tap(t, "none", "pause")
    /\ UNCHANGED <<lock, unlocking, world, row, armed, settling, reports>>

(* Mutant: the pause does not wait for the closure, as without a lock.      *)
ArmPauseMutant(t) ==
    /\ Tap(t, "pause", "none")
    /\ paused' = (paused \/ Active)
    /\ UNCHANGED <<lock, unlocking, world, status, lockedAt, armed, settling, reports>>

(* An armed pause leaves an armed end as it is.                             *)
ArmPause(t) ==
    /\ Tap(t, "pause", "none")
    /\ pendingPause' = TRUE
    /\ UNCHANGED <<lock, unlocking, world, row, pendingEnd, settling, reports>>

(* Mutant: resumeRide leaves physically_locked_at set.                      *)
LockedAfterResumeMutant == lockedAt

LockedAfterResume == FALSE

(* resumeRide: the transaction.                                             *)
Resume(t) ==
    /\ Active /\ ~leaving
    /\ Tap(t, "none", IF paused THEN "resumed" ELSE "cancelled")
    /\ paused' = FALSE
    /\ lockedAt' = IF paused THEN LockedAfterResume ELSE lockedAt
    /\ UNCHANGED <<lock, unlocking, world, status, armed, settling, reports>>

(* After the commit: the armed pause is dropped and, if there was a pause to*)
(* end, the lock is told to open; a failed unlock takes nothing back.       *)
ResumeUnlocks(t) ==
    /\ \/ /\ Tap(t, "resumed", "unlocking")
          /\ unlocking' = TRUE
       \/ /\ Tap(t, "cancelled", "none")
          /\ UNCHANGED unlocking
    /\ pendingPause' = FALSE
    /\ UNCHANGED <<lock, world, row, pendingEnd, settling, reports>>

(* The echo came, or nothing did for fifteen seconds.                       *)
ResumeReturns(t) ==
    /\ ~unlocking \/ UnlockMayFail
    /\ Tap(t, "unlocking", "none")
    /\ UNCHANGED <<lock, unlocking, world, row, armed, settling, reports>>

-----------------------------------------------------------------------------
(* The lock and the bike.                                                   *)

LockOpens ==
    /\ unlocking
    /\ lock' = "open" /\ unlocking' = FALSE
    /\ UNCHANGED <<world, row, armed, settling, taps, reports>>

UnlockIsLost ==
    /\ UnlockMayFail
    /\ unlocking
    /\ unlocking' = FALSE
    /\ UNCHANGED <<lock, world, row, armed, settling, taps, reports>>

CloseLock(p) ==
    /\ lock = "open"
    /\ lock' = "closed"
    /\ Report(p, "none", "sent")
    /\ UNCHANGED <<unlocking, world, row, armed, settling, taps>>

(* A report is acknowledged after it was handled; until the lock has the    *)
(* acknowledgement it repeats the report.                                   *)
RepeatReport(p) ==
    /\ MayRepeat
    /\ Report(p, "none", "sent")
    /\ UNCHANGED <<lock, unlocking, world, row, armed, settling, taps>>

BikeMoves ==
    /\ lock = "open" /\ ~leaving
    /\ parked' = ~parked
    /\ UNCHANGED <<lock, unlocking, fix, leaving, row, armed, settling, taps, reports>>

FixChanges ==
    /\ fix' = ~fix
    /\ UNCHANGED <<lock, unlocking, parked, leaving, row, armed, settling, taps, reports>>

RiderLeaves ==
    /\ Active /\ parked /\ ~leaving
    /\ leaving' = TRUE
    /\ UNCHANGED <<lock, unlocking, fix, parked, row, armed, settling, taps, reports>>

-----------------------------------------------------------------------------
(* The handler of a closure report.                                         *)

(* An armed end comes before an armed pause; without either the closure     *)
(* itself pauses the ride.                                                  *)
Handling == IF pendingEnd THEN "flag" ELSE IF pendingPause THEN "pause" ELSE "auto"

(* One callback consumes what is armed and starts the settlement.           *)
HandleReport(p) ==
    /\ Report(p, "sent", Handling)
    /\ pendingEnd' = (pendingEnd /\ Handling # "flag")
    /\ pendingPause' = (pendingPause /\ Handling # "pause")
    /\ settling' = (settling \/ Handling = "flag")
    /\ UNCHANGED <<lock, unlocking, world, row, taps>>

(* Mutant: an expected closure is not written down.                         *)
FlaggedMutant == lockedAt

Flagged == lockedAt \/ Active

WriteFlag(p) ==
    /\ Report(p, "flag", "none")
    /\ lockedAt' = Flagged
    /\ UNCHANGED <<lock, unlocking, world, status, paused, armed, settling, taps>>

(* The armed pause; a ride that is paused already, or over, is left to the  *)
(* automatic pause.                                                         *)
WritePause(p) ==
    /\ IF Active /\ ~paused
       THEN Report(p, "pause", "none") /\ paused' = TRUE
       ELSE Report(p, "pause", "auto") /\ UNCHANGED paused
    /\ UNCHANGED <<lock, unlocking, world, status, lockedAt, armed, settling, taps>>

(* The automatic pause sets both columns of an active ride not yet paused.  *)
WriteAuto(p) ==
    /\ Report(p, "auto", "none")
    /\ paused' = (paused \/ Active)
    /\ lockedAt' = (lockedAt \/ (Active /\ ~paused))
    /\ UNCHANGED <<lock, unlocking, world, status, armed, settling, taps>>

(* settleEndWithRetry: a stale fix is tried again after a while, any other  *)
(* outcome ends it.                                                         *)
SettleTries ==
    /\ settling
    /\ IF EndSucceeds THEN Ended ELSE UNCHANGED row
    /\ settling' = (Active /\ ~fix)
    /\ UNCHANGED <<lock, unlocking, world, armed, taps, reports>>

(* END_SETTLE_RETRY_WINDOW_MS have passed.                                  *)
SettleGivesUp ==
    /\ settling /\ Active /\ ~fix
    /\ settling' = FALSE
    /\ UNCHANGED <<lock, unlocking, world, row, armed, taps, reports>>

PauseExpires ==
    /\ pendingPause
    /\ pendingPause' = FALSE
    /\ UNCHANGED <<lock, unlocking, world, row, pendingEnd, settling, taps, reports>>

EndExpires ==
    /\ pendingEnd
    /\ pendingEnd' = FALSE
    /\ UNCHANGED <<lock, unlocking, world, row, pendingPause, settling, taps, reports>>

(* A member of staff ends the ride.                                         *)
ForceEnd ==
    /\ Active
    /\ Ended
    /\ UNCHANGED <<lock, unlocking, world, armed, settling, taps, reports>>

(* What is armed and what is under way is forgotten; the lock repeats the   *)
(* reports it has no acknowledgement of.                                    *)
Restart ==
    /\ MayRestart
    /\ pendingPause' = FALSE /\ pendingEnd' = FALSE /\ settling' = FALSE
    /\ taps' = [t \in Taps |-> "none"]
    /\ reports' = [p \in Reports |-> IF reports[p] = "none" THEN "none" ELSE "sent"]
    /\ UNCHANGED <<lock, unlocking, world, row>>

RiderStep ==
    \/ \E t \in Taps :
          \/ RequestEnd(t) \/ ArmEnd(t) \/ TapSettles(t) \/ CancelEnd(t)
          \/ RequestPause(t) \/ ArmPause(t)
          \/ Resume(t) \/ ResumeUnlocks(t) \/ ResumeReturns(t)
    \/ BikeMoves \/ RiderLeaves

ReportStep ==
    \E p \in Reports :
        \/ CloseLock(p) \/ RepeatReport(p)
        \/ HandleReport(p) \/ WriteFlag(p) \/ WritePause(p) \/ WriteAuto(p)

ServerStep ==
    \/ SettleTries \/ SettleGivesUp
    \/ PauseExpires \/ EndExpires
    \/ ForceEnd \/ Restart

HandshakeNext ==
    \/ RiderStep \/ ReportStep \/ ServerStep
    \/ LockOpens \/ UnlockIsLost \/ FixChanges

HandshakeSpec == HandshakeInit /\ [][HandshakeNext]_handshakeVars

(* The callbacks and timers of the process run, the lock answers; a rider   *)
(* who leaves closes the lock and asks to end until the ride has ended.     *)
HandshakeFairness ==
    /\ \A t \in Taps :
          /\ WF_handshakeVars(ArmEnd(t)) /\ WF_handshakeVars(TapSettles(t))
          /\ WF_handshakeVars(ArmPause(t))
          /\ WF_handshakeVars(ResumeUnlocks(t)) /\ WF_handshakeVars(ResumeReturns(t))
          /\ WF_handshakeVars(leaving /\ ~pendingEnd /\ RequestEnd(t))
    /\ \A p \in Reports :
          /\ WF_handshakeVars(leaving /\ CloseLock(p))
          /\ WF_handshakeVars(HandleReport(p)) /\ WF_handshakeVars(WriteFlag(p))
          /\ WF_handshakeVars(WritePause(p)) /\ WF_handshakeVars(WriteAuto(p))
    /\ WF_handshakeVars(SettleTries)
    /\ WF_handshakeVars(EndExpires)
    /\ WF_handshakeVars(LockOpens)

FairHandshakeSpec == HandshakeSpec /\ HandshakeFairness

-----------------------------------------------------------------------------
(* Safety.                                                                  *)

(* A ride is paused only while its lock is closed and stays so: the rider   *)
(* who is not billed cannot ride.                                           *)
PausedMeansClosed == (Active /\ paused) => lock = "closed"

(* Whoever but staff ends a ride, by a tap or by the settlement of an armed *)
(* end, however late: the lock is closed and no command will open it.       *)
EndNeedsClosure ==
    [][(Active /\ ~Active' /\ ~ForceEnd) => lock = "closed" /\ ~unlocking]_handshakeVars

(* A rider who has parked, closes the lock and keeps asking gets the ride   *)
(* ended once the lock has its fix, whatever expired, was retried or given  *)
(* up on the way.                                                           *)
LeavingEnds == (<>[]fix) => (leaving ~> ~Active)

-----------------------------------------------------------------------------
(* What comments of the code say and the code does not keep.                *)

(* "an active-but-physically-locked bike could never be reopened from the   *)
(* app": once nothing is under way any more, a closed ride is paused, the   *)
(* only state from which resumeRide opens the lock.                         *)
ClosedRideCanReopen ==
    (/\ Active /\ lock = "closed" /\ ~unlocking /\ ~settling
     /\ \A t \in Taps : taps[t] = "none"
     /\ \A p \in Reports : reports[p] = "none") => paused

=============================================================================
