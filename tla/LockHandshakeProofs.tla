------------------------- MODULE LockHandshakeProofs -------------------------
(***************************************************************************)
(* Theorems about LockHandshake for any number of requests and reports     *)
(* under way, with lost unlocks, restarts and every delay.  They need what *)
(* the lock usually does, no report repeated after it was handled, and the *)
(* last one what the rider's app usually does: one request at a time.      *)
(***************************************************************************)
EXTENDS LockHandshake, TLAPS

OneTap == \A t, u \in Taps : t = u

Reported == {p \in Reports : reports[p] # "none"}

Resuming == \E t \in Taps : taps[t] = "resumed"

(* The lock is closed and nothing is about to open it.                      *)
StaysClosed == lock = "closed" /\ ~unlocking /\ ~Resuming

(* Each sign from which the server concludes that the lock is closed: a     *)
(* report, a settlement under way, the two columns.  Signs exclude each     *)
(* other as far as resumeRide, which forgets the columns only, needs it;    *)
(* and of several requests one resumes.                                     *)
Signs ==
    /\ \A p, q \in Reported : p = q
    /\ Reported # {} => StaysClosed /\ ~paused
    /\ settling => /\ StaysClosed /\ ~paused
                   /\ \A p \in Reported : reports[p] = "flag"
    /\ paused \/ lockedAt => StaysClosed
    /\ \A t, u \in Taps : (taps[t] = "resumed" /\ taps[u] = "resumed") => t = u
    /\ Resuming => lock = "closed" /\ ~unlocking
    /\ unlocking => lock = "closed"

HandshakeInv == HandshakeTypeOK /\ (Active => Signs)

(* A request that is about to end the ride still knows its lock closed.     *)
TapsKnow == \A t \in Taps : taps[t] = "settle" => paused \/ lockedAt

LEMMA HandshakeInitInv == HandshakeInit => HandshakeInv
BY DEF HandshakeInit, HandshakeInv, HandshakeTypeOK, Signs, StaysClosed, Resuming,
   Reported, Active, TapState, ReportState

(* Types alone.                                                             *)
LEMMA HandshakeTypeStep ==
    HandshakeTypeOK /\ [HandshakeNext]_handshakeVars => HandshakeTypeOK'
<1> SUFFICES ASSUME HandshakeTypeOK, [HandshakeNext]_handshakeVars
             PROVE  HandshakeTypeOK'
  OBVIOUS
<1> USE DEF HandshakeTypeOK, TapState, ReportState, Tap, Report, row, armed, world
<1>1. ASSUME NEW t \in Taps, RequestEnd(t) PROVE HandshakeTypeOK'
  BY <1>1 DEF RequestEnd, FastPath, Active
<1>2. ASSUME NEW t \in Taps, ArmEnd(t) PROVE HandshakeTypeOK'
  BY <1>2 DEF ArmEnd
<1>3. ASSUME NEW t \in Taps, TapSettles(t) PROVE HandshakeTypeOK'
  BY <1>3 DEF TapSettles, Ended, EndSucceeds, Active
<1>4. ASSUME NEW t \in Taps, CancelEnd(t) PROVE HandshakeTypeOK'
  BY <1>4 DEF CancelEnd
<1>5. ASSUME NEW t \in Taps, RequestPause(t) PROVE HandshakeTypeOK'
  BY <1>5 DEF RequestPause, Active
<1>6. ASSUME NEW t \in Taps, ArmPause(t) PROVE HandshakeTypeOK'
  BY <1>6 DEF ArmPause
<1>7. ASSUME NEW t \in Taps, Resume(t) PROVE HandshakeTypeOK'
  BY <1>7 DEF Resume, LockedAfterResume, Active
<1>8. ASSUME NEW t \in Taps, ResumeUnlocks(t) PROVE HandshakeTypeOK'
  BY ZenonT(60), <1>8 DEF ResumeUnlocks
<1>9. ASSUME NEW t \in Taps, ResumeReturns(t) PROVE HandshakeTypeOK'
  BY <1>9 DEF ResumeReturns
<1>10. ASSUME NEW p \in Reports, CloseLock(p) PROVE HandshakeTypeOK'
  BY <1>10 DEF CloseLock
<1>11. ASSUME NEW p \in Reports, RepeatReport(p) PROVE HandshakeTypeOK'
  BY <1>11 DEF RepeatReport
<1>12. ASSUME NEW p \in Reports, HandleReport(p) PROVE HandshakeTypeOK'
  BY <1>12 DEF HandleReport, Handling
<1>13. ASSUME NEW p \in Reports, WriteFlag(p) PROVE HandshakeTypeOK'
  BY <1>13 DEF WriteFlag, Flagged, Active
<1>14. ASSUME NEW p \in Reports, WritePause(p) PROVE HandshakeTypeOK'
  BY ZenonT(60), <1>14 DEF WritePause, Active
<1>15. ASSUME NEW p \in Reports, WriteAuto(p) PROVE HandshakeTypeOK'
  BY <1>15 DEF WriteAuto, Active
<1>16. CASE BikeMoves
  BY <1>16 DEF BikeMoves
<1>17. CASE RiderLeaves
  BY <1>17 DEF RiderLeaves, Active
<1>18. CASE SettleTries
  BY <1>18 DEF SettleTries, Ended, EndSucceeds, Active
<1>19. CASE SettleGivesUp
  BY <1>19 DEF SettleGivesUp, Active
<1>20. CASE PauseExpires
  BY <1>20 DEF PauseExpires
<1>21. CASE EndExpires
  BY <1>21 DEF EndExpires
<1>22. CASE ForceEnd
  BY <1>22 DEF ForceEnd, Ended, Active
<1>23. CASE Restart
  BY <1>23 DEF Restart
<1>24. CASE LockOpens
  BY <1>24 DEF LockOpens
<1>25. CASE UnlockIsLost
  BY ZenonT(60), <1>25 DEF UnlockIsLost
<1>26. CASE FixChanges
  BY <1>26 DEF FixChanges
<1>27. CASE UNCHANGED handshakeVars
  BY <1>27 DEF handshakeVars
<1> QED BY <1>1, <1>2, <1>3, <1>4, <1>5, <1>6, <1>7, <1>8, <1>9, <1>10, <1>11, <1>12,
         <1>13, <1>14, <1>15, <1>16, <1>17, <1>18, <1>19, <1>20, <1>21, <1>22, <1>23,
         <1>24, <1>25, <1>26, <1>27
        DEF HandshakeNext, RiderStep, ReportStep, ServerStep

-----------------------------------------------------------------------------
(* One step.                                                                *)

(* A ride that is over stays over.                                          *)
LEMMA StatusStep ==
    [HandshakeNext]_handshakeVars => status' \in {status, "completed"}
BY DEF HandshakeNext, RiderStep, ReportStep, ServerStep, RequestEnd, ArmEnd, TapSettles,
   CancelEnd, RequestPause, ArmPause, Resume, ResumeUnlocks, ResumeReturns, BikeMoves,
   RiderLeaves, CloseLock, RepeatReport, HandleReport, WriteFlag, WritePause, WriteAuto,
   SettleTries, SettleGivesUp, PauseExpires, EndExpires, ForceEnd, Restart, LockOpens,
   UnlockIsLost, FixChanges, Ended, row, handshakeVars

LEMMA SignsStep ==
    ASSUME ~MayRepeat, HandshakeInv, [HandshakeNext]_handshakeVars, Active'
    PROVE  Signs'
<1>a. Signs /\ HandshakeTypeOK /\ Active
  BY StatusStep DEF Active, HandshakeInv
<1> USE <1>a DEF HandshakeTypeOK, Signs, StaysClosed, Resuming, Reported, Tap, Report,
              row, armed, world
<1>1. ASSUME NEW t \in Taps, RequestEnd(t) PROVE Signs'
  BY <1>1 DEF RequestEnd, FastPath, Active
<1>2. ASSUME NEW t \in Taps, ArmEnd(t) PROVE Signs'
  BY <1>2 DEF ArmEnd
<1>3. ASSUME NEW t \in Taps, TapSettles(t) PROVE Signs'
  BY <1>3 DEF TapSettles, Ended, EndSucceeds, Active
<1>4. ASSUME NEW t \in Taps, CancelEnd(t) PROVE Signs'
  BY <1>4 DEF CancelEnd
<1>5. ASSUME NEW t \in Taps, RequestPause(t) PROVE Signs'
  BY <1>5 DEF RequestPause, Active
<1>6. ASSUME NEW t \in Taps, ArmPause(t) PROVE Signs'
  BY <1>6 DEF ArmPause
<1>7. ASSUME NEW t \in Taps, Resume(t) PROVE Signs'
  <2>1. CASE paused
    <3>1. /\ Reported = {} /\ ~settling /\ lock = "closed" /\ ~unlocking /\ ~Resuming
      BY <1>a, <2>1
    <3>2. /\ Reported' = {} /\ ~settling' /\ lock' = "closed" /\ ~unlocking'
          /\ ~paused' /\ ~lockedAt'
          /\ taps' = [taps EXCEPT ![t] = "resumed"]
      BY <1>7, <2>1, <3>1 DEF Resume, LockedAfterResume
    <3>3. \A u \in Taps : taps'[u] = "resumed" => u = t
      BY <3>1, <3>2
    <3> QED BY <3>2, <3>3
  <2>2. CASE ~paused
    <3>1. taps' = [taps EXCEPT ![t] = "cancelled"] /\ ~paused' /\ lockedAt' = lockedAt
          /\ UNCHANGED <<lock, unlocking, settling, reports>>
      BY <1>7, <2>2 DEF Resume
    <3>2. \A u \in Taps : taps'[u] = "resumed" => taps[u] = "resumed"
      BY <3>1
    <3> QED BY <2>2, <3>1, <3>2
  <2> QED BY <2>1, <2>2
<1>8. ASSUME NEW t \in Taps, ResumeUnlocks(t) PROVE Signs'
  <2>1. UNCHANGED <<lock, paused, lockedAt, settling, reports>>
    BY <1>8 DEF ResumeUnlocks
  <2>2. CASE Tap(t, "resumed", "unlocking") /\ unlocking'
    <3>1. /\ Reported = {} /\ ~settling /\ ~paused /\ ~lockedAt /\ lock = "closed"
      BY <1>a, <2>2
    <3>2. \A u \in Taps : taps'[u] # "resumed"
      BY <1>a, <2>2
    <3> QED BY <2>1, <2>2, <3>1, <3>2
  <2>3. CASE Tap(t, "cancelled", "none") /\ UNCHANGED unlocking
    <3>1. \A u \in Taps : taps'[u] = "resumed" => taps[u] = "resumed"
      BY <2>3
    <3> QED BY <2>1, <2>3, <3>1
  <2> QED BY <1>8, <2>2, <2>3 DEF ResumeUnlocks
<1>9. ASSUME NEW t \in Taps, ResumeReturns(t) PROVE Signs'
  BY <1>9 DEF ResumeReturns
<1>10. ASSUME NEW p \in Reports, CloseLock(p) PROVE Signs'
  BY <1>10 DEF CloseLock
<1>11. ASSUME NEW p \in Reports, RepeatReport(p) PROVE Signs'
  BY <1>11 DEF RepeatReport
<1>12. ASSUME NEW p \in Reports, HandleReport(p) PROVE Signs'
  BY <1>12 DEF HandleReport, Handling
<1>13. ASSUME NEW p \in Reports, WriteFlag(p) PROVE Signs'
  BY <1>13 DEF WriteFlag, Flagged, Active
<1>14. ASSUME NEW p \in Reports, WritePause(p) PROVE Signs'
  BY <1>14 DEF WritePause, Active
<1>15. ASSUME NEW p \in Reports, WriteAuto(p) PROVE Signs'
  BY <1>15 DEF WriteAuto, Active
<1>16. CASE BikeMoves
  BY <1>16 DEF BikeMoves
<1>17. CASE RiderLeaves
  BY <1>17 DEF RiderLeaves, Active
<1>18. CASE SettleTries
  BY <1>18 DEF SettleTries, Ended, EndSucceeds, Active
<1>19. CASE SettleGivesUp
  BY <1>19 DEF SettleGivesUp, Active
<1>20. CASE PauseExpires
  BY <1>20 DEF PauseExpires
<1>21. CASE EndExpires
  BY <1>21 DEF EndExpires
<1>22. CASE ForceEnd
  BY <1>22 DEF ForceEnd, Ended, Active
<1>23. CASE Restart
  BY <1>23 DEF Restart
<1>24. CASE LockOpens
  BY <1>24 DEF LockOpens
<1>25. CASE UnlockIsLost
  BY <1>25 DEF UnlockIsLost
<1>26. CASE FixChanges
  BY <1>26 DEF FixChanges
<1>27. CASE UNCHANGED handshakeVars
  BY <1>27 DEF handshakeVars
<1> QED BY <1>1, <1>2, <1>3, <1>4, <1>5, <1>6, <1>7, <1>8, <1>9, <1>10, <1>11, <1>12,
         <1>13, <1>14, <1>15, <1>16, <1>17, <1>18, <1>19, <1>20, <1>21, <1>22, <1>23,
         <1>24, <1>25, <1>26, <1>27
        DEF HandshakeNext, RiderStep, ReportStep, ServerStep

LEMMA HandshakeInductive ==
    ASSUME ~MayRepeat
    PROVE  HandshakeSpec => []HandshakeInv
<1>1. HandshakeInv /\ [HandshakeNext]_handshakeVars => HandshakeInv'
  BY HandshakeTypeStep, SignsStep DEF HandshakeInv
<1> QED BY HandshakeInitInv, <1>1, PTL DEF HandshakeSpec

(* Only a resume forgets a closed lock, and with one request at a time it   *)
(* is not between another one's read and its end.                           *)
LEMMA TapsKnowStep ==
    ASSUME OneTap, HandshakeTypeOK, TapsKnow, [HandshakeNext]_handshakeVars
    PROVE  TapsKnow'
<1> SUFFICES ASSUME NEW t \in Taps, taps'[t] = "settle" PROVE paused' \/ lockedAt'
  BY DEF TapsKnow
<1>1. ASSUME NEW u \in Taps, RequestEnd(u) PROVE paused' \/ lockedAt'
  BY <1>1 DEF OneTap, RequestEnd, Tap, FastPath, row, HandshakeTypeOK
<1>2. ASSUME NEW u \in Taps, Resume(u) PROVE FALSE
  BY <1>2 DEF OneTap, Resume, Tap, HandshakeTypeOK
<1>3. CASE (paused \/ lockedAt) /\ ~(\E u \in Taps : Resume(u))
  BY <1>3 DEF HandshakeNext, RiderStep, ReportStep, ServerStep, RequestEnd, ArmEnd,
     TapSettles, CancelEnd, RequestPause, ArmPause, ResumeUnlocks, ResumeReturns,
     BikeMoves, RiderLeaves, CloseLock, RepeatReport, HandleReport, WriteFlag, Flagged,
     WritePause, WriteAuto, SettleTries, SettleGivesUp, PauseExpires, EndExpires,
     ForceEnd, Restart, LockOpens, UnlockIsLost, FixChanges, Ended, row, handshakeVars
<1>4. CASE taps[t] # "settle" /\ ~(\E u \in Taps : RequestEnd(u))
  BY <1>4 DEF HandshakeTypeOK, Tap, HandshakeNext, RiderStep, ReportStep, ServerStep,
     ArmEnd, TapSettles, CancelEnd, RequestPause, ArmPause, Resume, ResumeUnlocks,
     ResumeReturns, BikeMoves, RiderLeaves, CloseLock, RepeatReport, HandleReport,
     WriteFlag, WritePause, WriteAuto, SettleTries, SettleGivesUp, PauseExpires,
     EndExpires, ForceEnd, Restart, LockOpens, UnlockIsLost, FixChanges, handshakeVars
<1>5. taps[t] = "settle" => paused \/ lockedAt
  BY DEF TapsKnow
<1> QED BY <1>1, <1>2, <1>3, <1>4, <1>5

LEMMA TapsKnowAlways ==
    ASSUME OneTap
    PROVE  HandshakeSpec => []TapsKnow
<1>1. HandshakeInit => HandshakeTypeOK /\ TapsKnow
  BY DEF HandshakeInit, HandshakeTypeOK, TapsKnow, TapState, ReportState
<1>2. HandshakeTypeOK /\ TapsKnow /\ [HandshakeNext]_handshakeVars
        => (HandshakeTypeOK /\ TapsKnow)'
  BY HandshakeTypeStep, TapsKnowStep
<1> QED BY <1>1, <1>2, PTL DEF HandshakeSpec

-----------------------------------------------------------------------------
(* The columns of the ride, the two registries and the requests and reports *)
(* under way stay well typed, whatever the rider and the lock do.           *)
THEOREM HandshakeTypeCorrect == HandshakeSpec => []HandshakeTypeOK
<1>1. HandshakeInit => HandshakeTypeOK
  BY DEF HandshakeInit, HandshakeTypeOK, TapState, ReportState
<1> QED BY <1>1, HandshakeTypeStep, PTL DEF HandshakeSpec

(* While rides.paused_at is set the lock is closed, for any number of       *)
(* requests and closure reports under way and any restarts, losses and      *)
(* delays.                                                                  *)
THEOREM PausedIsClosed ==
    ASSUME ~MayRepeat
    PROVE  HandshakeSpec => []PausedMeansClosed
<1>1. HandshakeInv => PausedMeansClosed
  BY DEF HandshakeInv, Signs, StaysClosed, PausedMeansClosed
<1> QED BY <1>1, HandshakeInductive, PTL

(* Of the steps that end a ride only the fast path of a request and the     *)
(* settlement are not of the staff.                                         *)
LEMMA WhoEnds ==
    ASSUME HandshakeNext, Active, ~Active', ~ForceEnd
    PROVE  SettleTries \/ \E t \in Taps : TapSettles(t)
BY DEF HandshakeNext, RiderStep, ReportStep, ServerStep, RequestEnd, ArmEnd, CancelEnd,
   RequestPause, ArmPause, Resume, ResumeUnlocks, ResumeReturns, BikeMoves,
   RiderLeaves, CloseLock, RepeatReport, HandleReport, WriteFlag, WritePause,
   WriteAuto, SettleGivesUp, PauseExpires, EndExpires, Restart, LockOpens,
   UnlockIsLost, FixChanges, row, Active

(* The settlement of an armed end needs the lock closed and nothing on its  *)
(* way to open it.                                                          *)
SettlementNeedsClosure ==
    [][(SettleTries /\ Active /\ ~Active') => lock = "closed" /\ ~unlocking]_handshakeVars

(* settleEndWithRetry ends a ride only while its lock is closed and no      *)
(* unlock is on its way, whatever other requests of the rider - a resume, a *)
(* pause, another end - came since the end was armed.                       *)
THEOREM SettlementIsClosed ==
    ASSUME ~MayRepeat
    PROVE  HandshakeSpec => SettlementNeedsClosure
<1>1. HandshakeInv /\ [HandshakeNext]_handshakeVars
        => [(SettleTries /\ Active /\ ~Active') => lock = "closed" /\ ~unlocking]_handshakeVars
  BY DEF HandshakeInv, SettleTries, Signs, StaysClosed
<1> QED BY <1>1, HandshakeInductive, PTL DEF HandshakeSpec, SettlementNeedsClosure

(* requestEndRide's fast path and settleEndWithRetry end a ride only while  *)
(* its lock is closed and no unlock is on its way.                          *)
THEOREM EndIsClosed ==
    ASSUME OneTap, ~MayRepeat
    PROVE  HandshakeSpec => EndNeedsClosure
<1>1. HandshakeInv /\ TapsKnow /\ [HandshakeNext]_handshakeVars
        => [(Active /\ ~Active' /\ ~ForceEnd) => lock = "closed" /\ ~unlocking]_handshakeVars
  <2> SUFFICES ASSUME Signs, TapsKnow, HandshakeNext, Active, ~Active', ~ForceEnd
               PROVE  lock = "closed" /\ ~unlocking
    BY DEF HandshakeInv
  <2>1. CASE SettleTries
    BY <2>1 DEF SettleTries, Signs, StaysClosed
  <2>2. CASE \E t \in Taps : TapSettles(t)
    BY <2>2 DEF TapSettles, Tap, TapsKnow, Signs, StaysClosed
  <2> QED BY <2>1, <2>2, WhoEnds
<1> QED BY <1>1, HandshakeInductive, TapsKnowAlways, PTL DEF HandshakeSpec, EndNeedsClosure

=============================================================================
