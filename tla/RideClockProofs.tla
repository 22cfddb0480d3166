--------------------------- MODULE RideClockProofs ---------------------------
(***************************************************************************)
(* Theorems about RideClock for every grace, billing unit, set of tariffs  *)
(* and length of the ride.                                                 *)
(***************************************************************************)
EXTENDS RideClock, TLAPS

(* Whole units: what the floor of billing.ts takes and leaves.              *)
LEMMA DivBounds ==
    ASSUME NEW x \in Nat, NEW m \in Nat, m > 0
    PROVE  /\ x \div m \in Nat
           /\ (x \div m) * m <= x
           /\ x < (x \div m + 1) * m
OBVIOUS

(* While the ride lasts its deadline is made of what was bought, what the   *)
(* pauses gave and what extensions skipped; and as long as no pause was     *)
(* extended, the credit given is the time paused, up to the grace.  What    *)
(* was paused before the pause under way fits before it.                    *)
Accounted ==
    Active => /\ ride.paidUntilAt = ride.totalTariffMs + credited + forgiven
              /\ ride.totalTariffMs > 0
              /\ ride.totalPausedMs <= IF IsPaused(ride) THEN ride.pausedAt ELSE now
              /\ midPause = 0 => credited = Lesser(ride.totalPausedMs, Grace)

ClockInv ==
    /\ ClockTypeOK
    /\ ride.startedAt = 0
    /\ ride.pausedAt <= now
    /\ Accounted
    /\ ~Active => /\ midPause = 0 => credited = Lesser(ride.totalPausedMs, Grace)
                  /\ NothingBilledTwice
                  /\ EveryMinuteIsBilled

LEMMA CreditType ==
    ASSUME ClockTypeOK
    PROVE  /\ PendingPauseCredit(ride, now) \in Nat
           /\ EffectivePaidUntil(ride, now) \in Nat
BY DurationAssumption DEF ClockTypeOK, RideRow, PendingPauseCredit, EffectivePaidUntil,
   RemainingBudget, AtLeastZero, Lesser, IsPaused, NotPaused

(* A pause under way adds what is left of the budget, whatever the rest.    *)
LEMMA CreditSplits ==
    ASSUME ClockTypeOK, ride.pausedAt <= now, IsPaused(ride)
    PROVE  Lesser(ride.totalPausedMs, Grace) + PendingPauseCredit(ride, now)
              = Lesser(ride.totalPausedMs + AtLeastZero(now - ride.pausedAt), Grace)
BY DurationAssumption DEF ClockTypeOK, RideRow, PendingPauseCredit,
   RemainingBudget, AtLeastZero, Lesser, IsPaused, NotPaused

LEMMA ClockInitInv == ClockInit => ClockInv
<1> SUFFICES ASSUME ClockInit PROVE ClockInv
  OBVIOUS
<1>1. PICK tariff \in Tariffs :
          ride = [status |-> "active", startedAt |-> 0, paidUntilAt |-> tariff,
                  pausedAt |-> NotPaused, totalPausedMs |-> 0,
                  totalTariffMs |-> tariff, extraMinutes |-> 0, endedAt |-> 0]
  BY DEF ClockInit
<1>2. tariff \in Nat /\ tariff > 0
  BY DurationAssumption
<1> QED BY <1>1, <1>2, DurationAssumption
        DEF ClockInit, ClockInv, ClockTypeOK, RideRow, Accounted, Active, Lesser, IsPaused, NotPaused

LEMMA TickInv == ASSUME ClockInv, Tick PROVE ClockInv'
BY DEF ClockInv, ClockTypeOK, RideRow, Tick, Accounted, Active, NothingBilledTwice,
   EveryMinuteIsBilled, NotPaused

LEMMA PauseInv == ASSUME ClockInv, PauseRide PROVE ClockInv'
BY DEF ClockInv, ClockTypeOK, RideRow, PauseRide, Accounted, Active

LEMMA ResumeInv ==
    ASSUME ClockInv, ResumeRide
    PROVE  ClockInv'
<1> DEFINE credit == PendingPauseCredit(ride, now)
           paused == AtLeastZero(now - ride.pausedAt)
<1>1. ClockTypeOK /\ ride \in RideRow /\ now \in Nat
  BY DEF ClockInv, ClockTypeOK
<1>2. credit \in Nat /\ paused \in Nat
  BY <1>1, CreditType DEF RideRow, NotPaused, AtLeastZero
<1>3. /\ ride'.status = "active"
      /\ ride'.startedAt = ride.startedAt
      /\ ride'.pausedAt = NotPaused
      /\ ride'.totalPausedMs = ride.totalPausedMs + paused
      /\ ride'.paidUntilAt = ride.paidUntilAt + credit
      /\ ride'.totalTariffMs = ride.totalTariffMs
      /\ ride' \in RideRow
  <2>1. ride' = [ride EXCEPT !.pausedAt = NotPaused,
                             !.totalPausedMs = ride.totalPausedMs + paused,
                             !.paidUntilAt = ride.paidUntilAt + credit]
    BY DEF ResumeRide, Resumed
  <2> HIDE DEF credit, paused
  <2>2. /\ ride.totalPausedMs + paused \in Nat
        /\ ride.paidUntilAt + credit \in Nat
    BY <1>1, <1>2 DEF RideRow
  <2>3. ride.status = "active"
    BY DEF ResumeRide, Active
  <2> QED BY <1>1, <2>1, <2>2, <2>3 DEF RideRow, NotPaused
<1>4. midPause = 0 => credited + credit = Lesser(ride.totalPausedMs + paused, Grace)
  BY <1>1, CreditSplits DEF ClockInv, Accounted, ResumeRide
<1>5. ride.totalPausedMs + paused <= now
  BY <1>1 DEF ResumeRide, ClockInv, Accounted, RideRow, IsPaused, NotPaused, AtLeastZero
<1> HIDE DEF credit, paused
<1>6. /\ now' = now /\ credited' = credited + credit
      /\ forgiven' = forgiven /\ extensions' = extensions /\ midPause' = midPause
  BY DEF ResumeRide, credit
<1>7. Active /\ ride.paidUntilAt = ride.totalTariffMs + credited + forgiven
      /\ ride.totalTariffMs > 0
  BY DEF ResumeRide, ClockInv, Accounted
<1> QED BY <1>1, <1>2, <1>3, <1>4, <1>5, <1>6, <1>7
        DEF ClockInv, ClockTypeOK, RideRow, Accounted, Active, IsPaused, NotPaused

LEMMA ExtendInv ==
    ASSUME ClockInv, NEW tariff \in Tariffs, ExtendRide(tariff)
    PROVE  ClockInv'
<1> DEFINE credit == PendingPauseCredit(ride, now)
           skipped == AtLeastZero(now - EffectivePaidUntil(ride, now))
<1>1. ClockTypeOK /\ ride \in RideRow /\ now \in Nat
  BY DEF ClockInv, ClockTypeOK
<1>2. /\ credit \in Nat /\ skipped \in Nat
      /\ tariff \in Nat /\ tariff > 0
      /\ ExtensionBase(ride, now) = ride.paidUntilAt + credit + skipped
  BY <1>1, CreditType, DurationAssumption
  DEF ExtensionBase, Greater, AtLeastZero, EffectivePaidUntil, RideRow
<1>3. /\ ride'.status = "active"
      /\ ride'.startedAt = ride.startedAt
      /\ ride'.pausedAt = ride.pausedAt
      /\ ride'.totalPausedMs = ride.totalPausedMs
      /\ ride'.paidUntilAt = ride.paidUntilAt + credit + skipped + tariff
      /\ ride'.totalTariffMs = ride.totalTariffMs + tariff
      /\ ride' \in RideRow
  <2> HIDE DEF credit, skipped
  <2>1. /\ ExtensionBase(ride, now) + tariff \in Nat
        /\ ride.totalTariffMs + tariff \in Nat
    BY <1>1, <1>2 DEF RideRow
  <2>2. ride' = [ride EXCEPT !.paidUntilAt = ExtensionBase(ride, now) + tariff,
                             !.totalTariffMs = ride.totalTariffMs + tariff]
    BY DEF ExtendRide
  <2> HIDE DEF ExtensionBase
  <2> QED BY ZenonT(60), <1>1, <1>2, <2>1, <2>2 DEF ExtendRide, RideRow, Active
<1>4. midPause' = 0 => midPause = 0 /\ ~IsPaused(ride) /\ credit = 0
  BY <1>1 DEF ExtendRide, ClockTypeOK, PendingPauseCredit
<1>5. midPause' \in Nat
  BY <1>1 DEF ExtendRide, ClockTypeOK
<1> HIDE DEF credit, skipped
<1>6. /\ now' = now /\ extensions' = extensions + 1
      /\ credited' = credited + credit /\ forgiven' = forgiven + skipped
  BY DEF ExtendRide, credit, skipped
<1>7. Active /\ ride.paidUntilAt = ride.totalTariffMs + credited + forgiven
      /\ (midPause = 0 => credited = Lesser(ride.totalPausedMs, Grace))
      /\ ride.totalTariffMs > 0
      /\ ride.totalPausedMs <= IF ride.pausedAt # NotPaused THEN ride.pausedAt ELSE now
  BY DEF ExtendRide, ClockInv, Accounted, IsPaused
<1> QED BY <1>1, <1>2, <1>3, <1>4, <1>5, <1>6, <1>7
        DEF ClockInv, ClockTypeOK, RideRow, Accounted, Active, IsPaused

(* The bill of a ride that ends now, against what is accounted for.         *)
LEMMA SettledBounds ==
    ASSUME ClockInv, Active
    PROVE  LET due == now - (ride.totalTariffMs + credited + PendingPauseCredit(ride, now))
           IN  /\ SettledMinutes(ride, now) \in Nat
               /\ SettledMinutes(ride, now) > 0 => SettledMinutes(ride, now) * Minute <= due
               /\ forgiven = 0 => due < (SettledMinutes(ride, now) + 1) * Minute
<1> DEFINE credit == PendingPauseCredit(ride, now)
           deadline == ride.totalTariffMs + credited + forgiven + credit
           minutes == SettledMinutes(ride, now)
<1>1. /\ now \in Nat /\ credited \in Nat /\ forgiven \in Nat /\ credit \in Nat
      /\ ride.totalTariffMs \in Nat /\ ride.totalTariffMs > 0
      /\ ride.startedAt = 0
      /\ ride.paidUntilAt = ride.totalTariffMs + credited + forgiven
      /\ Minute \in Nat /\ Minute > 0
  BY CreditType, DurationAssumption DEF ClockInv, ClockTypeOK, RideRow, Accounted
<1> HIDE DEF credit
<1>2. minutes = IF now <= deadline THEN 0 ELSE (now - deadline) \div Minute
  BY <1>1 DEF SettledMinutes, ExtraMinutes, credit
<1> HIDE DEF minutes
<1>3. CASE now <= deadline
  <2>1. minutes = 0 /\ (minutes + 1) * Minute = Minute
    BY <1>1, <1>2, <1>3
  <2> QED BY <1>1, <1>3, <2>1 DEF minutes, credit
<1>4. CASE ~(now <= deadline)
  <2> DEFINE over == now - deadline
  <2>1. over \in Nat /\ minutes = over \div Minute
    BY <1>1, <1>2, <1>4
  <2> HIDE DEF over
  <2>2. minutes \in Nat /\ minutes * Minute <= over /\ over < (minutes + 1) * Minute
    BY <1>1, <2>1, DivBounds
  <2>3. minutes * Minute \in Nat /\ (minutes + 1) * Minute \in Nat
    BY <1>1, <2>2
  <2> DEFINE billed == minutes * Minute
             next == (minutes + 1) * Minute
  <2> HIDE DEF billed, next
  <2>4. /\ billed <= now - (ride.totalTariffMs + credited + credit)
        /\ forgiven = 0 => now - (ride.totalTariffMs + credited + credit) < next
    BY <1>1, <2>2, <2>3 DEF over, billed, next
  <2> QED BY <2>2, <2>4 DEF minutes, credit, billed, next
<1> QED BY <1>3, <1>4

LEMMA EndInv ==
    ASSUME ClockInv, EndRide
    PROVE  ClockInv'
<1> DEFINE credit == PendingPauseCredit(ride, now)
           paused == IF IsPaused(ride) THEN AtLeastZero(now - ride.pausedAt) ELSE 0
           minutes == SettledMinutes(ride, now)
           billed == minutes * Minute
           next == (minutes + 1) * Minute
<1>1. ClockTypeOK /\ ride \in RideRow /\ now \in Nat /\ Active
  BY DEF ClockInv, ClockTypeOK, EndRide
<1>2. credit \in Nat /\ paused \in Nat /\ minutes \in Nat
  BY <1>1, CreditType, SettledBounds DEF RideRow, NotPaused, AtLeastZero
<1>3. /\ minutes > 0 => billed <= now - (ride.totalTariffMs + credited + credit)
      /\ forgiven = 0 => now - (ride.totalTariffMs + credited + credit) < next
  BY <1>1, SettledBounds
<1>4. midPause = 0 => credited + credit = Lesser(ride.totalPausedMs + paused, Grace)
  <2>1. CASE IsPaused(ride)
    BY <1>1, <2>1, CreditSplits DEF ClockInv, Accounted
  <2>2. CASE ~IsPaused(ride)
    BY <1>1, <2>2 DEF ClockInv, Accounted, PendingPauseCredit, RideRow, ClockTypeOK
  <2> QED BY <2>1, <2>2
<1>5. /\ ride'.status = "completed"
      /\ ride'.startedAt = ride.startedAt
      /\ ride'.pausedAt = ride.pausedAt
      /\ ride'.totalPausedMs = ride.totalPausedMs + paused
      /\ ride'.totalTariffMs = ride.totalTariffMs
      /\ ride'.extraMinutes = minutes
      /\ ride'.endedAt = now
      /\ ride' \in RideRow
  <2>1. ride' = [ride EXCEPT !.status = "completed", !.endedAt = now,
                    !.extraMinutes = minutes,
                    !.totalPausedMs = ride.totalPausedMs + paused]
    BY DEF EndRide
  <2>2. ride.totalPausedMs + paused \in Nat
    BY <1>1, <1>2 DEF RideRow
  <2> HIDE DEF paused, minutes
  <2> QED BY <1>1, <1>2, <2>1, <2>2 DEF RideRow
<1> HIDE DEF credit, paused, minutes
<1>6. /\ now' = now /\ credited' = credited + credit
      /\ forgiven' = forgiven /\ extensions' = extensions /\ midPause' = midPause
  BY DEF EndRide, credit
<1>7. ~Active'
  BY <1>5 DEF Active
<1>8. NothingBilledTwice' /\ EveryMinuteIsBilled'
  <2>1. /\ ride.startedAt = 0
        /\ ride.totalTariffMs \in Nat /\ credited \in Nat
    BY <1>1 DEF ClockInv, ClockTypeOK, RideRow
  <2>2. billed \in Nat /\ next \in Nat
    BY <1>2, DurationAssumption
  <2>3. /\ ride'.extraMinutes * Minute = billed
        /\ (ride'.extraMinutes + 1) * Minute = next
    BY <1>5
  <2> HIDE DEF billed, next
  <2> QED BY <1>1, <1>2, <1>3, <1>5, <1>6, <1>7, <2>1, <2>2, <2>3
          DEF NothingBilledTwice, EveryMinuteIsBilled
<1>9. ClockTypeOK' /\ Accounted' /\ ride'.pausedAt <= now'
  BY <1>1, <1>2, <1>5, <1>6, <1>7 DEF ClockInv, ClockTypeOK, Accounted
<1> QED BY <1>4, <1>5, <1>6, <1>7, <1>8, <1>9 DEF ClockInv

LEMMA ClockStep == ClockInv /\ [ClockNext]_clockVars => ClockInv'
<1> SUFFICES ASSUME ClockInv, [ClockNext]_clockVars PROVE ClockInv'
  OBVIOUS
<1>1. CASE Tick
  BY <1>1, TickInv
<1>2. CASE PauseRide
  BY <1>2, PauseInv
<1>3. CASE ResumeRide
  BY <1>3, ResumeInv
<1>4. CASE \E tariff \in Tariffs : ExtendRide(tariff)
  BY <1>4, ExtendInv
<1>5. CASE EndRide
  BY <1>5, EndInv
<1>6. CASE UNCHANGED clockVars
  BY <1>6 DEF clockVars, ClockInv, ClockTypeOK, Accounted, Active, NothingBilledTwice,
     EveryMinuteIsBilled
<1> QED BY <1>1, <1>2, <1>3, <1>4, <1>5, <1>6 DEF ClockNext, RideEvent

LEMMA ClockInductive == ClockSpec => []ClockInv
BY ClockInitInv, ClockStep, PTL DEF ClockSpec

-----------------------------------------------------------------------------
(* The row of the ride and the sums stay well typed: no credit, no deadline *)
(* and no bill of pause.ts, extendRide and endRide is ever negative.        *)
THEOREM ClockTypeCorrect == ClockSpec => []ClockTypeOK
<1>1. ClockInv => ClockTypeOK
  BY DEF ClockInv
<1> QED BY <1>1, ClockInductive, PTL

(* Whatever the grace and however often the rider pauses, the deadline has  *)
(* moved by exactly the free time that was used.                            *)
THEOREM CreditIsExact == ClockSpec => []CreditIsFrozenTime
<1>1. ClockInv => CreditIsFrozenTime
  <2> SUFFICES ASSUME ClockInv, midPause = 0
               PROVE  CreditIsFrozenTime
    BY DEF CreditIsFrozenTime
  <2>1. CASE Active /\ IsPaused(ride)
    <3>1. credited = Lesser(ride.totalPausedMs, Grace)
      BY <2>1 DEF ClockInv, Accounted
    <3>2. FrozenSoFar(ride, now)
            = Lesser(ride.totalPausedMs + AtLeastZero(now - ride.pausedAt), Grace)
      BY <2>1, DurationAssumption
      DEF ClockInv, ClockTypeOK, RideRow, FrozenSoFar, IsPaused, NotPaused, Lesser, AtLeastZero
    <3> QED BY <2>1, <3>1, <3>2, CreditSplits DEF ClockInv, CreditIsFrozenTime
  <2>2. CASE Active /\ ~IsPaused(ride)
    BY <2>2, DurationAssumption
    DEF ClockInv, ClockTypeOK, RideRow, Accounted, CreditIsFrozenTime, FrozenSoFar,
        PendingPauseCredit, Lesser
  <2>3. CASE ~Active
    BY <2>3 DEF ClockInv, CreditIsFrozenTime
  <2> QED BY <2>1, <2>2, <2>3
<1> QED BY <1>1, ClockInductive, PTL

(* No minute is both bought (or given for free by a pause) and billed as    *)
(* overtime by endRide.                                                     *)
THEOREM NoMinuteTwice == ClockSpec => []NothingBilledTwice
<1>1. ClockInv => NothingBilledTwice
  BY DEF ClockInv, NothingBilledTwice
<1> QED BY <1>1, ClockInductive, PTL

(* endRide bills every completed minute of overtime of a ride that was      *)
(* never extended in overtime.                                              *)
THEOREM NoMinuteLost == ClockSpec => []EveryMinuteIsBilled
<1>1. ClockInv => EveryMinuteIsBilled
  BY DEF ClockInv, EveryMinuteIsBilled
<1> QED BY <1>1, ClockInductive, PTL

(* The countdown and the time shown as ridden add up to what was bought.    *)
THEOREM DisplaysAgree == ClockSpec => []DisplaysAreComplements
<1>1. ClockInv /\ CreditIsFrozenTime => DisplaysAreComplements
  <2> SUFFICES ASSUME ClockInv, CreditIsFrozenTime, Active, midPause = 0,
                      LiveRemaining(ride, now) > 0
               PROVE  LiveElapsed(ride, now) + LiveRemaining(ride, now)
                        = ride.totalTariffMs + forgiven
    BY DEF DisplaysAreComplements
  <2> DEFINE credit == PendingPauseCredit(ride, now)
             frozen == FrozenSoFar(ride, now)
  <2>1. /\ now \in Nat /\ credited \in Nat /\ forgiven \in Nat /\ credit \in Nat
        /\ ride.totalTariffMs \in Nat /\ ride.startedAt = 0
        /\ ride.paidUntilAt = ride.totalTariffMs + credited + forgiven
        /\ credited + credit = frozen
        /\ frozen <= now
    <3>1. credited + credit = frozen
      BY DEF CreditIsFrozenTime
    <3>2. credit \in Nat
      BY CreditType DEF ClockInv
    <3> HIDE DEF credit
    <3>3. frozen <= now
      BY DurationAssumption
      DEF ClockInv, ClockTypeOK, RideRow, Accounted, FrozenSoFar, IsPaused, NotPaused,
          Lesser, AtLeastZero
    <3> QED BY <3>1, <3>2, <3>3 DEF ClockInv, ClockTypeOK, RideRow, Accounted
  <2>2. LiveElapsed(ride, now) = AtLeastZero((now - ride.startedAt) - frozen)
    BY DEF LiveElapsed
  <2>3. LiveRemaining(ride, now) = AtLeastZero((ride.paidUntilAt + credit) - now)
    BY DEF LiveRemaining, EffectivePaidUntil
  <2> HIDE DEF credit, frozen
  <2>4. /\ LiveRemaining(ride, now) = ride.paidUntilAt + credit - now
        /\ LiveElapsed(ride, now) = now - frozen
    BY <2>1, <2>2, <2>3 DEF AtLeastZero
  <2> QED BY <2>1, <2>4
<1> QED BY <1>1, CreditIsExact, ClockInductive, PTL

(* What endRide bills is what computeLiveOverage showed at that moment.     *)
THEOREM BilledAsShown == ClockSpec => BillIsWhatWasShown
<1>1. ClockInv /\ [ClockNext]_clockVars
        => [(Active /\ ~Active') => ride'.extraMinutes = LiveOverage(ride, now)]_clockVars
  <2> SUFFICES ASSUME ClockInv, ClockNext, Active, ~Active'
               PROVE  ride'.extraMinutes = LiveOverage(ride, now)
    OBVIOUS
  <2>1. EndRide
    <3>1. /\ ~Tick /\ ~PauseRide
          /\ \A tariff \in Tariffs : ~ExtendRide(tariff)
      BY DEF Tick, PauseRide, ExtendRide, Active, ClockInv, ClockTypeOK, RideRow
    <3>2. ~ResumeRide
      BY DEF ResumeRide, Resumed, Active, ClockInv, ClockTypeOK, RideRow
    <3> QED BY <3>1, <3>2 DEF ClockNext, RideEvent
  <2>2. ride'.extraMinutes = SettledMinutes(ride, now)
    BY <2>1 DEF EndRide, ClockInv, ClockTypeOK, RideRow
  <2> QED BY <2>2 DEF SettledMinutes, LiveOverage, EffectivePaidUntil
<1> QED BY <1>1, ClockInductive, PTL DEF ClockSpec, BillIsWhatWasShown

(* Between extensions only the clock moves the deadline, by the time that   *)
(* passes, while a pause is within its free budget.                         *)
THEOREM DeadlineIsSteady == ClockSpec => DeadlineMovesOnlyInFreePause
<1> DEFINE Steady == (Active /\ Active' /\ extensions' = extensions) =>
               EffectivePaidUntil(ride', now') - EffectivePaidUntil(ride, now)
                  = IF IsPaused(ride) /\ RemainingFreeGrace(ride, now) > 0
                    THEN now' - now ELSE 0
<1>1. ClockInv /\ [ClockNext]_clockVars => [Steady]_clockVars
  <2> SUFFICES ASSUME ClockInv, ClockNext, Active, Active', extensions' = extensions
               PROVE  EffectivePaidUntil(ride', now') - EffectivePaidUntil(ride, now)
                        = IF IsPaused(ride) /\ RemainingFreeGrace(ride, now) > 0
                          THEN now' - now ELSE 0
    OBVIOUS
  <2>1. /\ now \in Nat /\ ride \in RideRow /\ ClockTypeOK
        /\ ride.pausedAt <= now
        /\ EffectivePaidUntil(ride, now) \in Nat
    BY CreditType DEF ClockInv, ClockTypeOK
  <2>2. CASE Tick
    BY <2>1, <2>2, DurationAssumption
    DEF Tick, EffectivePaidUntil, PendingPauseCredit, RemainingBudget, RemainingFreeGrace,
        FrozenSoFar, AtLeastZero, Lesser, IsPaused, NotPaused, RideRow
  <2>3. CASE PauseRide
    BY <2>1, <2>3, DurationAssumption
    DEF PauseRide, EffectivePaidUntil, PendingPauseCredit, RemainingBudget, AtLeastZero,
        Lesser, IsPaused, NotPaused, RideRow
  <2>4. CASE ResumeRide
    <3>1. /\ now' = now /\ ride'.pausedAt = NotPaused
          /\ ride'.paidUntilAt = ride.paidUntilAt + PendingPauseCredit(ride, now)
      BY <2>1, <2>4 DEF ResumeRide, Resumed, RideRow
    <3>2. PendingPauseCredit(ride', now') = 0
      BY <3>1 DEF PendingPauseCredit, IsPaused
    <3>3. /\ PendingPauseCredit(ride, now) \in Nat /\ ride.paidUntilAt \in Nat
          /\ EffectivePaidUntil(ride, now) = ride.paidUntilAt + PendingPauseCredit(ride, now)
      BY <2>1, CreditType DEF EffectivePaidUntil, RideRow
    <3>4. EffectivePaidUntil(ride', now') = ride'.paidUntilAt + 0
      BY <3>2 DEF EffectivePaidUntil
    <3>5. now' - now = 0
      BY <2>1, <3>1
    <3> QED BY <3>1, <3>3, <3>4, <3>5
  <2>5. ~EndRide /\ \A tariff \in Tariffs : ~ExtendRide(tariff)
    <3>1. EndRide => ride'.status = "completed"
      BY <2>1 DEF EndRide, RideRow
    <3>2. \A tariff \in Tariffs : ExtendRide(tariff) => extensions' # extensions
      BY <2>1 DEF ExtendRide, ClockTypeOK
    <3> QED BY <3>1, <3>2 DEF Active
  <2> QED BY <2>2, <2>3, <2>4, <2>5 DEF ClockNext, RideEvent
<1> QED BY <1>1, ClockInductive, PTL DEF ClockSpec, DeadlineMovesOnlyInFreePause

=============================================================================
