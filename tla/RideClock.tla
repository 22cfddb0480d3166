------------------------------ MODULE RideClock ------------------------------
(***************************************************************************)
(* The paid time of one ride: what pauses, extensions and overtime do to   *)
(* the deadline, to the countdown the rider watches and to the final bill. *)
(*                                                                         *)
(*   shared/pause.ts          the arithmetic, shared by server and client  *)
(*   shared/billing.ts        computeOverage                               *)
(*   server/storage/ride.ts   pause, resumeRide, extendRide, endRide       *)
(*   server/omni/store.ts     the pause that a closed lock confirms        *)
(*                                                                         *)
(* Each action is one transaction (resumeRide, extendRide and endRide lock *)
(* the ride's row).  The ride starts at 0; a moment of the clock stands for*)
(* any number of milliseconds.  Test rides, which are not billed, and rides*)
(* from before the column paid_until_at are left out, as is the moment     *)
(* between the receipt of a closure report and the write of paused_at.     *)
(***************************************************************************)
EXTENDS Integers

CONSTANTS
    Grace,          \* PAUSE_FREE_GRACE_MS
    Minute,         \* MINUTE_MS, the unit in which overtime is billed
    Tariffs,        \* the durations on sale
    MaxExtensions,  \* bound of the model: extensions of the ride
    MaxTime         \* bound of the model: the clock

ASSUME DurationAssumption ==
    /\ Grace \in Nat
    /\ Minute \in Nat /\ Minute > 0
    /\ Tariffs \subseteq Nat \ {0}

ASSUME BoundAssumption == MaxExtensions \in Nat /\ MaxTime \in Nat

VARIABLES
    now,            \* Date.now(), in moments since the start
    ride,           \* the row of the ride
    credited,       \* history: the pause credit added to paidUntilAt so far
    forgiven,       \* history: the overtime that extensions skipped
    extensions,     \* history: how often the ride was extended ...
    midPause        \* history: ... and how often while it was paused

clockVars == <<now, ride, credited, forgiven, extensions, midPause>>

NotPaused == -1     \* paused_at IS NULL

(* The columns of rides that matter; extraMinutes and endedAt are settled   *)
(* by endRide.                                                              *)
RideRow == [status: {"active", "completed"}, startedAt: Nat, paidUntilAt: Nat,
            pausedAt: Nat \cup {NotPaused}, totalPausedMs: Nat,
            totalTariffMs: Nat, extraMinutes: Nat, endedAt: Nat]

ClockTypeOK ==
    /\ now \in Nat
    /\ ride \in RideRow
    /\ credited \in Nat /\ forgiven \in Nat
    /\ extensions \in Nat /\ midPause \in Nat

-----------------------------------------------------------------------------
(* shared/pause.ts and shared/billing.ts.                                   *)

AtLeastZero(x) == IF x < 0 THEN 0 ELSE x

Lesser(x, y) == IF x < y THEN x ELSE y

Greater(x, y) == IF x < y THEN y ELSE x

IsPaused(r) == r.pausedAt # NotPaused

(* Mutant: every pause starts with a fresh budget.                          *)
RemainingBudgetMutant(r) == Grace

RemainingBudget(r) == AtLeastZero(Grace - r.totalPausedMs)

(* What the pause under way would add to paidUntilAt if it ended now.       *)
PendingPauseCredit(r, t) ==
    IF IsPaused(r) THEN Lesser(AtLeastZero(t - r.pausedAt), RemainingBudget(r)) ELSE 0

(* The free budget used up so far, the pause under way included.            *)
FrozenSoFar(r, t) ==
    Lesser(IF IsPaused(r)
           THEN r.totalPausedMs + Lesser(AtLeastZero(t - r.pausedAt),
                                         AtLeastZero(Grace - r.totalPausedMs))
           ELSE r.totalPausedMs,
           Grace)

(* Mutant: the deadline ignores the pause under way.                        *)
EffectivePaidUntilMutant(r, t) == r.paidUntilAt

EffectivePaidUntil(r, t) == r.paidUntilAt + PendingPauseCredit(r, t)

(* Mutant: a minute is complete only when the next one has begun.           *)
ExtraMinutesMutant(used, paid) ==
    IF paid <= 0 \/ used <= paid THEN 0 ELSE (used - paid - 1) \div Minute

(* Only completed minutes beyond the paid time are billed.                  *)
ExtraMinutes(used, paid) ==
    IF paid <= 0 \/ used <= paid THEN 0 ELSE (used - paid) \div Minute

LiveOverage(r, t) ==
    ExtraMinutes(t - r.startedAt, EffectivePaidUntil(r, t) - r.startedAt)

LiveElapsed(r, t) == AtLeastZero((t - r.startedAt) - FrozenSoFar(r, t))

LiveRemaining(r, t) == AtLeastZero(EffectivePaidUntil(r, t) - t)

RemainingFreeGrace(r, t) == AtLeastZero(Grace - FrozenSoFar(r, t))

-----------------------------------------------------------------------------
ClockInit ==
    /\ now = 0
    /\ \E tariff \in Tariffs :
          ride = [status |-> "active", startedAt |-> 0, paidUntilAt |-> tariff,
                  pausedAt |-> NotPaused, totalPausedMs |-> 0,
                  totalTariffMs |-> tariff, extraMinutes |-> 0, endedAt |-> 0]
    /\ credited = 0 /\ forgiven = 0
    /\ extensions = 0 /\ midPause = 0

Active == ride.status = "active"

Tick ==
    /\ now < MaxTime
    /\ now' = now + 1
    /\ UNCHANGED <<ride, credited, forgiven, extensions, midPause>>

(* The lock reported closed, or the bike has no lock and the rider asked.   *)
PauseRide ==
    /\ Active
    /\ ~IsPaused(ride)
    /\ ride' = [ride EXCEPT !.pausedAt = now]
    /\ UNCHANGED <<now, credited, forgiven, extensions, midPause>>

(* Mutant: the time that was paused is not added up.                        *)
ResumedMutant(r, t) ==
    [r EXCEPT !.pausedAt = NotPaused,
              !.paidUntilAt = @ + PendingPauseCredit(r, t)]

Resumed(r, t) ==
    [r EXCEPT !.pausedAt = NotPaused,
              !.totalPausedMs = @ + AtLeastZero(t - r.pausedAt),
              !.paidUntilAt = @ + PendingPauseCredit(r, t)]

ResumeRide ==
    /\ Active
    /\ IsPaused(ride)
    /\ ride' = Resumed(ride, now)
    /\ credited' = credited + PendingPauseCredit(ride, now)
    /\ UNCHANGED <<now, forgiven, extensions, midPause>>

(* Mutant: the extension counts from now although paid time is left.        *)
ExtensionBaseMutant(r, t) == t

(* An extension counts from the deadline, or from now once that has passed. *)
ExtensionBase(r, t) == Greater(t, EffectivePaidUntil(r, t))

(* A pause under way goes on: its start and the time paused before stay.    *)
ExtendRide(tariff) ==
    /\ Active
    /\ extensions < MaxExtensions
    /\ ride' = [ride EXCEPT !.paidUntilAt = ExtensionBase(ride, now) + tariff,
                            !.totalTariffMs = @ + tariff]
    /\ credited' = credited + PendingPauseCredit(ride, now)
    /\ forgiven' = forgiven + AtLeastZero(now - EffectivePaidUntil(ride, now))
    /\ extensions' = extensions + 1
    /\ midPause' = midPause + (IF IsPaused(ride) THEN 1 ELSE 0)
    /\ UNCHANGED now

(* Mutant: the bill ignores the pause under way.                            *)
SettledMinutesMutant(r, t) == ExtraMinutes(t - r.startedAt, r.paidUntilAt - r.startedAt)

(* What endRide bills: it puts the deadline together itself.                *)
SettledMinutes(r, t) ==
    ExtraMinutes(t - r.startedAt,
                 (r.paidUntilAt + PendingPauseCredit(r, t)) - r.startedAt)

(* pausedAt stays as it is when a paused ride ends.                         *)
EndRide ==
    /\ Active
    /\ ride' = [ride EXCEPT !.status = "completed", !.endedAt = now,
                  !.extraMinutes = SettledMinutes(ride, now),
                  !.totalPausedMs = @ + (IF IsPaused(ride)
                                         THEN AtLeastZero(now - ride.pausedAt) ELSE 0)]
    /\ credited' = credited + PendingPauseCredit(ride, now)
    /\ UNCHANGED <<now, forgiven, extensions, midPause>>

RideEvent ==
    \/ PauseRide
    \/ ResumeRide
    \/ \E tariff \in Tariffs : ExtendRide(tariff)
    \/ EndRide

ClockNext == Tick \/ RideEvent

ClockSpec == ClockInit /\ [][ClockNext]_clockVars

-----------------------------------------------------------------------------
(* Safety.                                                                  *)

(* The credit that moved the deadline and the free budget the rider is      *)
(* shown as used are the same amount, at every moment of every sequence of  *)
(* pauses and resumes; an extension in the middle of a pause is the one     *)
(* exception (see CreditWithinGrace).                                       *)
CreditIsFrozenTime ==
    midPause = 0 =>
        IF Active
        THEN credited + PendingPauseCredit(ride, now) = FrozenSoFar(ride, now)
        ELSE credited = Lesser(ride.totalPausedMs, Grace)

(* A billed minute lies beyond everything the rider bought and everything   *)
(* the pauses gave for free, however the ride was extended and paused.      *)
NothingBilledTwice ==
    (~Active /\ ride.extraMinutes > 0) =>
        ride.extraMinutes * Minute + ride.totalTariffMs + credited
            <= ride.endedAt - ride.startedAt

(* Of a ride that was never extended in overtime every full minute beyond   *)
(* the bought and the free time is billed.                                  *)
EveryMinuteIsBilled ==
    (~Active /\ forgiven = 0) =>
        (ride.endedAt - ride.startedAt) - ride.totalTariffMs - credited
            < (ride.extraMinutes + 1) * Minute

(* The countdown is the complement of the time shown as ridden, relative to *)
(* what was bought: the two displays of shared/pause.ts never disagree.     *)
DisplaysAreComplements ==
    (Active /\ midPause = 0 /\ LiveRemaining(ride, now) > 0) =>
        LiveElapsed(ride, now) + LiveRemaining(ride, now)
            = ride.totalTariffMs + forgiven

(* Action properties.                                                       *)

(* The bill is the overage the rider saw at that moment: endRide and the    *)
(* live display put the deadline together separately.                       *)
BillIsWhatWasShown ==
    [][(Active /\ ~Active') => ride'.extraMinutes = LiveOverage(ride, now)]_clockVars

(* No pause or resume makes the countdown or the overage jump; the deadline *)
(* moves with the clock exactly while a pause is within its free budget.    *)
DeadlineMovesOnlyInFreePause ==
    [][(Active /\ Active' /\ extensions' = extensions) =>
          EffectivePaidUntil(ride', now') - EffectivePaidUntil(ride, now)
              = IF IsPaused(ride) /\ RemainingFreeGrace(ride, now) > 0
                THEN now' - now ELSE 0]_clockVars

-----------------------------------------------------------------------------
(* What comments of the code say and the code does not keep.                *)

(* "Once this cumulative budget is used up, further paused time no longer   *)
(* extends paidUntilAt": the credit of a whole ride is at most the grace.   *)
CreditWithinGrace == credited <= Grace

=============================================================================
