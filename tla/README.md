# Verification of the bike-sharing server

This directory is a TLA+ model of the server's core: the rows that riders, smart
locks, the bank, background sweeps and the back office write concurrently, and the
properties those writes must keep. Paths are relative to `src/`; a file named without its
directory is the one section 1 introduces.

## 1. The system

A Node process serves an HTTP API (Express), a TCP gateway for OMNI smart locks and
a few timers. All durable state is in one PostgreSQL database; promises of pending
unlocks, armed pauses and ends, caches and event buses live in the memory of the
process and are gone after a restart. Node runs one callback at a time, so the
interleavings are those of the `await`s: a handler may be overtaken by any other
handler, timer or lock report at each of them. Transactions take row locks
(`FOR UPDATE`) and a per-rider advisory lock.

| Component | State | Operations | What is hard |
| --- | --- | --- | --- |
| Ride lifecycle (`server/storage/ride.ts`) | `rides`, `bikes.status`, `wallet`, `payments` | start, unlock after the commit, compensation, pause, resume, extend, end, force-end | the unlock is outside the transaction; its answer may be late, refused or never come; the process may die in between |
| Reservations (`reservation.ts`) | `reservations`, `bikes.status` | create, cancel, claim (by a start), expiry sweep with two passes, nearing-expiry notice | the same bike is claimed, expired, cancelled and edited at once |
| Back office (`bike.ts`, `ticket.ts`, `http/catalog.ts`) | `bikes` | edit, archive, restore, delete, tickets, manual unlock | handlers read, await, and write by id |
| OMNI gateway (`omni/server.ts`) | connections, pending unlocks, command mutex, auth cache | bind, release, unlock, echo, revoke, admit | echoes are matched by lock and not by command; reconnects replace connections |
| Lock reports (`omni/store.ts`) | `locks`, `rides` pause columns, `bikes` | closure report, echo, alarm, telemetry | duplicated and late frames; one frame's handler spans several awaits |
| Pause and end handshake (`pause-registry.ts`, `pending-end-registry.ts`, `storage.ts`) | in-memory armed intents | arm, cancel, expire, settle with retries | an intent meets its closure report late, twice or never |
| Ride clock (`shared/pause.ts`, `shared/billing.ts`) | `paid_until_at`, `paused_at`, `total_paused_ms` | credit of paused time, overage, extension | boundaries of the free budget; extension in the middle of a pause |
| Boot (`db/bootstrap.ts`) | indexes, one-off repairs | deduplicate, re-rank, repair | runs against live data at every start |
| Acquiring (`http/payments.ts`, `payments/tbank-handlers.ts`, `tbank.ts`, `payment-method.ts`) | `payment_orders`, `wallet_topup_orders`, `payment_methods` | init, charge, webhook, binding, polls, refund of the verifying rouble | repeated and concurrent notifications, lost answers, a crash between claim and grant |
| Event streams (`http/rides.ts`, `http/stream-session.ts`, `storage/events.ts`; in the client `use-active-ride-stream.tsx`, `queryClient.ts`, `SessionBoundary.tsx`) | open streams, the push under way; the tab's cache and generation | event, check the session, re-read, send; connect, watchdog, poll, change of accounts | an event during a push; frames and answers of the session before; connections that die silently |
| Codes and login (`storage/otp.ts`, `http/auth.ts`, `sms.ts`) | `otp_requests`, `phone_change_requests`, sessions | send, verify, register, change the phone, log out | two requests with one number or one code; sessions saved after the fact |
| Users (`storage/user.ts`, `http/account.ts`) | `users` | profile, deletion | a login under way when the account goes |
| Alerts, support, feedback, push, analytics, parking geometry, the rest of the client | | | CRUD, queries, geometry, views |

What makes each component correct:

- *rides*: one active ride per bike; a rented bike has a ride; a rider has at most
  `MAX_ACTIVE_RIDES_PER_USER` rides in distinct slots; money taken equals money
  charged; a failed start is refunded exactly and once; nobody loses a bike during a
  ride except to an operator or a theft alarm;
- *reservations*: one hold per bike, honoured for its holder, used up by the start,
  and never leaving a bike stuck;
- *back office*: an edit cannot break the above whatever it raced with;
- *clock*: paused time is credited within the budget, and the shown, settled and
  charged overage agree;
- *handshake*: a ride ends only on a lock that reported closed; a rider with a
  closed lock always has a way on;
- *payments*: nothing is granted before the bank has the money, an order is granted
  and a card is charged once, captured money comes to a paid order; the rouble of a
  card verification is claimed by one caller and comes back or is recorded as stuck;
- *gateway*: the slot of a lock holds a live socket, a decommissioned lock is cut off,
  every reported opening reaches somebody, the online flag settles;
- *accounts*: one account per phone, one use and a bounded number of guesses per code,
  and a deleted account stays erased;
- *streams*: the last state wins, a tab shows its rider's rides only, no stream outlives
  its session, and a tab that missed something catches up.

`PROJECT.json` lists the hazards line by line, each with the properties that watch it.

## 2. Modules

Eight modules divide the core, along the states that the code itself keeps apart:

- who holds which bike and what was paid (`Rental`, which implements the promise of
  `BikeLease`), what the paid time is worth
  (`RideClock`), and what the server may conclude about a lock it cannot close
  (`LockHandshake`). They share the ride's life (`active`, then `completed` or
  `cancelled`) and are otherwise independent: the clock columns never decide who gets a
  bike, and `Rental` takes "the lock reported closed" and the amount of overage, which
  the other two are about, as inputs;
- `OmniGateway` is the connection to one lock, on which the commands of `Rental` and the
  reports of `LockHandshake` travel: those two take it as a channel that may lose,
  delay and refuse;
- `PaidOrders` is what the acquiring does for rides, extensions, overage and the wallet,
  and implements the promise of `PaidOnce`; `Rental` charges the wallet directly, and
  a ride of `PaidOrders` is one that may be under way or not;
- `CardBinding` is how a card comes to be usable for `PaidOrders`;
- `Accounts` is how a rider comes to be one;
- `RideStream` is how a rider's tab comes to show what `Rental` wrote: the rides of an
  account are a version that changes, the session a name in the browser's cookie.

An action is what the code does between two `await`s that others can overtake: one
committed transaction, one autocommitted statement, or one callback.

### BikeLease, Rental, MCRental, RentalProofs

| Variable | Code |
| --- | --- |
| `bikes` | `bikes.status` |
| `lockState` | `locks.last_lock_state` |
| `command`, `staffWaiting` | the L0 command on its way and its echo; the pending promise of a staff unlock (`pendingUnlocks`, `imeiCommandInFlight`) |
| `rides`, `reservations`, `wallet` | the tables; rows are only ever added; a ride carries the sums of its ledger rows |
| `starts` | where `startRide` stands after the commit of its ride |
| `requests` | a back-office request that has read and not yet written, or written and not yet cancelled the reservations |

| Actions | Code |
| --- | --- |
| `StartRide` | the transaction of `startRide`, guards in order |
| `SendUnlock`, `UnlockRejected`, `UnlockTimeout`, `UnlockRefused`, `EchoPersisted`, `EchoResolved` | `sendUnlockCommand`, its timer, the two halves of `record` for an echo, the repair of an unattended open lock |
| `AbortReads`, `AbortCommits` | `abortUnstartedRide`: the lock is read before the transaction |
| `ExtendRide` | the wallet side of `extendRide`; it asks only for an active ride, so the unlock may still be pending |
| `EndRide` | the transaction of `endRide`; geofence and amounts are inputs |
| `LockReport`, `AutoLost`, `AutoOffline` | closure report, theft streak at its threshold, low battery |
| `CreateReservation`, `CancelReservation`, `ExpireOverdue`, `FreeOrphans`, `TtlPasses` | `reservation.ts`; `TtlPasses` is time |
| `OperatorReads`, `OperatorWrites`, `OperatorCancels`, `StaffUnlock`, `StaffUnlockTimeout` | `adminUpdateBike`, `archiveBike`, `restoreBike`, `deleteBike`, `createTicket`, `updateTicket`, the unlock routes |
| `Restart` | death of the process and the repairs of `createRideRaceGuardIndexes` |

Abstracted: where the bike is, battery (a Boolean input), tariffs (prepaid or one
price), amounts of overage (a small set), texts, notices. Overage on a card of a
prepaid ride leaves the wallet alone and is left to Payments. `MCRental` adds what
only TLC uses: symmetry and the fairness of the sweep.

`BikeLease` is what all of this is for, with the rest left out: a set of leases (bike,
rider, what the start took) and the wallets, and four steps - begin, extend, close, undo.
A lease begins on a bike that is not let, for a rider below the limit; undoing it gives
back what beginning it took. `Rental` maps its active rides to leases
(`ImplementsBikeLease`); every other action, restarts included, is a stutter.

### RideClock, RideClockProofs

One ride that starts at 0, on an integer clock whose moments stand for any number of
milliseconds.

| Variable | Code |
| --- | --- |
| `ride` | the columns `status`, `paid_until_at`, `paused_at`, `total_paused_ms`, `total_tariff_ms`, and the overage that `endRide` settles |
| `now` | `Date.now()` |
| `credited`, `forgiven`, `extensions`, `midPause` | history: no code; they record where the deadline came from |

| Actions, operators | Code |
| --- | --- |
| `Tick` | time |
| `PauseRide` | the pause of a bike without a lock, and the pause a closure report confirms |
| `ResumeRide`, `Resumed` | the transaction of `resumeRide` |
| `ExtendRide`, `ExtensionBase` | the transaction of `extendRide`, which anchors on the deadline or, in overtime, on now |
| `EndRide`, `SettledMinutes` | the overage of `endRide`, which assembles the deadline itself |
| `RemainingBudget`, `PendingPauseCredit`, `FrozenSoFar`, `EffectivePaidUntil`, `LiveOverage`, `LiveElapsed`, `LiveRemaining`, `RemainingFreeGrace` | the functions of `shared/pause.ts` |
| `ExtraMinutes` | `computeOverage` of `shared/billing.ts` |

Left out: test rides, which are not billed; rides older than the column
`paid_until_at`; the moment between the receipt of a closure report and the write of
`paused_at`.

### LockHandshake, LockHandshakeProofs

One ride on one bike whose lock has opened. The server cannot close a lock: it arms an
expectation in memory and waits for the lock's closure report (L1).

| Variable | Code |
| --- | --- |
| `lock`, `unlocking`, `fix`, `parked` | the device: its state, an L0 on its way, a GPS fix younger than `LOCK_GPS_LIVE_MS`, the verdict of the geofence |
| `status`, `paused`, `lockedAt` | `rides.status`, `paused_at`, `physically_locked_at` |
| `pendingPause`, `pendingEnd` | the maps of the two registries; an expired entry is no entry |
| `settling` | `settleEndWithRetry` under way |
| `taps` | where each of the rider's requests stands between its reads and its writes |
| `reports` | where the handler of each closure report stands |
| `leaving` | the rider has parked and wants to go; no code |

| Actions | Code |
| --- | --- |
| `RequestEnd`, `ArmEnd`, `TapSettles`, `CancelEnd` | `requestEndRide`: fast path or arming; `cancelPendingEnd` |
| `RequestPause`, `ArmPause` | `requestPauseRide` |
| `Resume`, `ResumeUnlocks`, `ResumeReturns` | `resumeRide`: transaction, command after the commit, answer |
| `CloseLock`, `RepeatReport`, `LockOpens`, `UnlockIsLost` | the lock |
| `HandleReport`, `WriteFlag`, `WritePause`, `WriteAuto` | the closure branch of the lock store: armed end, then armed pause, then the automatic pause; each write is a later statement |
| `SettleTries`, `SettleGivesUp` | the attempts of `settleEndWithRetry` and the end of its window |
| `PauseExpires`, `EndExpires` | the TTLs of the registries |
| `ForceEnd`, `Restart` | the staff's end of a ride; death of the process, after which the lock repeats what was not acknowledged |

Merged or left out: several settlement loops of one ride are one; the staff's unlock
of a ridden bike; the next ride on the same bike, which a late report may pause too.

### PaidOnce, PaidOrders, PaidOrdersProofs

`PaidOnce` is the abstract promise: money is taken, then something is granted, then the
order says paid, and none of it is undone. `PaidOrders` has one rider, one bike and
orders of five kinds (top-up and start on the hosted form; start, extension and overage
on a saved card). A worker is a request or a notification being handled.

| Variable | Code |
| --- | --- |
| `orders` | `payment_orders` and `wallet_topup_orders`: status, ride, and whether a paid order keeps the reason why its ride did not start |
| `bank`, `owed` | external: the payment at the bank, and the notifications it has no "OK" for |
| `workers` | where each handler stands, with what it has read |
| `current`, `others`, `rides` | the rider's active ride on the bike, whether somebody else rides it, how many rides there were |
| `applied`, `charges`, `overtaken` | history: grants and charges of each order, deliveries that were acknowledged while another handler was at work |

| Actions | Code |
| --- | --- |
| `InitRide`, `InitTopUp` | the hosted form (`Init` and the insert) |
| `ChargeSavedCard`, `ExtendSavedCard`, `ChargeOverage`, `Reserve`, `InitCharge`, `Charge`, `GiveUp` | the saved-card routes and `chargeRideOverageWithSavedCard`: look up the key, insert under the unique index, `Init`, `Charge` and its answer |
| `NoticeArrives`, `Claim` | `handleTbankNotification`: read the order, claim it by a conditional update |
| `RecordFailure`, `TopUp`, `ExtendForPaidOrder`, `LookForRide`, `StartForPaidOrder`, `WritePaid`, `PayOverage`, `BookOverage` | what an answer leads to, for requests and notifications alike, statement by statement |
| `StatementThrows`, `Crash` | a failing statement (the webhook releases its claim and answers 500), the death of the process |
| `EndRide`, `RentFromWallet`, `OthersRide` | the rest of the world, as far as it decides whether a ride can start |

### CardBinding, MCCardBinding, CardBindingProofs

The attempts of one rider to bind a card: with a rouble on the bank's form
(`Verifications`) or without a payment (`AddCards`).

| Variable | Code |
| --- | --- |
| `rows` | `payment_methods`: status, card, whether the identifier to ask the bank by is stored, `refund_status` |
| `bank`, `boundTo`, `money`, `owed` | external: the attempt at the bank, the card it bound, the rouble, notifications without an "OK" |
| `workers` | the requests, polls and notifications, and the refund that outlives them |

| Actions | Code |
| --- | --- |
| `BindCard`, `Supersede`, `InsertMethod`, `IdentifyMethod` | a new attempt: unfinished ones are failed, then the insert, then the identifier |
| `AskBank`, `Reconcile`, `Recheck` | the list, the poll and the first half of a cancellation: `reconcileBinding` |
| `Unlink`, `RemoveCard`, `DeleteMethod` | the deletion of a method |
| `NoticeArrives`, `FindDuplicate`, `Activate`, `FailMethod`, `RereadRow`, `DeleteDuplicates` | what an answer or a notification leads to, `updatePaymentMethod` in its three statements |
| `ClaimRefund`, `CancelPayment`, `NoteRefund` | the refund: claim, three attempts, outcome |

### OmniGateway, OmniGatewayProofs

One lock: every map of the gateway is keyed by its IMEI.

| Variable | Code |
| --- | --- |
| `row` | `locks.status` |
| `socket`, `lookup`, `owner` | connections, where `bind` stands for each, `byImei` |
| `cache` | `imeiCache` |
| `writes` | statements about presence that have not landed |
| `pending`, `inFlight`, `answer` | `pendingUnlocks`, `imeiCommandInFlight`, what callers were told |
| `lock`, `echo`, `told` | the device, its echoes, the openings that went to the reconciliation of open bikes |
| `calls`, `raced` | edits whose call of the gateway is to come; the last revocation met a lookup that had already succeeded |

| Actions | Code |
| --- | --- |
| `Register`, `EditStatus`, `Admit`, `Revoke` | the lock routes of `http/catalog.ts`, then `admitImei`, `revokeImei` |
| `Accept`, `Closes` | sockets, their timers and errors; `release` |
| `FirstFrame`, `SelectRow`, `UpdateRow`, `LookupFails`, `Resolved`, `CacheExpires` | `bind` and `resolveAuth`, each statement of the lookup apart |
| `Reports`, `WriteLands`, `SweepOfflineLocks` | presence: `setLockOnline`, the reports of `store.ts`, the sweep |
| `SendUnlockCommand`, `SendRejected`, `UnlockTimesOut`, `EchoArrives`, `ResolveUnlock`, `LockActs` | commands; an echo is persisted first and then resolves whatever is pending |
| `Stops`, `Listen` | `close` or death, and the start with `resetAllLocksOffline` |

### Accounts, MCAccounts, AccountsProofs

A browser has one session and one request at a time.

| Variable | Code |
| --- | --- |
| `account` | `users`: phone, and whether the row is deleted |
| `otp`, `change` | `otp_requests` by phone, `phone_change_requests` by user |
| `session` | `userId`, `pendingPhone` |
| `request` | the request under way, with what it has read |
| `wrong`, `used`, `overlapped` | history: guesses and uses of a code; accounts deleted while a change of their phone was being started |

| Actions | Code |
| --- | --- |
| `StartOtp`, `PurgeExpired` | `startOtp`, the purge |
| `VerifyReads`, `VerifyFails`, `VerifySucceeds` | the transaction of `verifyOtp` with the row of the phone locked |
| `UserIsRead`, `PendingIsSaved`, `SessionIsRegenerated` | what the route does after it |
| `RegisterComplete`, `InsertUser`, `InsertConflicts`, `WinnerIsRead` | `completeRegistration` under the partial unique index |
| `StartPhoneChange`, `ChangeIsAsked`, `ChangeFails`, `ChangeSucceeds`, `PurgeChange` | the change of the phone |
| `DeleteAccount`, `Logout`, `CurrentUser`, `RequestDies` | `deleteAccount`, the session routes, a request that ends half-way |

Timestamps are not modelled: a code expires and the resend lock passes at any time,
which is to say that what would succeed may always be refused.

### RideStream, MCRideStream, RideStreamProofs

One tab of a browser and the server's streams.

| Variable | Code |
| --- | --- |
| `truth`, `unsaid` | the version of each account's rides; committed changes whose event is still to be emitted (`rideEvents`) |
| `session`, `barred` | whose session the cookie holds, with its id; accounts that staff have blocked |
| `conns` | the handlers of the stream: owner, `sending` and `dirty`, what was read and written, frames on the way, and whether the connection is dead |
| `tab` | the account the tab was told of, the one its stream is for, whether the generation has changed since, and what it shows |
| `poll`, `who`, `notices` | the requests for the rides and for the current user; notices of other tabs |

| Actions | Code |
| --- | --- |
| `Change`, `Emit` | a write of the rides, and the event after its commit |
| `OtherTab`, `SessionEnds`, `SetUserBlocked` | another tab signs in or out and announces it; a revocation or an expiry, which nobody announces; the block |
| `CheckSession`, `CheckFails`, `ReadRides`, `ReadFails`, `WriteFrame`, `Heartbeat`, `Cleanup` | `push` with its three awaits, `streamSessionValid`, the heartbeat, the end of the stream |
| `Render`, `Connect`, `Frame`, `StreamErrors`, `Watchdog`, `Reconnect` | the effect of `useActiveRideStream` |
| `PollReads`, `PollReturns`, `WhoReads`, `WhoReturns`, `NoticeArrives` | `getQueryFn`, `acceptSessionUser`, `SessionBoundary` |
| `Die`, `Restart` | the network; the process |

Abstracted: versions are counted over all accounts, so that one account's rides are
never mistaken for another's; pushes and frames are faster than heartbeats; the tab
connects when a slot of `Conns` is free. A login of this very tab is not modelled (it
resets the tab at once). `OwnRidesOnly` speaks of riders: a guest's tab may keep what
was read in a session that began and ended in between, silently, until the next poll.
A frame on its way may also be older than what a poll has just shown, although the
comment of the hook takes polls for the older ones; the next push repairs it.

### Runs and bounds

| Run | Instance | Question |
| --- | --- | --- |
| `rental_unlock` | 1 fitted bike, 2 riders, 2 rides, 1 operator, restarts | Do failures around the unlock keep rows, bike and money consistent, does each wallet hold what its rides left of it, are leases kept (`BikeLease`), and does a bike enter the pool only on a lock seen closed? Two rides on one bike suffice for a late answer of the first to meet the second |
| `rental_hold` | 1 bike without a lock, 2 riders, 2 rides, 2 reservations, 1 operator, fair sweep | Are holds exclusive and honoured, does no sweep take a rented bike, and is a reserved bike always let go of? |
| `rental_rider` | 1 rider, 3 bikes, 4 rides, limit 2, restarts | Do slots stay distinct and in range over ends, starts and boots? Four rides allow a hole in the numbering to be refilled and re-ranked |
| `clock_bill` | grace 2, minute 2, tariffs 2 and 3, 2 extensions, 12 moments | Do free, shown and billed time agree? 12 moments fit two pauses that use up the grace, an extension in time, one in overtime and a billed minute after it; tariffs that are and are not multiples of a minute |
| `handshake_end` | 1 request, 2 reports, lost unlocks, restarts | Is a ride paused or ended by its rider only with its lock closed? Two reports: one under way while the lock is closed again |
| `handshake_leave` | 1 request, 2 reports, repeated reports, fairness | Does the ride of a rider who leaves end? |
| `orders` | 1 order of any of the five kinds, 2 workers, 2 rides, 2 failing statements, 1 crash, fairness | Is what is bought paid for, once, and does captured money come to a paid order? Two workers make two deliveries, or a request and its notification, meet; orders share nothing but the bike, whose state the rest of the world changes freely |
| `orders_extend` | 1 extension, 2 workers, no faults | Refutes a statement of a comment; see section 4 |
| `binding` | 1 verification and 1 attempt without payment, 1 card, 2 workers, 1 failing statement, 1 crash | Is the rouble claimed once, is it accounted for, is a card active once? Two attempts of the same card and two handlers are what each of these needs |
| `gateway` | 2 connections, 1 command, 1 stop, fairness | Is the registry sound, is a decommissioned lock cut off, is no opening unheard, does the online flag settle? Two connections make a reconnection; `Rental` has two commands in a row |
| `accounts` | 2 browsers, 2 phones, 3 accounts, 3 codes, 2 guesses | Do numbers, codes and deletions survive what two browsers do at once? Two browsers race for a number, three accounts let one be deleted and its number taken again, three codes replace one another |
| `stream` | 2 accounts, 1 connection, 1 change, 1 change of accounts, 1 fault, fairness | Does the last state win, does a tab show its own rides, does a revoked stream close, does the tab catch up? One change during a push and one account after another are what the hazards need; the theorems have any number |

Ids bound every unbounded table: a run with two ride ids sees at most two rides.
Deadlock checking is off in all runs: with ids used up and nobody acting, or a ride
over, the system rests. Riders and operators are symmetric in `rental_unlock`, handlers
in `binding`, browsers, phones and accounts in `accounts`; the runs with a liveness
property use no symmetry.

### Fairness

- `ReservedBikeIsFreed` (`FairSpec` of `MCRental`): weak fairness of the passage of
  time and of the two passes of the sweep, which `index.ts` runs from a `setInterval`
  every minute, each in a `try` of its own. Nothing is assumed of riders, operators
  or locks.
- `LeavingEnds` (`FairHandshakeSpec`): callbacks, statements and timers of the process
  run; the lock answers; a rider who leaves closes the lock and keeps tapping "end"
  when nothing is armed. Its premise, a GPS fix that stays, is what live tracking
  (D1) gives: the settlement retries every 15 seconds and a fix counts as live for
  `LOCK_GPS_LIVE_MS`, five minutes. The fix may come and go for as long as it likes
  before. The run assumes neither lost unlocks nor restarts: `ClosedRideCanReopen`
  (section 4) shows what a ride that is closed and not paused comes to, and a resume
  whose unlock is lost is in the same state.
- `CapturedIsSettled` (`FairOrdersSpec`): handlers run on, and the bank repeats a
  confirmation it has no "OK" for, as its protocol promises. The property excepts a
  process that died while an order was "processing" and a delivery acknowledged while
  another was at work: neither is ever repaired (section 4).
- `StatusSettles` (`FairGatewaySpec`): the process is restarted, its lookups, statements
  and timers run, and a lock that is connected goes on reporting (the gateway drops one
  that is silent). Nothing is assumed of operators.
- `RevokedStreamCloses`, `TabCatchesUp` (`FairStreamSpec`): events, pushes and
  heartbeats run; the browser renders, connects, delivers and notices silence; the tab
  asks who it is, and the notices of other tabs arrive. Nothing is assumed of the poll
  of the rides: the stream has to do alone.

### Planned

1. `RideNotices`: the expiry sweeps that claim a notice and then send it, against
   extensions and pauses, over `RideClock`.
2. The alarm streak and the newest-report guard of the lock store, and the batched
   telemetry writer with its buffer limit.
3. Row locks: transactions that lock the same rows in different orders.

## 3. Proofs

Every theorem holds for all values of the constants under the `ASSUME`s of its module.

`RentalProofs`: thirteen theorems, `TypeCorrect`, `BikeIsRiddenOnce`, `RentedIsBacked`,
`SlotsAreKept`, `RefundsAreExact`, `BikeIsHeldOnce`, `HoldsAreHonoured`,
`RidersKeepTheirBikes`, `PoolEntriesSawClosedLock`, `RentalImplementsBikeLease`,
`WalletsFollowTheLedger`, `WalletsBalance`, `NobodyEverProfits`. Assumed: fitted bikes
are bikes, money is natural, the price and the limit are positive, ids are natural,
operators assign only what the schema lets them. The inductive invariant `RideInv` is
the type invariant with a finite rides table, and

- `OneActiveRidePerBike` and `RentedBikeHasRide`: together they make the end of a ride
  leave no rented bike behind, because the ride that ends was the only one;
- `RidersKeepToTheirSlots` with a cap on the number of active rides: the free slot
  exists and is in range because distinct slots in `1..MAX` number at most `MAX`
  (`FreeSlotExists`, by well-founded minimum over the naturals), and the boot's ranks
  are distinct and in range because there are at most `MAX` active rides;
- `ActiveRideChargedAtStart`: what makes the refund equal the charge - a ride that is
  still active has been charged its start price and nothing else beside extensions.

`OneActiveReservationPerBike` needs only types. The action properties follow from lemmas
that say which actions write the rides (`RideWriters`) and the reservations
(`ReservationWriters`), and which of them can take a bike out of `rented`.
`WalletsFollowTheLedger` says of every step that at most one ride comes to cost
something else, and that its rider's wallet, and no other, moves by that amount: four
actions move money (`StartMoves`, `AbortMoves`, `ExtendMoves`, `EndMoves`), and all
others leave every cost alone (`SameCost`).

`WalletsBalance` sums these steps up: a wallet is what it was at first less what its
rider's rides have cost, over the whole table. The sum is a recursive function
(`PrefixSum`), and the library's theorems on induction and recursion take an operator as
their parameter. A set does as well: a set of numbers with 0 and every successor is all
of them (`NatSetInduction`, from the well-founded minimum). With it, partial sums exist
and agree (`SumsExist`, `SumsAgree`), so the recursive function is what its definition
says (`PrefixSumEquation`), and two sums whose summands differ at one place differ by as much
from there on (`SumShift`): a step that moves one ride's cost moves the sum, and the
wallet, by the same amount. The invariant is `Balanced`, for any number that no ride's id
is above, with `Bounded`: there always is one. `NobodyEverProfits` follows with
`RefundMatchesCharge`: what each ride has cost is not negative, so neither is the sum.

`RentalImplementsBikeLease` rests on `RideInv`: that the ride which ends takes its own
lease along and no other (`LeaseEnds`) is `OneActiveRidePerBike`, that an aborted start
gives back what its lease was begun for is `ActiveRideChargedAtStart`, and that a rider
below the cap has leases below it is a surjection from rides to leases (`LeasesAreRides`).
`PoolEntriesSawClosedLock` needs `RentedBikeHasRide` for the boot, which makes rented
bikes available without asking their locks: it finds none to repair. The two windows it
leaves, an abort and an operator's edit that act on an earlier answer, are where the
stronger statement fails (`NoOpenBikeInPool`, section 4).

`RideClockProofs`: seven theorems, `ClockTypeCorrect`, `CreditIsExact`,
`NoMinuteTwice`, `NoMinuteLost`, `DisplaysAgree`, `BilledAsShown`, `DeadlineIsSteady`,
for every grace, billing unit, set of positive tariffs and number of extensions. The
inductive invariant `ClockInv` accounts for the deadline: it is what was bought, plus
what pauses credited, plus the overtime that extensions skipped (`Accounted`); what
was paused so far fits before the pause under way; and the credit is the time paused
up to the grace, unless a pause was extended. `CreditSplits` is the arithmetic heart: a
pause under way adds exactly what is left of the budget. `DivBounds` and
`SettledBounds` carry the account through the floor of `computeOverage`.

`LockHandshakeProofs`: four theorems, `HandshakeTypeCorrect`, `PausedIsClosed`,
`SettlementIsClosed`, `EndIsClosed`, for any number of reports and requests, with lost
unlocks, restarts and every delay. The invariant `HandshakeInv` says that each sign from
which the server concludes that the lock is closed - a report not handled, a settlement,
either column - implies that the lock is closed and nothing is about to open it, and
that signs exclude one another as far as `resumeRide`, which forgets the columns only,
needs it; of several requests one resumes. The last three theorems assume that no
handled report is repeated (`~MayRepeat`), and `EndIsClosed` also one request of the
rider at a time (`OneTap`), because only then does the fast path still know what it has
read (`TapsKnow`). Both are needed, and neither is enforced by the server:

- with two requests, one reads `paused_at`, the other resumes and opens the lock, and
  the first ends the ride with the lock open (`EndNeedsClosure` fails); a paused ride and
  a settlement do not depend on it;
- with a repeated report, the automatic pause pauses a ride that was resumed
  (`PausedMeansClosed` fails), and an end that was armed meanwhile settles with the lock
  open.

`OmniGatewayProofs`: three theorems, `RegistryStaysSound`, `RevocationHolds`,
`OpeningsReachSomebody`. The first invariant (`NetInv`) is `RegistryIsSound` with the
types and two facts: only an accepted connection is looked up, and an echo follows what
its lock did. `RevocationHolds` needs in addition that no lookup that succeeded waits
behind a revocation (`NobodyIsLetIn`). `OpeningsReachSomebody` counts: a step that
resolves no echo changes neither side of the equation (`OthersAreSilent`), a step that
does adds one to each; it assumes that the commands are finitely many.

`PaidOrdersProofs`: six theorems, for any number of orders of each kind, handlers,
repeated notifications, failing statements and restarts: `OrdersAreTyped`,
`NothingIsFree`, `CardChargedOnce`, `OrdersGrantOnce`, `MoneyIsKept` and
`OrdersImplementPaidOnce`. They share one inductive invariant, `OrdersInv`:

- `Employed`: a handler at work has an order, whose row is there unless it is about to
  insert it; the bank knows nothing of an order without a row;
- `Backed`: a confirmation on its way, a handler that acts on one, a grant and a paid
  order all have captured money behind them (`NothingIsFree`);
- `Keyed`: of the requests with one key at most one is between its row and the charge,
  and then the card has not been charged (`CardChargedOnce`);
- `Claimed`: the claim of an order of the hosted form has one holder, and an order whose
  grant is still to come has been granted at most once for each statement that failed
  (`OrdersGrantOnce`);
- `Decided`: who acts on a refusal has one of the bank, and only the overage can give up
  or has a step after the order is paid - without it captured money could come to an
  order that says "failed";
- `Kept`: captured money has its confirmation outstanding, or an order that says paid
  and no claim that could take it back, or a handler on the way there (`MoneyIsKept`).
  A claim and an acknowledged delivery meet here: the second delivery of a
  confirmation is acknowledged while the first is at work, which is why the property
  has to except `overtaken` orders.

The refinement maps each step of the orders of the hosted form to `PaidOnce`: the
capture at the bank takes the money, the first `TopUp` or `StartForPaidOrder` grants,
`WritePaid` settles (without a grant where the ride could not start), and every other
step, among them every repetition, restart and failing statement, stutters.

`CardBindingProofs`: four theorems, `BindingsAreTyped`, `RefundsAreSingle`,
`CardsHaveOneRow`, `RoublesAreAccounted`, for any number of attempts, cards and
handlers: all that the run `binding` checks. The invariant `BindingInv` has, beside the
types,

- `RefundsAreClaimed`: a worker that refunds has its row marked `pending`, which only it
  takes off again, in the step in which it stops refunding; so there is one
  (`RefundsAreSingle`);
- `BankAgrees`: what the bank did in an attempt determines its card and its rouble, and
  an active row has the card of its attempt; `OpenedOnce`: an attempt is opened by one
  worker, and before the bank knows it; `Informed`: who activates, or gives a rouble
  back, has the bank's word, and a notification that says "bound" is answered on the way
  to a refund only. These three are what keeps a late step of one worker from
  contradicting another's;
- `Settling`: of two active rows with one card, a worker is about to delete one. It
  survives because each worker deletes after it has activated (`CardsHaveOneRow`);
- `RefundsHappened`, `RefundsPursued`: a refund that is noted happened, and, while no
  statement failed and the process did not die, a pending refund and a rouble that is
  due each have a worker on the way (`RoublesAreAccounted`). Nobody else takes a
  refund over, so every step has to keep its worker on it (`PursuitGoesOn`), and the
  acknowledgement that ends a handler makes no rouble due (`AnswersAreLast`).

Looking for these proofs showed two `CASE` expressions with overlapping guards, in
`Reconcile` (`CardBinding`) and `WriteLands` (`OmniGateway`): TLC takes the first guard
that holds, TLA+ leaves the value open. Both are disjuncts now.

`AccountsProofs`: four theorems, `AccountsAreTyped`, `PhonesAreUnique`,
`CodesAreUsedOnce`, `DeletionIsFinal`. The invariant `AccountsInv` has a ledger
(`Ledger`): a row of a code counts exactly the guesses and the uses of that code, no two
rows have one code, and codes not sent yet are fresh; with the lock on the row
(`LockedRows`: what a verification has read is what the row says) a lost update is
impossible. `ErasedForGood` strengthens `DeletedStaysErased`: a deleted account has no
pending change of phone and no request that is about to ask for one.

`RideStreamProofs`: three theorems, `StreamIsTyped`, `LastStateAlwaysWins`,
`OnlyOwnRides`, for any number of accounts, connections, changes, logins and faults.
`LastStateWins` is about streams at rest; its invariant `PushesAreCurrent` also says
that a push that is about to write, and will not run again, has read the database's
state. `OnlyOwnRides` collects whom the tab has heard of or may yet hear of - the
cookie, what is shown, requests and frames on their way that count (`Heard`) - and shows
that, with no notice outstanding, this is one account (`OneRider`).

Type invariants are stated by theorems and checked by no run.

Only model-checked: the liveness properties (`ReservedBikeIsFreed`, `LeavingEnds`,
`CapturedIsSettled`, `StatusSettles`, `RevokedStreamCloses`, `TabCatchesUp`), which are
out of the prover's reach, and the violation. Every safety property of the runs is a
theorem.

## 4. Where comments and code disagree

Shown by a run:

| Run | Statement | What the code does |
| --- | --- | --- |
| `orders_extend` | the balance and ledger effects of an extension can only ever run once per order (`payments/tbank-handlers.ts:83`) | a saved-card extension is applied by its request, which does not claim the order (`payments.ts:998`), and by the webhook of the same charge, which does (`tbank-handlers.ts:140`) |

Six more are stated by definitions that TLC refutes when they are added to a run of
their module:

| Definition | Statement | What the code does |
| --- | --- | --- |
| `CombinedBudget` (`Rental`) | reservations and rides share one budget (`server/storage/reservation.ts:34`) | `startRide` counts rides only (`ride.ts:375`) |
| `NoOpenBikeInPool` (`Rental`) | a bike with an open lock never re-enters the pool (`ride.ts:852`) | the abort uses a lock state read before its transaction (`ride.ts:584`) |
| `BootUpdatesNothing` (`Rental`) | the boot's statements match nothing on a healthy database (`bootstrap.ts:62`) | ranks are newest first, slots lowest free first; the swap violates the unique index and the boot fails (`bootstrap.ts:98`) |
| `UndoneRideIsFree` (`Rental`) | a failed unlock is compensated fully (`ride.ts:501`) | an extension bought while the unlock was pending stays charged (`ride.ts:524`) |
| `ClosedRideCanReopen` (`LockHandshake`) | an active and closed ride that cannot be reopened was a bug, and the automatic pause closes the gap (`omni/store.ts:406`) | a closure that consumed an armed end does not pause; when its settlement gives up, the ride is in that state (`omni/store.ts:360`) |
| `CreditWithinGrace` (`RideClock`) | once the budget is used up, paused time no longer extends the deadline (`shared/geo.ts:64`) | an extension in the middle of a pause stores the pause's credit, and the resume credits the pause again (`ride.ts:1187`) |

Further disagreements met while reading, visible in the models but without a run.

Rides and locks:

- "a bike led out of reserved takes its reservation with it" (`bike.ts:359`):
  `createTicket` moves the bike to maintenance and leaves the reservation active
  (`ticket.ts:74`);
- an archived bike must not come back unattended (`bike.ts:430`): `endRide` writes the
  status by id (`ride.ts:856`), so a bike archived during its ride can become available;
- "never leave a charged rider with a bike still locked" (`ride.ts:501`): a restart
  forgets the pending unlock (`ride.ts:518`), and no repair of the boot compensates it;
- "overtime pauses, extension counts down, overtime resumes" (`ride.ts:1176`): the
  overtime before the extension is forgiven, not resumed (`ride.ts:1177`);
- a `paused_at` is as reliable as `physically_locked_at` (`ride.ts:1013`): not between
  the fast path's read and `endRide`, see the two requests of section 3;
- a repeated closure report cannot reset a resume (`omni/store.ts:423`): the guard
  `paused_at IS NULL` is exactly what a resume re-establishes;
- an armed pause and an armed end are mutually exclusive (`omni/store.ts:347`):
  `requestPauseRide` does not clear an armed end (`ride.ts:985`), so a rider who changes
  his mind from ending to pausing has the ride ended when the lock closes;
- the automatic pause closes the only gap (`omni/store.ts:410`): a resume whose unlock
  fails is already committed (`ride.ts:1115`) and leaves the ride closed and not paused.


Payments:

- a failing statement after a top-up was credited releases the claim, and the repeated
  notification credits it again (`tbank-handlers.ts:445-450`);
- a process that dies between the claim and the end of its handler leaves the order
  "processing": every later notification loses the claim and is acknowledged
  (`payment-method.ts:483`);
- a delivery that loses the claim is acknowledged at once (`tbank-handlers.ts:342`); when
  the winner then fails, nobody asks again;
- the request that charged a saved card and the webhook of that charge may both look
  for a ride and start it: the second is refused, and its order says paid with the
  reason of the refusal while the ride runs; two paid starts of one bike reuse one ride;
- a process that dies between the reservation of an order and `Charge` leaves a pending
  order that every request with its key replays (`payments.ts:667`);
- an overage whose answer is lost is recorded as failed over a "paid" that the webhook
  wrote (`ride.ts:180`);
- "the row lock covers it" (`payment-method.ts:457`): `endRide` reads the ride's paid
  order before its transaction (`ride.ts:688`).

Cards:

- giving up unfinished attempts fails rows by id (`binding-reconciliation.ts:249`),
  among them one that a notification has just made active, against the comment above
  it (237);
- two attempts of one card at once each delete the other's row
  (`payment-method.ts:249-266`), so that the rider may end up without a card;
- a page loaded between the insert of a row and its identifier fails the row
  (`tbank-handlers.ts:867-873`); a stale answer of the bank overwrites a newer one; a
  cancellation can delete a card that became active meanwhile, without telling the bank
  (`payments.ts:128-132`);
- a failure between the activation and the claim of the refund leaves the rouble
  unclaimed, one after it leaves it pending for good (`tbank-handlers.ts:792-801`); a
  reversed payment is not among the states that fail a binding.

Gateway:

- a lookup that succeeded before a revocation binds the lock after it and caches the
  verdict (`omni/server.ts:439`), against the comment of `revokeImei`; in the same way a
  lookup that found no row caches "no" after `admitImei`;
- an edit that reactivates a decommissioned lock does not call `admitImei`
  (`catalog.ts:366-378`): the cached refusal stays for its five minutes;
- the guard on the time of a report (`omni/store.ts:626-633`) does not cover the status
  that another statement writes;
- `onUnsolicitedUnlockEcho` is called for refusals too (`omni/server.ts:606`), and the
  late echo of one command answers the next one; a packet that is only queued counts
  as not sent.

Accounts:

- "deleteAccount already revokes every session, so this path shouldn't be reachable"
  (`otp.ts:294`): a login under way saves its session after the deletion
  (`auth.ts:40`);
- "a code is never burned without the rider being created" (`otp.ts:106`): a new number
  uses its code up in `verifyOtp` and the account is created by a later request, and a
  session that cannot be saved burns it too;
- two simultaneous requests for a code both pass the resend lock (`otp.ts:21`): two
  messages, of which the later code works;
- a change of phone that is being started while its account is deleted can give the
  deleted row a phone; the login by that phone then finds it and fails for good
  (`otp.ts:142`, which does not look at `deleted_at`).

## 5. Not modelled

Geometry, frame codecs, texts, analytics, support, feedback, push and the views of the
client: pure functions, queries or deliveries without shared state that concurrency
could break. Lock-order deadlocks inside PostgreSQL are not visible in models whose
transactions are atomic. The change of an e-mail address mirrors the change of a phone;
OAuth, the signing of requests to the bank and the delivery of messages are calls of
outside services. The admin's event stream has the form of the rider's; notices are
planned (section 2).
