------------------------------- MODULE Rental -------------------------------
(***************************************************************************)
(* The rental core of the bike-sharing server: what happens to a bike, its *)
(* rides and its reservations when riders, the OMNI lock, the minute sweep,*)
(* the telemetry pipeline and the back office all write the same rows.     *)
(*                                                                         *)
(*   server/storage/ride.ts         startRide, abortUnstartedRide, endRide *)
(*   server/storage/reservation.ts  create, cancel, expire, orphan pass    *)
(*   server/storage/bike.ts         admin edits, archive, late-echo repair *)
(*   server/storage/ticket.ts       service tickets that move a bike       *)
(*   server/omni/{server,store}.ts  unlock command, its echo, auto-lost,   *)
(*                                  auto-offline                           *)
(*   server/db/bootstrap.ts         partial unique indexes, boot repairs   *)
(*                                                                         *)
(* One action is one committed transaction or one autocommitted statement; *)
(* everything a handler does after an await is a later action, so what it  *)
(* read before the await may be stale.  Row locks (FOR UPDATE, the per-user*)
(* advisory lock) are what makes each transaction one action.              *)
(***************************************************************************)
EXTENDS Integers, FiniteSets

CONSTANTS
    Bikes,              \* the fleet
    Fitted,             \* the bikes with a smart lock (bikes.lock_imei set)
    Users,              \* riders
    RideIds,            \* serial ids of the rides table
    ReservationIds,     \* serial ids of the reservations table
    Operators,          \* back-office requests that can be in flight at once
    Assignable,         \* the statuses operators PATCH a bike to
    MaxActiveRides,     \* MAX_ACTIVE_RIDES_PER_USER
    Price,              \* the tariff price, in kopecks
    Overages,           \* the overage amounts endRide may compute
    InitialBalance,     \* what each wallet holds at first
    MayRestart          \* whether the server process may die and boot again

ASSUME FleetAssumption == Fitted \subseteq Bikes

ASSUME MoneyAssumption ==
    /\ Price \in Nat /\ Price > 0
    /\ Overages \subseteq Nat
    /\ InitialBalance \in Nat

ASSUME LimitAssumption == MaxActiveRides \in Nat /\ MaxActiveRides > 0

ASSUME IdAssumption == RideIds \subseteq Nat /\ ReservationIds \subseteq Nat

(* BIKE_STATUSES and OPERATOR_ASSIGNABLE_BIKE_STATUSES of shared/schema.ts. *)
BikeStatus == {"available", "rented", "reserved", "maintenance",
               "offline", "storage", "lost", "archived"}

OperatorAssignable == BikeStatus \ {"rented", "reserved"}

ASSUME AssignableAssumption == Assignable \subseteq OperatorAssignable

ASSUME RestartAssumption == MayRestart \in BOOLEAN

VARIABLES
    bikes,          \* bikes.status
    lockState,      \* locks.last_lock_state of the lock fitted to the bike
    command,        \* the L0 unlock command of the bike's lock, as far as its
                    \* positive echo is concerned
    staffWaiting,   \* bikes whose unlock was sent for staff, promise pending
    rides,          \* the rides table: a function on the ids inserted so far
    reservations,   \* the reservations table, likewise
    wallet,         \* wallet.balance
    starts,         \* how far startRide got after the commit of its ride
    requests        \* back-office requests between two of their statements

vars == <<bikes, lockState, command, staffWaiting, rides, reservations,
          wallet, starts, requests>>

-----------------------------------------------------------------------------
RideStatus == {"active", "completed", "cancelled"}

(* slot is rides.active_slot (0 stands for NULL); charged (for the start and*)
(* the overage), extended and refunded are the sums of the ride's wallet    *)
(* rows in the payments ledger.                                             *)
Ride == [bike: Bikes, user: Users, status: RideStatus, slot: Nat,
         prepaid: BOOLEAN, charged: Nat, extended: Nat, refunded: Nat]

ReservationStatus == {"active", "claimed", "expired", "cancelled"}

(* aged says that RESERVATION_TTL_MS have passed since created_at, that is, *)
(* that expires_at = created_at + TTL is not in the future any more.        *)
Reservation == [bike: Bikes, user: Users, status: ReservationStatus,
                aged: BOOLEAN]

(* "committed": ride inserted, unlock not sent yet; "unlocking": the promise*)
(* of sendUnlockCommand is pending; "failed": it was rejected; "abortClosed"*)
(* and "abortOpen": abortUnstartedRide has read the lock's state; "lost":   *)
(* the process died while the request was in one of these.                  *)
StartPhase == {"none", "committed", "unlocking", "failed",
               "abortClosed", "abortOpen", "lost", "done"}

CommandState == {"none", "sent", "persisted"}

OperatorOp == {"patch", "archive", "restore", "delete", "ticket", "ticketReturn"}

(* target is the status the handler will write; cancels says that it will   *)
(* cancel the bike's reservations next.                                     *)
Request == [bike: Bikes, target: OperatorAssignable, cancels: BOOLEAN,
            step: {"write", "cancel"}]

TypeOK ==
    /\ bikes \in [Bikes -> BikeStatus]
    /\ lockState \in [Bikes -> {"locked", "unlocked"}]
    /\ command \in [Bikes -> CommandState]
    /\ staffWaiting \in SUBSET Fitted
    /\ DOMAIN rides \in SUBSET RideIds
    /\ rides \in [DOMAIN rides -> Ride]
    /\ DOMAIN reservations \in SUBSET ReservationIds
    /\ reservations \in [DOMAIN reservations -> Reservation]
    /\ wallet \in [Users -> Int]
    /\ starts \in [RideIds -> StartPhase]
    /\ DOMAIN requests \in SUBSET Operators
    /\ requests \in [DOMAIN requests -> Request]

-----------------------------------------------------------------------------
ActiveRides == {r \in DOMAIN rides : rides[r].status = "active"}

ActiveRidesOf(u) == {r \in ActiveRides : rides[r].user = u}

ActiveRidesOn(b) == {r \in ActiveRides : rides[r].bike = b}

ActiveReservations ==
    {v \in DOMAIN reservations : reservations[v].status = "active"}

ActiveReservationsOf(u) == {v \in ActiveReservations : reservations[v].user = u}

ActiveReservationsOn(b) == {v \in ActiveReservations : reservations[v].bike = b}

(* isLockReportedClosed: a bike without a lock has nothing to verify.       *)
LockReportedClosed(b) == b \in Fitted => lockState[b] = "locked"

(* A serial column: ids are handed out in order.                            *)
IsNextId(id, ids, table) ==
    /\ id \in ids \ DOMAIN table
    /\ \A x \in ids : x < id => x \in DOMAIN table

Insert(table, id, row) ==
    [x \in DOMAIN table \cup {id} |-> IF x = id THEN row ELSE table[x]]

Drop(table, id) == [x \in DOMAIN table \ {id} |-> table[x]]

(* The lowest slot that no active ride of the rider holds; one of the first *)
(* n + 1 is free when the rider has n active rides.                         *)
FreeSlots(u) == {s \in 1 .. Cardinality(ActiveRidesOf(u)) + 1 :
                    \A r \in ActiveRidesOf(u) : rides[r].slot # s}

ActiveSlot(u) == CHOOSE s \in FreeSlots(u) : \A t \in FreeSlots(u) : s <= t

Init ==
    /\ bikes = [b \in Bikes |-> "available"]
    /\ lockState = [b \in Bikes |-> "locked"]
    /\ command = [b \in Bikes |-> "none"]
    /\ staffWaiting = {}
    /\ rides = [r \in {} |-> {}]
    /\ reservations = [v \in {} |-> {}]
    /\ wallet = [u \in Users |-> InitialBalance]
    /\ starts = [r \in RideIds |-> "none"]
    /\ requests = [o \in {} |-> {}]

-----------------------------------------------------------------------------
(* startRide: the transaction.  The guards are its early returns in order;  *)
(* the two unique indexes make the insert fail for a bike that already has  *)
(* an active ride, or a slot already taken.                                 *)

(* Mutant: the owner of the reservation is not checked.                     *)
MayClaimMutant(u, b) == TRUE

(* A reserved bike may be started only by the holder of its reservation.    *)
MayClaim(u, b) ==
    bikes[b] = "reserved" =>
        \E v \in ActiveReservationsOn(b) : reservations[v].user = u

(* Mutant: without idx_rides_active_bike.                                   *)
UniqueActiveBikeMutant(b) == TRUE

UniqueActiveBike(b) == ActiveRidesOn(b) = {}

UniqueActiveSlot(u) == \A r \in ActiveRidesOf(u) : rides[r].slot # ActiveSlot(u)

(* Mutant: one ride too many.                                               *)
BelowCapMutant(u) == Cardinality(ActiveRidesOf(u)) <= MaxActiveRides

BelowCap(u) == Cardinality(ActiveRidesOf(u)) < MaxActiveRides

WalletCovers(u, prepaid) == prepaid \/ wallet[u] >= Price

StartRide(u, b, r, prepaid) ==
    /\ IsNextId(r, RideIds, rides)
    /\ bikes[b] \in {"available", "reserved"}
    /\ MayClaim(u, b)
    /\ BelowCap(u)
    /\ WalletCovers(u, prepaid)
    /\ UniqueActiveBike(b)
    /\ UniqueActiveSlot(u)
    /\ LET cost == IF prepaid THEN 0 ELSE Price
       IN  /\ rides' = Insert(rides, r,
                  [bike |-> b, user |-> u, status |-> "active", slot |-> ActiveSlot(u),
                   prepaid |-> prepaid, charged |-> cost, extended |-> 0, refunded |-> 0])
           /\ wallet' = [wallet EXCEPT ![u] = @ - cost]
    /\ bikes' = [bikes EXCEPT ![b] = "rented"]
    /\ reservations' = [v \in DOMAIN reservations |->
          IF bikes[b] = "reserved" /\ v \in ActiveReservationsOn(b)
          THEN [reservations[v] EXCEPT !.status = "claimed"]
          ELSE reservations[v]]
    /\ starts' = [starts EXCEPT ![r] = IF b \in Fitted THEN "committed" ELSE "done"]
    /\ UNCHANGED <<lockState, command, staffWaiting, requests>>

(* After the commit the handler asks the gateway for an unlock.  The gateway*)
(* rejects at once when the lock is not connected, its socket is not        *)
(* writable, or another command of the same lock is in flight.  Echoes are  *)
(* matched by lock only: one that is being handled already will answer the  *)
(* new command.                                                             *)
CommandInFlight(b) ==
    \/ b \in staffWaiting
    \/ \E r \in DOMAIN rides : rides[r].bike = b /\ starts[r] = "unlocking"

SendUnlock(r) ==
    /\ starts[r] = "committed"
    /\ ~CommandInFlight(rides[r].bike)
    /\ starts' = [starts EXCEPT ![r] = "unlocking"]
    /\ command' = [command EXCEPT ![rides[r].bike] =
          IF @ = "persisted" THEN @ ELSE "sent"]
    /\ UNCHANGED <<bikes, lockState, staffWaiting, rides, reservations, wallet, requests>>

UnlockRejected(r) ==
    /\ starts[r] = "committed"
    /\ starts' = [starts EXCEPT ![r] = "failed"]
    /\ UNCHANGED <<bikes, lockState, command, staffWaiting, rides, reservations, wallet, requests>>

(* The fifteen-second timer, or the lock's socket closing: the promise is   *)
(* rejected although the lock may have received the command.                *)
UnlockTimeout(r) ==
    /\ starts[r] = "unlocking"
    /\ starts' = [starts EXCEPT ![r] = "failed"]
    /\ UNCHANGED <<bikes, lockState, command, staffWaiting, rides, reservations, wallet, requests>>

(* The lock echoes success:false; it did not move.                          *)
UnlockRefused(r) ==
    /\ starts[r] = "unlocking"
    /\ command[rides[r].bike] = "sent"
    /\ starts' = [starts EXCEPT ![r] = "failed"]
    /\ command' = [command EXCEPT ![rides[r].bike] = "none"]
    /\ UNCHANGED <<bikes, lockState, staffWaiting, rides, reservations, wallet, requests>>

(* Mutant: an abort that takes the lock for closed without asking.          *)
AbortReadsMutant(r) ==
    /\ starts[r] = "failed"
    /\ starts' = [starts EXCEPT ![r] = "abortClosed"]
    /\ UNCHANGED <<bikes, lockState, command, staffWaiting, rides, reservations, wallet, requests>>

(* abortUnstartedRide reads the lock's state before its transaction ...     *)
AbortReads(r) ==
    /\ starts[r] = "failed"
    /\ starts' = [starts EXCEPT ![r] =
          IF LockReportedClosed(rides[r].bike) THEN "abortClosed" ELSE "abortOpen"]
    /\ UNCHANGED <<bikes, lockState, command, staffWaiting, rides, reservations, wallet, requests>>

AbortedRide(ride) ==
    [ride EXCEPT !.status = "cancelled", !.slot = 0,
                 !.refunded = @ + (IF ride.prepaid THEN 0 ELSE Price)]

(* Mutant: the ride's status is not checked again under the row lock.       *)
MayAbortMutant(r) == TRUE

MayAbort(r) == rides[r].status = "active"

(* ... and then, if the ride is still active, cancels it, frees or diverts  *)
(* the bike and gives the wallet its money back.                            *)
AbortCommits(r) ==
    /\ starts[r] \in {"abortClosed", "abortOpen"}
    /\ IF MayAbort(r)
       THEN /\ rides' = [rides EXCEPT ![r] = AbortedRide(@)]
            /\ bikes' = [bikes EXCEPT ![rides[r].bike] =
                  IF starts[r] = "abortClosed" THEN "available" ELSE "maintenance"]
            /\ wallet' = [wallet EXCEPT ![rides[r].user] =
                  @ + (IF rides[r].prepaid THEN 0 ELSE Price)]
       ELSE UNCHANGED <<rides, bikes, wallet>>
    /\ starts' = [starts EXCEPT ![r] = "done"]
    /\ UNCHANGED <<lockState, command, staffWaiting, reservations, requests>>

-----------------------------------------------------------------------------
(* The lock.  record() first persists the echo of L0, then hands it to      *)
(* resolveUnlock: these are two statements with an await between them.      *)

EchoPersisted(b) ==
    /\ command[b] = "sent"
    /\ lockState' = [lockState EXCEPT ![b] = "unlocked"]
    /\ command' = [command EXCEPT ![b] = "persisted"]
    /\ UNCHANGED <<bikes, staffWaiting, rides, reservations, wallet, starts, requests>>

(* The echo resolves whatever unlock is pending for this lock; with none    *)
(* pending it is unsolicited, and reconcileUnattendedOpenLock takes an      *)
(* available bike out of the pool.                                          *)
EchoResolved(b) ==
    /\ command[b] = "persisted"
    /\ command' = [command EXCEPT ![b] = "none"]
    /\ staffWaiting' = staffWaiting \ {b}
    /\ starts' = [r \in RideIds |->
          IF starts[r] = "unlocking" /\ rides[r].bike = b THEN "done" ELSE starts[r]]
    /\ bikes' = IF ~CommandInFlight(b) /\ bikes[b] = "available"
                THEN [bikes EXCEPT ![b] = "maintenance"]
                ELSE bikes
    /\ UNCHANGED <<lockState, rides, reservations, wallet, requests>>

(* The lock was closed by hand and reports it (L1).                         *)
LockReport(b) ==
    /\ b \in Fitted
    /\ lockState[b] = "unlocked"
    /\ lockState' = [lockState EXCEPT ![b] = "locked"]
    /\ UNCHANGED <<bikes, command, staffWaiting, rides, reservations, wallet, starts, requests>>

(* The sixth movement or fall alarm in a row: the bike becomes lost unless  *)
(* it is lost or archived already.                                          *)
AutoLost(b) ==
    /\ b \in Fitted
    /\ bikes[b] \notin {"lost", "archived"}
    /\ bikes' = [bikes EXCEPT ![b] = "lost"]
    /\ UNCHANGED <<lockState, command, staffWaiting, rides, reservations, wallet, starts, requests>>

(* Telemetry shows a low battery on a parked, available bike.               *)
AutoOffline(b) ==
    /\ b \in Fitted
    /\ bikes[b] = "available"
    /\ bikes' = [bikes EXCEPT ![b] = "offline"]
    /\ UNCHANGED <<lockState, command, staffWaiting, rides, reservations, wallet, starts, requests>>

-----------------------------------------------------------------------------
(* endRide, from the rider's confirmed end or an operator's force-end.  The *)
(* bike's status is written by id, whatever it was; lowBattery says that    *)
(* its battery is at or below LOW_BATTERY_AUTO_OFFLINE_THRESHOLD.           *)
(* The lock's row is read on another connection, not under the ride's lock; *)
(* read and commit are one action here.                                     *)

(* Mutant: a bike whose lock is open keeps its status.                      *)
StatusAfterRideMutant(b, lowBattery) ==
    IF ~LockReportedClosed(b) THEN bikes[b]
    ELSE IF lowBattery THEN "offline" ELSE "available"

StatusAfterRide(b, lowBattery) ==
    IF ~LockReportedClosed(b) THEN "maintenance"
    ELSE IF lowBattery THEN "offline" ELSE "available"

(* Until its unlock is confirmed the ride of a fitted bike can be ended by  *)
(* an operator's force-end only: the rider's end waits for a closure report.*)
(* (After a restart the rider is let through as well: more than the code.)  *)
MayEnd(r) == starts[r] \in {"done", "lost"} \/ Operators # {}

(* extendRide, paid from the wallet: any active ride will do, one whose     *)
(* unlock is still pending included.  An extension paid by card changes     *)
(* nothing in this module.                                                  *)
ExtendedRide(ride) == [ride EXCEPT !.extended = @ + Price]

ExtendRide(r) ==
    /\ r \in ActiveRides
    /\ wallet[rides[r].user] >= Price
    /\ rides' = [rides EXCEPT ![r] = ExtendedRide(@)]
    /\ wallet' = [wallet EXCEPT ![rides[r].user] = @ - Price]
    /\ UNCHANGED <<bikes, lockState, command, staffWaiting, reservations, starts, requests>>

(* Mutant: the overage replaces what the start was charged.                 *)
CompletedRideMutant(ride, fromWallet) ==
    [ride EXCEPT !.status = "completed", !.slot = 0, !.charged = fromWallet]

CompletedRide(ride, fromWallet) ==
    [ride EXCEPT !.status = "completed", !.slot = 0, !.charged = @ + fromWallet]

EndRide(r, overage, lowBattery) ==
    /\ r \in ActiveRides
    /\ MayEnd(r)
    /\ LET fromWallet == IF rides[r].prepaid THEN 0 ELSE overage
       IN  /\ rides' = [rides EXCEPT ![r] = CompletedRide(@, fromWallet)]
           /\ wallet' = [wallet EXCEPT ![rides[r].user] = @ - fromWallet]
    /\ bikes' = [bikes EXCEPT ![rides[r].bike] =
                    StatusAfterRide(rides[r].bike, lowBattery)]
    /\ UNCHANGED <<lockState, command, staffWaiting, reservations, starts, requests>>

-----------------------------------------------------------------------------
(* Reservations.                                                            *)

WithinBudget(u) ==
    Cardinality(ActiveReservationsOf(u)) + Cardinality(ActiveRidesOf(u))
        < MaxActiveRides

(* Mutant: without idx_reservations_active_bike.                            *)
UniqueActiveReservationMutant(b) == TRUE

UniqueActiveReservation(b) == ActiveReservationsOn(b) = {}

CreateReservation(u, b, v) ==
    /\ IsNextId(v, ReservationIds, reservations)
    /\ bikes[b] = "available"
    /\ WithinBudget(u)
    /\ UniqueActiveReservation(b)
    /\ reservations' = Insert(reservations, v,
          [bike |-> b, user |-> u, status |-> "active", aged |-> FALSE])
    /\ bikes' = [bikes EXCEPT ![b] = "reserved"]
    /\ UNCHANGED <<lockState, command, staffWaiting, rides, wallet, starts, requests>>

(* Mutant: the bike is freed whatever its status is by now.                 *)
FreedMutant(B) == [b \in Bikes |-> IF b \in B THEN "available" ELSE bikes[b]]

(* The bike becomes available again only where it is still reserved.        *)
Freed(B) == [b \in Bikes |->
                IF b \in B /\ bikes[b] = "reserved" THEN "available" ELSE bikes[b]]

CancelReservation(v) ==
    /\ v \in ActiveReservations
    /\ reservations' = [reservations EXCEPT ![v].status = "cancelled"]
    /\ bikes' = Freed({reservations[v].bike})
    /\ UNCHANGED <<lockState, command, staffWaiting, rides, wallet, starts, requests>>

TtlPasses(v) ==
    /\ ~reservations[v].aged
    /\ reservations' = [reservations EXCEPT ![v].aged = TRUE]
    /\ UNCHANGED <<bikes, lockState, command, staffWaiting, rides, wallet, starts, requests>>

(* expireOverdueReservations, first pass: from the reservation to its bike. *)
Overdue == {v \in ActiveReservations : reservations[v].aged}

ExpireOverdue ==
    /\ Overdue # {}
    /\ reservations' = [v \in DOMAIN reservations |->
          IF v \in Overdue THEN [reservations[v] EXCEPT !.status = "expired"]
                           ELSE reservations[v]]
    /\ bikes' = Freed({reservations[v].bike : v \in Overdue})
    /\ UNCHANGED <<lockState, command, staffWaiting, rides, wallet, starts, requests>>

(* Mutant: no second pass.                                                  *)
OrphansMutant == {}

(* Second pass: a reserved bike with no reservation that is active or young.*)
Orphans == {b \in Bikes :
               /\ bikes[b] = "reserved"
               /\ \A v \in DOMAIN reservations :
                     reservations[v].bike = b =>
                        /\ reservations[v].status # "active"
                        /\ reservations[v].aged}

FreeOrphans ==
    /\ Orphans # {}
    /\ bikes' = Freed(Orphans)
    /\ UNCHANGED <<lockState, command, staffWaiting, rides, reservations, wallet, starts, requests>>

-----------------------------------------------------------------------------
(* The back office.  Each handler reads the bike (and its lock, when it     *)
(* means to make the bike available), awaits, and then writes by id.        *)

(* Whether the handler goes on after reading a bike of status seen, and     *)
(* what it will write: the handlers' early returns.                         *)
Proceeds(op, b, target) ==
    \/ op = "patch" /\ target \in Assignable
          /\ (target = "available" => LockReportedClosed(b))
    \/ op = "archive" /\ bikes[b] # "rented" /\ target = "archived"
    \/ op = "restore" /\ bikes[b] = "archived" /\ target = "offline"
    \/ op = "delete" /\ bikes[b] # "rented" /\ target = "archived"
          /\ \E r \in DOMAIN rides : rides[r].bike = b
    \/ op = "ticket" /\ bikes[b] \in {"available", "reserved"}
          /\ target = "maintenance"
    \/ op = "ticketReturn" /\ bikes[b] = "maintenance" /\ LockReportedClosed(b)
          /\ target = "available"

(* adminUpdateBike and archiveBike cancel the reservations of a bike they   *)
(* have seen reserved; createTicket and deleteBike do not.                  *)
CancelsReservations(op, b) == op \in {"patch", "archive"} /\ bikes[b] = "reserved"

OperatorReads(o, op, b, target) ==
    /\ o \notin DOMAIN requests
    /\ Proceeds(op, b, target)
    /\ requests' = Insert(requests, o,
          [bike |-> b, target |-> target, step |-> "write",
           cancels |-> CancelsReservations(op, b)])
    /\ UNCHANGED <<bikes, lockState, command, staffWaiting, rides, reservations, wallet, starts>>

OperatorWrites(o) ==
    /\ requests[o].step = "write"
    /\ bikes' = [bikes EXCEPT ![requests[o].bike] = requests[o].target]
    /\ requests' = IF requests[o].cancels
                   THEN [requests EXCEPT ![o].step = "cancel"]
                   ELSE Drop(requests, o)
    /\ UNCHANGED <<lockState, command, staffWaiting, rides, reservations, wallet, starts>>

(* cancelActiveReservationsForBike: whatever reservation is active by now.  *)
OperatorCancels(o) ==
    /\ requests[o].step = "cancel"
    /\ reservations' = [v \in DOMAIN reservations |->
          IF v \in ActiveReservationsOn(requests[o].bike)
          THEN [reservations[v] EXCEPT !.status = "cancelled"]
          ELSE reservations[v]]
    /\ requests' = Drop(requests, o)
    /\ UNCHANGED <<bikes, lockState, command, staffWaiting, rides, wallet, starts>>

(* The manual unlock of a lock, and the unlock that lets staff move a bike  *)
(* they put in maintenance or the archive.  Under another rider's active    *)
(* ride only the manual one is possible, with force set.                    *)
StaffUnlock(b) ==
    /\ Operators # {}
    /\ b \in Fitted
    /\ ~CommandInFlight(b)
    /\ staffWaiting' = staffWaiting \cup {b}
    /\ command' = [command EXCEPT ![b] = IF @ = "persisted" THEN @ ELSE "sent"]
    /\ UNCHANGED <<bikes, lockState, rides, reservations, wallet, starts, requests>>

StaffUnlockTimeout(b) ==
    /\ b \in staffWaiting
    /\ staffWaiting' = staffWaiting \ {b}
    /\ UNCHANGED <<bikes, lockState, command, rides, reservations, wallet, starts, requests>>

-----------------------------------------------------------------------------
(* The process dies and boots.  Every pending promise and request is gone.  *)
(* The boot repairs run against the tables: rides are re-ranked newest      *)
(* first, and a rented bike without an active ride becomes available.  The  *)
(* statements that cancel duplicate or surplus active rides find none, by   *)
(* OneActiveRidePerBike and RidersKeepToTheirSlots.                         *)
RecencyRank(r) == Cardinality({x \in ActiveRidesOf(rides[r].user) : x >= r})

(* The unique index on (user_id, active_slot) is checked row by row: moving *)
(* a ride to a slot another active ride still holds fails the statement,    *)
(* and with it the boot.  (With a limit of two, as in the code, this is     *)
(* exact; with more, an order of the rows might get through.)               *)
BootSucceeds ==
    \A r \in ActiveRides : \A x \in ActiveRidesOf(rides[r].user) \ {r} :
        rides[x].slot # RecencyRank(r)

Restart ==
    /\ MayRestart
    /\ BootSucceeds
    /\ rides' = [r \in DOMAIN rides |->
          IF r \in ActiveRides THEN [rides[r] EXCEPT !.slot = RecencyRank(r)]
                               ELSE rides[r]]
    /\ bikes' = [b \in Bikes |->
          IF bikes[b] = "rented" /\ ActiveRidesOn(b) = {} THEN "available" ELSE bikes[b]]
    /\ starts' = [r \in RideIds |->
          IF starts[r] \in {"none", "done"} THEN starts[r] ELSE "lost"]
    /\ requests' = [o \in {} |-> {}]
    /\ staffWaiting' = {}
    /\ command' = [b \in Bikes |-> IF command[b] = "persisted" THEN "none" ELSE command[b]]
    /\ UNCHANGED <<lockState, reservations, wallet>>

-----------------------------------------------------------------------------
RideStep ==
    \/ \E u \in Users, b \in Bikes, r \in RideIds, prepaid \in BOOLEAN :
          StartRide(u, b, r, prepaid)
    \/ \E r \in DOMAIN rides :
          \/ SendUnlock(r) \/ UnlockRejected(r) \/ UnlockTimeout(r)
          \/ UnlockRefused(r) \/ AbortReads(r) \/ AbortCommits(r) \/ ExtendRide(r)
          \/ \E overage \in Overages, lowBattery \in BOOLEAN :
                EndRide(r, overage, lowBattery)

LockStep ==
    \E b \in Bikes : \/ EchoPersisted(b) \/ EchoResolved(b) \/ LockReport(b)
                     \/ AutoLost(b) \/ AutoOffline(b)

ReservationStep ==
    \/ \E u \in Users, b \in Bikes, v \in ReservationIds : CreateReservation(u, b, v)
    \/ \E v \in DOMAIN reservations : CancelReservation(v) \/ TtlPasses(v)
    \/ ExpireOverdue
    \/ FreeOrphans

OperatorStep ==
    \/ \E o \in Operators, op \in OperatorOp, b \in Bikes,
          target \in OperatorAssignable : OperatorReads(o, op, b, target)
    \/ \E o \in DOMAIN requests : OperatorWrites(o) \/ OperatorCancels(o)
    \/ \E b \in Bikes : StaffUnlock(b) \/ StaffUnlockTimeout(b)

Next == RideStep \/ LockStep \/ ReservationStep \/ OperatorStep \/ Restart

Spec == Init /\ [][Next]_vars

-----------------------------------------------------------------------------
(* Safety.                                                                  *)

(* A bike is never in two active rides, even after an operator moved a      *)
(* rented bike back to available, or a reservation outlived its hold.       *)
OneActiveRidePerBike ==
    \A r, x \in ActiveRides : rides[r].bike = rides[x].bike => r = x

(* No rider has more than MAX_ACTIVE_RIDES_PER_USER active rides, and their *)
(* slots are distinct members of 1..MAX, boot repairs included.             *)
RidersKeepToTheirSlots ==
    \A r \in ActiveRides :
        /\ rides[r].slot \in 1 .. MaxActiveRides
        /\ \A x \in ActiveRides \ {r} :
              rides[x].user = rides[r].user => rides[x].slot # rides[r].slot

(* A rented bike is backed by an active ride, so that ending or aborting a  *)
(* ride always lets go of the bike: no bike stays rented for nobody.        *)
RentedBikeHasRide ==
    \A b \in Bikes : bikes[b] = "rented" => ActiveRidesOn(b) # {}

(* A bike has at most one active reservation.                               *)
OneActiveReservationPerBike ==
    \A v, w \in ActiveReservations :
        reservations[v].bike = reservations[w].bike => v = w

(* The compensation of a failed unlock gives back exactly what the ride's   *)
(* start took, once, and never for a ride that was settled meanwhile by an  *)
(* operator's force-end.                                                    *)
RefundMatchesCharge ==
    \A r \in DOMAIN rides :
        rides[r].refunded =
            IF rides[r].status = "cancelled" THEN rides[r].charged ELSE 0

(* Until it is settled a ride has been charged what its start took.         *)
ActiveRideChargedAtStart ==
    \A r \in ActiveRides :
        rides[r].charged = IF rides[r].prepaid THEN 0 ELSE Price

(* Action properties: what a step may never do.                             *)

(* While a ride stays active, its rented bike changes status only by the    *)
(* hand of an operator or by the theft detector: no sweep, cancelled        *)
(* reservation, late echo or telemetry write takes a bike from its rider.   *)
RideKeepsItsBike ==
    [][\A r \in ActiveRides :
          LET b == rides[r].bike
          IN  (bikes[b] = "rented" /\ r \in ActiveRides' /\ bikes'[b] # "rented")
              => \/ bikes'[b] = "lost"
                 \/ \E o \in DOMAIN requests :
                       requests[o].bike = b /\ requests[o].step = "write"]_vars

(* A bike held for one rider is started by nobody else, and the start uses  *)
(* the reservation up.                                                      *)
HoldIsHonoured ==
    [][\A b \in Bikes :
          (bikes[b] = "reserved" /\ bikes'[b] = "rented")
          => \E v \in ActiveReservationsOn(b), r \in ActiveRides' :
                /\ rides'[r].bike = b
                /\ rides'[r].user = reservations[v].user
                /\ reservations'[v].status = "claimed"]_vars

(* A bike comes into the rental pool from outside it (a reserved bike is in *)
(* it) only by a handler that saw its lock closed: in the same step, or at  *)
(* an earlier read of its own that it still acts on, as the abort of a start*)
(* and an operator's edit do.  A ride's end and the boot repair have no such*)
(* excuse, and nobody acts on a closure that was not reported.              *)
AbortSawClosed(b) ==
    \E r \in DOMAIN rides : rides[r].bike = b /\ starts[r] = "abortClosed"

OperatorSawClosed(b) ==
    \E o \in DOMAIN requests :
        /\ requests[o].bike = b
        /\ requests[o].step = "write" /\ requests[o].target = "available"

PoolEntrySawClosedLock ==
    [][/\ \A b \in Bikes :
             (bikes[b] \notin {"available", "reserved"} /\ bikes'[b] = "available")
             => LockReportedClosed(b) \/ AbortSawClosed(b) \/ OperatorSawClosed(b)
       /\ \A r \in DOMAIN rides :
             (starts[r] # "abortClosed" /\ starts'[r] = "abortClosed")
             => LockReportedClosed(rides[r].bike)
       /\ \A o \in DOMAIN requests' \ DOMAIN requests :
             requests'[o].target = "available"
             => LockReportedClosed(requests'[o].bike)]_vars

(* A wallet moves only with the ledger: in one step at most one ride's rows *)
(* change what it cost, its owner's wallet alone moves, by that amount, and *)
(* no ride leaves the table or changes hands.                               *)
NetOf(table, r) ==
    IF r \in DOMAIN table THEN table[r].charged + table[r].extended - table[r].refunded
                          ELSE 0

WalletFollowsLedger ==
    [][/\ \A r \in DOMAIN rides : r \in DOMAIN rides' /\ rides'[r].user = rides[r].user
       /\ \/ /\ wallet' = wallet
             /\ \A r \in RideIds : NetOf(rides', r) = NetOf(rides, r)
          \/ \E r \in DOMAIN rides' :
                /\ wallet' = [wallet EXCEPT ![rides'[r].user] =
                                 @ - (NetOf(rides', r) - NetOf(rides, r))]
                /\ \A x \in RideIds \ {r} : NetOf(rides', x) = NetOf(rides, x)]_vars

(* The sum of the first numbers of own, up to own[n].                       *)
PrefixSum(own) ==
    LET sum[n \in Nat] == own[n] + IF n = 0 THEN 0 ELSE sum[n - 1]
    IN  sum

(* What each ride of the table has cost the rider u.                        *)
CostsOf(table, u) ==
    [n \in Nat |-> IF n \in DOMAIN table /\ table[n].user = u THEN NetOf(table, n)
                                                             ELSE 0]

(* Every kopeck a wallet lost is the net charge of a ride of its owner: no  *)
(* debit, overage or refund is lost or applied to another rider.  (n is any *)
(* id that no ride of the table is above.)                                  *)
WalletBalances ==
    \A u \in Users : \A n \in RideIds :
        DOMAIN rides \subseteq 0 .. n
        => wallet[u] = InitialBalance - PrefixSum(CostsOf(rides, u))[n]

(* No sequence of starts, failed unlocks, aborts, extensions and ends makes *)
(* a wallet richer than it was: what is given back had been taken.          *)
NobodyProfits == \A u \in Users : wallet[u] <= InitialBalance

-----------------------------------------------------------------------------
(* Refinement: every active ride is a lease of its bike; reservations, locks*)
(* back-office requests and restarts leave the leases alone.                *)
LeaseOf(r) ==
    [bike |-> rides[r].bike, user |-> rides[r].user, paid |-> rides[r].charged]

Leases == {LeaseOf(r) : r \in ActiveRides}

Lease == INSTANCE BikeLease WITH leases <- Leases, MaxLeases <- MaxActiveRides

(* Rental implements BikeLease.                                             *)
ImplementsBikeLease == Lease!LeaseSpec

-----------------------------------------------------------------------------
(* What comments of the code say and the code does not keep.                *)

(* "a rider may hold that many bikes total, in any mix of booked and riding"*)
CombinedBudget ==
    \A u \in Users :
        Cardinality(ActiveReservationsOf(u)) + Cardinality(ActiveRidesOf(u))
            <= MaxActiveRides

(* A bike whose lock reports open is not in the rental pool, except while   *)
(* the echo that says so is being handled.                                  *)
NoOpenBikeInPool ==
    \A b \in Bikes :
        (bikes[b] = "available" /\ ~LockReportedClosed(b)) => command[b] = "persisted"

(* "compensate fully if the lock doesn't confirm": a ride that was undone   *)
(* has cost its rider nothing.                                              *)
UndoneRideIsFree ==
    \A r \in DOMAIN rides :
        rides[r].status = "cancelled" =>
            rides[r].refunded = rides[r].charged + rides[r].extended

(* "on a healthy database each one matches zero rows on every subsequent    *)
(* boot": the re-ranking of the slots has nothing to move.                  *)
BootUpdatesNothing ==
    \A r \in ActiveRides : rides[r].slot = RecencyRank(r)

=============================================================================
