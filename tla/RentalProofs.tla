---------------------------- MODULE RentalProofs ----------------------------
(***************************************************************************)
(* Theorems about Rental for every fleet, every number of riders, rides,   *)
(* reservations and back-office requests, and every value of the limits.   *)
(***************************************************************************)
EXTENDS Rental, FiniteSetTheorems, WellFoundedInduction, TLAPS

(* Dropping a row leaves a table of the same type.                          *)
LEMMA DropType ==
    ASSUME NEW S, NEW R, NEW table, table \in [DOMAIN table -> R],
           DOMAIN table \subseteq S, NEW id
    PROVE  /\ DOMAIN Drop(table, id) \subseteq S
           /\ Drop(table, id) \in [DOMAIN Drop(table, id) -> R]
BY DEF Drop

(* Changing rows of a table within its type keeps the table's type.         *)
LEMMA UpdateType ==
    ASSUME NEW R, NEW table, table \in [DOMAIN table -> R], NEW id \in DOMAIN table,
           NEW row \in R
    PROVE  /\ DOMAIN [table EXCEPT ![id] = row] = DOMAIN table
           /\ [table EXCEPT ![id] = row] \in [DOMAIN table -> R]
OBVIOUS

(* Settling, aborting or extending a ride keeps its row's type.             *)
LEMMA RideUpdate ==
    ASSUME NEW ride \in Ride, NEW st \in RideStatus, NEW sl \in Nat, NEW m \in Nat
    PROVE  /\ [ride EXCEPT !.status = st, !.slot = sl, !.charged = m] \in Ride
           /\ [ride EXCEPT !.status = st, !.slot = sl, !.refunded = m] \in Ride
           /\ [ride EXCEPT !.extended = m] \in Ride
BY DEF Ride

(* Some slot among the first n + 1 is free when a rider has n active rides, *)
(* so startRide's search for the lowest free slot ends there.               *)
LEMMA FreeSlotExists ==
    ASSUME NEW u, IsFiniteSet(DOMAIN rides), rides \in [DOMAIN rides -> Ride]
    PROVE  /\ ActiveSlot(u) \in 1 .. Cardinality(ActiveRidesOf(u)) + 1
           /\ ActiveSlot(u) \in Nat
           /\ \A r \in ActiveRidesOf(u) : rides[r].slot # ActiveSlot(u)
<1> DEFINE A == ActiveRidesOf(u)
           n == Cardinality(A)
           used == {rides[r].slot : r \in A}
           f == [r \in A |-> rides[r].slot]
<1>1. IsFiniteSet(A) /\ n \in Nat
  <2>1. A \in SUBSET DOMAIN rides
    BY DEF ActiveRidesOf, ActiveRides
  <2> QED BY <2>1, FS_Subset, FS_CardinalityType
<1>2. IsFiniteSet(used) /\ Cardinality(used) <= n
  <2>1. f \in Surjection(A, used)
    BY DEF Surjection
  <2> HIDE DEF f, used, A
  <2> QED BY <2>1, <1>1, FS_Surjection
<1>3. FreeSlots(u) # {}
  <2> SUFFICES ASSUME FreeSlots(u) = {} PROVE FALSE
    OBVIOUS
  <2>1. (1 .. n + 1) \in SUBSET used
    BY <1>1 DEF FreeSlots
  <2>2. Cardinality(1 .. n + 1) = n + 1
    BY <1>1, FS_Interval
  <2>3. Cardinality(1 .. n + 1) <= Cardinality(used)
    BY <2>1, <1>2, FS_Subset
  <2>4. Cardinality(used) \in Nat
    BY <1>2, FS_CardinalityType
  <2> HIDE DEF used, n
  <2> QED BY <2>2, <2>3, <2>4, <1>1, <1>2
<1>4. FreeSlots(u) \in SUBSET Nat
  BY <1>1 DEF FreeSlots
<1>5. \E s \in FreeSlots(u) : \A t \in FreeSlots(u) : s <= t
  <2> DEFINE R == OpToRel(<, Nat)
  <2>1. \E s \in FreeSlots(u) : \A t \in FreeSlots(u) : ~ (<<t, s>> \in R)
    BY <1>3, <1>4, WFMin, NatLessThanWellFounded
  <2>2. \A s, t \in Nat : ~ (<<t, s>> \in R) => s <= t
    BY DEF OpToRel
  <2> HIDE DEF R
  <2> QED BY <2>1, <2>2, <1>4
<1>6. ActiveSlot(u) \in FreeSlots(u)
  BY <1>5 DEF ActiveSlot
<1> QED BY <1>6, <1>4 DEF FreeSlots

-----------------------------------------------------------------------------
(* Type correctness.  The table of rides is finite as well: ids are serial. *)

TypeInv == TypeOK /\ IsFiniteSet(DOMAIN rides)

LEMMA InitType == Init => TypeInv
<1> SUFFICES ASSUME Init PROVE TypeInv
  OBVIOUS
<1>1. DOMAIN rides = {} /\ DOMAIN reservations = {} /\ DOMAIN requests = {}
  BY DEF Init
<1>2. IsFiniteSet(DOMAIN rides)
  BY <1>1, FS_EmptySet
<1>3. TypeOK
  BY <1>1, MoneyAssumption DEF Init, TypeOK, BikeStatus, CommandState, StartPhase
<1> QED BY <1>2, <1>3 DEF TypeInv

LEMMA StartRideType ==
    ASSUME TypeInv, NEW u \in Users, NEW b \in Bikes, NEW r \in RideIds,
           NEW prepaid \in BOOLEAN, StartRide(u, b, r, prepaid)
    PROVE  TypeInv'
<1> DEFINE row == [bike |-> b, user |-> u, status |-> "active", slot |-> ActiveSlot(u),
                   prepaid |-> prepaid,
                   charged |-> IF prepaid THEN 0 ELSE Price, extended |-> 0,
                   refunded |-> 0]
<1>1. row \in Ride
  BY FreeSlotExists, MoneyAssumption DEF TypeInv, TypeOK, Ride, RideStatus
<1>2. rides' = Insert(rides, r, row)
  BY DEF StartRide
<1> HIDE DEF row
<1>3. /\ DOMAIN rides' \in SUBSET RideIds
      /\ rides' \in [DOMAIN rides' -> Ride]
      /\ DOMAIN rides' = DOMAIN rides \cup {r}
  BY <1>1, <1>2 DEF TypeInv, TypeOK, Insert
<1>4. IsFiniteSet(DOMAIN rides')
  BY <1>3, FS_AddElement DEF TypeInv
<1>5. wallet' \in [Users -> Int]
  BY MoneyAssumption DEF TypeInv, TypeOK, StartRide
<1>6. /\ DOMAIN reservations' \in SUBSET ReservationIds
      /\ reservations' \in [DOMAIN reservations' -> Reservation]
  BY DEF TypeInv, TypeOK, StartRide, Reservation, ReservationStatus
<1>7. bikes' \in [Bikes -> BikeStatus] /\ starts' \in [RideIds -> StartPhase]
  BY DEF TypeInv, TypeOK, StartRide, BikeStatus, StartPhase
<1> QED BY <1>3, <1>4, <1>5, <1>6, <1>7 DEF TypeInv, TypeOK, StartRide

LEMMA RideStepType ==
    ASSUME TypeInv, RideStep
    PROVE  TypeInv'
<1>1. ASSUME NEW r \in DOMAIN rides, SendUnlock(r) \/ UnlockRejected(r) \/ UnlockTimeout(r)
                                     \/ UnlockRefused(r) \/ AbortReads(r)
      PROVE  TypeInv'
  BY <1>1 DEF TypeInv, TypeOK, SendUnlock, UnlockRejected, UnlockTimeout,
              UnlockRefused, AbortReads, StartPhase, CommandState, Ride
<1>2. ASSUME NEW r \in DOMAIN rides, AbortCommits(r)
      PROVE  TypeInv'
  <2>1. AbortedRide(rides[r]) \in Ride
    <3>1. rides[r] \in Ride
      BY DEF TypeInv, TypeOK
    <3>2. rides[r].refunded + (IF rides[r].prepaid THEN 0 ELSE Price) \in Nat
      BY <3>1, MoneyAssumption DEF Ride
    <3> QED BY <3>1, <3>2, RideUpdate DEF AbortedRide, RideStatus
  <2>2. /\ DOMAIN rides' = DOMAIN rides
        /\ rides' \in [DOMAIN rides -> Ride]
    BY <1>2, <2>1, UpdateType DEF TypeInv, TypeOK, AbortCommits
  <2>3. bikes' \in [Bikes -> BikeStatus] /\ wallet' \in [Users -> Int]
    BY <1>2, MoneyAssumption DEF TypeInv, TypeOK, AbortCommits, BikeStatus, Ride
  <2>4. starts' \in [RideIds -> StartPhase]
    BY <1>2 DEF TypeInv, TypeOK, AbortCommits, StartPhase
  <2> QED BY SMTT(60), <1>2, <2>2, <2>3, <2>4 DEF TypeInv, TypeOK, AbortCommits
<1>3. ASSUME NEW r \in DOMAIN rides, NEW overage \in Overages,
             NEW lowBattery \in BOOLEAN, EndRide(r, overage, lowBattery)
      PROVE  TypeInv'
  <2>0. overage \in Nat
    BY MoneyAssumption
  <2>1. /\ DOMAIN rides' = DOMAIN rides
        /\ rides' \in [DOMAIN rides -> Ride]
    <3> DEFINE fromWallet == IF rides[r].prepaid THEN 0 ELSE overage
               row == CompletedRide(rides[r], fromWallet)
    <3>1. rides[r] \in Ride /\ rides[r].charged + fromWallet \in Nat
      BY <2>0 DEF TypeInv, TypeOK, Ride
    <3>2. rides' = [rides EXCEPT ![r] = row]
      BY SMTT(60), <1>3 DEF EndRide
    <3> HIDE DEF fromWallet
    <3>3. row \in Ride
      BY <3>1, RideUpdate DEF RideStatus, CompletedRide
    <3> HIDE DEF row
    <3> QED BY <3>2, <3>3, UpdateType DEF TypeInv, TypeOK
  <2>2. bikes' \in [Bikes -> BikeStatus]
    BY <1>3 DEF TypeInv, TypeOK, EndRide, StatusAfterRide, BikeStatus, Ride
  <2>3. wallet' \in [Users -> Int]
    BY <1>3, <2>0 DEF TypeInv, TypeOK, EndRide, Ride
  <2> QED BY <1>3, <2>1, <2>2, <2>3 DEF TypeInv, TypeOK, EndRide
<1>4. ASSUME NEW r \in DOMAIN rides, ExtendRide(r)
      PROVE  TypeInv'
  <2>1. ExtendedRide(rides[r]) \in Ride
    <3>1. rides[r] \in Ride
      BY DEF TypeInv, TypeOK
    <3>2. rides[r].extended + Price \in Nat
      BY <3>1, MoneyAssumption DEF Ride
    <3> QED BY <3>1, <3>2, RideUpdate DEF ExtendedRide, RideStatus
  <2>2. /\ DOMAIN rides' = DOMAIN rides
        /\ rides' \in [DOMAIN rides -> Ride]
    <3> DEFINE row == ExtendedRide(rides[r])
    <3>1. rides' = [rides EXCEPT ![r] = row]
      BY <1>4 DEF ExtendRide
    <3> HIDE DEF row
    <3> QED BY <2>1, <3>1, UpdateType DEF TypeInv, TypeOK, row
  <2>3. wallet' \in [Users -> Int]
    BY <1>4, MoneyAssumption DEF TypeInv, TypeOK, ExtendRide, Ride
  <2> QED BY SMTT(60), <1>4, <2>2, <2>3 DEF TypeInv, TypeOK, ExtendRide
<1> QED BY <1>1, <1>2, <1>3, <1>4, StartRideType DEF RideStep

LEMMA LockStepType ==
    ASSUME TypeInv, LockStep
    PROVE  TypeInv'
<1>1. ASSUME NEW b \in Bikes, EchoPersisted(b) \/ LockReport(b)
      PROVE  TypeInv'
  BY <1>1 DEF TypeInv, TypeOK, EchoPersisted, LockReport, CommandState
<1>2. ASSUME NEW b \in Bikes, EchoResolved(b)
      PROVE  TypeInv'
  BY <1>2 DEF TypeInv, TypeOK, EchoResolved, CommandState, StartPhase, BikeStatus
<1>3. ASSUME NEW b \in Bikes, AutoLost(b) \/ AutoOffline(b)
      PROVE  TypeInv'
  BY <1>3 DEF TypeInv, TypeOK, AutoLost, AutoOffline, BikeStatus
<1> QED BY <1>1, <1>2, <1>3 DEF LockStep

LEMMA ReservationStepType ==
    ASSUME TypeInv, ReservationStep
    PROVE  TypeInv'
<1>0. \A B : Freed(B) \in [Bikes -> BikeStatus]
  BY DEF TypeInv, TypeOK, Freed, BikeStatus
<1>1. ASSUME NEW u \in Users, NEW b \in Bikes, NEW v \in ReservationIds,
             CreateReservation(u, b, v)
      PROVE  TypeInv'
  <2> DEFINE row == [bike |-> b, user |-> u, status |-> "active", aged |-> FALSE]
  <2>1. row \in Reservation
    BY DEF Reservation, ReservationStatus
  <2>2. reservations' = Insert(reservations, v, row)
    BY <1>1 DEF CreateReservation
  <2> HIDE DEF row
  <2>3. /\ DOMAIN reservations' \in SUBSET ReservationIds
        /\ reservations' \in [DOMAIN reservations' -> Reservation]
    BY <2>1, <2>2 DEF TypeInv, TypeOK, Insert
  <2> QED BY <1>1, <2>3 DEF TypeInv, TypeOK, CreateReservation, BikeStatus
<1>2. ASSUME NEW v \in DOMAIN reservations, CancelReservation(v)
      PROVE  TypeInv'
  BY <1>0, <1>2 DEF TypeInv, TypeOK, CancelReservation, Reservation, ReservationStatus
<1>3. ASSUME NEW v \in DOMAIN reservations, TtlPasses(v)
      PROVE  TypeInv'
  BY ZenonT(60), <1>3 DEF TypeInv, TypeOK, TtlPasses, Reservation
<1>4. ASSUME ExpireOverdue
      PROVE  TypeInv'
  BY <1>0, <1>4 DEF TypeInv, TypeOK, ExpireOverdue, Reservation, ReservationStatus
<1>5. ASSUME FreeOrphans
      PROVE  TypeInv'
  BY <1>0, <1>5 DEF TypeInv, TypeOK, FreeOrphans
<1> QED BY <1>1, <1>2, <1>3, <1>4, <1>5 DEF ReservationStep

LEMMA OperatorStepType ==
    ASSUME TypeInv, OperatorStep
    PROVE  TypeInv'
<1>1. ASSUME NEW o \in Operators, NEW op \in OperatorOp, NEW b \in Bikes,
             NEW target \in OperatorAssignable, OperatorReads(o, op, b, target)
      PROVE  TypeInv'
  <2> DEFINE row == [bike |-> b, target |-> target, step |-> "write",
                     cancels |-> CancelsReservations(op, b)]
  <2>1. row \in Request
    BY DEF Request, OperatorAssignable, CancelsReservations
  <2>2. requests' = Insert(requests, o, row)
    BY <1>1 DEF OperatorReads
  <2> HIDE DEF row
  <2>3. /\ DOMAIN requests' \in SUBSET Operators
        /\ requests' \in [DOMAIN requests' -> Request]
    BY <2>1, <2>2 DEF TypeInv, TypeOK, Insert
  <2> QED BY <1>1, <2>3 DEF TypeInv, TypeOK, OperatorReads
<1>2. ASSUME NEW o \in DOMAIN requests, OperatorWrites(o)
      PROVE  TypeInv'
  <2>1. bikes' \in [Bikes -> BikeStatus]
    BY <1>2 DEF TypeInv, TypeOK, OperatorWrites, Request, OperatorAssignable
  <2>2. /\ DOMAIN requests' \in SUBSET Operators
        /\ requests' \in [DOMAIN requests' -> Request]
    <3>1. CASE requests[o].cancels
      BY ZenonT(60), <1>2, <3>1 DEF TypeInv, TypeOK, OperatorWrites, Request
    <3>2. CASE ~requests[o].cancels
      BY <1>2, <3>2, DropType DEF TypeInv, TypeOK, OperatorWrites
    <3> QED BY <3>1, <3>2
  <2> QED BY <1>2, <2>1, <2>2 DEF TypeInv, TypeOK, OperatorWrites
<1>3. ASSUME NEW o \in DOMAIN requests, OperatorCancels(o)
      PROVE  TypeInv'
  <2>1. /\ DOMAIN requests' \in SUBSET Operators
        /\ requests' \in [DOMAIN requests' -> Request]
    BY <1>3, DropType DEF TypeInv, TypeOK, OperatorCancels
  <2>2. /\ DOMAIN reservations' \in SUBSET ReservationIds
        /\ reservations' \in [DOMAIN reservations' -> Reservation]
    BY <1>3 DEF TypeInv, TypeOK, OperatorCancels, Reservation, ReservationStatus
  <2>3. UNCHANGED <<bikes, lockState, command, staffWaiting, rides, wallet, starts>>
    BY <1>3 DEF OperatorCancels
  <2> QED BY <2>1, <2>2, <2>3 DEF TypeInv, TypeOK
<1>4. ASSUME NEW b \in Bikes, StaffUnlock(b) \/ StaffUnlockTimeout(b)
      PROVE  TypeInv'
  BY <1>4 DEF TypeInv, TypeOK, StaffUnlock, StaffUnlockTimeout, CommandState
<1> QED BY <1>1, <1>2, <1>3, <1>4 DEF OperatorStep

LEMMA RestartType ==
    ASSUME TypeInv, Restart
    PROVE  TypeInv'
<1>1. \A r \in DOMAIN rides : RecencyRank(r) \in Nat
  <2> SUFFICES ASSUME NEW r \in DOMAIN rides PROVE RecencyRank(r) \in Nat
    OBVIOUS
  <2>1. {x \in ActiveRidesOf(rides[r].user) : x >= r} \in SUBSET DOMAIN rides
    BY DEF ActiveRidesOf, ActiveRides
  <2> QED BY <2>1, FS_Subset, FS_CardinalityType DEF TypeInv, RecencyRank
<1>2. DOMAIN rides' = DOMAIN rides /\ rides' \in [DOMAIN rides -> Ride]
  <2>1. \A r \in DOMAIN rides : [rides[r] EXCEPT !.slot = RecencyRank(r)] \in Ride
    BY ZenonT(60), <1>1 DEF TypeInv, TypeOK, Ride
  <2> QED BY <2>1 DEF TypeInv, TypeOK, Restart
<1>3. /\ bikes' \in [Bikes -> BikeStatus]
      /\ starts' \in [RideIds -> StartPhase]
      /\ command' \in [Bikes -> CommandState]
  BY DEF TypeInv, TypeOK, Restart, BikeStatus, StartPhase, CommandState
<1>4. DOMAIN requests' = {} /\ requests' \in [DOMAIN requests' -> Request]
  BY DEF Restart
<1> QED BY <1>2, <1>3, <1>4 DEF TypeInv, TypeOK, Restart

LEMMA TypeStep == TypeInv /\ [Next]_vars => TypeInv'
<1>1. ASSUME TypeInv, UNCHANGED vars PROVE TypeInv'
  BY <1>1 DEF TypeInv, TypeOK, vars
<1> QED BY <1>1, RideStepType, LockStepType, ReservationStepType,
           OperatorStepType, RestartType DEF Next

(* Every reachable state of the tables, wallets, locks and pending requests *)
(* is well typed: in particular no refund or charge is ever negative, and a *)
(* ride never refers to a slot, bike or rider that does not exist.          *)
THEOREM TypeCorrect == Spec => []TypeOK
<1>1. Init => TypeInv
  BY InitType
<1>2. TypeInv /\ [Next]_vars => TypeInv'
  BY TypeStep
<1>3. TypeInv => TypeOK
  BY DEF TypeInv
<1> QED BY <1>1, <1>2, <1>3, PTL DEF Spec

-----------------------------------------------------------------------------
(* What the steps do to the table of rides.  Only four do anything: a start,*)
(* an abort, an end and a boot.                                             *)

(* No bike becomes rented in this step.                                     *)
NoneRented == \A b \in Bikes : bikes'[b] = "rented" => bikes[b] = "rented"

(* The step ends or aborts ride r and lets go of its bike.                  *)
Settled(r) ==
    /\ DOMAIN rides' = DOMAIN rides
    /\ \A x \in DOMAIN rides \ {r} : rides'[x] = rides[x]
    /\ \/ /\ rides'[r].status = "cancelled"
          /\ rides'[r].charged = rides[r].charged
          /\ rides'[r].refunded =
                rides[r].refunded + (IF rides[r].prepaid THEN 0 ELSE Price)
       \/ /\ rides'[r].status = "completed"
          /\ rides'[r].refunded = rides[r].refunded
    /\ NoneRented
    /\ bikes'[rides[r].bike] # "rented"

LEMMA AbortSettles ==
    ASSUME TypeInv, NEW r \in DOMAIN rides, AbortCommits(r), MayAbort(r)
    PROVE  r \in ActiveRides /\ Settled(r)
<1>1. r \in ActiveRides
  BY DEF MayAbort, ActiveRides
<1>2. rides[r] \in Ride /\ rides[r].bike \in Bikes
  BY DEF TypeInv, TypeOK, Ride
<1>3. /\ DOMAIN rides' = DOMAIN rides
      /\ \A x \in DOMAIN rides \ {r} : rides'[x] = rides[x]
      /\ rides'[r] = AbortedRide(rides[r])
  BY DEF AbortCommits
<1>4. /\ AbortedRide(rides[r]).status = "cancelled"
      /\ AbortedRide(rides[r]).charged = rides[r].charged
      /\ AbortedRide(rides[r]).refunded =
            rides[r].refunded + (IF rides[r].prepaid THEN 0 ELSE Price)
  BY <1>2 DEF AbortedRide, Ride
<1>5. NoneRented /\ bikes'[rides[r].bike] # "rented"
  BY <1>2 DEF AbortCommits, NoneRented, TypeInv, TypeOK
<1> QED BY <1>1, <1>3, <1>4, <1>5 DEF Settled

LEMMA EndSettles ==
    ASSUME TypeInv, NEW r \in DOMAIN rides, NEW overage \in Overages,
           NEW lowBattery \in BOOLEAN, EndRide(r, overage, lowBattery)
    PROVE  r \in ActiveRides /\ Settled(r)
<1> DEFINE fromWallet == IF rides[r].prepaid THEN 0 ELSE overage
<1>1. r \in ActiveRides
  BY DEF EndRide
<1>2. rides[r] \in Ride /\ rides[r].bike \in Bikes
  BY DEF TypeInv, TypeOK, Ride
<1>3. /\ DOMAIN rides' = DOMAIN rides
      /\ \A x \in DOMAIN rides \ {r} : rides'[x] = rides[x]
      /\ rides'[r] = CompletedRide(rides[r], fromWallet)
  BY DEF EndRide
<1>4. /\ CompletedRide(rides[r], fromWallet).status = "completed"
      /\ CompletedRide(rides[r], fromWallet).refunded = rides[r].refunded
  BY <1>2 DEF CompletedRide, Ride
<1>5. NoneRented /\ bikes'[rides[r].bike] # "rented"
  BY <1>2 DEF EndRide, StatusAfterRide, NoneRented, TypeInv, TypeOK
<1> QED BY <1>1, <1>3, <1>4, <1>5 DEF Settled

(* The step changes no ride but for what its extensions cost.               *)
SameRides ==
    /\ DOMAIN rides' = DOMAIN rides
    /\ \A x \in DOMAIN rides :
          /\ rides'[x].bike = rides[x].bike
          /\ rides'[x].user = rides[x].user
          /\ rides'[x].status = rides[x].status
          /\ rides'[x].slot = rides[x].slot
          /\ rides'[x].prepaid = rides[x].prepaid
          /\ rides'[x].charged = rides[x].charged
          /\ rides'[x].refunded = rides[x].refunded

LEMMA ExtendKeeps ==
    ASSUME TypeInv, NEW r \in DOMAIN rides, ExtendRide(r)
    PROVE  SameRides /\ NoneRented
<1>1. /\ DOMAIN rides' = DOMAIN rides
      /\ \A x \in DOMAIN rides \ {r} : rides'[x] = rides[x]
      /\ rides'[r] = ExtendedRide(rides[r])
  BY DEF ExtendRide
<1>2. rides[r] \in Ride
  BY DEF TypeInv, TypeOK
<1>3. /\ ExtendedRide(rides[r]).bike = rides[r].bike
      /\ ExtendedRide(rides[r]).user = rides[r].user
      /\ ExtendedRide(rides[r]).status = rides[r].status
      /\ ExtendedRide(rides[r]).slot = rides[r].slot
      /\ ExtendedRide(rides[r]).prepaid = rides[r].prepaid
      /\ ExtendedRide(rides[r]).charged = rides[r].charged
      /\ ExtendedRide(rides[r]).refunded = rides[r].refunded
  BY <1>2 DEF ExtendedRide, Ride
<1> QED BY <1>1, <1>3 DEF SameRides, NoneRented, ExtendRide

(* Every other step leaves the rides alone and rents no bike.               *)
LEMMA RideWriters ==
    ASSUME TypeInv, [Next]_vars
    PROVE  \/ SameRides /\ NoneRented
           \/ \E u \in Users, b \in Bikes, r \in RideIds, prepaid \in BOOLEAN :
                 StartRide(u, b, r, prepaid)
           \/ \E r \in ActiveRides : Settled(r)
           \/ Restart
<1>0. ASSUME rides' = rides PROVE SameRides
  BY <1>0 DEF SameRides
<1>1. CASE RideStep
  <2>1. ASSUME NEW r \in DOMAIN rides, AbortCommits(r)
        PROVE  (SameRides /\ NoneRented) \/ (r \in ActiveRides /\ Settled(r))
    <3>1. CASE MayAbort(r)
      BY <2>1, <3>1, AbortSettles
    <3>2. CASE ~MayAbort(r)
      BY <1>0, <2>1, <3>2 DEF AbortCommits, NoneRented
    <3> QED BY <3>1, <3>2
  <2>2. ASSUME NEW r \in DOMAIN rides, SendUnlock(r) \/ UnlockRejected(r)
               \/ UnlockTimeout(r) \/ UnlockRefused(r) \/ AbortReads(r)
        PROVE  SameRides /\ NoneRented
    BY <1>0, <2>2 DEF SendUnlock, UnlockRejected, UnlockTimeout, UnlockRefused,
                AbortReads, NoneRented
  <2> QED BY <1>1, <2>1, <2>2, EndSettles, ExtendKeeps DEF RideStep
<1>2. CASE LockStep
  BY <1>0, <1>2 DEF LockStep, EchoPersisted, EchoResolved, LockReport, AutoLost,
              AutoOffline, NoneRented, TypeInv, TypeOK
<1>3. CASE ReservationStep
  BY <1>0, <1>3 DEF ReservationStep, CreateReservation, CancelReservation, TtlPasses,
              ExpireOverdue, FreeOrphans, Freed, NoneRented, TypeInv, TypeOK
<1>4. CASE OperatorStep
  <2>1. ASSUME NEW o \in DOMAIN requests, OperatorWrites(o)
        PROVE  SameRides /\ NoneRented
    BY <1>0, <2>1 DEF OperatorWrites, NoneRented, TypeInv, TypeOK, Request, OperatorAssignable
  <2> QED BY <1>0, <1>4, <2>1 DEF OperatorStep, OperatorReads, OperatorCancels,
              StaffUnlock, StaffUnlockTimeout, NoneRented, TypeInv, TypeOK
<1>5. CASE UNCHANGED vars
  BY <1>0, <1>5 DEF vars, NoneRented
<1> QED BY <1>1, <1>2, <1>3, <1>4, <1>5 DEF Next

-----------------------------------------------------------------------------
(* The rental invariant.                                                    *)

(* No rider is over the limit.  RidersKeepToTheirSlots is not inductive     *)
(* without it: a boot moves rides to their recency ranks, and these stay    *)
(* within the limit because the number of rides does.                       *)
WithinCap == \A u \in Users : Cardinality(ActiveRidesOf(u)) <= MaxActiveRides

LEMMA ActiveFinite ==
    ASSUME TypeInv, NEW u
    PROVE  IsFiniteSet(ActiveRidesOf(u)) /\ Cardinality(ActiveRidesOf(u)) \in Nat
<1>1. ActiveRidesOf(u) \in SUBSET DOMAIN rides
  BY DEF ActiveRidesOf, ActiveRides
<1> QED BY <1>1, FS_Subset, FS_CardinalityType DEF TypeInv

(* A boot changes slots only, and gives each active ride its recency rank.  *)
LEMMA RestartRows ==
    ASSUME TypeInv, Restart
    PROVE  /\ DOMAIN rides' = DOMAIN rides
           /\ ActiveRides' = ActiveRides
           /\ \A r \in DOMAIN rides :
                 /\ rides'[r].bike = rides[r].bike
                 /\ rides'[r].user = rides[r].user
                 /\ rides'[r].status = rides[r].status
                 /\ rides'[r].prepaid = rides[r].prepaid
                 /\ rides'[r].charged = rides[r].charged
                 /\ rides'[r].refunded = rides[r].refunded
           /\ \A r \in ActiveRides : rides'[r].slot = RecencyRank(r)
<1>1. DOMAIN rides' = DOMAIN rides
  BY DEF Restart
<1>2. ASSUME NEW r \in DOMAIN rides
      PROVE  /\ rides'[r].bike = rides[r].bike
             /\ rides'[r].user = rides[r].user
             /\ rides'[r].status = rides[r].status
             /\ rides'[r].prepaid = rides[r].prepaid
             /\ rides'[r].charged = rides[r].charged
             /\ rides'[r].refunded = rides[r].refunded
             /\ r \in ActiveRides => rides'[r].slot = RecencyRank(r)
  <2>1. rides[r] \in Ride
    BY DEF TypeInv, TypeOK
  <2>2. rides'[r] = IF r \in ActiveRides THEN [rides[r] EXCEPT !.slot = RecencyRank(r)]
                                         ELSE rides[r]
    BY DEF Restart
  <2> QED BY <2>1, <2>2 DEF Ride
<1>3. ActiveRides' = ActiveRides
  BY <1>1, <1>2 DEF ActiveRides
<1> QED BY <1>1, <1>2, <1>3 DEF ActiveRides

(* The recency ranks of one rider's active rides are distinct numbers from  *)
(* 1 to the number of these rides.                                          *)
LEMMA RanksDistinct ==
    ASSUME TypeInv, NEW r \in ActiveRides
    PROVE  /\ RecencyRank(r) \in 1 .. Cardinality(ActiveRidesOf(rides[r].user))
           /\ \A x \in ActiveRidesOf(rides[r].user) \ {r} :
                 RecencyRank(x) # RecencyRank(r)
<1> DEFINE u == rides[r].user
           A == ActiveRidesOf(u)
           From(y) == {z \in A : z >= y}
<1>1. A \in SUBSET Nat /\ r \in A /\ \A x \in A : rides[x].user = u
  BY IdAssumption DEF TypeInv, TypeOK, ActiveRidesOf, ActiveRides
<1>2. IsFiniteSet(A) /\ Cardinality(A) \in Nat
  BY ActiveFinite
<1>3. \A x \in A : RecencyRank(x) = Cardinality(From(x))
  BY <1>1 DEF RecencyRank
<1> HIDE DEF A
<1>4. ASSUME NEW x \in A
      PROVE  /\ IsFiniteSet(From(x)) /\ Cardinality(From(x)) \in Nat
             /\ Cardinality(From(x)) <= Cardinality(A)
             /\ Cardinality(From(x)) # 0
  <2>1. From(x) \in SUBSET A /\ x \in From(x)
    BY <1>1
  <2> HIDE DEF From
  <2> QED BY <2>1, <1>2, FS_Subset, FS_CardinalityType, FS_EmptySet
<1>5. ASSUME NEW x \in A, NEW y \in A, x < y
      PROVE  Cardinality(From(y)) # Cardinality(From(x))
  <2>0. x \in Nat /\ y \in Nat /\ x < y
    BY <1>1, <1>5
  <2>1. From(y) \in SUBSET From(x) /\ x \in From(x) /\ x \notin From(y)
    <3>1. \A z \in A : z \in Nat /\ (z >= y => z >= x)
      BY <2>0, <1>1
    <3>2. ~(x >= y) /\ x >= x
      BY <2>0
    <3> QED BY <3>1, <3>2
  <2> HIDE DEF From
  <2> QED BY <2>1, <1>4, FS_Subset
<1>6. ASSUME NEW x \in A \ {r}
      PROVE  Cardinality(From(x)) # Cardinality(From(r))
  <2>1. x < r \/ r < x
    BY <1>1
  <2> HIDE DEF From
  <2> QED BY <2>1, <1>1, <1>5
<1> HIDE DEF From
<1>7. RecencyRank(r) \in 1 .. Cardinality(A)
  BY <1>1, <1>2, <1>3, <1>4
<1>8. \A x \in A \ {r} : RecencyRank(x) # RecencyRank(r)
  BY <1>1, <1>3, <1>6
<1> QED BY <1>7, <1>8 DEF A

(* The invariant that the steps preserve: each part is a property checked   *)
(* by a run, but for the two that make the others inductive.                *)
RideInv ==
    /\ TypeInv
    /\ OneActiveRidePerBike
    /\ RentedBikeHasRide
    /\ RidersKeepToTheirSlots
    /\ WithinCap
    /\ ActiveRideChargedAtStart
    /\ RefundMatchesCharge

LEMMA InitRideInv == Init => RideInv
<1> SUFFICES ASSUME Init PROVE RideInv
  OBVIOUS
<1>1. TypeInv
  BY InitType
<1>2. DOMAIN rides = {} /\ ActiveRides = {}
  BY DEF Init, ActiveRides
<1>3. WithinCap
  <2>1. \A u \in Users : ActiveRidesOf(u) = {}
    BY <1>2 DEF ActiveRidesOf
  <2> QED BY <2>1, FS_EmptySet, LimitAssumption DEF WithinCap
<1>4. RentedBikeHasRide
  BY DEF Init, RentedBikeHasRide
<1> QED BY <1>1, <1>2, <1>3, <1>4
        DEF RideInv, OneActiveRidePerBike, RidersKeepToTheirSlots,
            ActiveRideChargedAtStart, RefundMatchesCharge

LEMMA StartRideInv ==
    ASSUME RideInv, NEW u \in Users, NEW b \in Bikes, NEW r \in RideIds,
           NEW prepaid \in BOOLEAN, StartRide(u, b, r, prepaid)
    PROVE  RideInv'
<1>0. TypeInv /\ TypeInv'
  BY StartRideType DEF RideInv
<1>1. /\ r \notin DOMAIN rides
      /\ DOMAIN rides' = DOMAIN rides \cup {r}
      /\ \A x \in DOMAIN rides : rides'[x] = rides[x]
  BY DEF StartRide, IsNextId, Insert
<1>2. /\ rides'[r].bike = b /\ rides'[r].user = u /\ rides'[r].status = "active"
      /\ rides'[r].slot = ActiveSlot(u) /\ rides'[r].prepaid = prepaid
      /\ rides'[r].charged = IF prepaid THEN 0 ELSE Price
      /\ rides'[r].refunded = 0
  <2>1. rides'[r] = [bike |-> b, user |-> u, status |-> "active",
                     slot |-> ActiveSlot(u), prepaid |-> prepaid,
                     charged |-> IF prepaid THEN 0 ELSE Price, extended |-> 0,
                     refunded |-> 0]
    BY DEF StartRide, Insert
  <2> QED BY <2>1
<1>2a. /\ ActiveRides' = ActiveRides \cup {r}
      /\ ActiveRides \in SUBSET DOMAIN rides
  BY <1>1, <1>2 DEF ActiveRides
<1>3. OneActiveRidePerBike'
  <2>1. \A x \in ActiveRides : rides[x].bike # b
    BY DEF StartRide, UniqueActiveBike, ActiveRidesOn
  <2> QED BY <1>1, <1>2a, <1>2, <2>1 DEF RideInv, OneActiveRidePerBike
<1>4. RentedBikeHasRide'
  <2> SUFFICES ASSUME NEW c \in Bikes, bikes'[c] = "rented"
               PROVE  \E x \in ActiveRides' : rides'[x].bike = c
    BY DEF RentedBikeHasRide, ActiveRidesOn
  <2>1. CASE c = b
    BY <2>1, <1>1, <1>2a, <1>2
  <2>2. CASE c # b
    <3>1. bikes[c] = "rented"
      BY <1>0, <2>2 DEF StartRide, TypeInv, TypeOK
    <3>2. \E x \in ActiveRides : rides[x].bike = c
      BY <3>1 DEF RideInv, RentedBikeHasRide, ActiveRidesOn
    <3> QED BY <3>2, <1>1, <1>2a
  <2> QED BY <2>1, <2>2
<1>5. /\ ActiveSlot(u) \in 1 .. MaxActiveRides
      /\ \A x \in ActiveRidesOf(u) : rides[x].slot # ActiveSlot(u)
  <2>1. /\ ActiveSlot(u) \in 1 .. Cardinality(ActiveRidesOf(u)) + 1
        /\ \A x \in ActiveRidesOf(u) : rides[x].slot # ActiveSlot(u)
    BY <1>0, FreeSlotExists DEF TypeInv, TypeOK
  <2>2. Cardinality(ActiveRidesOf(u)) \in Nat
    BY <1>0, ActiveFinite
  <2>3. Cardinality(ActiveRidesOf(u)) < MaxActiveRides
    BY DEF StartRide, BelowCap
  <2> QED BY <2>1, <2>2, <2>3, LimitAssumption
<1>6. RidersKeepToTheirSlots'
  <2>1. \A x \in ActiveRides : rides[x].user = u => rides[x].slot # ActiveSlot(u)
    BY <1>5 DEF ActiveRidesOf
  <2> QED BY <1>1, <1>2a, <1>2, <1>5, <2>1 DEF RideInv, RidersKeepToTheirSlots
<1>7. WithinCap'
  <2> SUFFICES ASSUME NEW w \in Users
               PROVE  Cardinality(ActiveRidesOf(w)') <= MaxActiveRides
    BY DEF WithinCap
  <2>1. CASE w = u
    <3>1. ActiveRidesOf(w)' = ActiveRidesOf(u) \cup {r}
      BY <2>1, <1>1, <1>2a, <1>2 DEF ActiveRidesOf
    <3>2. IsFiniteSet(ActiveRidesOf(u)) /\ Cardinality(ActiveRidesOf(u)) \in Nat
      BY <1>0, ActiveFinite
    <3>3. r \notin ActiveRidesOf(u)
      BY <1>1, <1>2a DEF ActiveRidesOf
    <3>4. Cardinality(ActiveRidesOf(u) \cup {r}) = Cardinality(ActiveRidesOf(u)) + 1
      BY <3>2, <3>3, FS_AddElement
    <3>5. Cardinality(ActiveRidesOf(u)) < MaxActiveRides
      BY DEF StartRide, BelowCap
    <3> QED BY <3>1, <3>2, <3>4, <3>5, LimitAssumption
  <2>2. CASE w # u
    <3>1. ActiveRidesOf(w)' = ActiveRidesOf(w)
      BY <2>2, <1>1, <1>2a, <1>2 DEF ActiveRidesOf
    <3> QED BY <3>1 DEF RideInv, WithinCap
  <2> QED BY <2>1, <2>2
<1>8. ActiveRideChargedAtStart' /\ RefundMatchesCharge'
  BY <1>1, <1>2a, <1>2 DEF RideInv, ActiveRideChargedAtStart, RefundMatchesCharge
<1> QED BY <1>0, <1>3, <1>4, <1>6, <1>7, <1>8 DEF RideInv

LEMMA SettledInv ==
    ASSUME RideInv, TypeInv', NEW r \in ActiveRides, Settled(r)
    PROVE  RideInv'
<1>0. TypeInv /\ r \in DOMAIN rides
  BY DEF RideInv, ActiveRides
<1>1. /\ DOMAIN rides' = DOMAIN rides
      /\ \A x \in DOMAIN rides \ {r} : rides'[x] = rides[x]
      /\ rides'[r].status # "active"
  BY DEF Settled
<1>2. ActiveRides' = ActiveRides \ {r} /\ ActiveRides \in SUBSET DOMAIN rides
  BY <1>1 DEF ActiveRides
<1>3. OneActiveRidePerBike' /\ RidersKeepToTheirSlots' /\ ActiveRideChargedAtStart'
  BY <1>1, <1>2 DEF RideInv, OneActiveRidePerBike, RidersKeepToTheirSlots,
                    ActiveRideChargedAtStart
<1>4. RentedBikeHasRide'
  <2> SUFFICES ASSUME NEW c \in Bikes, bikes'[c] = "rented"
               PROVE  \E x \in ActiveRides' : rides'[x].bike = c
    BY DEF RentedBikeHasRide, ActiveRidesOn
  <2>1. bikes[c] = "rented" /\ c # rides[r].bike
    BY DEF Settled, NoneRented
  <2>2. PICK x \in ActiveRides : rides[x].bike = c
    BY <2>1 DEF RideInv, RentedBikeHasRide, ActiveRidesOn
  <2> QED BY <2>1, <2>2, <1>1, <1>2
<1>5. WithinCap'
  <2> SUFFICES ASSUME NEW w \in Users
               PROVE  Cardinality(ActiveRidesOf(w)') <= MaxActiveRides
    BY DEF WithinCap
  <2>1. ActiveRidesOf(w)' \in SUBSET ActiveRidesOf(w)
    BY <1>1, <1>2 DEF ActiveRidesOf
  <2>2. IsFiniteSet(ActiveRidesOf(w)) /\ Cardinality(ActiveRidesOf(w)) \in Nat
    BY <1>0, ActiveFinite
  <2>3. Cardinality(ActiveRidesOf(w)) <= MaxActiveRides
    BY DEF RideInv, WithinCap
  <2>4. /\ Cardinality(ActiveRidesOf(w)') \in Nat
        /\ Cardinality(ActiveRidesOf(w)') <= Cardinality(ActiveRidesOf(w))
    BY <2>1, <2>2, FS_Subset, FS_CardinalityType
  <2> QED BY <2>2, <2>3, <2>4, LimitAssumption
<1>6. RefundMatchesCharge'
  <2>1. rides[r].refunded = 0 /\ rides[r].charged = IF rides[r].prepaid THEN 0 ELSE Price
    BY <1>0 DEF RideInv, RefundMatchesCharge, ActiveRideChargedAtStart, ActiveRides
  <2>2. rides'[r].refunded =
           IF rides'[r].status = "cancelled" THEN rides'[r].charged ELSE 0
    BY <2>1, MoneyAssumption DEF Settled
  <2> QED BY <1>1, <2>2 DEF RideInv, RefundMatchesCharge
<1> QED BY <1>3, <1>4, <1>5, <1>6 DEF RideInv

LEMMA RestartInv ==
    ASSUME RideInv, TypeInv', Restart
    PROVE  RideInv'
<1>0. TypeInv
  BY DEF RideInv
<1>1. /\ DOMAIN rides' = DOMAIN rides
      /\ ActiveRides' = ActiveRides
      /\ ActiveRides \in SUBSET DOMAIN rides
      /\ \A r \in DOMAIN rides :
            /\ rides'[r].bike = rides[r].bike
            /\ rides'[r].user = rides[r].user
            /\ rides'[r].status = rides[r].status
            /\ rides'[r].prepaid = rides[r].prepaid
            /\ rides'[r].charged = rides[r].charged
            /\ rides'[r].refunded = rides[r].refunded
      /\ \A r \in ActiveRides : rides'[r].slot = RecencyRank(r)
  BY <1>0, RestartRows DEF ActiveRides
<1>2. OneActiveRidePerBike' /\ ActiveRideChargedAtStart' /\ RefundMatchesCharge'
  BY <1>1 DEF RideInv, OneActiveRidePerBike, ActiveRideChargedAtStart, RefundMatchesCharge
<1>3. RentedBikeHasRide'
  <2>1. \A b \in Bikes : bikes'[b] = "rented" => ActiveRidesOn(b) # {}
    BY DEF Restart
  <2>2. \A b \in Bikes : ActiveRidesOn(b)' = ActiveRidesOn(b)
    BY <1>1 DEF ActiveRidesOn
  <2> QED BY <2>1, <2>2 DEF RentedBikeHasRide
<1>4. WithinCap'
  <2>1. \A w \in Users : ActiveRidesOf(w)' = ActiveRidesOf(w)
    BY <1>1 DEF ActiveRidesOf
  <2> QED BY <2>1 DEF RideInv, WithinCap
<1>5. RidersKeepToTheirSlots'
  <2> SUFFICES ASSUME NEW r \in ActiveRides
               PROVE  /\ rides'[r].slot \in 1 .. MaxActiveRides
                      /\ \A x \in ActiveRides \ {r} :
                            rides[x].user = rides[r].user => rides'[x].slot # rides'[r].slot
    BY <1>1 DEF RidersKeepToTheirSlots
  <2>1. rides[r].user \in Users
    BY <1>0, <1>1 DEF TypeInv, TypeOK, Ride
  <2>2. /\ RecencyRank(r) \in 1 .. Cardinality(ActiveRidesOf(rides[r].user))
        /\ \A x \in ActiveRidesOf(rides[r].user) \ {r} : RecencyRank(x) # RecencyRank(r)
    BY <1>0, RanksDistinct
  <2>3. /\ Cardinality(ActiveRidesOf(rides[r].user)) \in Nat
        /\ Cardinality(ActiveRidesOf(rides[r].user)) <= MaxActiveRides
    BY <1>0, <2>1, ActiveFinite DEF RideInv, WithinCap
  <2>4. rides'[r].slot \in 1 .. MaxActiveRides
    BY <1>1, <2>2, <2>3, LimitAssumption
  <2>5. \A x \in ActiveRides \ {r} :
           rides[x].user = rides[r].user => rides'[x].slot # rides'[r].slot
    BY <1>1, <2>2 DEF ActiveRidesOf
  <2> QED BY <2>4, <2>5
<1> QED BY <1>2, <1>3, <1>4, <1>5 DEF RideInv

LEMMA RideInvStep == RideInv /\ [Next]_vars => RideInv'
<1> SUFFICES ASSUME RideInv, [Next]_vars PROVE RideInv'
  OBVIOUS
<1>1. TypeInv /\ TypeInv'
  BY TypeStep DEF RideInv
<1>2. CASE SameRides /\ NoneRented
  <2>1. ActiveRides' = ActiveRides /\ ActiveRides \in SUBSET DOMAIN rides
    BY <1>2 DEF ActiveRides, SameRides
  <2>2. /\ \A u \in Users : ActiveRidesOf(u)' = ActiveRidesOf(u)
        /\ \A b \in Bikes : ActiveRidesOn(b)' = ActiveRidesOn(b)
    BY <1>2, <2>1 DEF ActiveRidesOf, ActiveRidesOn, SameRides
  <2>3. WithinCap' /\ RentedBikeHasRide'
    BY <1>2, <2>2 DEF RideInv, WithinCap, RentedBikeHasRide, NoneRented
  <2> QED BY <1>1, <1>2, <2>1, <2>3
          DEF SameRides, RideInv, OneActiveRidePerBike, RidersKeepToTheirSlots,
              ActiveRideChargedAtStart, RefundMatchesCharge
<1>3. CASE \E u \in Users, b \in Bikes, r \in RideIds, prepaid \in BOOLEAN :
              StartRide(u, b, r, prepaid)
  BY <1>3, StartRideInv
<1>4. CASE \E r \in ActiveRides : Settled(r)
  BY <1>1, <1>4, SettledInv
<1>5. CASE Restart
  BY <1>1, <1>5, RestartInv
<1> QED BY <1>1, <1>2, <1>3, <1>4, <1>5, RideWriters

LEMMA RideInvHolds == Spec => []RideInv
BY InitRideInv, RideInvStep, PTL DEF Spec

(* Whatever operators, sweeps, late echoes and boots do to the bike's       *)
(* status, no bike is in two active rides.                                  *)
THEOREM BikeIsRiddenOnce == Spec => []OneActiveRidePerBike
<1>1. RideInv => OneActiveRidePerBike
  BY DEF RideInv
<1> QED BY <1>1, RideInvHolds, PTL

(* No bike stays rented for nobody.                                         *)
THEOREM RentedIsBacked == Spec => []RentedBikeHasRide
<1>1. RideInv => RentedBikeHasRide
  BY DEF RideInv
<1> QED BY <1>1, RideInvHolds, PTL

(* The slot search of startRide and the boot's re-ranking keep every rider  *)
(* to distinct slots from 1 to the limit, for every limit.                  *)
THEOREM SlotsAreKept == Spec => []RidersKeepToTheirSlots
<1>1. RideInv => RidersKeepToTheirSlots
  BY DEF RideInv
<1> QED BY <1>1, RideInvHolds, PTL

(* An aborted start gives back what it took, exactly once; a settled ride   *)
(* gives nothing back.                                                      *)
THEOREM RefundsAreExact == Spec => []RefundMatchesCharge
<1>1. RideInv => RefundMatchesCharge
  BY DEF RideInv
<1> QED BY <1>1, RideInvHolds, PTL

-----------------------------------------------------------------------------
(* Reservations: a row never becomes active again, and an insert finds none *)
(* active for its bike.                                                     *)

(* The step adds no active reservation and moves none to another bike.      *)
NoNewHold ==
    /\ ActiveReservations' \subseteq ActiveReservations
    /\ \A v \in ActiveReservations' : reservations'[v].bike = reservations[v].bike

LEMMA ReservationWriters ==
    ASSUME TypeInv, [Next]_vars
    PROVE  \/ NoNewHold
           \/ \E u \in Users, b \in Bikes, v \in ReservationIds : CreateReservation(u, b, v)
<1>0. ASSUME UNCHANGED reservations PROVE NoNewHold
  BY <1>0 DEF NoNewHold, ActiveReservations
<1>1. CASE RideStep
  <2>1. ASSUME NEW u \in Users, NEW b \in Bikes, NEW r \in RideIds,
               NEW prepaid \in BOOLEAN, StartRide(u, b, r, prepaid)
        PROVE  NoNewHold
    <3>1. /\ DOMAIN reservations' = DOMAIN reservations
          /\ \A v \in DOMAIN reservations :
                \/ reservations'[v] = reservations[v]
                \/ reservations'[v] = [reservations[v] EXCEPT !.status = "claimed"]
      BY <2>1 DEF StartRide
    <3> QED BY <3>1 DEF TypeInv, TypeOK, NoNewHold, ActiveReservations, Reservation
  <2>2. ASSUME NEW r \in DOMAIN rides, SendUnlock(r) \/ UnlockRejected(r)
               \/ UnlockTimeout(r) \/ UnlockRefused(r) \/ AbortReads(r) \/ AbortCommits(r)
        PROVE  NoNewHold
    BY <1>0, <2>2 DEF SendUnlock, UnlockRejected, UnlockTimeout, UnlockRefused,
                      AbortReads, AbortCommits
  <2>3. ASSUME NEW r \in DOMAIN rides, NEW overage \in Overages,
               NEW lowBattery \in BOOLEAN, EndRide(r, overage, lowBattery)
        PROVE  NoNewHold
    BY <1>0, <2>3 DEF EndRide
  <2> QED BY <1>0, <1>1, <2>1, <2>2, <2>3 DEF RideStep, ExtendRide
<1>2. CASE LockStep
  BY <1>0, <1>2 DEF LockStep, EchoPersisted, EchoResolved, LockReport, AutoLost, AutoOffline
<1>3. CASE ReservationStep
  <2>1. ASSUME NEW v \in DOMAIN reservations, CancelReservation(v) \/ TtlPasses(v)
        PROVE  NoNewHold
    BY <2>1 DEF CancelReservation, TtlPasses, TypeInv, TypeOK, NoNewHold,
                ActiveReservations, Reservation
  <2>2. ASSUME ExpireOverdue PROVE NoNewHold
    <3>1. /\ DOMAIN reservations' = DOMAIN reservations
          /\ \A v \in DOMAIN reservations :
                \/ reservations'[v] = reservations[v]
                \/ reservations'[v] = [reservations[v] EXCEPT !.status = "expired"]
      BY <2>2 DEF ExpireOverdue
    <3> QED BY <3>1 DEF TypeInv, TypeOK, NoNewHold, ActiveReservations, Reservation
  <2>3. ASSUME FreeOrphans PROVE NoNewHold
    BY <1>0, <2>3 DEF FreeOrphans
  <2> QED BY <1>3, <2>1, <2>2, <2>3 DEF ReservationStep
<1>4. CASE OperatorStep
  <2>1. ASSUME NEW o \in DOMAIN requests, OperatorCancels(o) PROVE NoNewHold
    <3>1. /\ DOMAIN reservations' = DOMAIN reservations
          /\ \A v \in DOMAIN reservations :
                \/ reservations'[v] = reservations[v]
                \/ reservations'[v] = [reservations[v] EXCEPT !.status = "cancelled"]
      BY <2>1 DEF OperatorCancels
    <3> QED BY <3>1 DEF TypeInv, TypeOK, NoNewHold, ActiveReservations, Reservation
  <2> QED BY <1>0, <1>4, <2>1 DEF OperatorStep, OperatorReads, OperatorWrites,
              StaffUnlock, StaffUnlockTimeout
<1>5. CASE Restart \/ UNCHANGED vars
  BY <1>0, <1>5 DEF Restart, vars
<1> QED BY <1>1, <1>2, <1>3, <1>4, <1>5 DEF Next

LEMMA ReservationInvStep ==
    TypeInv /\ OneActiveReservationPerBike /\ [Next]_vars => OneActiveReservationPerBike'
<1> SUFFICES ASSUME TypeInv, OneActiveReservationPerBike, [Next]_vars
             PROVE  OneActiveReservationPerBike'
  OBVIOUS
<1>1. CASE NoNewHold
  BY <1>1 DEF NoNewHold, OneActiveReservationPerBike
<1>2. ASSUME NEW u \in Users, NEW b \in Bikes, NEW v \in ReservationIds,
             CreateReservation(u, b, v)
      PROVE  OneActiveReservationPerBike'
  <2>1. /\ v \notin DOMAIN reservations
        /\ DOMAIN reservations' = DOMAIN reservations \cup {v}
        /\ \A w \in DOMAIN reservations : reservations'[w] = reservations[w]
        /\ reservations'[v] = [bike |-> b, user |-> u, status |-> "active", aged |-> FALSE]
    BY <1>2 DEF CreateReservation, IsNextId, Insert
  <2>2. ActiveReservations' = ActiveReservations \cup {v}
    BY <2>1 DEF ActiveReservations
  <2>3. \A w \in ActiveReservations : w \in DOMAIN reservations /\ reservations[w].bike # b
    BY <1>2 DEF CreateReservation, UniqueActiveReservation, ActiveReservationsOn,
                ActiveReservations
  <2> QED BY <2>1, <2>2, <2>3 DEF OneActiveReservationPerBike
<1> QED BY <1>1, <1>2, ReservationWriters

(* Two riders who reserve the same bike at once never both hold it, whatever*)
(* the sweeps and the back office do to the bike in between.                *)
THEOREM BikeIsHeldOnce == Spec => []OneActiveReservationPerBike
<1>1. Init => OneActiveReservationPerBike
  BY DEF Init, OneActiveReservationPerBike, ActiveReservations
<1> QED BY <1>1, InitType, TypeStep, ReservationInvStep, PTL DEF Spec

-----------------------------------------------------------------------------
(* Action properties.                                                       *)

LEMMA HoldStep ==
    ASSUME TypeInv, [Next]_vars, NEW b \in Bikes,
           bikes[b] = "reserved", bikes'[b] = "rented"
    PROVE  \E v \in ActiveReservationsOn(b), r \in ActiveRides' :
              /\ rides'[r].bike = b
              /\ rides'[r].user = reservations[v].user
              /\ reservations'[v].status = "claimed"
<1>1. ~NoneRented /\ ~Restart /\ \A r : ~Settled(r)
  BY DEF NoneRented, Restart, Settled
<1>2. PICK u \in Users, c \in Bikes, r \in RideIds, prepaid \in BOOLEAN :
              StartRide(u, c, r, prepaid)
  BY <1>1, RideWriters
<1>3. c = b
  BY <1>2 DEF StartRide, TypeInv, TypeOK
<1>4. PICK v \in ActiveReservationsOn(b) : reservations[v].user = u
  BY <1>2, <1>3 DEF StartRide, MayClaim
<1>5. reservations'[v].status = "claimed"
  <2>1. v \in DOMAIN reservations /\ reservations[v] \in Reservation
    BY <1>4 DEF ActiveReservationsOn, ActiveReservations, TypeInv, TypeOK
  <2>2. reservations'[v] = [reservations[v] EXCEPT !.status = "claimed"]
    BY <1>2, <1>3, <1>4, <2>1 DEF StartRide
  <2> QED BY <2>1, <2>2 DEF Reservation
<1>6. r \in DOMAIN rides' /\ rides'[r].bike = b /\ rides'[r].user = u
      /\ rides'[r].status = "active"
  BY <1>2, <1>3 DEF StartRide, Insert
<1> QED BY <1>4, <1>5, <1>6 DEF ActiveRides

(* A reserved bike is started by the holder of its reservation only, and    *)
(* the start uses that reservation up.                                      *)
THEOREM HoldsAreHonoured == Spec => HoldIsHonoured
<1>1. TypeInv /\ [Next]_vars =>
        [\A b \in Bikes :
          (bikes[b] = "reserved" /\ bikes'[b] = "rented")
          => \E v \in ActiveReservationsOn(b), r \in ActiveRides' :
                /\ rides'[r].bike = b
                /\ rides'[r].user = reservations[v].user
                /\ reservations'[v].status = "claimed"]_vars
  BY HoldStep
<1> QED BY <1>1, InitType, TypeStep, PTL DEF Spec, HoldIsHonoured

(* What can end the rented status of a bike whose ride stays active.        *)
LEMMA TakenStep ==
    ASSUME RideInv, [Next]_vars, NEW r \in ActiveRides, r \in ActiveRides',
           bikes[rides[r].bike] = "rented", bikes'[rides[r].bike] # "rented"
    PROVE  \/ bikes'[rides[r].bike] = "lost"
           \/ \E o \in DOMAIN requests :
                 requests[o].bike = rides[r].bike /\ requests[o].step = "write"
<1> DEFINE b == rides[r].bike
<1>0. TypeInv /\ b \in Bikes /\ bikes \in [Bikes -> BikeStatus]
  BY DEF RideInv, ActiveRides, TypeInv, TypeOK, Ride
<1>1. CASE RideStep
  <2>1. ASSUME NEW u \in Users, NEW c \in Bikes, NEW x \in RideIds,
               NEW prepaid \in BOOLEAN, StartRide(u, c, x, prepaid)
        PROVE  FALSE
    BY <1>0, <2>1 DEF StartRide
  <2>2. ASSUME NEW x \in DOMAIN rides, x \in ActiveRides, Settled(x),
               \A c \in Bikes \ {rides[x].bike} : bikes'[c] = bikes[c]
        PROVE  FALSE
    <3>1. rides[x].bike = b
      BY <1>0, <2>2
    <3>2. x = r
      BY <2>2, <3>1 DEF RideInv, OneActiveRidePerBike
    <3> QED BY <2>2, <3>2 DEF Settled, ActiveRides
  <2>3. ASSUME NEW x \in DOMAIN rides, AbortCommits(x) PROVE FALSE
    <3>1. MayAbort(x) /\ \A c \in Bikes \ {rides[x].bike} : bikes'[c] = bikes[c]
      BY <1>0, <2>3 DEF AbortCommits
    <3> QED BY <1>0, <2>2, <2>3, <3>1, AbortSettles
  <2>4. ASSUME NEW x \in DOMAIN rides, NEW overage \in Overages,
               NEW lowBattery \in BOOLEAN, EndRide(x, overage, lowBattery)
        PROVE  FALSE
    <3>1. \A c \in Bikes \ {rides[x].bike} : bikes'[c] = bikes[c]
      BY <1>0, <2>4 DEF EndRide
    <3>2. x \in ActiveRides /\ Settled(x)
      BY <1>0, <2>4, EndSettles
    <3> QED BY <2>2, <3>1, <3>2
  <2>5. ASSUME NEW x \in DOMAIN rides, SendUnlock(x) \/ UnlockRejected(x)
               \/ UnlockTimeout(x) \/ UnlockRefused(x) \/ AbortReads(x)
        PROVE  FALSE
    BY <2>5 DEF SendUnlock, UnlockRejected, UnlockTimeout, UnlockRefused, AbortReads
  <2> QED BY <1>1, <2>1, <2>3, <2>4, <2>5 DEF RideStep, ExtendRide
<1>2. CASE LockStep
  BY <1>0, <1>2 DEF LockStep, EchoPersisted, EchoResolved, LockReport, AutoLost, AutoOffline
<1>3. CASE ReservationStep
  BY <1>0, <1>3 DEF ReservationStep, CreateReservation, CancelReservation, TtlPasses,
                    ExpireOverdue, FreeOrphans, Freed
<1>4. CASE OperatorStep
  BY <1>0, <1>4 DEF OperatorStep, OperatorReads, OperatorWrites, OperatorCancels,
                    StaffUnlock, StaffUnlockTimeout
<1>5. CASE Restart
  <2>1. r \in ActiveRidesOn(b)
    BY DEF ActiveRidesOn
  <2> QED BY <1>0, <1>5, <2>1 DEF Restart
<1>6. CASE UNCHANGED vars
  BY <1>6 DEF vars
<1> QED BY <1>1, <1>2, <1>3, <1>4, <1>5, <1>6 DEF Next

(* While a ride lasts, its rented bike is taken away by an operator's edit  *)
(* or by the theft detector, and by nothing else.                           *)
THEOREM RidersKeepTheirBikes == Spec => RideKeepsItsBike
<1>1. RideInv /\ [Next]_vars =>
        [\A r \in ActiveRides :
          LET b == rides[r].bike
          IN  (bikes[b] = "rented" /\ r \in ActiveRides' /\ bikes'[b] # "rented")
              => \/ bikes'[b] = "lost"
                 \/ \E o \in DOMAIN requests :
                       requests[o].bike = b /\ requests[o].step = "write"]_vars
  BY TakenStep
<1> QED BY <1>1, RideInvHolds, PTL DEF Spec, RideKeepsItsBike

(* Who moves a bike from outside the rental pool to available.              *)
LEMMA PoolEntryStep ==
    ASSUME RideInv, [Next]_vars, NEW b \in Bikes,
           bikes[b] \notin {"available", "reserved"}, bikes'[b] = "available"
    PROVE  LockReportedClosed(b) \/ AbortSawClosed(b) \/ OperatorSawClosed(b)
<1>0. TypeInv /\ bikes \in [Bikes -> BikeStatus]
  BY DEF RideInv, TypeInv, TypeOK
<1>1. CASE RideStep
  <2>1. ASSUME NEW u \in Users, NEW c \in Bikes, NEW r \in RideIds,
               NEW prepaid \in BOOLEAN, StartRide(u, c, r, prepaid)
        PROVE  FALSE
    BY <1>0, <2>1 DEF StartRide
  <2>2. ASSUME NEW r \in DOMAIN rides, AbortCommits(r)
        PROVE  AbortSawClosed(b)
    BY <1>0, <2>2 DEF AbortCommits, AbortSawClosed
  <2>3. ASSUME NEW r \in DOMAIN rides, NEW overage \in Overages,
               NEW lowBattery \in BOOLEAN, EndRide(r, overage, lowBattery)
        PROVE  LockReportedClosed(b)
    <3>1. bikes' = [bikes EXCEPT ![rides[r].bike] =
                       StatusAfterRide(rides[r].bike, lowBattery)]
      BY <2>3 DEF EndRide
    <3>2. rides[r].bike = b /\ StatusAfterRide(b, lowBattery) = "available"
      BY <1>0, <3>1
    <3> QED BY <3>2 DEF StatusAfterRide
  <2>4. ASSUME NEW r \in DOMAIN rides, SendUnlock(r) \/ UnlockRejected(r)
               \/ UnlockTimeout(r) \/ UnlockRefused(r) \/ AbortReads(r) \/ ExtendRide(r)
        PROVE  FALSE
    BY <2>4 DEF SendUnlock, UnlockRejected, UnlockTimeout, UnlockRefused, AbortReads,
                ExtendRide
  <2> QED BY <1>1, <2>1, <2>2, <2>3, <2>4 DEF RideStep
<1>2. CASE LockStep
  BY <1>0, <1>2 DEF LockStep, EchoPersisted, EchoResolved, LockReport, AutoLost, AutoOffline
<1>3. CASE ReservationStep
  BY <1>0, <1>3 DEF ReservationStep, CreateReservation, CancelReservation, TtlPasses,
                    ExpireOverdue, FreeOrphans, Freed
<1>4. CASE OperatorStep
  BY <1>0, <1>4 DEF OperatorStep, OperatorReads, OperatorWrites, OperatorCancels,
                    StaffUnlock, StaffUnlockTimeout, OperatorSawClosed
<1>5. CASE Restart
  BY <1>5 DEF Restart, RideInv, RentedBikeHasRide
<1>6. CASE UNCHANGED vars
  BY <1>6 DEF vars
<1> QED BY <1>1, <1>2, <1>3, <1>4, <1>5, <1>6 DEF Next

(* An abort that saw the lock closed did so in the step it says.            *)
LEMMA AbortReadStep ==
    ASSUME TypeInv, [Next]_vars, NEW r \in DOMAIN rides,
           starts[r] # "abortClosed", starts'[r] = "abortClosed"
    PROVE  LockReportedClosed(rides[r].bike)
<1>0. starts \in [RideIds -> StartPhase] /\ r \in RideIds
  BY DEF TypeInv, TypeOK
<1>1. CASE RideStep
  <2>1. ASSUME NEW u \in Users, NEW c \in Bikes, NEW x \in RideIds,
               NEW prepaid \in BOOLEAN, StartRide(u, c, x, prepaid)
        PROVE  FALSE
    BY <1>0, <2>1 DEF StartRide
  <2>2. ASSUME NEW x \in DOMAIN rides, AbortReads(x)
        PROVE  LockReportedClosed(rides[r].bike)
    <3>1. starts' = [starts EXCEPT ![x] =
             IF LockReportedClosed(rides[x].bike) THEN "abortClosed" ELSE "abortOpen"]
      BY <2>2 DEF AbortReads
    <3>2. x = r
      BY <1>0, <3>1
    <3> QED BY <1>0, <3>1, <3>2
  <2>3. ASSUME NEW x \in DOMAIN rides, SendUnlock(x) \/ UnlockRejected(x)
               \/ UnlockTimeout(x) \/ UnlockRefused(x) \/ AbortCommits(x)
        PROVE  FALSE
    BY <1>0, <2>3 DEF SendUnlock, UnlockRejected, UnlockTimeout, UnlockRefused, AbortCommits
  <2> QED BY <1>1, <2>1, <2>2, <2>3 DEF RideStep, ExtendRide, EndRide
<1>2. CASE LockStep
  BY <1>0, <1>2 DEF LockStep, EchoPersisted, EchoResolved, LockReport, AutoLost, AutoOffline
<1>3. CASE ReservationStep \/ OperatorStep
  BY <1>3 DEF ReservationStep, CreateReservation, CancelReservation, TtlPasses,
              ExpireOverdue, FreeOrphans, OperatorStep, OperatorReads, OperatorWrites,
              OperatorCancels, StaffUnlock, StaffUnlockTimeout
<1>4. CASE Restart \/ UNCHANGED vars
  BY <1>0, <1>4 DEF Restart, vars
<1> QED BY <1>1, <1>2, <1>3, <1>4 DEF Next

(* An edit that will make a bike available was let through by a closed lock.*)
LEMMA OperatorReadStep ==
    ASSUME TypeInv, [Next]_vars, NEW o \in DOMAIN requests' \ DOMAIN requests,
           requests'[o].target = "available"
    PROVE  LockReportedClosed(requests'[o].bike)
<1>1. CASE OperatorStep
  <2>1. ASSUME NEW x \in Operators, NEW op \in OperatorOp, NEW b \in Bikes,
               NEW target \in OperatorAssignable, OperatorReads(x, op, b, target)
        PROVE  LockReportedClosed(requests'[o].bike)
    <3>1. x = o /\ requests'[o].bike = b /\ target = "available"
      BY <2>1 DEF OperatorReads, Insert
    <3>2. Proceeds(op, b, "available")
      BY <2>1, <3>1 DEF OperatorReads
    <3> QED BY <3>1, <3>2 DEF Proceeds
  <2>2. ASSUME NEW x \in DOMAIN requests, OperatorWrites(x) \/ OperatorCancels(x)
        PROVE  FALSE
    BY <2>2 DEF OperatorWrites, OperatorCancels, Drop
  <2> QED BY <1>1, <2>1, <2>2 DEF OperatorStep, StaffUnlock, StaffUnlockTimeout
<1>2. CASE Restart
  BY <1>2 DEF Restart
<1>3. CASE UNCHANGED requests
  BY <1>3
<1>4. ASSUME RideStep PROVE UNCHANGED requests
  <2>1. ASSUME NEW r \in DOMAIN rides, SendUnlock(r) \/ UnlockRejected(r)
               \/ UnlockTimeout(r) \/ UnlockRefused(r) \/ AbortReads(r)
               \/ AbortCommits(r) \/ ExtendRide(r)
        PROVE  UNCHANGED requests
    BY <2>1 DEF SendUnlock, UnlockRejected, UnlockTimeout, UnlockRefused, AbortReads,
                AbortCommits, ExtendRide
  <2>2. ASSUME NEW u \in Users, NEW b \in Bikes, NEW r \in RideIds,
               NEW prepaid \in BOOLEAN, StartRide(u, b, r, prepaid)
        PROVE  UNCHANGED requests
    BY <2>2 DEF StartRide
  <2>3. ASSUME NEW r \in DOMAIN rides, NEW overage \in Overages,
               NEW lowBattery \in BOOLEAN, EndRide(r, overage, lowBattery)
        PROVE  UNCHANGED requests
    BY <2>3 DEF EndRide
  <2> QED BY <1>4, <2>1, <2>2, <2>3 DEF RideStep
<1>5. LockStep => UNCHANGED requests
  BY DEF LockStep, EchoPersisted, EchoResolved, LockReport, AutoLost, AutoOffline
<1>6. ReservationStep \/ UNCHANGED vars => UNCHANGED requests
  BY DEF ReservationStep, CreateReservation, CancelReservation, TtlPasses,
         ExpireOverdue, FreeOrphans, vars
<1> QED BY <1>1, <1>2, <1>3, <1>4, <1>5, <1>6 DEF Next

(* For every fleet, a bike enters the rental pool only by the hand of       *)
(* somebody who saw its lock closed; the abort and the operator's edit may  *)
(* have seen it a few steps ago, the end of a ride and the boot may not.    *)
THEOREM PoolEntriesSawClosedLock == Spec => PoolEntrySawClosedLock
<1>1. RideInv /\ [Next]_vars =>
        [/\ \A b \in Bikes :
              (bikes[b] \notin {"available", "reserved"} /\ bikes'[b] = "available")
              => LockReportedClosed(b) \/ AbortSawClosed(b) \/ OperatorSawClosed(b)
         /\ \A r \in DOMAIN rides :
              (starts[r] # "abortClosed" /\ starts'[r] = "abortClosed")
              => LockReportedClosed(rides[r].bike)
         /\ \A o \in DOMAIN requests' \ DOMAIN requests :
              requests'[o].target = "available"
              => LockReportedClosed(requests'[o].bike)]_vars
  BY PoolEntryStep, AbortReadStep, OperatorReadStep DEF RideInv
<1> QED BY <1>1, RideInvHolds, PTL DEF Spec, PoolEntrySawClosedLock

-----------------------------------------------------------------------------
(* Refinement of BikeLease: every step maps to one of its steps, or leaves  *)
(* the leases and the wallets alone.                                        *)

LEMMA LeasesStand ==
    ASSUME ActiveRides' = ActiveRides,
           \A r \in ActiveRides : /\ rides'[r].bike = rides[r].bike
                                  /\ rides'[r].user = rides[r].user
                                  /\ rides'[r].charged = rides[r].charged
    PROVE  Leases' = Leases
<1>1. \A r \in ActiveRides : LeaseOf(r)' = LeaseOf(r)
  BY DEF LeaseOf
<1> QED BY <1>1 DEF Leases

(* A ride that is active no more takes its lease with it, and no other: no  *)
(* two active rides have the same bike.                                     *)
LEMMA LeaseEnds ==
    ASSUME OneActiveRidePerBike, NEW r \in ActiveRides,
           DOMAIN rides' = DOMAIN rides,
           \A x \in DOMAIN rides \ {r} : rides'[x] = rides[x],
           rides'[r].status # "active"
    PROVE  LeaseOf(r) \in Leases /\ Leases' = Leases \ {LeaseOf(r)}
<1>1. ActiveRides' = ActiveRides \ {r}
  BY DEF ActiveRides
<1>2. \A x \in ActiveRides \ {r} : LeaseOf(x)' = LeaseOf(x)
  BY DEF LeaseOf, ActiveRides
<1>3. \A x \in ActiveRides \ {r} : LeaseOf(x) # LeaseOf(r)
  <2>1. \A x \in ActiveRides : LeaseOf(x).bike = rides[x].bike
    BY DEF LeaseOf
  <2> QED BY <2>1 DEF OneActiveRidePerBike
<1> QED BY <1>1, <1>2, <1>3 DEF Leases

(* A rider has no more leases than active rides.                            *)
LEMMA LeasesAreRides ==
    ASSUME TypeInv, NEW u
    PROVE  /\ Cardinality(Lease!LeasesOf(u)) \in Nat
           /\ Cardinality(Lease!LeasesOf(u)) <= Cardinality(ActiveRidesOf(u))
<1> DEFINE A == ActiveRidesOf(u)
           L == Lease!LeasesOf(u)
           f == [r \in A |-> LeaseOf(r)]
<1>1. IsFiniteSet(A)
  BY ActiveFinite
<1>2. f \in Surjection(A, L)
  <2>1. \A r \in ActiveRides : LeaseOf(r).user = rides[r].user
    BY DEF LeaseOf
  <2>2. L = {LeaseOf(r) : r \in A}
    BY <2>1 DEF Lease!LeasesOf, Leases, ActiveRidesOf
  <2> HIDE DEF A, L
  <2> QED BY <2>2 DEF Surjection
<1>3. IsFiniteSet(L) /\ Cardinality(L) <= Cardinality(A)
  <2> HIDE DEF f, A, L
  <2> QED BY <1>1, <1>2, FS_Surjection
<1> QED BY <1>3, FS_CardinalityType

LEMMA LeaseBegins ==
    ASSUME TypeInv, NEW u \in Users, NEW b \in Bikes, NEW r \in RideIds,
           NEW prepaid \in BOOLEAN, StartRide(u, b, r, prepaid)
    PROVE  Lease!LeaseNext
<1> DEFINE cost == IF prepaid THEN 0 ELSE Price
<1>1. /\ r \notin DOMAIN rides
      /\ DOMAIN rides' = DOMAIN rides \cup {r}
      /\ \A x \in DOMAIN rides : rides'[x] = rides[x]
      /\ rides'[r].bike = b /\ rides'[r].user = u
      /\ rides'[r].status = "active" /\ rides'[r].charged = cost
      /\ wallet' = [wallet EXCEPT ![u] = @ - cost]
  BY DEF StartRide, IsNextId, Insert
<1>2. cost \in {0, Price} /\ (cost = 0 \/ wallet[u] >= cost)
  BY DEF StartRide, WalletCovers
<1> HIDE DEF cost
<1>3. Leases' = Leases \cup {[bike |-> b, user |-> u, paid |-> cost]}
  <2>1. ActiveRides' = ActiveRides \cup {r} /\ ActiveRides \in SUBSET DOMAIN rides
    BY <1>1 DEF ActiveRides
  <2>2. \A x \in ActiveRides : LeaseOf(x)' = LeaseOf(x)
    BY <1>1, <2>1 DEF LeaseOf
  <2>3. LeaseOf(r)' = [bike |-> b, user |-> u, paid |-> cost]
    BY <1>1 DEF LeaseOf
  <2> QED BY <2>1, <2>2, <2>3 DEF Leases
<1>4. \A l \in Leases : l.bike # b
  <2>1. \A x \in ActiveRides : LeaseOf(x).bike = rides[x].bike /\ rides[x].bike # b
    BY DEF LeaseOf, StartRide, UniqueActiveBike, ActiveRidesOn
  <2> QED BY <2>1 DEF Leases
<1>5. Cardinality(Lease!LeasesOf(u)) < MaxActiveRides
  BY LeasesAreRides, ActiveFinite, LimitAssumption DEF StartRide, BelowCap
<1>6. Lease!Cardinality(Lease!LeasesOf(u)) = Cardinality(Lease!LeasesOf(u))
  BY DEF Lease!Cardinality, Cardinality
<1>7. Lease!Begin(u, b, cost)
  BY <1>1, <1>2, <1>3, <1>4, <1>5, <1>6 DEF Lease!Begin
<1> QED BY <1>2, <1>7 DEF Lease!LeaseNext

LEMMA AbortLease ==
    ASSUME RideInv, NEW r \in DOMAIN rides, AbortCommits(r)
    PROVE  Lease!LeaseNext \/ UNCHANGED <<Leases, wallet>>
<1>1. CASE MayAbort(r)
  <2>1. r \in ActiveRides /\ rides[r] \in Ride
    BY <1>1, AbortSettles DEF RideInv, TypeInv, TypeOK
  <2>2. /\ DOMAIN rides' = DOMAIN rides
        /\ \A x \in DOMAIN rides \ {r} : rides'[x] = rides[x]
        /\ rides'[r] = AbortedRide(rides[r])
        /\ wallet' = [wallet EXCEPT ![rides[r].user] =
                         @ + (IF rides[r].prepaid THEN 0 ELSE Price)]
    BY <1>1 DEF AbortCommits
  <2>3. AbortedRide(rides[r]).status = "cancelled"
    BY <2>1 DEF AbortedRide, Ride
  <2>4. LeaseOf(r) \in Leases /\ Leases' = Leases \ {LeaseOf(r)}
    BY <2>1, <2>2, <2>3, LeaseEnds DEF RideInv
  <2>5. /\ LeaseOf(r).user = rides[r].user
        /\ LeaseOf(r).paid = IF rides[r].prepaid THEN 0 ELSE Price
    BY <2>1 DEF LeaseOf, RideInv, ActiveRideChargedAtStart
  <2>6. wallet' = [wallet EXCEPT ![LeaseOf(r).user] = @ + LeaseOf(r).paid]
    BY <2>2, <2>5
  <2>7. Lease!Undo(LeaseOf(r))
    BY <2>4, <2>6 DEF Lease!Undo
  <2> QED BY <2>4, <2>7 DEF Lease!LeaseNext
<1>2. CASE ~MayAbort(r)
  <2>1. rides' = rides /\ wallet' = wallet
    BY <1>2 DEF AbortCommits
  <2>2. ActiveRides' = ActiveRides
    BY <2>1 DEF ActiveRides
  <2> QED BY <2>1, <2>2, LeasesStand
<1> QED BY <1>1, <1>2

LEMMA EndLease ==
    ASSUME RideInv, NEW r \in DOMAIN rides, NEW overage \in Overages,
           NEW lowBattery \in BOOLEAN, EndRide(r, overage, lowBattery)
    PROVE  Lease!LeaseNext
<1> DEFINE extra == IF rides[r].prepaid THEN 0 ELSE overage
<1>1. r \in ActiveRides /\ rides[r] \in Ride
  BY DEF EndRide, RideInv, TypeInv, TypeOK
<1>2. /\ DOMAIN rides' = DOMAIN rides
      /\ \A x \in DOMAIN rides \ {r} : rides'[x] = rides[x]
      /\ rides'[r] = CompletedRide(rides[r], extra)
      /\ wallet' = [wallet EXCEPT ![rides[r].user] = @ - extra]
  BY DEF EndRide
<1>3. CompletedRide(rides[r], extra).status = "completed"
  BY <1>1 DEF CompletedRide, Ride
<1>4. LeaseOf(r) \in Leases /\ Leases' = Leases \ {LeaseOf(r)}
  BY <1>1, <1>2, <1>3, LeaseEnds DEF RideInv
<1>5. /\ LeaseOf(r).user = rides[r].user
      /\ LeaseOf(r).paid = 0 => extra = 0
      /\ extra \in Overages \cup {0}
  BY <1>1, MoneyAssumption DEF LeaseOf, RideInv, ActiveRideChargedAtStart
<1> HIDE DEF extra
<1>6. wallet' = [wallet EXCEPT ![LeaseOf(r).user] = @ - extra]
  BY <1>2, <1>5
<1>7. Lease!Close(LeaseOf(r), extra)
  BY <1>4, <1>5, <1>6 DEF Lease!Close
<1> QED BY <1>4, <1>5, <1>7 DEF Lease!LeaseNext

LEMMA ExtendLease ==
    ASSUME TypeInv, NEW r \in DOMAIN rides, ExtendRide(r)
    PROVE  Lease!LeaseNext
<1>1. r \in ActiveRides /\ LeaseOf(r) \in Leases /\ LeaseOf(r).user = rides[r].user
  BY DEF ExtendRide, LeaseOf, Leases
<1>2. Leases' = Leases
  <2>1. SameRides
    BY ExtendKeeps
  <2>2. ActiveRides' = ActiveRides
    BY <2>1 DEF SameRides, ActiveRides
  <2> QED BY <2>1, <2>2, LeasesStand DEF SameRides, ActiveRides
<1>3. /\ wallet[LeaseOf(r).user] >= Price
      /\ wallet' = [wallet EXCEPT ![LeaseOf(r).user] = @ - Price]
  BY <1>1 DEF ExtendRide
<1>4. Lease!Extend(LeaseOf(r))
  BY <1>2, <1>3 DEF Lease!Extend
<1> QED BY <1>1, <1>4 DEF Lease!LeaseNext

LEMMA LeaseStep ==
    ASSUME RideInv, [Next]_vars
    PROVE  [Lease!LeaseNext]_Lease!leaseVars
<1> SUFFICES Lease!LeaseNext \/ UNCHANGED <<Leases, wallet>>
  BY DEF Lease!leaseVars
<1>a. TypeInv
  BY DEF RideInv
<1>b. ASSUME UNCHANGED <<rides, wallet>> PROVE UNCHANGED <<Leases, wallet>>
  <2>1. ActiveRides' = ActiveRides
    BY <1>b DEF ActiveRides
  <2> QED BY <1>b, <2>1, LeasesStand
<1>1. CASE RideStep
  <2>1. ASSUME NEW r \in DOMAIN rides, SendUnlock(r) \/ UnlockRejected(r)
               \/ UnlockTimeout(r) \/ UnlockRefused(r) \/ AbortReads(r)
        PROVE  UNCHANGED <<rides, wallet>>
    BY <2>1 DEF SendUnlock, UnlockRejected, UnlockTimeout, UnlockRefused, AbortReads
  <2> QED BY <1>a, <1>b, <1>1, <2>1, LeaseBegins, AbortLease, EndLease, ExtendLease
         DEF RideStep
<1>2. CASE LockStep
  BY <1>b, <1>2 DEF LockStep, EchoPersisted, EchoResolved, LockReport, AutoLost, AutoOffline
<1>3. CASE ReservationStep
  BY <1>b, <1>3 DEF ReservationStep, CreateReservation, CancelReservation, TtlPasses,
              ExpireOverdue, FreeOrphans
<1>4. CASE OperatorStep
  BY <1>b, <1>4 DEF OperatorStep, OperatorReads, OperatorWrites, OperatorCancels,
              StaffUnlock, StaffUnlockTimeout
<1>5. CASE Restart
  <2>1. Leases' = Leases
    BY <1>a, <1>5, RestartRows, LeasesStand DEF ActiveRides
  <2> QED BY <1>5, <2>1 DEF Restart
<1>6. CASE UNCHANGED vars
  BY <1>b, <1>6 DEF vars
<1> QED BY <1>1, <1>2, <1>3, <1>4, <1>5, <1>6 DEF Next

(* For any fleet, riders and limit, the rental keeps the promise of         *)
(* BikeLease: a bike is let once, a rider has no more than the limit, and a *)
(* lease that is undone gives back what it took, while locks, reservations, *)
(* the back office and restarts move no lease and no money.                 *)
THEOREM RentalImplementsBikeLease == Spec => ImplementsBikeLease
<1>1. Init => Lease!LeaseInit
  BY DEF Init, Lease!LeaseInit, Leases, ActiveRides
<1>2. RideInv /\ [Next]_vars => [Lease!LeaseNext]_Lease!leaseVars
  BY LeaseStep
<1> QED BY <1>1, <1>2, RideInvHolds, PTL DEF Spec, ImplementsBikeLease, Lease!LeaseSpec

-----------------------------------------------------------------------------
(* Money: the wallet and the ledger move together.                          *)

SameCost ==
    /\ DOMAIN rides' = DOMAIN rides /\ wallet' = wallet
    /\ \A r \in DOMAIN rides :
          rides'[r].user = rides[r].user /\ NetOf(rides', r) = NetOf(rides, r)

(* The step changes the cost of one ride of the table.                      *)
Charges(r, amount) ==
    /\ DOMAIN rides' = DOMAIN rides
    /\ \A x \in DOMAIN rides \ {r} : rides'[x] = rides[x]
    /\ rides'[r].user = rides[r].user
    /\ NetOf(rides', r) = NetOf(rides, r) + amount
    /\ wallet' = [wallet EXCEPT ![rides[r].user] = @ - amount]

MovesTogether ==
    /\ \A r \in DOMAIN rides : r \in DOMAIN rides' /\ rides'[r].user = rides[r].user
    /\ \/ /\ wallet' = wallet
          /\ \A r \in RideIds : NetOf(rides', r) = NetOf(rides, r)
       \/ \E r \in DOMAIN rides' :
             /\ wallet' = [wallet EXCEPT ![rides'[r].user] =
                              @ - (NetOf(rides', r) - NetOf(rides, r))]
             /\ \A x \in RideIds \ {r} : NetOf(rides', x) = NetOf(rides, x)

LEMMA NetIsInteger ==
    ASSUME TypeInv, NEW r
    PROVE  NetOf(rides, r) \in Int
  BY DEF TypeInv, TypeOK, Ride, NetOf

LEMMA SameCostMoves == ASSUME SameCost PROVE MovesTogether
  BY DEF SameCost, MovesTogether, NetOf

LEMMA ChargeMoves ==
    ASSUME TypeInv, NEW r \in DOMAIN rides, NEW amount \in Int, Charges(r, amount)
    PROVE  MovesTogether
<1>1. NetOf(rides', r) - NetOf(rides, r) = amount
  BY NetIsInteger DEF Charges
<1>2. \A x \in RideIds \ {r} : NetOf(rides', x) = NetOf(rides, x)
  BY DEF Charges, NetOf
<1>3. \A x \in DOMAIN rides : x \in DOMAIN rides' /\ rides'[x].user = rides[x].user
  BY DEF Charges
<1>4. wallet' = [wallet EXCEPT ![rides'[r].user] =
                    @ - (NetOf(rides', r) - NetOf(rides, r))]
  BY <1>1 DEF Charges
<1> QED BY <1>2, <1>3, <1>4 DEF MovesTogether

LEMMA StartMoves ==
    ASSUME TypeInv, NEW u \in Users, NEW b \in Bikes, NEW r \in RideIds,
           NEW prepaid \in BOOLEAN, StartRide(u, b, r, prepaid)
    PROVE  MovesTogether
<1> DEFINE cost == IF prepaid THEN 0 ELSE Price
<1>1. /\ r \notin DOMAIN rides
      /\ wallet' = [wallet EXCEPT ![u] = @ - cost]
      /\ DOMAIN rides' = DOMAIN rides \cup {r}
      /\ \A x \in DOMAIN rides : rides'[x] = rides[x]
      /\ rides'[r].user = u
      /\ rides'[r].charged = cost /\ rides'[r].extended = 0 /\ rides'[r].refunded = 0
  BY DEF StartRide, IsNextId, Insert
<1>2. cost \in Int
  BY MoneyAssumption
<1> HIDE DEF cost
<1>3. NetOf(rides', r) - NetOf(rides, r) = cost
  BY <1>1, <1>2 DEF NetOf
<1>4. \A x \in RideIds \ {r} : NetOf(rides', x) = NetOf(rides, x)
  BY <1>1 DEF NetOf
<1> QED BY <1>1, <1>3, <1>4 DEF MovesTogether

LEMMA AbortMoves ==
    ASSUME TypeInv, NEW r \in DOMAIN rides, AbortCommits(r)
    PROVE  MovesTogether
<1> DEFINE cost == IF rides[r].prepaid THEN 0 ELSE Price
<1>1. CASE MayAbort(r)
  <2>1. rides[r] \in Ride /\ cost \in Int
    BY MoneyAssumption DEF TypeInv, TypeOK
  <2>2. /\ AbortedRide(rides[r]).user = rides[r].user
        /\ AbortedRide(rides[r]).charged = rides[r].charged
        /\ AbortedRide(rides[r]).extended = rides[r].extended
        /\ AbortedRide(rides[r]).refunded = rides[r].refunded + cost
    BY <2>1 DEF AbortedRide, Ride
  <2>3. /\ rides' = [rides EXCEPT ![r] = AbortedRide(rides[r])]
        /\ wallet' = [wallet EXCEPT ![rides[r].user] = @ + cost]
    BY <1>1 DEF AbortCommits
  <2>4. DOMAIN rides' = DOMAIN rides /\ rides'[r] = AbortedRide(rides[r])
        /\ \A x \in DOMAIN rides \ {r} : rides'[x] = rides[x]
    BY <2>3
  <2> HIDE DEF cost
  <2>5. wallet' = [wallet EXCEPT ![rides[r].user] = @ - (-cost)]
    <3>1. rides[r].user \in Users /\ wallet \in [Users -> Int]
      BY <2>1 DEF TypeInv, TypeOK, Ride
    <3>2. wallet[rides[r].user] + cost = wallet[rides[r].user] - (-cost)
      BY <2>1, <3>1
    <3>3. wallet' = [wallet EXCEPT ![rides[r].user] = wallet[rides[r].user] + cost]
      BY <2>3
    <3> QED BY <3>2, <3>3
  <2>6. NetOf(rides', r) = NetOf(rides, r) + (-cost)
    BY <2>1, <2>2, <2>4 DEF NetOf, Ride
  <2>7. Charges(r, -cost) /\ -cost \in Int
    BY <2>1, <2>2, <2>4, <2>5, <2>6 DEF Charges
  <2> QED BY <2>7, ChargeMoves
<1>2. CASE ~MayAbort(r)
  BY <1>2, SameCostMoves DEF AbortCommits, SameCost
<1> QED BY <1>1, <1>2

LEMMA ExtendMoves ==
    ASSUME TypeInv, NEW r \in DOMAIN rides, ExtendRide(r)
    PROVE  MovesTogether
<1>1. rides[r] \in Ride /\ Price \in Int
  BY MoneyAssumption DEF TypeInv, TypeOK
<1>2. /\ ExtendedRide(rides[r]).user = rides[r].user
      /\ ExtendedRide(rides[r]).charged = rides[r].charged
      /\ ExtendedRide(rides[r]).extended = rides[r].extended + Price
      /\ ExtendedRide(rides[r]).refunded = rides[r].refunded
  BY <1>1 DEF ExtendedRide, Ride
<1>3. /\ DOMAIN rides' = DOMAIN rides /\ rides'[r] = ExtendedRide(rides[r])
      /\ \A x \in DOMAIN rides \ {r} : rides'[x] = rides[x]
      /\ wallet' = [wallet EXCEPT ![rides[r].user] = @ - Price]
  BY DEF ExtendRide
<1>4. NetOf(rides', r) = NetOf(rides, r) + Price
  BY <1>1, <1>2, <1>3 DEF NetOf, Ride
<1>5. Charges(r, Price)
  BY <1>2, <1>3, <1>4 DEF Charges
<1> QED BY <1>1, <1>5, ChargeMoves

LEMMA EndMoves ==
    ASSUME TypeInv, NEW r \in DOMAIN rides, NEW overage \in Overages,
           NEW lowBattery \in BOOLEAN, EndRide(r, overage, lowBattery)
    PROVE  MovesTogether
<1> DEFINE cost == IF rides[r].prepaid THEN 0 ELSE overage
<1>1. rides[r] \in Ride /\ cost \in Int
  BY MoneyAssumption DEF TypeInv, TypeOK
<1>2. /\ rides' = [rides EXCEPT ![r] = CompletedRide(rides[r], cost)]
      /\ wallet' = [wallet EXCEPT ![rides[r].user] = @ - cost]
  BY DEF EndRide
<1> HIDE DEF cost
<1>3. /\ CompletedRide(rides[r], cost).user = rides[r].user
      /\ CompletedRide(rides[r], cost).charged = rides[r].charged + cost
      /\ CompletedRide(rides[r], cost).extended = rides[r].extended
      /\ CompletedRide(rides[r], cost).refunded = rides[r].refunded
  BY <1>1 DEF CompletedRide, Ride
<1>4. /\ DOMAIN rides' = DOMAIN rides /\ rides'[r] = CompletedRide(rides[r], cost)
      /\ \A x \in DOMAIN rides \ {r} : rides'[x] = rides[x]
  BY <1>2
<1>5. NetOf(rides', r) = NetOf(rides, r) + cost
  BY <1>1, <1>3, <1>4 DEF NetOf, Ride
<1>6. Charges(r, cost)
  BY <1>2, <1>3, <1>4, <1>5 DEF Charges
<1> QED BY <1>1, <1>6, ChargeMoves

LEMMA LedgerStep ==
    ASSUME TypeInv, [Next]_vars
    PROVE  MovesTogether
<1>0. ASSUME UNCHANGED <<rides, wallet>> PROVE MovesTogether
  BY <1>0, SameCostMoves DEF SameCost
<1>1. CASE RideStep
  <2>1. ASSUME NEW r \in DOMAIN rides, SendUnlock(r) \/ UnlockRejected(r)
               \/ UnlockTimeout(r) \/ UnlockRefused(r) \/ AbortReads(r)
        PROVE  MovesTogether
    BY <1>0, <2>1 DEF SendUnlock, UnlockRejected, UnlockTimeout, UnlockRefused, AbortReads
  <2> QED BY <1>1, <2>1, StartMoves, AbortMoves, ExtendMoves, EndMoves DEF RideStep
<1>2. CASE LockStep
  BY <1>0, <1>2 DEF LockStep, EchoPersisted, EchoResolved, LockReport, AutoLost, AutoOffline
<1>3. CASE ReservationStep
  BY <1>0, <1>3 DEF ReservationStep, CreateReservation, CancelReservation, TtlPasses,
              ExpireOverdue, FreeOrphans
<1>4. CASE OperatorStep
  BY <1>0, <1>4 DEF OperatorStep, OperatorReads, OperatorWrites, OperatorCancels,
              StaffUnlock, StaffUnlockTimeout
<1>5. CASE Restart
  <2>1. \A r \in DOMAIN rides : rides[r] \in Ride
    BY DEF TypeInv, TypeOK
  <2>2. /\ DOMAIN rides' = DOMAIN rides /\ wallet' = wallet
        /\ \A r \in DOMAIN rides :
              rides'[r] = rides[r] \/ rides'[r] = [rides[r] EXCEPT !.slot = RecencyRank(r)]
    BY <1>5 DEF Restart
  <2>3. SameCost
    BY <2>1, <2>2 DEF SameCost, NetOf, Ride
  <2> QED BY <2>3, SameCostMoves
<1>6. CASE UNCHANGED vars
  BY <1>0, <1>6 DEF vars
<1> QED BY <1>1, <1>2, <1>3, <1>4, <1>5, <1>6 DEF Next

(* For any number of riders and rides: whatever starts, fails, is aborted,  *)
(* extended, ended or repaired at boot, a wallet moves by what one ride of  *)
(* its owner costs more or less, and no other wallet and no other ride's    *)
(* cost moves in the same step.                                             *)
THEOREM WalletsFollowTheLedger == Spec => WalletFollowsLedger
<1>1. TypeInv /\ [Next]_vars => [MovesTogether]_vars
  BY LedgerStep
<1>2. TypeInv /\ [Next]_vars =>
        [/\ \A r \in DOMAIN rides : r \in DOMAIN rides' /\ rides'[r].user = rides[r].user
         /\ \/ /\ wallet' = wallet
               /\ \A r \in RideIds : NetOf(rides', r) = NetOf(rides, r)
            \/ \E r \in DOMAIN rides' :
                  /\ wallet' = [wallet EXCEPT ![rides'[r].user] =
                                   @ - (NetOf(rides', r) - NetOf(rides, r))]
                  /\ \A x \in RideIds \ {r} : NetOf(rides', x) = NetOf(rides, x)]_vars
  BY <1>1 DEF MovesTogether
<1>3. RideInv => TypeInv
  BY DEF RideInv
<1> QED BY <1>2, <1>3, RideInvHolds, PTL DEF Spec, WalletFollowsLedger

-----------------------------------------------------------------------------
(* Prefix sums.  The library's induction theorems take an operator as their *)
(* parameter; a set of numbers serves as well.                              *)

(* Induction over the numbers, for a set of them.                           *)
LEMMA NatSetInduction ==
    ASSUME NEW S \in SUBSET Nat, 0 \in S, \A n \in S : n + 1 \in S
    PROVE  S = Nat
<1> SUFFICES ASSUME Nat \ S # {} PROVE FALSE
  OBVIOUS
<1> DEFINE R == OpToRel(<, Nat)
<1>1. \E x \in Nat \ S : \A y \in Nat \ S : ~ (<<y, x>> \in R)
  BY WFMin, NatLessThanWellFounded
<1>2. PICK x \in Nat \ S : \A y \in Nat \ S : ~ (<<y, x>> \in R)
  BY <1>1
<1>3. x - 1 \in Nat /\ x - 1 < x /\ (x - 1) + 1 = x
  OBVIOUS
<1>4. x - 1 \in S
  <2>1. <<x - 1, x>> \in R
    BY <1>3 DEF OpToRel
  <2> QED BY <1>2, <1>3, <2>1
<1>5. (x - 1) + 1 \in S
  BY <1>4
<1> QED BY <1>2, <1>3, <1>5

(* f satisfies the equations of the sum up to n.                            *)
SumsUpTo(f, own, n) ==
    /\ f \in [0 .. n -> Int]
    /\ f[0] = own[0]
    /\ \A i \in 1 .. n : f[i] = own[i] + f[i - 1]

LEMMA SumsAgree ==
    ASSUME NEW own, NEW n \in Nat, NEW m \in Nat, NEW f, NEW g,
           SumsUpTo(f, own, n), SumsUpTo(g, own, m)
    PROVE  \A i \in Nat : i <= n /\ i <= m => f[i] = g[i]
<1> DEFINE S == {i \in Nat : i <= n /\ i <= m => f[i] = g[i]}
<1>1. 0 \in S
  BY DEF SumsUpTo
<1>2. ASSUME NEW i \in S PROVE i + 1 \in S
  <2> SUFFICES ASSUME i + 1 <= n, i + 1 <= m PROVE f[i + 1] = g[i + 1]
    OBVIOUS
  <2>1. i \in Nat /\ f[i] = g[i] /\ i + 1 \in 1 .. n /\ i + 1 \in 1 .. m /\ (i + 1) - 1 = i
    OBVIOUS
  <2> QED BY <2>1 DEF SumsUpTo
<1>3. S = Nat
  <2> HIDE DEF S
  <2> S \in SUBSET Nat
    BY DEF S
  <2> QED BY <1>1, <1>2, NatSetInduction
<1> QED BY <1>3

LEMMA SumsExist ==
    ASSUME NEW own \in [Nat -> Int], NEW n \in Nat
    PROVE  \E f : SumsUpTo(f, own, n)
<1> DEFINE S == {i \in Nat : \E f : SumsUpTo(f, own, i)}
<1>1. 0 \in S
  <2> DEFINE f == [i \in 0 .. 0 |-> own[0]]
  <2>1. SumsUpTo(f, own, 0)
    BY DEF SumsUpTo
  <2> QED BY <2>1
<1>2. ASSUME NEW i \in S PROVE i + 1 \in S
  <2>1. PICK g : SumsUpTo(g, own, i)
    OBVIOUS
  <2> DEFINE f == [j \in 0 .. i + 1 |-> IF j <= i THEN g[j] ELSE own[i + 1] + g[i]]
  <2>2. i \in Nat /\ g \in [0 .. i -> Int] /\ g[i] \in Int /\ own[i + 1] \in Int
    BY <2>1 DEF SumsUpTo
  <2>3. f \in [0 .. i + 1 -> Int]
    BY <2>2
  <2>4. f[0] = own[0]
    BY <2>1, <2>2 DEF SumsUpTo
  <2>5. ASSUME NEW j \in 1 .. i + 1 PROVE f[j] = own[j] + f[j - 1]
    <3>1. CASE j = i + 1
      BY <3>1, <2>2
    <3>2. CASE j # i + 1
      <4>1. j \in 1 .. i /\ j - 1 \in 0 .. i /\ j \in 0 .. i
        BY <3>2, <2>2
      <4>2. f[j] = g[j] /\ f[j - 1] = g[j - 1]
        BY <4>1, <2>2
      <4> HIDE DEF f
      <4> QED BY <4>1, <4>2, <2>1 DEF SumsUpTo
    <3> QED BY <3>1, <3>2
  <2>6. SumsUpTo(f, own, i + 1)
    <3> HIDE DEF f
    <3> QED BY <2>3, <2>4, <2>5 DEF SumsUpTo
  <2> HIDE DEF f
  <2> QED BY <2>2, <2>6
<1>3. S = Nat
  <2> HIDE DEF S
  <2> S \in SUBSET Nat
    BY DEF S
  <2> QED BY <1>1, <1>2, NatSetInduction
<1> QED BY <1>3

(* The recursive function is what its definition says it is.                *)
LEMMA PrefixSumEquation ==
    ASSUME NEW own \in [Nat -> Int]
    PROVE  /\ PrefixSum(own) \in [Nat -> Int]
           /\ \A n \in Nat : PrefixSum(own)[n] =
                 own[n] + IF n = 0 THEN 0 ELSE PrefixSum(own)[n - 1]
<1> DEFINE part(n) == CHOOSE f : SumsUpTo(f, own, n)
           s == [n \in Nat |-> part(n)[n]]
           Is(f) == f = [n \in Nat |-> own[n] + IF n = 0 THEN 0 ELSE f[n - 1]]
<1>1. \A n \in Nat : SumsUpTo(part(n), own, n)
  BY SumsExist
<1> HIDE DEF part
<1>2. \A n \in Nat : s[n] \in Int
  <2> TAKE n \in Nat
  <2>1. part(n) \in [0 .. n -> Int] /\ n \in 0 .. n
    BY <1>1 DEF SumsUpTo
  <2> QED BY <2>1
<1>3. ASSUME NEW n \in Nat
      PROVE  s[n] = own[n] + IF n = 0 THEN 0 ELSE s[n - 1]
  <2>1. CASE n = 0
    <3>1. part(0)[0] = own[0] /\ own[0] \in Int
      BY <1>1 DEF SumsUpTo
    <3> QED BY <2>1, <3>1
  <2>2. CASE n # 0
    <3>1. n - 1 \in Nat /\ n \in 1 .. n /\ n - 1 <= n /\ n - 1 <= n - 1
      BY <2>2
    <3>2. part(n)[n] = own[n] + part(n)[n - 1]
      BY <1>1, <3>1 DEF SumsUpTo
    <3>3. part(n)[n - 1] = part(n - 1)[n - 1]
      BY <1>1, <3>1, SumsAgree
    <3> QED BY <2>2, <3>1, <3>2, <3>3
  <2> QED BY <2>1, <2>2
<1>4. Is(s)
  BY <1>3
<1> HIDE DEF s
<1>5. Is(CHOOSE f : Is(f))
  <2> HIDE DEF Is
  <2> QED BY <1>4, Zenon
<1>6. PrefixSum(own) = CHOOSE f : Is(f)
  BY DEF PrefixSum
<1>7. Is(PrefixSum(own))
  BY <1>5, <1>6
<1>8. \A n \in Nat : PrefixSum(own)[n] = 
         own[n] + IF n = 0 THEN 0 ELSE PrefixSum(own)[n - 1]
  <2> DEFINE p == PrefixSum(own)
  <2>1. p = [n \in Nat |-> own[n] + IF n = 0 THEN 0 ELSE p[n - 1]]
    BY <1>7
  <2> HIDE DEF p, Is
  <2>2. \A n \in Nat : p[n] = own[n] + IF n = 0 THEN 0 ELSE p[n - 1]
    BY <2>1
  <2> QED BY <2>2 DEF p
<1>9. DOMAIN PrefixSum(own) = Nat /\ PrefixSum(own) = [n \in Nat |-> PrefixSum(own)[n]]
  <2> DEFINE p == PrefixSum(own)
  <2>1. p = [n \in Nat |-> own[n] + IF n = 0 THEN 0 ELSE p[n - 1]]
    BY <1>7
  <2> HIDE DEF p, Is
  <2>2. DOMAIN p = Nat /\ p = [n \in Nat |-> p[n]]
    BY <2>1
  <2> QED BY <2>2 DEF p
<1>10. \A n \in Nat : PrefixSum(own)[n] \in Int
  <2> DEFINE p == PrefixSum(own)
             S == {n \in Nat : p[n] \in Int}
  <2> HIDE DEF p, Is
  <2>0. \A n \in Nat : p[n] = own[n] + IF n = 0 THEN 0 ELSE p[n - 1]
    BY <1>8 DEF p
  <2>1. 0 \in S
    BY <2>0
  <2>2. ASSUME NEW n \in S PROVE n + 1 \in S
    <3>1. n + 1 \in Nat /\ n + 1 # 0 /\ (n + 1) - 1 = n /\ p[n] \in Int /\ own[n + 1] \in Int
      OBVIOUS
    <3>2. p[n + 1] = own[n + 1] + p[n]
      BY <2>0, <3>1
    <3> QED BY <3>1, <3>2
  <2>3. S = Nat
    <3> HIDE DEF S
    <3> S \in SUBSET Nat
      BY DEF S
    <3> QED BY <2>1, <2>2, NatSetInduction
  <2> QED BY <2>3 DEF p
<1> QED
  <2> HIDE DEF Is
  <2> QED BY <1>8, <1>9, <1>10

(* Two sums whose summands differ by d at r only differ by d from r on.     *)
DifferAt(f, g, r, d) == g[r] = f[r] + d /\ \A n \in Nat \ {r} : g[n] = f[n]

LEMMA SumShift ==
    ASSUME NEW f \in [Nat -> Int], NEW g \in [Nat -> Int], NEW r \in Nat,
           NEW d \in Int, DifferAt(f, g, r, d)
    PROVE  \A m \in Nat : r <= m => PrefixSum(g)[m] = PrefixSum(f)[m] + d
<1> DEFINE p == PrefixSum(f)
           q == PrefixSum(g)
           S == {n \in Nat : q[n] = p[n] + IF n < r THEN 0 ELSE d}
<1>1. /\ p \in [Nat -> Int] /\ q \in [Nat -> Int]
      /\ \A n \in Nat : p[n] = f[n] + IF n = 0 THEN 0 ELSE p[n - 1]
      /\ \A n \in Nat : q[n] = g[n] + IF n = 0 THEN 0 ELSE q[n - 1]
  BY PrefixSumEquation
<1> HIDE DEF p, q
<1>2. 0 \in S
  <2>1. p[0] = f[0] /\ q[0] = g[0]
    BY <1>1
  <2>2. CASE r = 0
    BY <2>1, <2>2 DEF DifferAt
  <2>3. CASE r # 0
    BY <2>1, <2>3 DEF DifferAt
  <2> QED BY <2>2, <2>3
<1>3. ASSUME NEW n \in S PROVE n + 1 \in S
  <2>1. n \in Nat /\ n + 1 \in Nat /\ n + 1 # 0 /\ (n + 1) - 1 = n
    OBVIOUS
  <2>2. p[n + 1] = f[n + 1] + p[n] /\ q[n + 1] = g[n + 1] + q[n]
    BY <1>1, <2>1
  <2>3. p[n] \in Int /\ q[n] \in Int /\ f[n + 1] \in Int /\ g[n + 1] \in Int
    BY <1>1, <2>1
  <2>4. CASE n + 1 = r
    <3>1. q[n] = p[n] /\ g[n + 1] = f[n + 1] + d
      BY <2>1, <2>3, <2>4 DEF DifferAt
    <3> QED BY <2>1, <2>2, <2>3, <2>4, <3>1
  <2>5. CASE n + 1 # r
    <3>1. g[n + 1] = f[n + 1] /\ (n < r <=> n + 1 < r)
      BY <2>1, <2>5 DEF DifferAt
    <3>2. q[n] = p[n] + IF n < r THEN 0 ELSE d
      OBVIOUS
    <3> HIDE DEF S
    <3>3. q[n + 1] = p[n + 1] + IF n + 1 < r THEN 0 ELSE d
      BY <2>2, <2>3, <3>1, <3>2
    <3> QED BY <2>1, <3>3 DEF S
  <2> QED BY <2>4, <2>5
<1>4. S = Nat
  <2> HIDE DEF S
  <2> S \in SUBSET Nat
    BY DEF S
  <2> QED BY <1>2, <1>3, NatSetInduction
<1> QED BY <1>4 DEF p, q

(* Sums of nothing.                                                         *)
LEMMA SumOfZeros ==
    ASSUME NEW f \in [Nat -> Int], \A n \in Nat : f[n] = 0
    PROVE  \A n \in Nat : PrefixSum(f)[n] = 0
<1> DEFINE p == PrefixSum(f)
           S == {n \in Nat : p[n] = 0}
<1>1. \A n \in Nat : p[n] = f[n] + IF n = 0 THEN 0 ELSE p[n - 1]
  BY PrefixSumEquation
<1> HIDE DEF p
<1>2. 0 \in S
  BY <1>1
<1>3. ASSUME NEW n \in S PROVE n + 1 \in S
  <2>1. n \in Nat /\ p[n] = 0 /\ n + 1 \in Nat /\ n + 1 # 0 /\ (n + 1) - 1 = n
    OBVIOUS
  <2> QED BY <1>1, <2>1
<1>4. S = Nat
  <2> HIDE DEF S
  <2> S \in SUBSET Nat
    BY DEF S
  <2> QED BY <1>2, <1>3, NatSetInduction
<1> QED BY <1>4 DEF p

LEMMA CostsAreIntegers ==
    ASSUME TypeInv, NEW u
    PROVE  CostsOf(rides, u) \in [Nat -> Int]
<1>1. \A n : NetOf(rides, n) \in Int
  BY NetIsInteger
<1> QED BY <1>1 DEF CostsOf

(* WalletBalances for any number n, a ride's id or not, and such numbers    *)
(* exist however many ids there are.                                        *)
Balanced ==
    \A u \in Users : \A n \in Nat :
        DOMAIN rides \subseteq 0 .. n
        => wallet[u] = InitialBalance - PrefixSum(CostsOf(rides, u))[n]

Bounded == \E n \in Nat : DOMAIN rides \subseteq 0 .. n

LEMMA InitBalances == Init => Balanced /\ Bounded
<1> SUFFICES ASSUME Init PROVE Balanced
  BY DEF Init, Bounded
<1> SUFFICES ASSUME NEW u \in Users, NEW n \in Nat
             PROVE  wallet[u] = InitialBalance - PrefixSum(CostsOf(rides, u))[n]
  BY DEF Balanced
<1>1. \A m \in Nat : CostsOf(rides, u)[m] = 0
  BY DEF Init, CostsOf
<1>2. CostsOf(rides, u) \in [Nat -> Int]
  BY CostsAreIntegers, InitType
<1>3. PrefixSum(CostsOf(rides, u))[n] = 0
  BY <1>1, <1>2, SumOfZeros
<1>4. wallet[u] = InitialBalance /\ InitialBalance \in Nat
  BY MoneyAssumption DEF Init
<1> QED BY <1>3, <1>4

(* The step keeps the balance of one rider u up to the id n.                *)
LEMMA BalanceStep ==
    ASSUME TypeInv, TypeInv', MovesTogether, Balanced,
           NEW u \in Users, NEW n \in Nat, DOMAIN rides' \subseteq 0 .. n
    PROVE  wallet'[u] = InitialBalance - PrefixSum(CostsOf(rides', u))[n]
<1> DEFINE f == CostsOf(rides, u)
           g == CostsOf(rides', u)
<1>0. n \in Nat /\ InitialBalance \in Int /\ RideIds \subseteq Nat
  BY IdAssumption, MoneyAssumption
<1>1. f \in [Nat -> Int] /\ g \in [Nat -> Int]
  <2>1. g \in [Nat -> Int]
    <3>1. \A x : NetOf(rides', x) \in Int
      BY DEF TypeInv, TypeOK, Ride, NetOf
    <3> QED BY <3>1 DEF CostsOf
  <2> QED BY <2>1, CostsAreIntegers
<1>2. wallet[u] = InitialBalance - PrefixSum(f)[n]
  BY DEF Balanced, MovesTogether
<1>3. PrefixSum(f)[n] \in Int
  BY <1>0, <1>1, PrefixSumEquation
(* A ride that costs what it did, costs its owner what it did.              *)
<1>4. ASSUME NEW x \in Nat, x \in RideIds => NetOf(rides', x) = NetOf(rides, x)
      PROVE  g[x] = f[x]
  <2>1. DOMAIN rides' \subseteq RideIds
    BY DEF TypeInv, TypeOK
  <2>2. CASE x \in DOMAIN rides
    <3>1. x \in DOMAIN rides' /\ rides'[x].user = rides[x].user
      BY <2>2 DEF MovesTogether
    <3> QED BY <1>4, <2>1, <2>2, <3>1 DEF CostsOf
  <2>3. CASE x \notin DOMAIN rides
    <3>1. NetOf(rides, x) = 0 /\ f[x] = 0
      BY <2>3 DEF NetOf, CostsOf
    <3> QED BY <1>4, <2>1, <3>1 DEF CostsOf
  <2> QED BY <2>2, <2>3
<1>5. CASE wallet' = wallet /\ \A r \in RideIds : NetOf(rides', r) = NetOf(rides, r)
  <2>1. \A x \in Nat : g[x] = f[x]
    BY <1>4, <1>5
  <2>2. f = g
    <3> HIDE DEF f, g
    <3> QED BY <1>1, <2>1
  <2> HIDE DEF f, g
  <2>3. wallet'[u] = InitialBalance - PrefixSum(g)[n]
    BY <1>2, <1>5, <2>2
  <2> QED BY <2>3 DEF g
<1>6. CASE \E r \in DOMAIN rides' :
             /\ wallet' = [wallet EXCEPT ![rides'[r].user] =
                              @ - (NetOf(rides', r) - NetOf(rides, r))]
             /\ \A x \in RideIds \ {r} : NetOf(rides', x) = NetOf(rides, x)
  <2>1. PICK r \in DOMAIN rides' :
             /\ wallet' = [wallet EXCEPT ![rides'[r].user] =
                              @ - (NetOf(rides', r) - NetOf(rides, r))]
             /\ \A x \in RideIds \ {r} : NetOf(rides', x) = NetOf(rides, x)
    BY <1>6
  <2> DEFINE d == NetOf(rides', r) - NetOf(rides, r)
  <2>2. r \in Nat /\ r <= n /\ \A x \in Nat \ {r} : g[x] = f[x]
    BY <1>0, <1>4, <2>1
  <2>3. wallet \in [Users -> Int] /\ NetOf(rides, r) \in Int /\ NetOf(rides', r) \in Int
    BY NetIsInteger DEF TypeInv, TypeOK, Ride, NetOf
  <2>4. d \in Int
    BY <2>3
  <2>5. CASE rides'[r].user = u
    <3>1. g[r] = NetOf(rides', r)
      BY <2>2, <2>5 DEF CostsOf
    <3>2. f[r] = NetOf(rides, r)
      <4>1. CASE r \in DOMAIN rides
        BY <2>2, <2>5, <4>1 DEF CostsOf, MovesTogether
      <4>2. CASE r \notin DOMAIN rides
        BY <2>2, <4>2 DEF CostsOf, NetOf
      <4> QED BY <4>1, <4>2
    <3>3. g[r] = f[r] + d
      BY <2>3, <3>1, <3>2
    <3>4. wallet'[u] = wallet[u] - d
      <4>1. wallet' = [wallet EXCEPT ![u] = @ - d]
        BY <2>1, <2>5
      <4> HIDE DEF d
      <4> QED BY <2>3, <4>1
    <3> HIDE DEF f, g, d
    <3>5. PrefixSum(g)[n] = PrefixSum(f)[n] + d
      <4>1. n \in Nat /\ r \in Nat /\ r <= n
        BY <1>0, <2>2
      <4>2. DifferAt(f, g, r, d)
        BY <2>2, <3>3 DEF DifferAt
      <4> QED BY <1>1, <2>4, <4>1, <4>2, SumShift
    <3>6. wallet[u] - d = InitialBalance - (PrefixSum(f)[n] + d)
      <4>1. \A a, x, e \in Int : (a - x) - e = a - (x + e)
        OBVIOUS
      <4> QED BY <1>0, <1>2, <1>3, <2>4, <4>1
    <3>7. wallet'[u] = InitialBalance - PrefixSum(g)[n]
      BY <3>4, <3>5, <3>6
    <3> QED BY <3>7 DEF g
  <2>6. CASE rides'[r].user # u
    <3>1. g[r] = 0
      BY <2>2, <2>6 DEF CostsOf
    <3>2. f[r] = 0
      BY <2>2, <2>6 DEF CostsOf, MovesTogether
    <3>3. \A x \in Nat : g[x] = f[x]
      BY <2>2, <3>1, <3>2
    <3>4. wallet'[u] = wallet[u]
      BY <2>1, <2>3, <2>6
    <3> HIDE DEF f, g
    <3>5. f = g
      BY <1>1, <3>3
    <3>6. wallet'[u] = InitialBalance - PrefixSum(g)[n]
      BY <1>2, <3>4, <3>5
    <3> QED BY <3>6 DEF g
  <2> QED BY <2>5, <2>6
<1> QED BY <1>5, <1>6 DEF MovesTogether

(* A step inserts at most one ride.                                         *)
LEMMA BoundedStep ==
    ASSUME TypeInv, [Next]_vars, Bounded
    PROVE  Bounded'
<1>1. CASE DOMAIN rides' = DOMAIN rides
  BY <1>1 DEF Bounded
<1>2. ASSUME NEW u \in Users, NEW b \in Bikes, NEW r \in RideIds,
             NEW prepaid \in BOOLEAN, StartRide(u, b, r, prepaid)
      PROVE  Bounded'
  <2>1. DOMAIN rides' = DOMAIN rides \cup {r} /\ r \in Nat
    BY <1>2, IdAssumption DEF StartRide, Insert
  <2>2. PICK n \in Nat : DOMAIN rides \subseteq 0 .. n
    BY DEF Bounded
  <2>3. n + r \in Nat /\ DOMAIN rides' \subseteq 0 .. n + r
    BY <2>1, <2>2
  <2> QED BY <2>3 DEF Bounded
<1> QED BY <1>1, <1>2, RideWriters DEF SameRides, Settled, Restart

LEMMA BalancedHolds == Spec => [](Balanced /\ Bounded)
<1>1. TypeInv /\ TypeInv' /\ MovesTogether /\ Balanced => Balanced'
  <2> SUFFICES ASSUME TypeInv, TypeInv', MovesTogether, Balanced
               PROVE  Balanced'
    OBVIOUS
  <2> QED BY BalanceStep DEF Balanced
<1>2. RideInv /\ RideInv' /\ [Next]_vars => TypeInv /\ TypeInv' /\ MovesTogether
  BY LedgerStep DEF RideInv
<1>3. RideInv /\ [Next]_vars /\ Bounded => Bounded'
  BY BoundedStep DEF RideInv
<1> QED BY <1>1, <1>2, <1>3, InitBalances, RideInvHolds, PTL DEF Spec

(* For any number of riders and rides, in every state: each wallet holds    *)
(* what it held at first less what the rider's rides have cost by the       *)
(* ledger, summed over the whole table.                                     *)
THEOREM WalletsBalance == Spec => []WalletBalances
<1>1. Balanced => WalletBalances
  BY IdAssumption DEF Balanced, WalletBalances
<1> QED BY <1>1, BalancedHolds, PTL

(* A sum of numbers that are not negative is not negative.                  *)
LEMMA SumOfNaturals ==
    ASSUME NEW f \in [Nat -> Nat]
    PROVE  \A n \in Nat : PrefixSum(f)[n] \in Nat
<1> DEFINE p == PrefixSum(f)
           S == {n \in Nat : p[n] \in Nat}
<1>1. \A n \in Nat : p[n] = f[n] + IF n = 0 THEN 0 ELSE p[n - 1]
  <2>1. f \in [Nat -> Int]
    OBVIOUS
  <2> QED BY <2>1, PrefixSumEquation
<1> HIDE DEF p
<1>2. 0 \in S
  BY <1>1
<1>3. ASSUME NEW n \in S PROVE n + 1 \in S
  <2>1. n \in Nat /\ p[n] \in Nat /\ n + 1 \in Nat /\ n + 1 # 0 /\ (n + 1) - 1 = n
        /\ f[n + 1] \in Nat
    OBVIOUS
  <2>2. p[n + 1] = f[n + 1] + p[n]
    BY <1>1, <2>1
  <2> QED BY <2>1, <2>2
<1>4. S = Nat
  <2> HIDE DEF S
  <2> S \in SUBSET Nat
    BY DEF S
  <2> QED BY <1>2, <1>3, NatSetInduction
<1> QED BY <1>4 DEF p

(* Whatever happens to a rider's rides, the wallet never holds more than it *)
(* did at first: every refund gives back what the same ride had taken, and  *)
(* the sum of what the rides have cost is not negative.                     *)
THEOREM NobodyEverProfits == Spec => []NobodyProfits
<1>1. RideInv /\ Balanced /\ Bounded => NobodyProfits
  <2> SUFFICES ASSUME RideInv, Balanced, Bounded, NEW u \in Users
               PROVE  wallet[u] <= InitialBalance
    BY DEF NobodyProfits
  <2>1. PICK n \in Nat : DOMAIN rides \subseteq 0 .. n
    BY DEF Bounded
  <2>2. wallet[u] = InitialBalance - PrefixSum(CostsOf(rides, u))[n]
    BY <2>1 DEF Balanced
  <2>3. \A r \in DOMAIN rides : NetOf(rides, r) \in Nat
    <3> TAKE r \in DOMAIN rides
    <3>1. rides[r] \in Ride
      BY DEF RideInv, TypeInv, TypeOK
    <3>2. rides[r].refunded = 0 \/ rides[r].refunded = rides[r].charged
      BY DEF RideInv, RefundMatchesCharge
    <3> QED BY <3>1, <3>2 DEF NetOf, Ride
  <2>4. CostsOf(rides, u) \in [Nat -> Nat]
    BY <2>3 DEF CostsOf
  <2>5. PrefixSum(CostsOf(rides, u))[n] \in Nat
    BY <2>4, SumOfNaturals
  <2> QED BY <2>2, <2>5, MoneyAssumption
<1> QED BY <1>1, BalancedHolds, RideInvHolds, PTL

=============================================================================
