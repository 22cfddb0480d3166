------------------------------ MODULE PaidOrders ------------------------------
(***************************************************************************)
(* Payment orders of one rider and one bike, from the reservation of an    *)
(* order to what its money buys.                                           *)
(*                                                                         *)
(*   server/http/payments.ts             the rider's requests, the webhook *)
(*   server/payments/tbank-handlers.ts   what a notification does          *)
(*   server/storage/payment-method.ts    rows of payment_orders            *)
(*   server/storage/wallet.ts            top-up orders                     *)
(*   server/storage/ride.ts              overage after the end of a ride   *)
(*                                                                         *)
(* A worker is a request or a notification being handled; every await of   *)
(* its handler is a place where the others run.  A statement may fail, and *)
(* the process may die, at each of them.  The bank (external) repeats a    *)
(* notification until it is acknowledged, and may deliver it twice.        *)
(***************************************************************************)
EXTENDS Naturals, FiniteSets

CONSTANTS
    TopUps,         \* wallet top-ups, paid on the bank's form
    HostedStarts,   \* rides paid on the bank's form
    SavedStarts,    \* rides charged to a saved card
    Extensions,     \* extensions charged to a saved card
    Overages,       \* overtime charged to the card that paid the ride
    Workers,
    NoOrder,        \* no order: the worker is idle
    MaxOrders,      \* bound of the model: orders that come to be
    MaxRides,       \* bound of the model: rides, the one under way included
    MaxThrows,      \* bound of the model: statements that fail
    MaxCrashes      \* bound of the model: deaths of the process

Starts == HostedStarts \cup SavedStarts
Hosted == TopUps \cup HostedStarts
Saved == SavedStarts \cup Extensions \cup Overages
Orders == Hosted \cup Saved

ASSUME KindAssumption ==
    /\ TopUps \cap (Starts \cup Extensions \cup Overages) = {}
    /\ HostedStarts \cap Saved = {}
    /\ SavedStarts \cap (Extensions \cup Overages) = {}
    /\ Extensions \cap Overages = {}
    /\ NoOrder \notin Orders

ASSUME BoundAssumption ==
    MaxOrders \in Nat /\ MaxRides \in Nat /\ MaxThrows \in Nat /\ MaxCrashes \in Nat

VARIABLES
    orders,     \* payment_orders and wallet_topup_orders; an order is a key
    bank,       \* the bank's side of each order
    owed,       \* the notifications the bank has no "OK" for
    workers,    \* where each handler stands
    current,    \* the rider's active ride on the bike, or NoRide
    others,     \* somebody else rides the bike
    rides,      \* how many rides there have been
    applied,    \* history: how often an order bought something
    charges,    \* history: how often a saved card was charged for an order
    overtaken,  \* history: a delivery was acknowledged while another was at work
    throws, crashes

orderVars == <<orders, bank, owed, workers, current, others, rides,
               applied, charges, overtaken, throws, crashes>>
worldVars == <<current, others, rides>>
faultVars == <<throws, crashes>>

NoRide == 0         \* ride_id IS NULL
FirstRide == 1      \* a ride from before, paid with the saved card

Statuses == {"none", "pending", "processing", "paid", "failed"}
Outcomes == {"paid", "failed", "pending"}
Notifications == {"AUTHORIZED", "CONFIRMED", "REJECTED"}
BankStates == {"none", "inited", "open", "held", "captured", "declined",
               "captured_late"}

(* reason: last_error_message of a paid order whose ride did not start.     *)
OrderRow == [status: Statuses, ride: Nat, reason: BOOLEAN]

(* via tells a notification from a request; ride is the ride the worker has *)
(* found, started or extended.                                              *)
Steps == {"idle", "read", "checked", "reserved", "inited", "settle", "start",
          "write", "ledger", "giveUp"}
Worker == [step: Steps, order: Orders \cup {NoOrder}, outcome: Outcomes,
           via: {"call", "webhook"}, notice: Notifications, ride: Nat]

Idle == [step |-> "idle", order |-> NoOrder, outcome |-> "pending",
         via |-> "call", notice |-> "AUTHORIZED", ride |-> NoRide]

OrdersTypeOK ==
    /\ orders \in [Orders -> OrderRow]
    /\ bank \in [Orders -> BankStates]
    /\ owed \in [Orders -> SUBSET Notifications]
    /\ workers \in [Workers -> Worker]
    /\ current \in Nat /\ others \in BOOLEAN /\ rides \in Nat
    /\ applied \in [Orders -> Nat] /\ charges \in [Orders -> Nat]
    /\ overtaken \subseteq Orders
    /\ throws \in Nat /\ crashes \in Nat
    \* what tells an extension from a start is set with the row and stays
    /\ \A o \in Extensions : orders[o].status # "none" => orders[o].ride # NoRide

-----------------------------------------------------------------------------
Captured(o) == bank[o] \in {"captured", "captured_late"}
BikeFree == current = NoRide /\ ~others
At(w, step) == workers[w].step = step
OrderOf(w) == workers[w].order
WorkingOn(o) == {w \in Workers : OrderOf(w) = o}
Placed == {o \in Orders : orders[o].status # "none" \/ WorkingOn(o) # {}}
Paying(w) == At(w, "settle") /\ workers[w].outcome = "paid"

SetStatus(o, s) == orders' = [orders EXCEPT ![o].status = s]
Goes(w, step) == workers' = [workers EXCEPT ![w].step = step]
Rests(w) == workers' = [workers EXCEPT ![w] = Idle]

(* A notification is acknowledged when its handler returns.                 *)
Acknowledged(w) ==
    IF workers[w].via = "webhook"
    THEN [owed EXCEPT ![OrderOf(w)] = @ \ {workers[w].notice}]
    ELSE owed

Returns(w) == Rests(w) /\ owed' = Acknowledged(w)

(* A delivery is acknowledged; is another handler at work on the order?     *)
Overtaken(o) ==
    IF \E w \in WorkingOn(o) : workers[w].step \notin {"read", "checked"}
    THEN overtaken \cup {o} ELSE overtaken

(* Mutant: a held authorization counts as money.                            *)
OutcomeMutant(s) == IF s = "REJECTED" THEN "failed" ELSE "paid"

(* What a status of the bank means for an order.                            *)
OutcomeOf(s) ==
    CASE s = "CONFIRMED" -> "paid"
      [] s = "REJECTED" -> "failed"
      [] OTHER -> "pending"

OrdersInit ==
    /\ orders = [o \in Orders |-> [status |-> "none", ride |-> NoRide, reason |-> FALSE]]
    /\ bank = [o \in Orders |-> "none"]
    /\ owed = [o \in Orders |-> {}]
    /\ workers = [w \in Workers |-> Idle]
    /\ rides = FirstRide /\ current \in {NoRide, FirstRide}
    /\ others = FALSE
    /\ applied = [o \in Orders |-> 0] /\ charges = [o \in Orders |-> 0]
    /\ overtaken = {}
    /\ throws = 0 /\ crashes = 0

-----------------------------------------------------------------------------
(* The bank, external.                                                      *)

BankMoves(o, from, to, notices) ==
    /\ bank[o] \in from
    /\ bank' = [bank EXCEPT ![o] = to]
    /\ owed' = [owed EXCEPT ![o] = @ \cup notices]
    /\ UNCHANGED <<orders, workers, worldVars, applied, charges, overtaken, faultVars>>

BankHolds(o) == BankMoves(o, {"open"}, "held", {"AUTHORIZED"})
BankCaptures(o) == BankMoves(o, {"open", "held"}, "captured", {"CONFIRMED"})
BankDeclines(o) == BankMoves(o, {"open", "held"}, "declined", {"REJECTED"})

(* On the form the rider may try again after a decline.                     *)
BankCapturesLate(o) ==
    o \in Hosted /\ BankMoves(o, {"declined"}, "captured_late", {"CONFIRMED"})

Bank(o) == BankHolds(o) \/ BankCaptures(o) \/ BankDeclines(o) \/ BankCapturesLate(o)

-----------------------------------------------------------------------------
(* The hosted form: a request with a known key replays the order.           *)

(* Init and the insert: before they are done nobody has the address to pay. *)
OpensForm(o) ==
    /\ orders[o].status = "none"
    /\ Cardinality(Placed) < MaxOrders
    /\ SetStatus(o, "pending")
    /\ bank' = [bank EXCEPT ![o] = "open"]
    /\ UNCHANGED <<owed, workers, worldVars, applied, charges, overtaken, faultVars>>

InitRide(o) == o \in HostedStarts /\ BikeFree /\ OpensForm(o)
InitTopUp(o) == o \in TopUps /\ OpensForm(o)

-----------------------------------------------------------------------------
(* Saved cards: look up the key, reserve the row, Init, Charge.             *)

Begins(w, o, ride) ==
    /\ At(w, "idle")
    /\ orders[o].status = "none"
    /\ Cardinality(Placed \ {o}) < MaxOrders
    /\ workers' = [workers EXCEPT ![w] = [Idle EXCEPT !.step = "checked", !.order = o,
                                                     !.ride = ride]]

ChargeSavedCard(w, o) ==
    /\ o \in SavedStarts
    /\ BikeFree
    /\ Begins(w, o, NoRide)
    /\ UNCHANGED <<orders, bank, owed, worldVars, applied, charges, overtaken, faultVars>>

(* The ride to extend is the rider's own active one.                        *)
ExtendSavedCard(w, o) ==
    /\ o \in Extensions
    /\ current # NoRide
    /\ Begins(w, o, current)
    /\ UNCHANGED <<orders, bank, owed, worldVars, applied, charges, overtaken, faultVars>>

(* A ride ends; overtime of a ride paid by card is charged to that card.    *)
EndRide ==
    /\ current # NoRide
    /\ current' = NoRide
    /\ UNCHANGED <<orders, bank, owed, workers, others, rides, applied, charges,
                   overtaken, faultVars>>

PaidByCard(r) ==
    \/ r = FirstRide
    \/ \E o \in SavedStarts \cup Extensions : orders[o].status = "paid" /\ orders[o].ride = r

ChargeOverage(w, o) ==
    /\ o \in Overages
    /\ current # NoRide
    /\ PaidByCard(current)
    /\ Begins(w, o, current)
    /\ current' = NoRide
    /\ UNCHANGED <<orders, bank, owed, others, rides, applied, charges, overtaken, faultVars>>

(* Mutant: the loser of the race for the key goes on to charge.             *)
FreshKeyMutant(o) == TRUE

(* The unique index over rider and key lets one insert through.             *)
FreshKey(o) == orders[o].status = "none"

Reserve(w) ==
    /\ At(w, "checked")
    /\ IF FreshKey(OrderOf(w))
       THEN /\ orders' = [orders EXCEPT ![OrderOf(w)].status = "pending",
                                        ![OrderOf(w)].ride = workers[w].ride]
            /\ Goes(w, "reserved")
       ELSE UNCHANGED orders /\ Rests(w)
    /\ UNCHANGED <<bank, owed, worldVars, applied, charges, overtaken, faultVars>>

InitCharge(w) ==
    /\ At(w, "reserved")
    /\ \/ /\ bank' = [bank EXCEPT ![OrderOf(w)] = "inited"]
          /\ Goes(w, "inited")
          /\ UNCHANGED orders
       \/ /\ SetStatus(OrderOf(w), "failed")
          /\ Rests(w)
          /\ UNCHANGED bank
    /\ UNCHANGED <<owed, worldVars, applied, charges, overtaken, faultVars>>

(* What the handler makes of the answer to Charge.  If the answer is lost,  *)
(* the overage records a failure, the other two only tell the rider.        *)
Answered(w, outcome) ==
    workers' = [workers EXCEPT ![w] =
        CASE outcome \in {"paid", "failed"} ->
                [@ EXCEPT !.step = "settle", !.outcome = outcome]
          [] outcome = "lost" /\ @.order \in Overages -> [@ EXCEPT !.step = "giveUp"]
          [] OTHER -> Idle]

Charge(w) ==
    LET o == OrderOf(w)
        Bills(state, notices, outcomes) ==
            /\ bank' = [bank EXCEPT ![o] = state]
            /\ owed' = [owed EXCEPT ![o] = @ \cup notices]
            /\ \E outcome \in outcomes : Answered(w, outcome)
    IN  /\ At(w, "inited")
        /\ charges' = [charges EXCEPT ![o] = @ + 1]
        /\ \/ Bills("captured", {"CONFIRMED"}, {"paid", "lost"})
           \/ Bills("declined", {"REJECTED"}, {"failed", "lost"})
           \/ Bills("open", {}, {"pending", "lost"})
        /\ UNCHANGED <<orders, worldVars, applied, overtaken, faultVars>>

GiveUp(w) ==
    /\ At(w, "giveUp")
    /\ SetStatus(OrderOf(w), "failed")
    /\ Rests(w)
    /\ UNCHANGED <<bank, owed, worldVars, applied, charges, overtaken, faultVars>>

-----------------------------------------------------------------------------
(* Notifications.                                                           *)

(* The row is read; a settled order and a status in between need nothing.   *)
NoticeArrives(w, o, s) ==
    /\ s \in owed[o]
    /\ At(w, "idle")
    /\ IF orders[o].status = "paid" \/ OutcomeOf(s) = "pending"
       THEN /\ owed' = [owed EXCEPT ![o] = @ \ {s}]
            /\ overtaken' = Overtaken(o)
            /\ UNCHANGED workers
       ELSE /\ workers' = [workers EXCEPT ![w] =
                   [step |-> "read", order |-> o, outcome |-> OutcomeOf(s),
                    via |-> "webhook", notice |-> s, ride |-> NoRide]]
            /\ UNCHANGED <<owed, overtaken>>
    /\ UNCHANGED <<orders, bank, worldVars, applied, charges, faultVars>>

(* Mutant: only a paid order cannot be claimed.                             *)
ClaimableMutant(o) == orders[o].status # "paid"

(* Mutant: only an order under way cannot be claimed.                       *)
ClaimableTwice(o) == orders[o].status # "processing"

Claimable(o) == orders[o].status \notin {"paid", "processing"}

(* The conditional update; who loses it returns, and the bank is told "OK". *)
Claim(w) ==
    LET o == OrderOf(w)
    IN  /\ At(w, "read")
        /\ IF Claimable(o)
           THEN /\ SetStatus(o, "processing")
                /\ workers' = [workers EXCEPT ![w].step = "settle", ![w].ride = orders[o].ride]
                /\ UNCHANGED <<owed, overtaken>>
           ELSE /\ Returns(w)
                /\ overtaken' = Overtaken(o)
                /\ UNCHANGED orders
        /\ UNCHANGED <<bank, worldVars, applied, charges, faultVars>>

-----------------------------------------------------------------------------
(* What an answer of the bank leads to, for requests and notifications.     *)

RecordFailure(w) ==
    /\ At(w, "settle")
    /\ workers[w].outcome = "failed"
    /\ SetStatus(OrderOf(w), "failed")
    /\ Returns(w)
    /\ UNCHANGED <<bank, worldVars, applied, charges, overtaken, faultVars>>

Applies(w) == applied' = [applied EXCEPT ![OrderOf(w)] = @ + 1]
Found(w, r) == workers' = [workers EXCEPT ![w].step = "write", ![w].ride = r]

TopUp(w) ==
    /\ Paying(w)
    /\ OrderOf(w) \in TopUps
    /\ Applies(w)
    /\ Goes(w, "write")
    /\ UNCHANGED <<orders, bank, owed, worldVars, charges, overtaken, faultVars>>

(* extendRideForPaidOrder: the ride may have ended since it was paid for.   *)
ExtendForPaidOrder(w) ==
    /\ Paying(w)
    /\ OrderOf(w) \in Extensions
    /\ IF current = workers[w].ride
       THEN Applies(w) /\ Found(w, current)
       ELSE UNCHANGED applied /\ Found(w, NoRide)
    /\ UNCHANGED <<orders, bank, owed, worldVars, charges, overtaken, faultVars>>

(* startRideForPaidOrder: a ride of this rider on this bike is reused.      *)
LookForRide(w) ==
    /\ Paying(w)
    /\ OrderOf(w) \in Starts
    /\ IF current # NoRide THEN Found(w, current) ELSE Goes(w, "start")
    /\ UNCHANGED <<orders, bank, owed, worldVars, applied, charges, overtaken, faultVars>>

StartForPaidOrder(w) ==
    /\ At(w, "start")
    /\ IF BikeFree
       THEN /\ rides' = rides + 1
            /\ current' = rides + 1
            /\ Applies(w)
            /\ Found(w, rides + 1)
       ELSE UNCHANGED <<rides, current, applied>> /\ Found(w, NoRide)
    /\ UNCHANGED <<orders, bank, owed, others, charges, overtaken, faultVars>>

(* Mutant: an order whose ride could not start is put back.                 *)
SettledRowMutant(row, o, ride) ==
    [status |-> IF o \notin TopUps /\ ride = NoRide THEN "failed" ELSE "paid",
     ride |-> ride, reason |-> FALSE]

(* The money stays taken: the order is paid, with the reason if it bought   *)
(* nothing.                                                                 *)
SettledRow(row, o, ride) ==
    [status |-> "paid",
     ride |-> IF o \in Starts /\ ride # NoRide THEN ride ELSE row.ride,
     reason |-> o \notin TopUps /\ ride = NoRide]

WritePaid(w) ==
    LET o == OrderOf(w)
    IN  /\ At(w, "write")
        /\ orders' = [orders EXCEPT ![o] = SettledRow(@, o, workers[w].ride)]
        /\ Returns(w)
        /\ UNCHANGED <<bank, worldVars, applied, charges, overtaken, faultVars>>

(* Overage: the order first, then the ledger.                               *)
PayOverage(w) ==
    /\ Paying(w)
    /\ OrderOf(w) \in Overages
    /\ SetStatus(OrderOf(w), "paid")
    /\ Goes(w, "ledger")
    /\ UNCHANGED <<bank, owed, worldVars, applied, charges, overtaken, faultVars>>

BookOverage(w) ==
    /\ At(w, "ledger")
    /\ Applies(w)
    /\ Returns(w)
    /\ UNCHANGED <<orders, bank, worldVars, charges, overtaken, faultVars>>

-----------------------------------------------------------------------------
(* Faults and the rest of the world.                                        *)

(* Mutant: the claim is not released.                                       *)
AfterThrowMutant(w) == orders[OrderOf(w)].status

(* A notification's claim is released and its 500 makes the bank repeat it; *)
(* a failing charge of overage is recorded; other requests answer 502.      *)
AfterThrow(w) ==
    CASE workers[w].via = "webhook" -> "pending"
      [] workers[w].via = "call" /\ OrderOf(w) \in Overages -> "failed"
      [] OTHER -> orders[OrderOf(w)].status

StatementThrows(w) ==
    /\ throws < MaxThrows
    /\ workers[w].step \in {"settle", "start", "write", "ledger"}
    /\ throws' = throws + 1
    /\ SetStatus(OrderOf(w), AfterThrow(w))
    /\ Rests(w)
    /\ UNCHANGED <<bank, owed, worldVars, applied, charges, overtaken, crashes>>

(* Nothing of what the handlers know survives, and no claim is released.    *)
Crash ==
    /\ crashes < MaxCrashes
    /\ crashes' = crashes + 1
    /\ workers' = [w \in Workers |-> Idle]
    /\ UNCHANGED <<orders, bank, owed, worldVars, applied, charges, overtaken, throws>>

(* The rider rents the bike without an order, from the wallet.              *)
RentFromWallet ==
    /\ BikeFree
    /\ rides < MaxRides
    /\ rides' = rides + 1
    /\ current' = rides + 1
    /\ UNCHANGED <<orders, bank, owed, workers, others, applied, charges, overtaken, faultVars>>

OthersRide ==
    /\ current = NoRide
    /\ others' = ~others
    /\ UNCHANGED <<orders, bank, owed, workers, current, rides, applied, charges,
                   overtaken, faultVars>>

Proceeds(w) ==
    \/ Reserve(w) \/ InitCharge(w) \/ Charge(w) \/ GiveUp(w)
    \/ Claim(w)
    \/ RecordFailure(w) \/ TopUp(w) \/ ExtendForPaidOrder(w)
    \/ LookForRide(w) \/ StartForPaidOrder(w)
    \/ WritePaid(w) \/ PayOverage(w) \/ BookOverage(w)

Requests(w, o) ==
    \/ ChargeSavedCard(w, o) \/ ExtendSavedCard(w, o) \/ ChargeOverage(w, o)
    \/ \E s \in Notifications : NoticeArrives(w, o, s)

OrdersNext ==
    \/ \E o \in Orders : Bank(o) \/ InitRide(o) \/ InitTopUp(o)
    \/ \E w \in Workers : Proceeds(w) \/ StatementThrows(w)
    \/ \E w \in Workers, o \in Orders : Requests(w, o)
    \/ EndRide \/ RentFromWallet \/ OthersRide \/ Crash

OrdersSpec == OrdersInit /\ [][OrdersNext]_orderVars

(* Handlers run on, and the bank repeats a confirmation it has no "OK" for. *)
OrdersFairness ==
    /\ \A w \in Workers : WF_orderVars(Proceeds(w))
    /\ \A o \in Orders : WF_orderVars(\E w \in Workers : NoticeArrives(w, o, "CONFIRMED"))

FairOrdersSpec == OrdersSpec /\ OrdersFairness

-----------------------------------------------------------------------------
(* Safety.                                                                  *)

(* Nothing is granted, and no order called paid, before the bank has the    *)
(* money: a hold is not enough, whichever of a request, its notification    *)
(* and their repetitions comes first.                                       *)
NothingForFree ==
    \A o \in Orders : (applied[o] > 0 \/ orders[o].status = "paid") => Captured(o)

(* A top-up is credited and a ride started once, however often and however  *)
(* concurrently the bank delivers its notification; only a statement that   *)
(* fails between the grant and the status of the order can repeat it.       *)
GrantedOnce == \A o \in Hosted : applied[o] <= 1 + throws

(* Requests with one key charge the card once, however they race.           *)
ChargedOnce == \A o \in Saved : charges[o] <= 1

(* Money that the bank has taken and nobody works on belongs to an order    *)
(* that says paid.  The exceptions are a process that died, a delivery that *)
(* was acknowledged while the one at work then failed, and the overage,     *)
(* where a lost answer overwrites the outcome.                              *)
MoneyIsNotForgotten ==
    \A o \in Orders \ Overages :
        (/\ bank[o] = "captured" /\ "CONFIRMED" \notin owed[o] /\ WorkingOn(o) = {}
         /\ crashes = 0 /\ (throws = 0 \/ o \notin overtaken))
            => orders[o].status = "paid"

(* Refinement: hosted orders keep the promise of PaidOnce.                  *)
Once == INSTANCE PaidOnce WITH
    Payments <- Hosted,
    taken <- {o \in Hosted : Captured(o)},
    granted <- {o \in Hosted : applied[o] > 0},
    settled <- {o \in Hosted : orders[o].status = "paid"}

ImplementsPaidOnce == Once!OnceSpec

(* Liveness: captured money comes to a paid order, through any number of    *)
(* failing statements, as long as the bank goes on asking.                  *)
CapturedIsSettled ==
    \A o \in Orders \ Overages :
        bank[o] = "captured" ~> (orders[o].status = "paid" \/ crashes > 0 \/ o \in overtaken)

-----------------------------------------------------------------------------
(* What comments of the code say and the code does not keep.                *)

(* "extendRide's balance/ledger effects can only ever run once per order":  *)
(* a saved-card extension is applied by the request and by the webhook.     *)
ExtendedOnce == \A o \in Extensions : applied[o] <= 1

=============================================================================
