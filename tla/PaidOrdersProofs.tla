--------------------------- MODULE PaidOrdersProofs ---------------------------
(***************************************************************************)
(* Theorems about PaidOrders for any number of orders, handlers, repeated  *)
(* notifications, failing statements and restarts.                         *)
(***************************************************************************)
EXTENDS PaidOrders, TLAPS

(* A handler that is not idle has an order, with a row unless it is still   *)
(* to insert it (for an extension: with the ride it found); and the bank    *)
(* knows nothing of an order without a row.                                 *)
Employed ==
    /\ \A w \in Workers : ~At(w, "idle") => OrderOf(w) \in Orders
    /\ \A w \in Workers : (At(w, "checked") /\ OrderOf(w) \in Extensions)
                              => workers[w].ride # NoRide
    /\ \A w \in Workers : (~At(w, "idle") /\ ~At(w, "checked"))
                              => orders[OrderOf(w)].status # "none"
    /\ \A o \in Orders : orders[o].status = "none" => bank[o] = "none" /\ owed[o] = {}

(* The bank's money is behind every confirmation, every handler that acts   *)
(* on one and everything an order has bought or says.                       *)
Backed ==
    /\ \A o \in Orders : "CONFIRMED" \in owed[o] => Captured(o)
    /\ \A w \in Workers : workers[w].outcome = "paid" => Captured(OrderOf(w))
    /\ \A w \in Workers : workers[w].step \in {"start", "write", "ledger"}
                              => workers[w].outcome = "paid"
    /\ \A w \in Workers : workers[w].outcome = "paid" => ~At(w, "idle")
    /\ NothingForFree

(* Of the requests with one key at most one is between its row and the      *)
(* charge, and then the bank knows of no charge.                            *)
AboutToCharge(w) == workers[w].step \in {"reserved", "inited"}

Keyed ==
    /\ \A w \in Workers :
          workers[w].step \in {"checked", "reserved", "inited"} => workers[w].via = "call"
    /\ \A w \in Workers : AboutToCharge(w) =>
          /\ bank[OrderOf(w)] = IF At(w, "reserved") THEN "none" ELSE "inited"
          /\ charges[OrderOf(w)] = 0
    /\ \A v, w \in Workers :
          (AboutToCharge(v) /\ AboutToCharge(w) /\ OrderOf(v) = OrderOf(w)) => v = w
    /\ \A o \in Orders : orders[o].status = "none" => charges[o] = 0
    /\ ChargedOnce

(* The claim of an order of the hosted form has one holder, and an order    *)
(* whose grant is still to come has at most one grant for each statement    *)
(* that failed.                                                             *)
Holds(w) == workers[w].step \in {"settle", "start", "write"}

Unspent(o) ==
    /\ orders[o].status # "paid"
    /\ orders[o].status = "processing" =>
          \E w \in Workers : OrderOf(w) = o /\ workers[w].step \in {"settle", "start"}

OneHolder ==
    /\ \A w \in Workers : OrderOf(w) \in Hosted =>
          /\ workers[w].via = "webhook"
          /\ workers[w].step \in {"read", "settle", "start", "write"}
    /\ \A w \in Workers : (OrderOf(w) \in Hosted /\ Holds(w))
                              => orders[OrderOf(w)].status = "processing"
    /\ \A v, w \in Workers :
          (Holds(v) /\ Holds(w) /\ OrderOf(v) = OrderOf(w) /\ OrderOf(v) \in Hosted) => v = w

Claimed ==
    /\ OneHolder
    /\ \A o \in Hosted : applied[o] <= throws + (IF Unspent(o) THEN 0 ELSE 1)

(* A request or a notification that acts on a refusal has one of the bank,  *)
(* and only the overage has a step after the order is paid or a way to give *)
(* up.                                                                      *)
Declined(o) == bank[o] \in {"declined", "captured_late"}

Decided ==
    /\ \A w \in Workers : workers[w].step \in {"read", "settle"}
                              => workers[w].outcome \in {"paid", "failed"}
    /\ \A w \in Workers : At(w, "read") => workers[w].via = "webhook"
    /\ \A w \in Workers : workers[w].outcome = "failed" =>
          ~At(w, "idle") /\ Declined(OrderOf(w))
    /\ \A o \in Orders : "REJECTED" \in owed[o] => Declined(o)
    /\ \A w \in Workers : workers[w].step \in {"giveUp", "ledger"} => OrderOf(w) \in Overages

(* Captured money has its confirmation outstanding, or an order that says   *)
(* paid with no claim that could undo it, or a handler on the way there.    *)
Claimants(o) == {w \in WorkingOn(o) : Holds(w) /\ workers[w].via = "webhook"}
Busy(o) == {w \in WorkingOn(o) : Holds(w)}
Taken(o) == bank[o] = "captured" /\ o \notin Overages
Answerable(o) == Taken(o) /\ "CONFIRMED" \notin owed[o] /\ crashes = 0

KeptFor(o) ==
    /\ (orders[o].status = "processing" /\ crashes = 0) => Claimants(o) # {}
    /\ Taken(o) =>
          /\ \A v, w \in Claimants(o) : v = w
          /\ Claimants(o) # {} => orders[o].status \in {"processing", "paid"}
    /\ Answerable(o) =>
          /\ o \in overtaken \/ (orders[o].status = "paid" /\ Claimants(o) = {})
          /\ throws > 0 \/ orders[o].status = "paid" \/ Busy(o) # {}

Kept == \A o \in Orders : KeptFor(o)

OrdersInv == OrdersTypeOK /\ Employed /\ Backed /\ Keyed /\ Claimed /\ Decided /\ Kept

LEMMA Kinds ==
    /\ Hosted \subseteq Orders /\ Saved \subseteq Orders /\ Extensions \subseteq Saved
    /\ TopUps \subseteq Hosted /\ HostedStarts \subseteq Hosted
    /\ SavedStarts \subseteq Saved /\ Overages \subseteq Saved
    /\ Orders = Hosted \cup Saved /\ Starts = HostedStarts \cup SavedStarts
    /\ Hosted \cap Saved = {} /\ Extensions \cap Starts = {} /\ Extensions \cap TopUps = {}
    /\ Extensions \cap Overages = {} /\ TopUps \cap Starts = {}
    /\ NoOrder \notin Orders
BY KindAssumption DEF Hosted, Saved, Orders, Starts

LEMMA IdleType == Idle \in Worker /\ Idle.step = "idle" /\ Idle.order = NoOrder
                  /\ Idle.outcome = "pending" /\ Idle.notice = "AUTHORIZED"
BY DEF Idle, Worker, Steps, Outcomes, Notifications, NoRide

(* What the small moves of the actions do, field by field.                  *)
LEMMA GoesEffect ==
    ASSUME OrdersTypeOK, NEW w \in Workers, NEW s \in Steps, Goes(w, s)
    PROVE  /\ workers' \in [Workers -> Worker]
           /\ workers'[w].step = s /\ workers'[w].order = workers[w].order
           /\ workers'[w].outcome = workers[w].outcome /\ workers'[w].via = workers[w].via
           /\ workers'[w].notice = workers[w].notice /\ workers'[w].ride = workers[w].ride
           /\ \A v \in Workers \ {w} : workers'[v] = workers[v]
BY DEF OrdersTypeOK, Goes, Worker

LEMMA FoundEffect ==
    ASSUME OrdersTypeOK, NEW w \in Workers, NEW r \in Nat, Found(w, r)
    PROVE  /\ workers' \in [Workers -> Worker]
           /\ workers'[w].step = "write" /\ workers'[w].order = workers[w].order
           /\ workers'[w].outcome = workers[w].outcome /\ workers'[w].via = workers[w].via
           /\ workers'[w].notice = workers[w].notice
           /\ \A v \in Workers \ {w} : workers'[v] = workers[v]
<1>1. workers' = [workers EXCEPT ![w] = [workers[w] EXCEPT !.step = "write", !.ride = r]]
  BY DEF Found, OrdersTypeOK
<1>2. workers[w] \in Worker
  BY DEF OrdersTypeOK
<1>3. [workers[w] EXCEPT !.step = "write", !.ride = r] \in Worker
  BY <1>2 DEF Worker, Steps
<1> QED BY <1>1, <1>2, <1>3 DEF OrdersTypeOK, Worker

LEMMA RestsEffect ==
    ASSUME OrdersTypeOK, NEW w \in Workers, Rests(w)
    PROVE  /\ workers' \in [Workers -> Worker]
           /\ workers'[w] = Idle
           /\ \A v \in Workers \ {w} : workers'[v] = workers[v]
BY IdleType DEF OrdersTypeOK, Rests

LEMMA BeginsEffect ==
    ASSUME OrdersTypeOK, NEW w \in Workers, NEW o \in Orders, NEW r \in Nat, Begins(w, o, r)
    PROVE  /\ workers' \in [Workers -> Worker]
           /\ workers'[w].step = "checked" /\ workers'[w].order = o
           /\ workers'[w].outcome = "pending" /\ workers'[w].notice = "AUTHORIZED"
           /\ workers'[w].via = "call" /\ workers'[w].ride = r
           /\ \A v \in Workers \ {w} : workers'[v] = workers[v]
<1> DEFINE new == [Idle EXCEPT !.step = "checked", !.order = o, !.ride = r]
<1>1. new \in Worker /\ new.step = "checked" /\ new.order = o /\ new.ride = r
      /\ new.outcome = "pending" /\ new.notice = "AUTHORIZED" /\ new.via = "call"
  BY DEF Idle, Worker, Steps, Outcomes, Notifications
<1>2. workers' = [workers EXCEPT ![w] = new]
  BY DEF Begins
<1> QED BY <1>1, <1>2 DEF OrdersTypeOK

LEMMA AnsweredEffect ==
    ASSUME OrdersTypeOK, NEW w \in Workers, NEW outcome \in Outcomes \cup {"lost"},
           Answered(w, outcome)
    PROVE  /\ workers' \in [Workers -> Worker]
           /\ \A v \in Workers \ {w} : workers'[v] = workers[v]
           /\ \/ workers'[w] = Idle
              \/ /\ workers'[w].order = workers[w].order
                 /\ workers'[w].via = workers[w].via
                 /\ workers'[w].notice = workers[w].notice
                 /\ workers'[w].ride = workers[w].ride
                 /\ \/ outcome = "lost" /\ workers[w].order \in Overages
                       /\ workers'[w].step = "giveUp"
                       /\ workers'[w].outcome = workers[w].outcome
                    \/ outcome \in {"paid", "failed"} /\ workers'[w].step = "settle"
                       /\ workers'[w].outcome = outcome
<1> DEFINE settles == [workers[w] EXCEPT !.step = "settle", !.outcome = outcome]
           gives == [workers[w] EXCEPT !.step = "giveUp"]
<1>1. workers[w] \in Worker
  BY DEF OrdersTypeOK
<1>2. outcome \in {"paid", "failed"} => settles \in Worker
  BY <1>1 DEF Worker, Steps, Outcomes
<1>3. gives \in Worker
  BY <1>1 DEF Worker, Steps
<1>4. \/ outcome \in {"paid", "failed"} /\ workers' = [workers EXCEPT ![w] = settles]
      \/ /\ outcome = "lost" /\ workers[w].order \in Overages
         /\ workers' = [workers EXCEPT ![w] = gives]
      \/ workers' = [workers EXCEPT ![w] = Idle]
  BY DEF Answered, OrdersTypeOK
<1>5. CASE workers' = [workers EXCEPT ![w] = Idle]
  BY <1>5, IdleType DEF OrdersTypeOK
<1>6. CASE /\ outcome = "lost" /\ workers[w].order \in Overages
           /\ workers' = [workers EXCEPT ![w] = gives]
  <2>1. gives.step = "giveUp" /\ gives.order = workers[w].order /\ gives.via = workers[w].via
        /\ gives.notice = workers[w].notice /\ gives.ride = workers[w].ride
        /\ gives.outcome = workers[w].outcome
    BY <1>1 DEF Worker
  <2> HIDE DEF gives
  <2> QED BY <1>3, <1>6, <2>1 DEF OrdersTypeOK
<1>7. CASE outcome \in {"paid", "failed"} /\ workers' = [workers EXCEPT ![w] = settles]
  <2>1. settles.step = "settle" /\ settles.order = workers[w].order
        /\ settles.via = workers[w].via /\ settles.notice = workers[w].notice
        /\ settles.ride = workers[w].ride /\ settles.outcome = outcome
    BY <1>1 DEF Worker
  <2> HIDE DEF settles
  <2> QED BY <1>2, <1>7, <2>1 DEF OrdersTypeOK
<1> QED BY <1>4, <1>5, <1>6, <1>7

LEMMA SetStatusEffect ==
    ASSUME OrdersTypeOK, NEW o \in Orders, NEW s \in Statuses, SetStatus(o, s)
    PROVE  /\ orders' \in [Orders -> OrderRow]
           /\ orders'[o].status = s /\ orders'[o].ride = orders[o].ride
           /\ \A p \in Orders \ {o} : orders'[p] = orders[p]
BY DEF OrdersTypeOK, SetStatus, OrderRow

LEMMA SettledEffect ==
    ASSUME OrdersTypeOK, NEW o \in Orders, NEW r \in Nat
    PROVE  LET row == SettledRow(orders[o], o, r)
           IN  /\ row \in OrderRow /\ row.status = "paid"
               /\ o \in Extensions => row.ride = orders[o].ride
BY Kinds DEF OrdersTypeOK, SettledRow, OrderRow, Statuses, NoRide

LEMMA AppliesEffect ==
    ASSUME OrdersTypeOK, NEW w \in Workers, OrderOf(w) \in Orders, Applies(w)
    PROVE  /\ applied' \in [Orders -> Nat]
           /\ applied'[OrderOf(w)] = applied[OrderOf(w)] + 1
           /\ \A p \in Orders \ {OrderOf(w)} : applied'[p] = applied[p]
BY DEF OrdersTypeOK, Applies

LEMMA ReturnsEffect ==
    ASSUME OrdersTypeOK, NEW w \in Workers, OrderOf(w) \in Orders, Returns(w)
    PROVE  /\ owed' \in [Orders -> SUBSET Notifications]
           /\ \A p \in Orders : owed'[p] \subseteq owed[p]
           /\ \A p \in Orders \ {OrderOf(w)} : owed'[p] = owed[p]
           /\ workers[w].via = "call" => UNCHANGED owed
BY DEF OrdersTypeOK, Returns, Acknowledged

LEMMA OvertakenEffect ==
    ASSUME OrdersTypeOK, NEW o \in Orders, overtaken' = Overtaken(o)
    PROVE  /\ overtaken' \subseteq Orders /\ overtaken \subseteq overtaken'
           /\ \/ o \in overtaken'
              \/ \A w \in WorkingOn(o) : workers[w].step \in {"read", "checked"}
BY DEF OrdersTypeOK, Overtaken

LEMMA OrdersInitInv == OrdersInit => OrdersInv
<1> SUFFICES ASSUME OrdersInit PROVE OrdersInv
  OBVIOUS
<1>1. OrdersTypeOK
  <2>1. workers \in [Workers -> Worker]
    BY IdleType DEF OrdersInit
  <2>2. orders \in [Orders -> OrderRow]
    BY DEF OrdersInit, OrderRow, Statuses, NoRide
  <2>3. /\ bank \in [Orders -> BankStates] /\ owed \in [Orders -> SUBSET Notifications]
        /\ applied \in [Orders -> Nat] /\ charges \in [Orders -> Nat]
    BY DEF OrdersInit, BankStates
  <2>4. \A o \in Extensions : orders[o].status = "none"
    BY Kinds DEF OrdersInit
  <2>5. /\ current \in Nat /\ rides \in Nat /\ throws \in Nat /\ crashes \in Nat
        /\ overtaken \subseteq Orders
    BY DEF OrdersInit, NoRide, FirstRide
  <2>6. others \in BOOLEAN
    BY Zenon DEF OrdersInit
  <2> QED
    BY <2>1, <2>2, <2>3, <2>4, <2>5, <2>6, Zenon DEF OrdersTypeOK
<1>2. Employed /\ Backed /\ Keyed
  BY DEF OrdersInit, Employed, Backed, Keyed, AboutToCharge, NothingForFree, ChargedOnce,
     Idle, At, OrderOf, Captured, Saved, Orders
<1>3. Claimed
  BY KindAssumption, <1>1 DEF OrdersInit, Claimed, OneHolder, Holds, Unspent, Idle, At,
     OrderOf,
     Hosted,
     Orders, OrdersTypeOK
<1>4. Decided /\ Kept
  BY Kinds DEF OrdersInit, Decided, Kept, KeptFor, Declined, Claimants, Busy, Taken,
     Answerable, Idle,
     At, OrderOf
<1> QED BY <1>1, <1>2, <1>3, <1>4 DEF OrdersInv

(* What an action does to the other handlers and orders: nothing.           *)
OnlyWorker(w) == \A v \in Workers \ {w} : workers'[v] = workers[v]

OnlyOrder(o) ==
    \A p \in Orders \ {o} :
        /\ orders'[p] = orders[p] /\ bank'[p] = bank[p] /\ owed'[p] = owed[p]
        /\ applied'[p] = applied[p] /\ charges'[p] = charges[p]

(* A handler goes on with what it has.                                      *)
Keeps(w) ==
    /\ workers'[w].order = workers[w].order
    /\ workers'[w].outcome = workers[w].outcome
    /\ workers'[w].via = workers[w].via

Same ==
    UNCHANGED <<orders, bank, owed, workers, applied, charges, overtaken, throws, crashes>>

(* What each action does, field by field.                                   *)
LEMMA QuietEffect ==
    ASSUME OrdersTypeOK, Employed, EndRide \/ RentFromWallet \/ OthersRide \/ UNCHANGED orderVars
    PROVE  /\ OrdersTypeOK' /\ Employed'
           /\ Same
<1>1. Same
  BY DEF EndRide, RentFromWallet, OthersRide, Same, orderVars, faultVars
<1>2. current' \in Nat /\ rides' \in Nat
  BY DEF EndRide, RentFromWallet, OthersRide, OrdersTypeOK, orderVars, NoRide
<1>3. others' \in BOOLEAN
  BY Zenon DEF EndRide, RentFromWallet, OthersRide, OrdersTypeOK, orderVars
<1>4. OrdersTypeOK'
  BY <1>1, <1>2, <1>3, Zenon DEF OrdersTypeOK, Same
<1>5. Employed'
  BY <1>1 DEF Employed, Same, At, OrderOf
<1> QED BY <1>1, <1>4, <1>5

LEMMA BankEffect ==
    ASSUME OrdersTypeOK, Employed, NEW o \in Orders, Bank(o)
    PROVE  /\ OrdersTypeOK' /\ Employed'
           /\ UNCHANGED <<orders, workers, applied, charges, overtaken, throws, crashes>>
           /\ OnlyOrder(o)
           /\ \/ /\ bank[o] = "open" /\ bank'[o] = "held"
                 /\ owed'[o] = owed[o] \cup {"AUTHORIZED"}
              \/ /\ bank[o] \in {"open", "held"} /\ bank'[o] = "captured"
                 /\ owed'[o] = owed[o] \cup {"CONFIRMED"}
              \/ /\ bank[o] \in {"open", "held"} /\ bank'[o] = "declined"
                 /\ owed'[o] = owed[o] \cup {"REJECTED"}
              \/ /\ bank[o] = "declined" /\ bank'[o] = "captured_late"
                 /\ owed'[o] = owed[o] \cup {"CONFIRMED"}
<1>1. UNCHANGED <<orders, workers, current, others, rides, applied, charges, overtaken,
                  throws, crashes>>
  BY DEF Bank, BankHolds, BankCaptures, BankDeclines, BankCapturesLate, BankMoves,
     worldVars, faultVars
<1>2. PICK to \in BankStates, n \in Notifications :
         /\ bank' = [bank EXCEPT ![o] = to] /\ owed' = [owed EXCEPT ![o] = @ \cup {n}]
         /\ \/ bank[o] = "open" /\ to = "held" /\ n = "AUTHORIZED"
            \/ bank[o] \in {"open", "held"} /\ to = "captured" /\ n = "CONFIRMED"
            \/ bank[o] \in {"open", "held"} /\ to = "declined" /\ n = "REJECTED"
            \/ bank[o] = "declined" /\ to = "captured_late" /\ n = "CONFIRMED"
  BY DEF Bank, BankHolds, BankCaptures, BankDeclines, BankCapturesLate, BankMoves,
     BankStates, Notifications
<1>3. bank' \in [Orders -> BankStates] /\ owed' \in [Orders -> SUBSET Notifications]
  BY <1>2 DEF OrdersTypeOK
<1>4. OrdersTypeOK' /\ Employed'
  BY <1>1, <1>2, <1>3 DEF OrdersTypeOK, Employed, At, OrderOf
<1>5. OnlyOrder(o)
  BY <1>1, <1>2 DEF OrdersTypeOK, OnlyOrder
<1> QED BY <1>1, <1>2, <1>4, <1>5 DEF OrdersTypeOK

LEMMA OpensFormEffect ==
    ASSUME OrdersTypeOK, Employed, NEW o \in Orders, InitRide(o) \/ InitTopUp(o)
    PROVE  /\ OrdersTypeOK' /\ Employed'
           /\ UNCHANGED <<owed, workers, applied, charges, overtaken, throws, crashes>>
           /\ OnlyOrder(o)
           /\ o \in Hosted /\ orders[o].status = "none"
           /\ orders'[o].status = "pending" /\ bank'[o] = "open"
<1>1. /\ o \in Hosted /\ orders[o].status = "none"
      /\ SetStatus(o, "pending") /\ bank' = [bank EXCEPT ![o] = "open"]
      /\ UNCHANGED <<owed, workers, current, others, rides, applied, charges, overtaken,
                     throws, crashes>>
  BY Kinds DEF InitRide, InitTopUp, OpensForm, worldVars, faultVars
<1>2. /\ orders' \in [Orders -> OrderRow] /\ orders'[o].status = "pending"
      /\ \A p \in Orders \ {o} : orders'[p] = orders[p]
  BY <1>1, SetStatusEffect DEF Statuses
<1>3. bank' \in [Orders -> BankStates] /\ bank'[o] = "open"
      /\ \A p \in Orders \ {o} : bank'[p] = bank[p]
  BY <1>1 DEF OrdersTypeOK, BankStates
<1>4. OrdersTypeOK' /\ Employed'
  BY <1>1, <1>2, <1>3, Kinds DEF OrdersTypeOK, Employed, At, OrderOf
<1> QED BY <1>1, <1>2, <1>3, <1>4 DEF OnlyOrder

LEMMA BeginsChargeEffect ==
    ASSUME OrdersTypeOK, Employed, NEW w \in Workers, NEW o \in Orders, 
           ChargeSavedCard(w, o) \/ ExtendSavedCard(w, o) \/ ChargeOverage(w, o)
    PROVE  /\ OrdersTypeOK' /\ Employed'
           /\ UNCHANGED <<orders, bank, owed, applied, charges, overtaken, throws, crashes>>
           /\ OnlyWorker(w)
           /\ o \in Saved /\ orders[o].status = "none" /\ At(w, "idle")
           /\ workers'[w].step = "checked" /\ workers'[w].order = o
           /\ workers'[w].outcome = "pending" /\ workers'[w].via = "call"
<1>1. /\ o \in Saved /\ orders[o].status = "none" /\ At(w, "idle")
      /\ UNCHANGED <<orders, bank, owed, others, rides, applied, charges, overtaken,
                     throws, crashes>>
      /\ current' \in Nat
  BY Kinds DEF ChargeSavedCard, ExtendSavedCard, ChargeOverage, Begins, worldVars,
     faultVars, OrdersTypeOK, NoRide
<1>2. PICK r \in Nat : Begins(w, o, r) /\ (o \in Extensions => r # NoRide)
  BY Kinds DEF ChargeSavedCard, ExtendSavedCard, ChargeOverage, OrdersTypeOK, NoRide
<1>3. /\ workers' \in [Workers -> Worker] /\ OnlyWorker(w)
      /\ workers'[w].step = "checked" /\ workers'[w].order = o
      /\ workers'[w].outcome = "pending" /\ workers'[w].via = "call"
      /\ workers'[w].ride = r
  BY <1>2, BeginsEffect DEF OnlyWorker
<1>4. OrdersTypeOK'
  BY <1>1, <1>3 DEF OrdersTypeOK
<1>5. Employed'
  BY <1>1, <1>2, <1>3 DEF Employed, At, OrderOf, OnlyWorker
<1> QED BY <1>1, <1>3, <1>4, <1>5

LEMMA ReserveEffect ==
    ASSUME OrdersTypeOK, Employed, NEW w \in Workers, Reserve(w)
    PROVE  /\ OrdersTypeOK' /\ Employed'
           /\ UNCHANGED <<bank, owed, applied, charges, overtaken, throws, crashes>>
           /\ OnlyWorker(w) /\ OnlyOrder(OrderOf(w))
           /\ OrderOf(w) \in Orders /\ At(w, "checked")
           /\ \/ /\ orders[OrderOf(w)].status = "none"
                 /\ orders'[OrderOf(w)].status = "pending"
                 /\ workers'[w].step = "reserved" /\ Keeps(w)
              \/ UNCHANGED orders /\ workers'[w] = Idle
<1> DEFINE o == OrderOf(w)
           row == [orders[o] EXCEPT !.status = "pending", !.ride = workers[w].ride]
<1>1. o \in Orders /\ At(w, "checked") /\ workers[w] \in Worker /\ orders[o] \in OrderRow
      /\ UNCHANGED <<bank, owed, current, others, rides, applied, charges, overtaken,
                     throws, crashes>>
  BY DEF Reserve, Employed, At, OrderOf, OrdersTypeOK, worldVars, faultVars
<1>2. CASE FreshKey(o)
  <2>1. orders' = [orders EXCEPT ![o].status = "pending", ![o].ride = workers[w].ride]
        /\ Goes(w, "reserved")
    BY <1>2 DEF Reserve
  <2>2. row \in OrderRow /\ row.status = "pending" /\ row.ride = workers[w].ride
    BY <1>1 DEF OrderRow, Worker, Statuses
  <2>3. orders' = [orders EXCEPT ![o] = row]
    BY <1>1, <2>1 DEF OrdersTypeOK, OrderRow
  <2> HIDE DEF row
  <2>4. orders' \in [Orders -> OrderRow] /\ orders'[o].status = "pending"
        /\ orders'[o].ride = workers[w].ride
        /\ \A p \in Orders \ {o} : orders'[p] = orders[p]
    BY <1>1, <2>2, <2>3 DEF OrdersTypeOK
  <2>5. workers' \in [Workers -> Worker] /\ workers'[w].step = "reserved" /\ Keeps(w)
        /\ OnlyWorker(w)
    BY <2>1, GoesEffect DEF Keeps, OnlyWorker, Steps
  <2>6. o \in Extensions => orders'[o].ride # NoRide
    BY <1>1, <2>4 DEF Employed
  <2>7. OrdersTypeOK'
    BY <1>1, <2>4, <2>5, <2>6, Kinds DEF OrdersTypeOK
  <2>8. Employed'
    BY <1>1, <2>4, <2>5 DEF Employed, OnlyWorker, Keeps, At, OrderOf
  <2> QED BY <1>1, <1>2, <2>4, <2>5, <2>7, <2>8 DEF OnlyOrder, FreshKey
<1>3. CASE ~FreshKey(o)
  <2>1. UNCHANGED orders /\ workers' \in [Workers -> Worker] /\ workers'[w] = Idle
        /\ OnlyWorker(w)
    BY <1>3, RestsEffect DEF Reserve, OnlyWorker
  <2>2. OrdersTypeOK'
    BY <1>1, <2>1 DEF OrdersTypeOK
  <2>3. Employed'
    BY <1>1, <2>1, IdleType DEF Employed, OnlyWorker, At, OrderOf
  <2> QED BY <1>1, <2>1, <2>2, <2>3 DEF OnlyOrder
<1> QED BY <1>2, <1>3

LEMMA InitChargeEffect ==
    ASSUME OrdersTypeOK, Employed, NEW w \in Workers, InitCharge(w)
    PROVE  /\ OrdersTypeOK' /\ Employed'
           /\ UNCHANGED <<owed, applied, charges, overtaken, throws, crashes>>
           /\ OnlyWorker(w) /\ OnlyOrder(OrderOf(w))
           /\ OrderOf(w) \in Orders /\ At(w, "reserved")
           /\ \/ /\ bank'[OrderOf(w)] = "inited" /\ UNCHANGED orders
                 /\ workers'[w].step = "inited" /\ Keeps(w)
              \/ /\ orders'[OrderOf(w)].status = "failed" /\ UNCHANGED bank
                 /\ orders[OrderOf(w)].ride = orders'[OrderOf(w)].ride
                 /\ workers'[w] = Idle
<1> DEFINE o == OrderOf(w)
<1>1. o \in Orders /\ At(w, "reserved")
      /\ UNCHANGED <<owed, current, others, rides, applied, charges, overtaken, throws, crashes>>
  BY DEF InitCharge, Employed, At, OrderOf, worldVars, faultVars
<1>2. CASE bank' = [bank EXCEPT ![o] = "inited"] /\ Goes(w, "inited") /\ UNCHANGED orders
  <2>1. bank' \in [Orders -> BankStates] /\ bank'[o] = "inited"
        /\ \A p \in Orders \ {o} : bank'[p] = bank[p]
    BY <1>1, <1>2 DEF OrdersTypeOK, BankStates
  <2>2. workers' \in [Workers -> Worker] /\ workers'[w].step = "inited" /\ Keeps(w)
        /\ OnlyWorker(w)
    BY <1>2, GoesEffect DEF Keeps, OnlyWorker, Steps
  <2>3. OrdersTypeOK'
    BY <1>1, <1>2, <2>1, <2>2 DEF OrdersTypeOK
  <2>4. Employed'
    BY <1>1, <1>2, <2>1, <2>2 DEF Employed, OnlyWorker, Keeps, At, OrderOf
  <2> QED BY <1>1, <1>2, <2>1, <2>2, <2>3, <2>4 DEF OnlyOrder
<1>3. CASE SetStatus(o, "failed") /\ Rests(w) /\ UNCHANGED bank
  <2>1. orders' \in [Orders -> OrderRow] /\ orders'[o].status = "failed"
        /\ orders[o].ride = orders'[o].ride
        /\ \A p \in Orders \ {o} : orders'[p] = orders[p]
    BY <1>1, <1>3, SetStatusEffect DEF Statuses
  <2>2. workers' \in [Workers -> Worker] /\ workers'[w] = Idle /\ OnlyWorker(w)
    BY <1>3, RestsEffect DEF OnlyWorker
  <2>3. orders[o].status # "none"
    BY <1>1 DEF Employed, At
  <2>4. OrdersTypeOK'
    BY <1>1, <1>3, <2>1, <2>2, <2>3, Kinds DEF OrdersTypeOK
  <2>5. Employed'
    BY <1>1, <1>3, <2>1, <2>2, IdleType DEF Employed, OnlyWorker, At, OrderOf
  <2> QED BY <1>1, <1>3, <2>1, <2>2, <2>4, <2>5 DEF OnlyOrder
<1> QED BY <1>2, <1>3 DEF InitCharge

LEMMA ChargeEffect ==
    ASSUME OrdersTypeOK, Employed, NEW w \in Workers, Charge(w)
    PROVE  /\ OrdersTypeOK' /\ Employed'
           /\ UNCHANGED <<orders, applied, overtaken, throws, crashes>>
           /\ OnlyWorker(w) /\ OnlyOrder(OrderOf(w))
           /\ OrderOf(w) \in Orders /\ At(w, "inited")
           /\ charges'[OrderOf(w)] = charges[OrderOf(w)] + 1
           /\ \/ /\ bank'[OrderOf(w)] = "captured"
                 /\ owed'[OrderOf(w)] = owed[OrderOf(w)] \cup {"CONFIRMED"}
              \/ /\ bank'[OrderOf(w)] = "declined"
                 /\ owed'[OrderOf(w)] = owed[OrderOf(w)] \cup {"REJECTED"}
              \/ bank'[OrderOf(w)] = "open" /\ owed'[OrderOf(w)] = owed[OrderOf(w)]
           /\ \/ workers'[w] = Idle
              \/ /\ workers'[w].step = "giveUp" /\ OrderOf(w) \in Overages
                 /\ Keeps(w)
              \/ /\ workers'[w].step = "settle"
                 /\ workers'[w].order = workers[w].order /\ workers'[w].via = workers[w].via
                 /\ \/ workers'[w].outcome = "paid" /\ bank'[OrderOf(w)] = "captured"
                    \/ workers'[w].outcome = "failed" /\ bank'[OrderOf(w)] = "declined"
<1> DEFINE o == OrderOf(w)
<1>1. o \in Orders /\ At(w, "inited") /\ orders[o].status # "none"
      /\ UNCHANGED <<orders, current, others, rides, applied, overtaken, throws, crashes>>
  BY DEF Charge, Employed, At, OrderOf, worldVars, faultVars
<1>2. charges' \in [Orders -> Nat] /\ charges'[o] = charges[o] + 1
      /\ \A p \in Orders \ {o} : charges'[p] = charges[p]
  BY <1>1 DEF Charge, OrdersTypeOK
<1>3. PICK state \in BankStates, notices \in SUBSET Notifications,
           outcome \in Outcomes \cup {"lost"} :
         /\ bank' = [bank EXCEPT ![o] = state] /\ owed' = [owed EXCEPT ![o] = @ \cup notices]
         /\ Answered(w, outcome)
         /\ \/ state = "captured" /\ notices = {"CONFIRMED"} /\ outcome \in {"paid", "lost"}
            \/ state = "declined" /\ notices = {"REJECTED"} /\ outcome \in {"failed", "lost"}
            \/ state = "open" /\ notices = {} /\ outcome \in {"pending", "lost"}
  BY DEF Charge, BankStates, Notifications, Outcomes
<1>4. bank' \in [Orders -> BankStates] /\ bank'[o] = state
      /\ \A p \in Orders \ {o} : bank'[p] = bank[p]
  BY <1>1, <1>3 DEF OrdersTypeOK
<1>5. owed' \in [Orders -> SUBSET Notifications] /\ owed'[o] = owed[o] \cup notices
      /\ \A p \in Orders \ {o} : owed'[p] = owed[p]
  BY <1>1, <1>3 DEF OrdersTypeOK
<1>6. /\ workers' \in [Workers -> Worker] /\ OnlyWorker(w)
      /\ \/ workers'[w] = Idle
         \/ outcome = "lost" /\ o \in Overages /\ workers'[w].step = "giveUp" /\ Keeps(w)
         \/ /\ workers'[w].step = "settle" /\ outcome \in {"paid", "failed"}
            /\ workers'[w].order = workers[w].order /\ workers'[w].via = workers[w].via
            /\ workers'[w].outcome = outcome
  BY <1>3, AnsweredEffect DEF OnlyWorker, Keeps, OrderOf
<1>7. OrdersTypeOK'
  BY <1>1, <1>2, <1>4, <1>5, <1>6 DEF OrdersTypeOK
<1>8. Employed'
  BY <1>1, <1>4, <1>5, <1>6, IdleType DEF Employed, OnlyWorker, Keeps, At, OrderOf
<1>9. OnlyOrder(o)
  BY <1>1, <1>2, <1>4, <1>5 DEF OnlyOrder
<1>10. \/ bank'[o] = "captured" /\ owed'[o] = owed[o] \cup {"CONFIRMED"}
       \/ bank'[o] = "declined" /\ owed'[o] = owed[o] \cup {"REJECTED"}
       \/ bank'[o] = "open" /\ owed'[o] = owed[o]
  BY <1>3, <1>4, <1>5
<1> QED BY <1>1, <1>2, <1>3, <1>4, <1>6, <1>7, <1>8, <1>9, <1>10

LEMMA GiveUpEffect ==
    ASSUME OrdersTypeOK, Employed, NEW w \in Workers, GiveUp(w)
    PROVE  /\ OrdersTypeOK' /\ Employed'
           /\ UNCHANGED <<bank, owed, applied, charges, overtaken, throws, crashes>>
           /\ OnlyWorker(w) /\ OnlyOrder(OrderOf(w))
           /\ OrderOf(w) \in Orders /\ At(w, "giveUp")
           /\ orders'[OrderOf(w)].status = "failed" /\ workers'[w] = Idle
<1> DEFINE o == OrderOf(w)
<1>1. o \in Orders /\ At(w, "giveUp") /\ orders[o].status # "none"
      /\ SetStatus(o, "failed") /\ Rests(w)
      /\ UNCHANGED <<bank, owed, current, others, rides, applied, charges, overtaken,
                     throws, crashes>>
  BY DEF GiveUp, Employed, At, OrderOf, worldVars, faultVars
<1>2. orders' \in [Orders -> OrderRow] /\ orders'[o].status = "failed"
      /\ orders[o].ride = orders'[o].ride
      /\ \A p \in Orders \ {o} : orders'[p] = orders[p]
  BY <1>1, SetStatusEffect DEF Statuses
<1>3. workers' \in [Workers -> Worker] /\ workers'[w] = Idle /\ OnlyWorker(w)
  BY <1>1, RestsEffect DEF OnlyWorker
<1>4. OrdersTypeOK'
  BY <1>1, <1>2, <1>3, Kinds DEF OrdersTypeOK
<1>5. Employed'
  BY <1>1, <1>2, <1>3, IdleType DEF Employed, OnlyWorker, At, OrderOf
<1> QED BY <1>1, <1>2, <1>3, <1>4, <1>5 DEF OnlyOrder

LEMMA NoticeEffect ==
    ASSUME OrdersTypeOK, Employed, NEW w \in Workers, NEW o \in Orders,
           NEW s \in Notifications, NoticeArrives(w, o, s)
    PROVE  /\ OrdersTypeOK' /\ Employed'
           /\ UNCHANGED <<orders, bank, applied, charges, throws, crashes>>
           /\ OnlyWorker(w) /\ OnlyOrder(o)
           /\ s \in owed[o] /\ At(w, "idle") /\ overtaken \subseteq overtaken'
           /\ \/ /\ UNCHANGED workers
                 /\ owed'[o] = owed[o] \ {s}
                 /\ s # "CONFIRMED" \/ orders[o].status = "paid"
                 /\ \/ o \in overtaken'
                    \/ \A v \in WorkingOn(o) : workers[v].step \in {"read", "checked"}
              \/ /\ UNCHANGED <<owed, overtaken>>
                 /\ workers'[w].step = "read" /\ workers'[w].order = o
                 /\ workers'[w].via = "webhook"
                 /\ \/ workers'[w].outcome = "paid" /\ s = "CONFIRMED"
                    \/ workers'[w].outcome = "failed" /\ s = "REJECTED"
<1>1. s \in owed[o] /\ At(w, "idle") /\ orders[o].status # "none"
      /\ UNCHANGED <<orders, bank, current, others, rides, applied, charges, throws, crashes>>
  BY DEF NoticeArrives, Employed, worldVars, faultVars
<1>2. CASE orders[o].status = "paid" \/ OutcomeOf(s) = "pending"
  <2>1. owed' = [owed EXCEPT ![o] = @ \ {s}] /\ overtaken' = Overtaken(o)
        /\ UNCHANGED workers
    BY <1>2 DEF NoticeArrives
  <2>2. owed' \in [Orders -> SUBSET Notifications] /\ owed'[o] = owed[o] \ {s}
        /\ \A p \in Orders \ {o} : owed'[p] = owed[p]
    BY <2>1 DEF OrdersTypeOK
  <2>3. overtaken' \subseteq Orders /\ overtaken \subseteq overtaken'
        /\ \/ o \in overtaken'
           \/ \A v \in WorkingOn(o) : workers[v].step \in {"read", "checked"}
    BY <2>1, OvertakenEffect
  <2>4. s # "CONFIRMED" \/ orders[o].status = "paid"
    BY <1>2 DEF OutcomeOf
  <2>5. OrdersTypeOK'
    BY <1>1, <2>1, <2>2, <2>3 DEF OrdersTypeOK
  <2>6. Employed'
    BY <1>1, <2>1, <2>2 DEF Employed, At, OrderOf
  <2> QED BY <1>1, <2>1, <2>2, <2>3, <2>4, <2>5, <2>6 DEF OnlyWorker, OnlyOrder
<1>3. CASE ~(orders[o].status = "paid" \/ OutcomeOf(s) = "pending")
  <2> DEFINE new == [step |-> "read", order |-> o, outcome |-> OutcomeOf(s),
                     via |-> "webhook", notice |-> s, ride |-> NoRide]
  <2>1. workers' = [workers EXCEPT ![w] = new] /\ UNCHANGED <<owed, overtaken>>
    BY <1>3 DEF NoticeArrives
  <2>2. \/ OutcomeOf(s) = "paid" /\ s = "CONFIRMED"
        \/ OutcomeOf(s) = "failed" /\ s = "REJECTED"
    BY <1>3 DEF OutcomeOf
  <2>3. new \in Worker /\ new.step = "read" /\ new.order = o /\ new.via = "webhook"
        /\ new.outcome = OutcomeOf(s)
    BY <2>2 DEF Worker, Steps, Outcomes, Notifications, NoRide
  <2> HIDE DEF new
  <2>4. workers' \in [Workers -> Worker] /\ workers'[w] = new /\ OnlyWorker(w)
    BY <2>1, <2>3 DEF OrdersTypeOK, OnlyWorker
  <2>5. OrdersTypeOK'
    BY <1>1, <2>1, <2>4 DEF OrdersTypeOK
  <2>6. Employed'
    BY <1>1, <2>1, <2>3, <2>4 DEF Employed, OnlyWorker, At, OrderOf
  <2> QED BY <1>1, <2>1, <2>2, <2>3, <2>4, <2>5, <2>6 DEF OnlyOrder
<1> QED BY <1>2, <1>3

LEMMA ClaimEffect ==
    ASSUME OrdersTypeOK, Employed, NEW w \in Workers, Claim(w)
    PROVE  /\ OrdersTypeOK' /\ Employed'
           /\ UNCHANGED <<bank, applied, charges, throws, crashes>>
           /\ OnlyWorker(w) /\ OnlyOrder(OrderOf(w))
           /\ OrderOf(w) \in Orders /\ At(w, "read") /\ overtaken \subseteq overtaken'
           /\ \/ /\ orders[OrderOf(w)].status \notin {"paid", "processing"}
                 /\ orders'[OrderOf(w)].status = "processing"
                 /\ workers'[w].step = "settle" /\ Keeps(w) /\ UNCHANGED <<owed, overtaken>>
              \/ /\ orders[OrderOf(w)].status \in {"paid", "processing"}
                 /\ UNCHANGED orders /\ workers'[w] = Idle
                 /\ owed'[OrderOf(w)] \subseteq owed[OrderOf(w)]
                 /\ \/ OrderOf(w) \in overtaken'
                    \/ \A v \in WorkingOn(OrderOf(w)) : workers[v].step \in {"read", "checked"}
<1> DEFINE o == OrderOf(w)
           moved == [workers[w] EXCEPT !.step = "settle", !.ride = orders[o].ride]
<1>1. o \in Orders /\ At(w, "read") /\ workers[w] \in Worker /\ orders[o] \in OrderRow
      /\ orders[o].status # "none"
      /\ UNCHANGED <<bank, current, others, rides, applied, charges, throws, crashes>>
  BY DEF Claim, Employed, At, OrderOf, OrdersTypeOK, worldVars, faultVars
<1>2. CASE Claimable(o)
  <2>1. SetStatus(o, "processing") /\ UNCHANGED <<owed, overtaken>>
        /\ workers' = [workers EXCEPT ![w].step = "settle", ![w].ride = orders[o].ride]
    BY <1>2 DEF Claim
  <2>2. orders' \in [Orders -> OrderRow] /\ orders'[o].status = "processing"
        /\ orders[o].ride = orders'[o].ride
        /\ \A p \in Orders \ {o} : orders'[p] = orders[p]
    BY <1>1, <2>1, SetStatusEffect DEF Statuses
  <2>3. moved \in Worker /\ moved.step = "settle" /\ moved.order = workers[w].order
        /\ moved.outcome = workers[w].outcome /\ moved.via = workers[w].via
    BY <1>1 DEF Worker, Steps, OrderRow
  <2>4. workers' = [workers EXCEPT ![w] = moved]
    BY <1>1, <2>1 DEF OrdersTypeOK, Worker
  <2> HIDE DEF moved
  <2>5. workers' \in [Workers -> Worker] /\ workers'[w] = moved /\ OnlyWorker(w)
    BY <2>3, <2>4 DEF OrdersTypeOK, OnlyWorker
  <2>6. OrdersTypeOK'
    BY <1>1, <2>1, <2>2, <2>5, Kinds DEF OrdersTypeOK
  <2>7. Employed'
    BY <1>1, <2>1, <2>2, <2>3, <2>5 DEF Employed, OnlyWorker, At, OrderOf
  <2> QED BY <1>1, <1>2, <2>1, <2>2, <2>3, <2>5, <2>6, <2>7 DEF OnlyOrder, Keeps, Claimable
<1>3. CASE ~Claimable(o)
  <2>1. Returns(w) /\ overtaken' = Overtaken(o) /\ UNCHANGED orders
    BY <1>3 DEF Claim
  <2>2. workers' \in [Workers -> Worker] /\ workers'[w] = Idle /\ OnlyWorker(w)
    BY <2>1, RestsEffect DEF Returns, OnlyWorker
  <2>3. owed' \in [Orders -> SUBSET Notifications]
        /\ (\A p \in Orders : owed'[p] \subseteq owed[p])
        /\ \A p \in Orders \ {o} : owed'[p] = owed[p]
    BY <1>1, <2>1, ReturnsEffect
  <2>4. overtaken' \subseteq Orders /\ overtaken \subseteq overtaken'
        /\ \/ o \in overtaken'
           \/ \A v \in WorkingOn(o) : workers[v].step \in {"read", "checked"}
    BY <1>1, <2>1, OvertakenEffect
  <2>5. OrdersTypeOK'
    BY <1>1, <2>1, <2>2, <2>3, <2>4 DEF OrdersTypeOK
  <2>6. Employed'
    BY <1>1, <2>1, <2>2, <2>3, IdleType DEF Employed, OnlyWorker, At, OrderOf
  <2> QED BY <1>1, <1>3, <2>1, <2>2, <2>3, <2>4, <2>5, <2>6 DEF OnlyOrder, Claimable
<1> QED BY <1>2, <1>3

LEMMA RecordFailureEffect ==
    ASSUME OrdersTypeOK, Employed, NEW w \in Workers, RecordFailure(w)
    PROVE  /\ OrdersTypeOK' /\ Employed'
           /\ UNCHANGED <<bank, applied, charges, overtaken, throws, crashes>>
           /\ OnlyWorker(w) /\ OnlyOrder(OrderOf(w))
           /\ OrderOf(w) \in Orders /\ At(w, "settle") /\ workers[w].outcome = "failed"
           /\ orders'[OrderOf(w)].status = "failed" /\ workers'[w] = Idle
           /\ owed'[OrderOf(w)] \subseteq owed[OrderOf(w)]
<1> DEFINE o == OrderOf(w)
<1>1. o \in Orders /\ At(w, "settle") /\ orders[o].status # "none"
      /\ workers[w].outcome = "failed" /\ SetStatus(o, "failed") /\ Returns(w)
      /\ UNCHANGED <<bank, current, others, rides, applied, charges, overtaken, throws, crashes>>
  BY DEF RecordFailure, Employed, At, OrderOf, worldVars, faultVars
<1>2. orders' \in [Orders -> OrderRow] /\ orders'[o].status = "failed"
      /\ orders[o].ride = orders'[o].ride
      /\ \A p \in Orders \ {o} : orders'[p] = orders[p]
  BY <1>1, SetStatusEffect DEF Statuses
<1>3. workers' \in [Workers -> Worker] /\ workers'[w] = Idle /\ OnlyWorker(w)
  BY <1>1, RestsEffect DEF Returns, OnlyWorker
<1>4. owed' \in [Orders -> SUBSET Notifications]
      /\ (\A p \in Orders : owed'[p] \subseteq owed[p])
      /\ \A p \in Orders \ {o} : owed'[p] = owed[p]
  BY <1>1, ReturnsEffect
<1>5. OrdersTypeOK'
  BY <1>1, <1>2, <1>3, <1>4, Kinds DEF OrdersTypeOK
<1>6. Employed'
  BY <1>1, <1>2, <1>3, <1>4, IdleType DEF Employed, OnlyWorker, At, OrderOf
<1> QED BY <1>1, <1>2, <1>3, <1>4, <1>5, <1>6 DEF OnlyOrder

(* The four ways on from captured money to what it buys.                    *)
LEMMA GrantsEffect ==
    ASSUME OrdersTypeOK, Employed, NEW w \in Workers,
           TopUp(w) \/ ExtendForPaidOrder(w) \/ LookForRide(w) \/ StartForPaidOrder(w)
    PROVE  /\ OrdersTypeOK' /\ Employed'
           /\ UNCHANGED <<orders, bank, owed, charges, overtaken, throws, crashes>>
           /\ OnlyWorker(w) /\ OnlyOrder(OrderOf(w)) /\ Keeps(w)
           /\ OrderOf(w) \in Orders /\ (Paying(w) \/ At(w, "start"))
           /\ \/ /\ workers'[w].step = "write"
                 /\ applied'[OrderOf(w)] \in {applied[OrderOf(w)], applied[OrderOf(w)] + 1}
              \/ workers'[w].step = "start" /\ UNCHANGED applied
<1> DEFINE o == OrderOf(w)
<1>1. o \in Orders /\ (Paying(w) \/ At(w, "start")) /\ orders[o].status # "none"
      /\ UNCHANGED <<orders, bank, owed, others, charges, overtaken, throws, crashes>>
      /\ current' \in Nat /\ rides' \in Nat
  BY DEF TopUp, ExtendForPaidOrder, LookForRide, StartForPaidOrder, Paying, Employed, At,
     OrderOf, OrdersTypeOK, worldVars, faultVars
<1>2. \/ Goes(w, "write") \/ (\E r \in Nat : Found(w, r))
      \/ Goes(w, "start") /\ UNCHANGED applied
  BY DEF TopUp, ExtendForPaidOrder, LookForRide, StartForPaidOrder, OrdersTypeOK, NoRide
<1>3. /\ workers' \in [Workers -> Worker] /\ OnlyWorker(w) /\ Keeps(w)
      /\ \/ workers'[w].step = "write"
         \/ workers'[w].step = "start" /\ UNCHANGED applied
  BY <1>2, GoesEffect, FoundEffect DEF OnlyWorker, Keeps, Steps
<1>4. Applies(w) \/ UNCHANGED applied
  BY DEF TopUp, ExtendForPaidOrder, LookForRide, StartForPaidOrder
<1>5. /\ applied' \in [Orders -> Nat] /\ \A p \in Orders \ {o} : applied'[p] = applied[p]
      /\ applied'[o] \in {applied[o], applied[o] + 1}
  BY <1>1, <1>4, AppliesEffect DEF OrdersTypeOK
<1>6. OrdersTypeOK'
  BY <1>1, <1>3, <1>5 DEF OrdersTypeOK
<1>7. Employed'
  BY <1>1, <1>3 DEF Employed, OnlyWorker, Keeps, At, OrderOf
<1> QED BY <1>1, <1>3, <1>5, <1>6, <1>7 DEF OnlyOrder

LEMMA WritePaidEffect ==
    ASSUME OrdersTypeOK, Employed, NEW w \in Workers, WritePaid(w)
    PROVE  /\ OrdersTypeOK' /\ Employed'
           /\ UNCHANGED <<bank, applied, charges, overtaken, throws, crashes>>
           /\ OnlyWorker(w) /\ OnlyOrder(OrderOf(w))
           /\ OrderOf(w) \in Orders /\ At(w, "write")
           /\ orders'[OrderOf(w)].status = "paid" /\ workers'[w] = Idle
           /\ owed'[OrderOf(w)] \subseteq owed[OrderOf(w)]
           /\ workers[w].via = "call" => UNCHANGED owed
<1> DEFINE o == OrderOf(w)
           row == SettledRow(orders[o], o, workers[w].ride)
<1>1. o \in Orders /\ At(w, "write") /\ orders[o].status # "none" /\ Returns(w)
      /\ workers[w].ride \in Nat
      /\ UNCHANGED <<bank, current, others, rides, applied, charges, overtaken, throws, crashes>>
  BY DEF WritePaid, Employed, At, OrderOf, OrdersTypeOK, Worker, worldVars, faultVars
<1>2. row \in OrderRow /\ row.status = "paid" /\ (o \in Extensions => row.ride = orders[o].ride)
  BY <1>1, SettledEffect
<1>3. orders' = [orders EXCEPT ![o] = row]
  BY <1>1 DEF WritePaid, OrdersTypeOK
<1> HIDE DEF row
<1>4. orders' \in [Orders -> OrderRow] /\ orders'[o] = row
      /\ \A p \in Orders \ {o} : orders'[p] = orders[p]
  BY <1>1, <1>2, <1>3 DEF OrdersTypeOK
<1>5. workers' \in [Workers -> Worker] /\ workers'[w] = Idle /\ OnlyWorker(w)
  BY <1>1, RestsEffect DEF Returns, OnlyWorker
<1>6. owed' \in [Orders -> SUBSET Notifications]
      /\ (\A p \in Orders : owed'[p] \subseteq owed[p])
      /\ (\A p \in Orders \ {o} : owed'[p] = owed[p])
      /\ (workers[w].via = "call" => UNCHANGED owed)
  BY <1>1, ReturnsEffect
<1>7. OrdersTypeOK'
  BY <1>1, <1>2, <1>4, <1>5, <1>6, Kinds DEF OrdersTypeOK
<1>8. Employed'
  BY <1>1, <1>2, <1>4, <1>5, <1>6, IdleType DEF Employed, OnlyWorker, At, OrderOf
<1> QED BY <1>1, <1>2, <1>4, <1>5, <1>6, <1>7, <1>8 DEF OnlyOrder

LEMMA PayOverageEffect ==
    ASSUME OrdersTypeOK, Employed, NEW w \in Workers, PayOverage(w)
    PROVE  /\ OrdersTypeOK' /\ Employed'
           /\ UNCHANGED <<bank, owed, applied, charges, overtaken, throws, crashes>>
           /\ OnlyWorker(w) /\ OnlyOrder(OrderOf(w)) /\ Keeps(w)
           /\ OrderOf(w) \in Orders /\ Paying(w) /\ OrderOf(w) \in Overages
           /\ orders'[OrderOf(w)].status = "paid" /\ workers'[w].step = "ledger"
<1> DEFINE o == OrderOf(w)
<1>1. o \in Orders /\ Paying(w) /\ o \in Overages /\ orders[o].status # "none"
      /\ SetStatus(o, "paid") /\ Goes(w, "ledger")
      /\ UNCHANGED <<bank, owed, current, others, rides, applied, charges, overtaken,
                     throws, crashes>>
  BY DEF PayOverage, Paying, Employed, At, OrderOf, worldVars, faultVars
<1>2. orders' \in [Orders -> OrderRow] /\ orders'[o].status = "paid"
      /\ orders[o].ride = orders'[o].ride
      /\ \A p \in Orders \ {o} : orders'[p] = orders[p]
  BY <1>1, SetStatusEffect DEF Statuses
<1>3. workers' \in [Workers -> Worker] /\ workers'[w].step = "ledger" /\ Keeps(w)
      /\ OnlyWorker(w)
  BY <1>1, GoesEffect DEF OnlyWorker, Keeps, Steps
<1>4. OrdersTypeOK'
  BY <1>1, <1>2, <1>3, Kinds DEF OrdersTypeOK
<1>5. Employed'
  BY <1>1, <1>2, <1>3 DEF Employed, OnlyWorker, Keeps, At, OrderOf
<1> QED BY <1>1, <1>2, <1>3, <1>4, <1>5 DEF OnlyOrder

LEMMA BookOverageEffect ==
    ASSUME OrdersTypeOK, Employed, NEW w \in Workers, BookOverage(w)
    PROVE  /\ OrdersTypeOK' /\ Employed'
           /\ UNCHANGED <<orders, bank, charges, overtaken, throws, crashes>>
           /\ OnlyWorker(w) /\ OnlyOrder(OrderOf(w))
           /\ OrderOf(w) \in Orders /\ At(w, "ledger") /\ workers'[w] = Idle
           /\ applied'[OrderOf(w)] = applied[OrderOf(w)] + 1
           /\ owed'[OrderOf(w)] \subseteq owed[OrderOf(w)]
<1> DEFINE o == OrderOf(w)
<1>1. o \in Orders /\ At(w, "ledger") /\ orders[o].status # "none" /\ Returns(w) /\ Applies(w)
      /\ UNCHANGED <<orders, bank, current, others, rides, charges, overtaken, throws, crashes>>
  BY DEF BookOverage, Employed, At, OrderOf, worldVars, faultVars
<1>2. applied' \in [Orders -> Nat] /\ applied'[o] = applied[o] + 1
      /\ \A p \in Orders \ {o} : applied'[p] = applied[p]
  BY <1>1, AppliesEffect
<1>3. workers' \in [Workers -> Worker] /\ workers'[w] = Idle /\ OnlyWorker(w)
  BY <1>1, RestsEffect DEF Returns, OnlyWorker
<1>4. owed' \in [Orders -> SUBSET Notifications]
      /\ (\A p \in Orders : owed'[p] \subseteq owed[p])
      /\ \A p \in Orders \ {o} : owed'[p] = owed[p]
  BY <1>1, ReturnsEffect
<1>5. OrdersTypeOK'
  BY <1>1, <1>2, <1>3, <1>4 DEF OrdersTypeOK
<1>6. Employed'
  BY <1>1, <1>3, <1>4, IdleType DEF Employed, OnlyWorker, At, OrderOf
<1> QED BY <1>1, <1>2, <1>3, <1>4, <1>5, <1>6 DEF OnlyOrder

LEMMA ThrowsEffect ==
    ASSUME OrdersTypeOK, Employed, NEW w \in Workers, StatementThrows(w)
    PROVE  /\ OrdersTypeOK' /\ Employed'
           /\ UNCHANGED <<bank, owed, applied, charges, overtaken, crashes>>
           /\ OnlyWorker(w) /\ OnlyOrder(OrderOf(w))
           /\ OrderOf(w) \in Orders
           /\ workers[w].step \in {"settle", "start", "write", "ledger"}
           /\ throws' = throws + 1 /\ workers'[w] = Idle
           /\ \/ workers[w].via = "webhook" /\ orders'[OrderOf(w)].status = "pending"
              \/ /\ workers[w].via = "call" /\ OrderOf(w) \in Overages
                 /\ orders'[OrderOf(w)].status = "failed"
              \/ /\ workers[w].via = "call" /\ OrderOf(w) \notin Overages
                 /\ orders'[OrderOf(w)].status = orders[OrderOf(w)].status
<1> DEFINE o == OrderOf(w)
<1>1. o \in Orders /\ workers[w].step \in {"settle", "start", "write", "ledger"}
      /\ workers[w] \in Worker /\ orders[o] \in OrderRow
      /\ orders[o].status # "none" /\ Rests(w) /\ throws' = throws + 1
      /\ UNCHANGED <<bank, owed, current, others, rides, applied, charges, overtaken, crashes>>
  BY DEF StatementThrows, Employed, At, OrderOf, OrdersTypeOK, worldVars
<1>2. PICK s \in Statuses :
         /\ SetStatus(o, s)
         /\ \/ workers[w].via = "webhook" /\ s = "pending"
            \/ workers[w].via = "call" /\ o \in Overages /\ s = "failed"
            \/ workers[w].via = "call" /\ o \notin Overages /\ s = orders[o].status
  <2>1. \/ workers[w].via = "webhook" /\ AfterThrow(w) = "pending"
        \/ workers[w].via = "call" /\ o \in Overages /\ AfterThrow(w) = "failed"
        \/ workers[w].via = "call" /\ o \notin Overages /\ AfterThrow(w) = orders[o].status
    BY <1>1 DEF AfterThrow, Worker
  <2>2. SetStatus(o, AfterThrow(w)) /\ AfterThrow(w) \in Statuses
    BY <1>1, <2>1 DEF StatementThrows, OrderRow, Statuses
  <2> QED BY <2>1, <2>2
<1>3. orders' \in [Orders -> OrderRow] /\ orders'[o].status = s
      /\ orders[o].ride = orders'[o].ride
      /\ \A p \in Orders \ {o} : orders'[p] = orders[p]
  BY <1>1, <1>2, SetStatusEffect
<1>4. workers' \in [Workers -> Worker] /\ workers'[w] = Idle /\ OnlyWorker(w)
  BY <1>1, RestsEffect DEF OnlyWorker
<1>5. OrdersTypeOK'
  BY <1>1, <1>3, <1>4, Kinds DEF OrdersTypeOK
<1>6. Employed'
  BY <1>1, <1>2, <1>3, <1>4, IdleType DEF Employed, OnlyWorker, At, OrderOf
<1> QED BY <1>1, <1>2, <1>3, <1>4, <1>5, <1>6 DEF OnlyOrder

LEMMA CrashEffect ==
    ASSUME OrdersTypeOK, Employed, Crash
    PROVE  /\ OrdersTypeOK' /\ Employed'
           /\ UNCHANGED <<orders, bank, owed, applied, charges, overtaken, throws>>
           /\ crashes' = crashes + 1 /\ \A w \in Workers : workers'[w] = Idle
<1>1. UNCHANGED <<orders, bank, owed, current, others, rides, applied, charges, overtaken, throws>>
      /\ crashes' = crashes + 1 /\ workers' = [w \in Workers |-> Idle]
  BY DEF Crash, worldVars
<1>2. workers' \in [Workers -> Worker]
  BY <1>1, IdleType
<1>3. OrdersTypeOK'
  BY <1>1, <1>2 DEF OrdersTypeOK
<1>4. Employed'
  BY <1>1, IdleType DEF Employed, At, OrderOf
<1> QED BY <1>1, <1>3, <1>4

(* Money the bank has captured stays captured, a refusal stays one.         *)
MoneyStays ==
    \A p \in Orders : (Captured(p) => Captured(p)') /\ (Declined(p) => Declined(p)')

LEMMA BankOnlyAdds ==
    ASSUME OrdersTypeOK, Employed, Keyed, [OrdersNext]_orderVars
    PROVE  MoneyStays
<1>1. ASSUME NEW o \in Orders, Bank(o)
       PROVE  MoneyStays
  BY <1>1, BankEffect DEF MoneyStays, Captured, Declined, Employed, Keyed, AboutToCharge,
     At,
     OrderOf, OnlyOrder, Same
<1>2. ASSUME NEW o \in Orders, InitRide(o) \/ InitTopUp(o)
       PROVE  MoneyStays
  BY <1>2, OpensFormEffect DEF MoneyStays, Captured, Declined, Employed, Keyed,
     AboutToCharge, At,
     OrderOf, OnlyOrder, Same
<1>3. ASSUME NEW w \in Workers, NEW o \in Orders,
             ChargeSavedCard(w, o) \/ ExtendSavedCard(w, o) \/ ChargeOverage(w, o)
       PROVE  MoneyStays
  BY <1>3, BeginsChargeEffect DEF MoneyStays, Captured, Declined, Employed, Keyed,
     AboutToCharge,
     At, OrderOf, OnlyOrder, Same
<1>4. ASSUME NEW w \in Workers, Reserve(w)
       PROVE  MoneyStays
  BY <1>4, ReserveEffect DEF MoneyStays, Captured, Declined, Employed, Keyed,
     AboutToCharge, At,
     OrderOf, OnlyOrder, Same
<1>5. ASSUME NEW w \in Workers, InitCharge(w)
       PROVE  MoneyStays
  BY <1>5, InitChargeEffect DEF MoneyStays, Captured, Declined, Employed, Keyed,
     AboutToCharge, At,
     OrderOf, OnlyOrder, Same
<1>6. ASSUME NEW w \in Workers, Charge(w)
       PROVE  MoneyStays
  BY <1>6, ChargeEffect DEF MoneyStays, Captured, Declined, Employed, Keyed,
     AboutToCharge, At,
     OrderOf, OnlyOrder, Same
<1>7. ASSUME NEW w \in Workers, GiveUp(w)
       PROVE  MoneyStays
  BY <1>7, GiveUpEffect DEF MoneyStays, Captured, Declined, Employed, Keyed,
     AboutToCharge, At,
     OrderOf, OnlyOrder, Same
<1>8. ASSUME NEW w \in Workers, NEW o \in Orders, NEW s \in Notifications,
             NoticeArrives(w, o, s)
       PROVE  MoneyStays
  BY <1>8, NoticeEffect DEF MoneyStays, Captured, Declined, Employed, Keyed,
     AboutToCharge, At,
     OrderOf, OnlyOrder, Same
<1>9. ASSUME NEW w \in Workers, Claim(w)
       PROVE  MoneyStays
  BY <1>9, ClaimEffect DEF MoneyStays, Captured, Declined, Employed, Keyed,
     AboutToCharge, At,
     OrderOf, OnlyOrder, Same
<1>10. ASSUME NEW w \in Workers, RecordFailure(w)
       PROVE  MoneyStays
  BY <1>10, RecordFailureEffect DEF MoneyStays, Captured, Declined, Employed, Keyed,
     AboutToCharge,
     At, OrderOf, OnlyOrder, Same
<1>11. ASSUME NEW w \in Workers,
             TopUp(w) \/ ExtendForPaidOrder(w) \/ LookForRide(w) \/ StartForPaidOrder(w)
       PROVE  MoneyStays
  BY <1>11, GrantsEffect DEF MoneyStays, Captured, Declined, Employed, Keyed,
     AboutToCharge, At,
     OrderOf, OnlyOrder, Same
<1>12. ASSUME NEW w \in Workers, WritePaid(w)
       PROVE  MoneyStays
  BY <1>12, WritePaidEffect DEF MoneyStays, Captured, Declined, Employed, Keyed,
     AboutToCharge, At,
     OrderOf, OnlyOrder, Same
<1>13. ASSUME NEW w \in Workers, PayOverage(w)
       PROVE  MoneyStays
  BY <1>13, PayOverageEffect DEF MoneyStays, Captured, Declined, Employed, Keyed,
     AboutToCharge,
     At, OrderOf, OnlyOrder, Same
<1>14. ASSUME NEW w \in Workers, BookOverage(w)
       PROVE  MoneyStays
  BY <1>14, BookOverageEffect DEF MoneyStays, Captured, Declined, Employed, Keyed,
     AboutToCharge,
     At, OrderOf, OnlyOrder, Same
<1>15. ASSUME NEW w \in Workers, StatementThrows(w)
       PROVE  MoneyStays
  BY <1>15, ThrowsEffect DEF MoneyStays, Captured, Declined, Employed, Keyed,
     AboutToCharge, At,
     OrderOf, OnlyOrder, Same
<1>16. CASE Crash
  BY <1>16, CrashEffect DEF MoneyStays, Captured, Declined, Employed, Keyed,
     AboutToCharge, At,
     OrderOf, OnlyOrder, Same
<1>17. CASE EndRide \/ RentFromWallet \/ OthersRide \/ UNCHANGED orderVars
  BY <1>17, QuietEffect DEF MoneyStays, Captured, Declined, Employed, Keyed,
     AboutToCharge, At,
     OrderOf, OnlyOrder, Same
<1> QED BY <1>1, <1>2, <1>3, <1>4, <1>5, <1>6, <1>7, <1>8, <1>9, <1>10, <1>11, <1>12,
     <1>13, <1>14, <1>15, <1>16, <1>17 DEF OrdersNext, Proceeds, Requests

LEMMA OrdersTypeStep ==
    ASSUME OrdersTypeOK, Employed, [OrdersNext]_orderVars
    PROVE  OrdersTypeOK' /\ Employed'
<1>1. ASSUME NEW o \in Orders, Bank(o)
       PROVE  OrdersTypeOK' /\ Employed'
  BY <1>1, BankEffect
<1>2. ASSUME NEW o \in Orders, InitRide(o) \/ InitTopUp(o)
       PROVE  OrdersTypeOK' /\ Employed'
  BY <1>2, OpensFormEffect
<1>3. ASSUME NEW w \in Workers, NEW o \in Orders,
             ChargeSavedCard(w, o) \/ ExtendSavedCard(w, o) \/ ChargeOverage(w, o)
       PROVE  OrdersTypeOK' /\ Employed'
  BY <1>3, BeginsChargeEffect
<1>4. ASSUME NEW w \in Workers, Reserve(w)
       PROVE  OrdersTypeOK' /\ Employed'
  BY <1>4, ReserveEffect
<1>5. ASSUME NEW w \in Workers, InitCharge(w)
       PROVE  OrdersTypeOK' /\ Employed'
  BY <1>5, InitChargeEffect
<1>6. ASSUME NEW w \in Workers, Charge(w)
       PROVE  OrdersTypeOK' /\ Employed'
  BY <1>6, ChargeEffect
<1>7. ASSUME NEW w \in Workers, GiveUp(w)
       PROVE  OrdersTypeOK' /\ Employed'
  BY <1>7, GiveUpEffect
<1>8. ASSUME NEW w \in Workers, NEW o \in Orders, NEW s \in Notifications,
             NoticeArrives(w, o, s)
       PROVE  OrdersTypeOK' /\ Employed'
  BY <1>8, NoticeEffect
<1>9. ASSUME NEW w \in Workers, Claim(w)
       PROVE  OrdersTypeOK' /\ Employed'
  BY <1>9, ClaimEffect
<1>10. ASSUME NEW w \in Workers, RecordFailure(w)
       PROVE  OrdersTypeOK' /\ Employed'
  BY <1>10, RecordFailureEffect
<1>11. ASSUME NEW w \in Workers,
             TopUp(w) \/ ExtendForPaidOrder(w) \/ LookForRide(w) \/ StartForPaidOrder(w)
       PROVE  OrdersTypeOK' /\ Employed'
  BY <1>11, GrantsEffect
<1>12. ASSUME NEW w \in Workers, WritePaid(w)
       PROVE  OrdersTypeOK' /\ Employed'
  BY <1>12, WritePaidEffect
<1>13. ASSUME NEW w \in Workers, PayOverage(w)
       PROVE  OrdersTypeOK' /\ Employed'
  BY <1>13, PayOverageEffect
<1>14. ASSUME NEW w \in Workers, BookOverage(w)
       PROVE  OrdersTypeOK' /\ Employed'
  BY <1>14, BookOverageEffect
<1>15. ASSUME NEW w \in Workers, StatementThrows(w)
       PROVE  OrdersTypeOK' /\ Employed'
  BY <1>15, ThrowsEffect
<1>16. CASE Crash
  BY <1>16, CrashEffect
<1>17. CASE EndRide \/ RentFromWallet \/ OthersRide \/ UNCHANGED orderVars
  BY <1>17, QuietEffect
<1> QED BY <1>1, <1>2, <1>3, <1>4, <1>5, <1>6, <1>7, <1>8, <1>9, <1>10, <1>11, <1>12,
     <1>13, <1>14, <1>15, <1>16, <1>17 DEF OrdersNext, Proceeds, Requests

LEMMA BackedStep ==
    ASSUME OrdersTypeOK, Employed, Backed, Keyed, [OrdersNext]_orderVars
    PROVE  Backed'
<1>a. \A p \in Orders : Captured(p) => Captured(p)'
  BY BankOnlyAdds DEF MoneyStays
<1>b. \A v \in Workers : workers[v].outcome = "paid" => OrderOf(v) \in Orders
  BY DEF Backed, Employed
<1>1. ASSUME NEW o \in Orders, Bank(o)
       PROVE  Backed'
  BY <1>1, BankEffect, <1>a, <1>b, IdleType, Kinds DEF Backed, NothingForFree,
     Captured, At, OrderOf, OnlyWorker, OnlyOrder, Keeps
<1>2. ASSUME NEW o \in Orders, InitRide(o) \/ InitTopUp(o)
       PROVE  Backed'
  BY <1>2, OpensFormEffect, <1>a, <1>b, IdleType, Kinds DEF Backed, NothingForFree, At,
     OrderOf, OnlyWorker, OnlyOrder, Keeps
<1>3. ASSUME NEW w \in Workers, NEW o \in Orders,
             ChargeSavedCard(w, o) \/ ExtendSavedCard(w, o) \/ ChargeOverage(w, o)
       PROVE  Backed'
  BY <1>3, BeginsChargeEffect, <1>a, <1>b, IdleType, Kinds DEF Backed, NothingForFree,
     Captured, At, OrderOf, Paying, Keeps, OnlyWorker, OnlyOrder, Same
<1>4. ASSUME NEW w \in Workers, Reserve(w)
       PROVE  Backed'
  BY <1>4, ReserveEffect, <1>a, <1>b, IdleType, Kinds DEF Backed, NothingForFree,
     Captured, At, OrderOf, Paying, Keeps, OnlyWorker, OnlyOrder, Same
<1>5. ASSUME NEW w \in Workers, InitCharge(w)
       PROVE  Backed'
  BY <1>5, InitChargeEffect, <1>a, <1>b, IdleType, Kinds DEF Backed, NothingForFree,
     At, OrderOf, OnlyWorker, OnlyOrder, Keeps
<1>6. ASSUME NEW w \in Workers, Charge(w)
       PROVE  Backed'
  BY <1>6, ChargeEffect, <1>a, <1>b, IdleType, Kinds DEF Backed, NothingForFree,
     Captured, At, OrderOf, OnlyWorker, OnlyOrder, Keeps
<1>7. ASSUME NEW w \in Workers, GiveUp(w)
       PROVE  Backed'
  BY <1>7, GiveUpEffect, <1>a, <1>b, IdleType, Kinds DEF Backed, NothingForFree,
     Captured, At, OrderOf, Paying, Keeps, OnlyWorker, OnlyOrder, Same
<1>8. ASSUME NEW w \in Workers, NEW o \in Orders, NEW s \in Notifications,
             NoticeArrives(w, o, s)
       PROVE  Backed'
  BY <1>8, NoticeEffect, <1>a, <1>b, IdleType, Kinds DEF Backed, NothingForFree,
     Captured, At, OrderOf, OnlyWorker, OnlyOrder, Keeps
<1>9. ASSUME NEW w \in Workers, Claim(w)
       PROVE  Backed'
  BY <1>9, ClaimEffect, <1>a, <1>b, IdleType, Kinds DEF Backed, NothingForFree, At,
     OrderOf, OnlyWorker, OnlyOrder, Keeps
<1>10. ASSUME NEW w \in Workers, RecordFailure(w)
       PROVE  Backed'
  BY <1>10, RecordFailureEffect, <1>a, <1>b, IdleType, Kinds DEF Backed,
     NothingForFree, Captured, At, OrderOf, Paying, Keeps, OnlyWorker, OnlyOrder, Same
<1>11. ASSUME NEW w \in Workers,
             TopUp(w) \/ ExtendForPaidOrder(w) \/ LookForRide(w) \/ StartForPaidOrder(w)
       PROVE  Backed'
  BY <1>11, GrantsEffect, <1>a, <1>b, IdleType, Kinds DEF Backed, NothingForFree,
     Captured, At, OrderOf, Paying, Keeps, OnlyWorker, OnlyOrder, Same
<1>12. ASSUME NEW w \in Workers, WritePaid(w)
       PROVE  Backed'
  BY <1>12, WritePaidEffect, <1>a, <1>b, IdleType, Kinds DEF Backed, NothingForFree,
     Captured, At, OrderOf, Paying, Keeps, OnlyWorker, OnlyOrder, Same
<1>13. ASSUME NEW w \in Workers, PayOverage(w)
       PROVE  Backed'
  BY <1>13, PayOverageEffect, <1>a, <1>b, IdleType, Kinds DEF Backed, NothingForFree,
     Captured, At, OrderOf, Paying, Keeps, OnlyWorker, OnlyOrder, Same
<1>14. ASSUME NEW w \in Workers, BookOverage(w)
       PROVE  Backed'
  BY <1>14, BookOverageEffect, <1>a, <1>b, IdleType, Kinds DEF Backed, NothingForFree,
     Captured, At, OrderOf, Paying, Keeps, OnlyWorker, OnlyOrder, Same
<1>15. ASSUME NEW w \in Workers, StatementThrows(w)
       PROVE  Backed'
  BY <1>15, ThrowsEffect, <1>a, <1>b, IdleType, Kinds DEF Backed, NothingForFree,
     Captured, At, OrderOf, Paying, Keeps, OnlyWorker, OnlyOrder, Same
<1>16. CASE Crash
  BY <1>16, CrashEffect, <1>a, <1>b, IdleType, Kinds DEF Backed, NothingForFree,
     Captured, At, OrderOf, Paying, Keeps, OnlyWorker, OnlyOrder, Same
<1>17. CASE EndRide \/ RentFromWallet \/ OthersRide \/ UNCHANGED orderVars
  BY <1>17, QuietEffect, <1>a, <1>b, IdleType, Kinds DEF Backed, NothingForFree,
     Captured, At, OrderOf, Paying, Keeps, OnlyWorker, OnlyOrder, Same
<1> QED BY <1>1, <1>2, <1>3, <1>4, <1>5, <1>6, <1>7, <1>8, <1>9, <1>10, <1>11, <1>12,
     <1>13, <1>14, <1>15, <1>16, <1>17 DEF OrdersNext, Proceeds, Requests

LEMMA KeyedStep ==
    ASSUME OrdersTypeOK, Employed, Keyed, [OrdersNext]_orderVars
    PROVE  Keyed'
<1>a. \A v \in Workers : AboutToCharge(v) => OrderOf(v) \in Orders
                                            /\ orders[OrderOf(v)].status # "none"
  BY DEF AboutToCharge, Employed, At
<1>1. ASSUME NEW o \in Orders, Bank(o)
       PROVE  Keyed'
  BY <1>1, BankEffect, <1>a, IdleType, Kinds DEF Keyed, ChargedOnce, Employed,
     AboutToCharge, At, OrderOf, Keeps, OnlyWorker, OnlyOrder, Same
<1>2. ASSUME NEW o \in Orders, InitRide(o) \/ InitTopUp(o)
       PROVE  Keyed'
  BY <1>2, OpensFormEffect, <1>a, IdleType, Kinds DEF Keyed, ChargedOnce, Employed,
     AboutToCharge, At, OrderOf, Keeps, OnlyWorker, OnlyOrder, Same
<1>3. ASSUME NEW w \in Workers, NEW o \in Orders,
             ChargeSavedCard(w, o) \/ ExtendSavedCard(w, o) \/ ChargeOverage(w, o)
       PROVE  Keyed'
  BY <1>3, BeginsChargeEffect, <1>a, IdleType, Kinds DEF Keyed, ChargedOnce, Employed,
     AboutToCharge, At, OrderOf, Keeps, OnlyWorker, OnlyOrder, Same
<1>4. ASSUME NEW w \in Workers, Reserve(w)
       PROVE  Keyed'
  BY <1>4, ReserveEffect, <1>a, IdleType, Kinds DEF Keyed, ChargedOnce, Employed,
     AboutToCharge, At, OrderOf, Keeps, OnlyWorker, OnlyOrder, Same
<1>5. ASSUME NEW w \in Workers, InitCharge(w)
       PROVE  Keyed'
  BY <1>5, InitChargeEffect, <1>a, IdleType, Kinds DEF Keyed, ChargedOnce, Employed,
     AboutToCharge, At, OrderOf, Keeps, OnlyWorker, OnlyOrder, Same
<1>6. ASSUME NEW w \in Workers, Charge(w)
       PROVE  Keyed'
  BY <1>6, ChargeEffect, <1>a, IdleType, Kinds DEF Keyed, ChargedOnce, Employed,
     AboutToCharge, At, OrderOf, Keeps, OnlyWorker, OnlyOrder, Same
<1>7. ASSUME NEW w \in Workers, GiveUp(w)
       PROVE  Keyed'
  BY <1>7, GiveUpEffect, <1>a, IdleType, Kinds DEF Keyed, ChargedOnce, Employed,
     AboutToCharge, At, OrderOf, Keeps, OnlyWorker, OnlyOrder, Same
<1>8. ASSUME NEW w \in Workers, NEW o \in Orders, NEW s \in Notifications,
             NoticeArrives(w, o, s)
       PROVE  Keyed'
  BY <1>8, NoticeEffect, <1>a, IdleType, Kinds DEF Keyed, ChargedOnce, Employed,
     AboutToCharge, At, OrderOf, Keeps, OnlyWorker, OnlyOrder, Same
<1>9. ASSUME NEW w \in Workers, Claim(w)
       PROVE  Keyed'
  BY <1>9, ClaimEffect, <1>a, IdleType, Kinds DEF Keyed, ChargedOnce, AboutToCharge,
     At, OrderOf, Keeps, OnlyWorker, OnlyOrder
<1>10. ASSUME NEW w \in Workers, RecordFailure(w)
       PROVE  Keyed'
  BY <1>10, RecordFailureEffect, <1>a, IdleType, Kinds DEF Keyed, ChargedOnce,
     Employed, AboutToCharge, At, OrderOf, Keeps, OnlyWorker, OnlyOrder, Same
<1>11. ASSUME NEW w \in Workers,
             TopUp(w) \/ ExtendForPaidOrder(w) \/ LookForRide(w) \/ StartForPaidOrder(w)
       PROVE  Keyed'
  BY <1>11, GrantsEffect, <1>a, IdleType, Kinds DEF Keyed, ChargedOnce, Employed,
     AboutToCharge, At, OrderOf, Keeps, OnlyWorker, OnlyOrder, Same
<1>12. ASSUME NEW w \in Workers, WritePaid(w)
       PROVE  Keyed'
  BY <1>12, WritePaidEffect, <1>a, IdleType, Kinds DEF Keyed, ChargedOnce, Employed,
     AboutToCharge, At, OrderOf, Keeps, OnlyWorker, OnlyOrder, Same
<1>13. ASSUME NEW w \in Workers, PayOverage(w)
       PROVE  Keyed'
  BY <1>13, PayOverageEffect, <1>a, IdleType, Kinds DEF Keyed, ChargedOnce, Employed,
     AboutToCharge, At, OrderOf, Keeps, OnlyWorker, OnlyOrder, Same
<1>14. ASSUME NEW w \in Workers, BookOverage(w)
       PROVE  Keyed'
  BY <1>14, BookOverageEffect, <1>a, IdleType, Kinds DEF Keyed, ChargedOnce, Employed,
     AboutToCharge, At, OrderOf, Keeps, OnlyWorker, OnlyOrder, Same
<1>15. ASSUME NEW w \in Workers, StatementThrows(w)
       PROVE  Keyed'
  BY <1>15, ThrowsEffect, <1>a, IdleType, Kinds DEF Keyed, ChargedOnce, Employed,
     AboutToCharge, At, OrderOf, Keeps, OnlyWorker, OnlyOrder, Same
<1>16. CASE Crash
  BY <1>16, CrashEffect, <1>a, IdleType, Kinds DEF Keyed, ChargedOnce, Employed,
     AboutToCharge, At, OrderOf, Keeps, OnlyWorker, OnlyOrder, Same
<1>17. CASE EndRide \/ RentFromWallet \/ OthersRide \/ UNCHANGED orderVars
  BY <1>17, QuietEffect, <1>a, IdleType, Kinds DEF Keyed, ChargedOnce, Employed,
     AboutToCharge, At, OrderOf, Keeps, OnlyWorker, OnlyOrder, Same
<1> QED BY <1>1, <1>2, <1>3, <1>4, <1>5, <1>6, <1>7, <1>8, <1>9, <1>10, <1>11, <1>12,
     <1>13, <1>14, <1>15, <1>16, <1>17 DEF OrdersNext, Proceeds, Requests

LEMMA DecidedStep ==
    ASSUME OrdersTypeOK, Employed, Keyed, Decided, [OrdersNext]_orderVars
    PROVE  Decided'
<1>a. \A p \in Orders : Declined(p) => Declined(p)'
  BY BankOnlyAdds DEF MoneyStays
<1>b. \A v \in Workers : workers[v].outcome = "failed" => OrderOf(v) \in Orders
  BY DEF Decided, Employed
<1>1. ASSUME NEW o \in Orders, Bank(o)
       PROVE  Decided'
  BY <1>1, BankEffect, <1>a, <1>b, IdleType DEF Decided, Declined, At, OrderOf,
     OnlyOrder
<1>2. ASSUME NEW o \in Orders, InitRide(o) \/ InitTopUp(o)
       PROVE  Decided'
  BY <1>2, OpensFormEffect, <1>a, <1>b, IdleType DEF Decided, At, OrderOf, Keeps,
     OnlyWorker, OnlyOrder
<1>3. ASSUME NEW w \in Workers, NEW o \in Orders,
             ChargeSavedCard(w, o) \/ ExtendSavedCard(w, o) \/ ChargeOverage(w, o)
       PROVE  Decided'
  BY <1>3, BeginsChargeEffect, <1>a, <1>b, IdleType DEF Decided, At, OrderOf, Keeps,
     OnlyWorker, OnlyOrder
<1>4. ASSUME NEW w \in Workers, Reserve(w)
       PROVE  Decided'
  BY <1>4, ReserveEffect, <1>a, <1>b, IdleType DEF Decided, At, OrderOf, Keeps,
     OnlyWorker, OnlyOrder
<1>5. ASSUME NEW w \in Workers, InitCharge(w)
       PROVE  Decided'
  BY <1>5, InitChargeEffect, <1>a, <1>b, IdleType DEF Decided, At, OrderOf, Keeps,
     OnlyWorker, OnlyOrder
<1>6. ASSUME NEW w \in Workers, Charge(w)
       PROVE  Decided'
  BY <1>6, ChargeEffect, <1>a, <1>b, IdleType DEF Decided, Declined, At, OrderOf,
     Keeps, OnlyWorker, OnlyOrder
<1>7. ASSUME NEW w \in Workers, GiveUp(w)
       PROVE  Decided'
  BY <1>7, GiveUpEffect, <1>a, <1>b, IdleType DEF Decided, At, OrderOf, Keeps,
     OnlyWorker, OnlyOrder
<1>8. ASSUME NEW w \in Workers, NEW o \in Orders, NEW s \in Notifications,
             NoticeArrives(w, o, s)
       PROVE  Decided'
  BY <1>8, NoticeEffect, <1>a, <1>b, IdleType DEF Decided, At, OrderOf, Keeps,
     OnlyWorker, OnlyOrder
<1>9. ASSUME NEW w \in Workers, Claim(w)
       PROVE  Decided'
  BY <1>9, ClaimEffect, <1>a, <1>b, IdleType DEF Decided, At, OrderOf, Keeps,
     OnlyWorker, OnlyOrder
<1>10. ASSUME NEW w \in Workers, RecordFailure(w)
       PROVE  Decided'
  BY <1>10, RecordFailureEffect, <1>a, <1>b, IdleType DEF Decided, At, OrderOf, Keeps,
     OnlyWorker, OnlyOrder
<1>11. ASSUME NEW w \in Workers,
             TopUp(w) \/ ExtendForPaidOrder(w) \/ LookForRide(w) \/ StartForPaidOrder(w)
       PROVE  Decided'
  BY <1>11, GrantsEffect, <1>a, <1>b, IdleType DEF Decided, Paying, At, OrderOf, Keeps,
     OnlyWorker, OnlyOrder
<1>12. ASSUME NEW w \in Workers, WritePaid(w)
       PROVE  Decided'
  BY <1>12, WritePaidEffect, <1>a, <1>b, IdleType DEF Decided, At, OrderOf, Keeps,
     OnlyWorker, OnlyOrder
<1>13. ASSUME NEW w \in Workers, PayOverage(w)
       PROVE  Decided'
  BY <1>13, PayOverageEffect, <1>a, <1>b, IdleType DEF Decided, Paying, At, OrderOf,
     Keeps, OnlyWorker, OnlyOrder
<1>14. ASSUME NEW w \in Workers, BookOverage(w)
       PROVE  Decided'
  BY <1>14, BookOverageEffect, <1>a, <1>b, IdleType DEF Decided, At, OrderOf, Keeps,
     OnlyWorker, OnlyOrder
<1>15. ASSUME NEW w \in Workers, StatementThrows(w)
       PROVE  Decided'
  BY <1>15, ThrowsEffect, <1>a, <1>b, IdleType DEF Decided, At, OrderOf, Keeps,
     OnlyWorker, OnlyOrder
<1>16. CASE Crash
  BY <1>16, CrashEffect, <1>a, <1>b, IdleType DEF Decided, Declined, At, OrderOf
<1>17. CASE EndRide \/ RentFromWallet \/ OthersRide \/ UNCHANGED orderVars
  BY <1>17, QuietEffect, <1>a, <1>b, IdleType DEF Decided, Declined, At, OrderOf, Same
<1> QED BY <1>1, <1>2, <1>3, <1>4, <1>5, <1>6, <1>7, <1>8, <1>9, <1>10, <1>11, <1>12,
     <1>13, <1>14, <1>15, <1>16, <1>17 DEF OrdersNext, Proceeds, Requests

LEMMA OneHolderStep ==
    ASSUME OrdersTypeOK, Employed, OneHolder, [OrdersNext]_orderVars
    PROVE  OneHolder'
<1>1. ASSUME NEW o \in Orders, Bank(o)
       PROVE  OneHolder'
  BY <1>1, BankEffect, IdleType, Kinds DEF OneHolder, Holds, At, OrderOf, Keeps,
     OnlyWorker, OnlyOrder
<1>2. ASSUME NEW o \in Orders, InitRide(o) \/ InitTopUp(o)
       PROVE  OneHolder'
  BY <1>2, OpensFormEffect, IdleType, Kinds DEF OneHolder, Holds, At, OrderOf, Keeps,
     OnlyWorker, OnlyOrder, Employed
<1>3. ASSUME NEW w \in Workers, NEW o \in Orders,
             ChargeSavedCard(w, o) \/ ExtendSavedCard(w, o) \/ ChargeOverage(w, o)
       PROVE  OneHolder'
  BY <1>3, BeginsChargeEffect, IdleType, Kinds DEF OneHolder, Holds, At, OrderOf,
     Keeps, OnlyWorker, OnlyOrder
<1>4. ASSUME NEW w \in Workers, Reserve(w)
       PROVE  OneHolder'
  BY <1>4, ReserveEffect, IdleType, Kinds DEF OneHolder, Holds, At, OrderOf, Keeps,
     OnlyWorker, OnlyOrder
<1>5. ASSUME NEW w \in Workers, InitCharge(w)
       PROVE  OneHolder'
  BY <1>5, InitChargeEffect, IdleType, Kinds DEF OneHolder, Holds, At, OrderOf, Keeps,
     OnlyWorker, OnlyOrder
<1>6. ASSUME NEW w \in Workers, Charge(w)
       PROVE  OneHolder'
  BY <1>6, ChargeEffect, IdleType, Kinds DEF OneHolder, Holds, At, OrderOf, Keeps,
     OnlyWorker, OnlyOrder
<1>7. ASSUME NEW w \in Workers, GiveUp(w)
       PROVE  OneHolder'
  BY <1>7, GiveUpEffect, IdleType, Kinds DEF OneHolder, Holds, At, OrderOf, Keeps,
     OnlyWorker, OnlyOrder
<1>8. ASSUME NEW w \in Workers, NEW o \in Orders, NEW s \in Notifications,
             NoticeArrives(w, o, s)
       PROVE  OneHolder'
  BY <1>8, NoticeEffect, IdleType, Kinds DEF OneHolder, Holds, At, OrderOf, Keeps,
     OnlyWorker, OnlyOrder
<1>9. ASSUME NEW w \in Workers, Claim(w)
       PROVE  OneHolder'
  BY <1>9, ClaimEffect, IdleType, Kinds DEF OneHolder, Holds, At, OrderOf, Keeps,
     OnlyWorker, OnlyOrder
<1>10. ASSUME NEW w \in Workers, RecordFailure(w)
       PROVE  OneHolder'
  BY <1>10, RecordFailureEffect, IdleType, Kinds DEF OneHolder, Holds, At, OrderOf,
     Keeps, OnlyWorker, OnlyOrder
<1>11. ASSUME NEW w \in Workers,
             TopUp(w) \/ ExtendForPaidOrder(w) \/ LookForRide(w) \/ StartForPaidOrder(w)
       PROVE  OneHolder'
  BY <1>11, GrantsEffect, IdleType, Kinds DEF OneHolder, Holds, At, OrderOf, Keeps,
     OnlyWorker, OnlyOrder, Paying
<1>12. ASSUME NEW w \in Workers, WritePaid(w)
       PROVE  OneHolder'
  BY <1>12, WritePaidEffect, IdleType, Kinds DEF OneHolder, Holds, At, OrderOf, Keeps,
     OnlyWorker, OnlyOrder
<1>13. ASSUME NEW w \in Workers, PayOverage(w)
       PROVE  OneHolder'
  BY <1>13, PayOverageEffect, IdleType, Kinds DEF OneHolder, Holds, At, OrderOf, Keeps,
     OnlyWorker, OnlyOrder, Paying
<1>14. ASSUME NEW w \in Workers, BookOverage(w)
       PROVE  OneHolder'
  BY <1>14, BookOverageEffect, IdleType, Kinds DEF OneHolder, Holds, At, OrderOf,
     Keeps, OnlyWorker, OnlyOrder
<1>15. ASSUME NEW w \in Workers, StatementThrows(w)
       PROVE  OneHolder'
  BY <1>15, ThrowsEffect, IdleType, Kinds DEF OneHolder, Holds, At, OrderOf, Keeps,
     OnlyWorker, OnlyOrder
<1>16. CASE Crash
  BY <1>16, CrashEffect, IdleType, Kinds DEF OneHolder, Holds, At, OrderOf, Keeps,
     OnlyWorker, OnlyOrder
<1>17. CASE EndRide \/ RentFromWallet \/ OthersRide \/ UNCHANGED orderVars
  BY <1>17, QuietEffect, IdleType, Kinds DEF OneHolder, Holds, OrderOf, Same
<1> QED BY <1>1, <1>2, <1>3, <1>4, <1>5, <1>6, <1>7, <1>8, <1>9, <1>10, <1>11, <1>12,
     <1>13, <1>14, <1>15, <1>16, <1>17 DEF OrdersNext, Proceeds, Requests

(* An order of the form comes to be unspent only by a statement that fails. *)
LEMMA UnspentStays ==
    ASSUME OrdersTypeOK, Employed, OneHolder, NEW p \in Hosted, Unspent(p)', [OrdersNext]_orderVars
    PROVE  Unspent(p) \/ throws' = throws + 1
<1>1. ASSUME NEW o \in Orders, Bank(o)
       PROVE  Unspent(p) \/ throws' = throws + 1
  BY <1>1, BankEffect, IdleType, Kinds DEF Unspent, OneHolder, Holds, WorkingOn, At,
     OrderOf, Keeps, OnlyWorker, OnlyOrder
<1>2. ASSUME NEW o \in Orders, InitRide(o) \/ InitTopUp(o)
       PROVE  Unspent(p) \/ throws' = throws + 1
  BY <1>2, OpensFormEffect, IdleType, Kinds DEF Unspent, OneHolder, Holds, WorkingOn,
     At, OrderOf, Keeps, OnlyWorker, OnlyOrder, Employed
<1>3. ASSUME NEW w \in Workers, NEW o \in Orders,
             ChargeSavedCard(w, o) \/ ExtendSavedCard(w, o) \/ ChargeOverage(w, o)
       PROVE  Unspent(p) \/ throws' = throws + 1
  BY <1>3, BeginsChargeEffect, IdleType, Kinds DEF Unspent, OneHolder, Holds,
     WorkingOn, At, OrderOf, Keeps, OnlyWorker, OnlyOrder
<1>4. ASSUME NEW w \in Workers, Reserve(w)
       PROVE  Unspent(p) \/ throws' = throws + 1
  BY <1>4, ReserveEffect, IdleType, Kinds DEF Unspent, OneHolder, Holds, WorkingOn, At,
     OrderOf, Keeps, OnlyWorker, OnlyOrder
<1>5. ASSUME NEW w \in Workers, InitCharge(w)
       PROVE  Unspent(p) \/ throws' = throws + 1
  BY <1>5, InitChargeEffect, IdleType, Kinds DEF Unspent, OneHolder, Holds, WorkingOn,
     At, OrderOf, Keeps, OnlyWorker, OnlyOrder
<1>6. ASSUME NEW w \in Workers, Charge(w)
       PROVE  Unspent(p) \/ throws' = throws + 1
  BY <1>6, ChargeEffect, IdleType, Kinds DEF Unspent, OneHolder, Holds, WorkingOn, At,
     OrderOf, Keeps, OnlyWorker, OnlyOrder
<1>7. ASSUME NEW w \in Workers, GiveUp(w)
       PROVE  Unspent(p) \/ throws' = throws + 1
  BY <1>7, GiveUpEffect, IdleType, Kinds DEF Unspent, OneHolder, Holds, WorkingOn, At,
     OrderOf, Keeps, OnlyWorker, OnlyOrder
<1>8. ASSUME NEW w \in Workers, NEW o \in Orders, NEW s \in Notifications,
             NoticeArrives(w, o, s)
       PROVE  Unspent(p) \/ throws' = throws + 1
  BY <1>8, NoticeEffect, IdleType, Kinds DEF Unspent, OneHolder, Holds, WorkingOn, At,
     OrderOf, Keeps, OnlyWorker, OnlyOrder
<1>9. ASSUME NEW w \in Workers, Claim(w)
       PROVE  Unspent(p) \/ throws' = throws + 1
  BY <1>9, ClaimEffect, IdleType, Kinds DEF Unspent, OneHolder, Holds, WorkingOn, At,
     OrderOf, Keeps, OnlyWorker, OnlyOrder
<1>10. ASSUME NEW w \in Workers, RecordFailure(w)
       PROVE  Unspent(p) \/ throws' = throws + 1
  BY <1>10, RecordFailureEffect, IdleType, Kinds DEF Unspent, OneHolder, Holds,
     WorkingOn, At, OrderOf, Keeps, OnlyWorker, OnlyOrder
<1>11. ASSUME NEW w \in Workers,
             TopUp(w) \/ ExtendForPaidOrder(w) \/ LookForRide(w) \/ StartForPaidOrder(w)
       PROVE  Unspent(p) \/ throws' = throws + 1
  BY <1>11, GrantsEffect, IdleType, Kinds DEF Unspent, OneHolder, Holds, WorkingOn, At,
     OrderOf, Keeps, OnlyWorker, OnlyOrder, Paying
<1>12. ASSUME NEW w \in Workers, WritePaid(w)
       PROVE  Unspent(p) \/ throws' = throws + 1
  BY <1>12, WritePaidEffect, IdleType, Kinds DEF Unspent, OneHolder, Holds, WorkingOn,
     At, OrderOf, Keeps, OnlyWorker, OnlyOrder
<1>13. ASSUME NEW w \in Workers, PayOverage(w)
       PROVE  Unspent(p) \/ throws' = throws + 1
  BY <1>13, PayOverageEffect, IdleType, Kinds DEF Unspent, OneHolder, Holds, WorkingOn,
     At, OrderOf, Keeps, OnlyWorker, OnlyOrder, Paying
<1>14. ASSUME NEW w \in Workers, BookOverage(w)
       PROVE  Unspent(p) \/ throws' = throws + 1
  BY <1>14, BookOverageEffect, IdleType, Kinds DEF Unspent, OneHolder, Holds,
     WorkingOn, At, OrderOf, Keeps, OnlyWorker, OnlyOrder
<1>15. ASSUME NEW w \in Workers, StatementThrows(w)
       PROVE  Unspent(p) \/ throws' = throws + 1
  BY <1>15, ThrowsEffect, IdleType, Kinds DEF Unspent, OneHolder, Holds, WorkingOn, At,
     OrderOf, Keeps, OnlyWorker, OnlyOrder
<1>16. CASE Crash
  BY <1>16, CrashEffect, IdleType, Kinds DEF Unspent, OneHolder, Holds, WorkingOn, At,
     OrderOf, Keeps, OnlyWorker, OnlyOrder
<1>17. CASE EndRide \/ RentFromWallet \/ OthersRide \/ UNCHANGED orderVars
  BY <1>17, QuietEffect, IdleType, Kinds DEF Unspent, OrderOf, Same
<1> QED BY <1>1, <1>2, <1>3, <1>4, <1>5, <1>6, <1>7, <1>8, <1>9, <1>10, <1>11, <1>12,
     <1>13, <1>14, <1>15, <1>16, <1>17 DEF OrdersNext, Proceeds, Requests

(* What is granted is spent.                                                *)
LEMMA GrantSpends ==
    ASSUME OrdersTypeOK, Employed, OneHolder, Backed, NEW w \in Workers,
           TopUp(w) \/ ExtendForPaidOrder(w) \/ LookForRide(w) \/ StartForPaidOrder(w),
           NEW o \in Hosted, OrderOf(w) = o
    PROVE  /\ orders[o].status = "processing" /\ Captured(o) /\ Unspent(o)
           /\ workers'[w].step = "write" => ~Unspent(o)'
<1>1. workers[w].step \in {"settle", "start"} /\ Holds(w) /\ orders[o].status = "processing"
  BY GrantsEffect DEF Paying, At, Holds, OneHolder
<1>2. Captured(o)
  BY GrantsEffect DEF Paying, At, Backed
<1>3. Unspent(o)
  BY <1>1 DEF Unspent
<1>4. ASSUME workers'[w].step = "write"
      PROVE  ~Unspent(o)'
  <2>1. orders'[o].status = "processing"
    BY <1>1, GrantsEffect
  <2>2. \A v \in Workers \ {w} : workers'[v] = workers[v]
    BY GrantsEffect DEF OnlyWorker
  <2>3. \A v \in Workers : (OrderOf(v) = o /\ workers[v].step \in {"settle", "start"}) => v = w
    BY <1>1 DEF OneHolder, Holds
  <2>4. ~\E v \in Workers : workers'[v].order = o /\ workers'[v].step \in {"settle", "start"}
    BY <1>4, <2>2, <2>3 DEF OrderOf
  <2> QED BY <2>1, <2>4 DEF Unspent, OrderOf
<1> QED BY <1>1, <1>2, <1>3, <1>4

LEMMA ClaimedStep ==
    ASSUME OrdersTypeOK, Employed, Backed, Claimed, [OrdersNext]_orderVars
    PROVE  Claimed'
<1> DEFINE Bounded(p) == applied[p] <= throws + (IF Unspent(p) THEN 0 ELSE 1)
<1>a. \A p \in Hosted : Unspent(p)' => Unspent(p) \/ throws' = throws + 1
  BY UnspentStays DEF Claimed
<1>b. \A p \in Hosted : applied[p] \in Nat /\ throws \in Nat /\ Bounded(p)
  BY Kinds DEF OrdersTypeOK, Claimed
<1>c. SUFFICES ASSUME NEW p \in Hosted PROVE Bounded(p)'
  BY OneHolderStep DEF Claimed
<1>d. ASSUME applied'[p] = applied[p], throws' = throws \/ throws' = throws + 1
      PROVE  Bounded(p)'
  BY <1>a, <1>b, <1>d
<1>1. ASSUME NEW o \in Orders, Bank(o)
       PROVE  Bounded(p)'
  BY <1>1, BankEffect, <1>d, Kinds
<1>2. ASSUME NEW o \in Orders, InitRide(o) \/ InitTopUp(o)
       PROVE  Bounded(p)'
  BY <1>2, OpensFormEffect, <1>d, Kinds
<1>3. ASSUME NEW w \in Workers, NEW o \in Orders,
             ChargeSavedCard(w, o) \/ ExtendSavedCard(w, o) \/ ChargeOverage(w, o)
       PROVE  Bounded(p)'
  BY <1>3, BeginsChargeEffect, <1>d, Kinds
<1>4. ASSUME NEW w \in Workers, Reserve(w)
       PROVE  Bounded(p)'
  BY <1>4, ReserveEffect, <1>d, Kinds
<1>5. ASSUME NEW w \in Workers, InitCharge(w)
       PROVE  Bounded(p)'
  BY <1>5, InitChargeEffect, <1>d, Kinds
<1>6. ASSUME NEW w \in Workers, Charge(w)
       PROVE  Bounded(p)'
  BY <1>6, ChargeEffect, <1>d, Kinds
<1>7. ASSUME NEW w \in Workers, GiveUp(w)
       PROVE  Bounded(p)'
  BY <1>7, GiveUpEffect, <1>d, Kinds
<1>8. ASSUME NEW w \in Workers, NEW o \in Orders, NEW s \in Notifications,
             NoticeArrives(w, o, s)
       PROVE  Bounded(p)'
  BY <1>8, NoticeEffect, <1>d, Kinds
<1>9. ASSUME NEW w \in Workers, Claim(w)
       PROVE  Bounded(p)'
  BY <1>9, ClaimEffect, <1>d, Kinds
<1>10. ASSUME NEW w \in Workers, RecordFailure(w)
       PROVE  Bounded(p)'
  BY <1>10, RecordFailureEffect, <1>d, Kinds
<1>11. ASSUME NEW w \in Workers,
             TopUp(w) \/ ExtendForPaidOrder(w) \/ LookForRide(w) \/ StartForPaidOrder(w)
       PROVE  Bounded(p)'
  <2>1. CASE p = OrderOf(w) /\ workers'[w].step = "write"
    <3>1. applied'[p] \in {applied[p], applied[p] + 1} /\ throws' = throws
      BY <1>11, <2>1, GrantsEffect
    <3>2. Unspent(p) /\ ~Unspent(p)'
      BY <1>11, <2>1, GrantSpends DEF Claimed
    <3> QED BY <1>b, <3>1, <3>2
  <2>2. CASE ~(p = OrderOf(w) /\ workers'[w].step = "write")
    <3>1. applied'[p] = applied[p] /\ throws' = throws
      BY <1>11, <2>2, GrantsEffect, Kinds DEF OnlyOrder
    <3> QED BY <1>d, <3>1
  <2> QED BY <2>1, <2>2
<1>12. ASSUME NEW w \in Workers, WritePaid(w)
       PROVE  Bounded(p)'
  BY <1>12, WritePaidEffect, <1>d, Kinds
<1>13. ASSUME NEW w \in Workers, PayOverage(w)
       PROVE  Bounded(p)'
  BY <1>13, PayOverageEffect, <1>d, Kinds
<1>14. ASSUME NEW w \in Workers, BookOverage(w)
       PROVE  Bounded(p)'
  <2>1. p # OrderOf(w)
    BY <1>14, BookOverageEffect DEF Claimed, OneHolder, At
  <2> QED BY <1>14, <1>d, <2>1, BookOverageEffect, Kinds DEF OnlyOrder
<1>15. ASSUME NEW w \in Workers, StatementThrows(w)
       PROVE  Bounded(p)'
  BY <1>15, ThrowsEffect, <1>d, Kinds
<1>16. CASE Crash
  BY <1>16, CrashEffect, <1>d, Kinds
<1>17. CASE EndRide \/ RentFromWallet \/ OthersRide \/ UNCHANGED orderVars
  BY <1>17, <1>d, QuietEffect DEF Same
<1> QED BY <1>1, <1>2, <1>3, <1>4, <1>5, <1>6, <1>7, <1>8, <1>9, <1>10, <1>11, <1>12,
     <1>13, <1>14, <1>15, <1>16, <1>17 DEF OrdersNext, Proceeds, Requests

(* A handler that acts on an answer has one, so money still to be captured  *)
(* has no claim on it.                                                      *)
LEMMA HoldersHaveAnswers ==
    ASSUME OrdersTypeOK, Backed, Decided, NEW o \in Orders, Claimants(o) # {}
    PROVE  Captured(o) \/ Declined(o)
BY DEF Claimants, WorkingOn, Holds, Backed, Decided, At

(* What the step of a handler leaves of the claims on another order, or on  *)
(* its own if it holds none.                                                *)
LEMMA ClaimsElsewhere ==
    ASSUME NEW w \in Workers, OnlyWorker(w), NEW p \in Orders,
           OrderOf(w) # p \/ ~Holds(w), workers'[w].order # p \/ ~Holds(w)'
    PROVE  Claimants(p)' = Claimants(p) /\ Busy(p)' = Busy(p)
BY DEF Claimants, Busy, WorkingOn, OrderOf, Holds, OnlyWorker

LEMMA KeptElsewhere ==
    ASSUME NEW p \in Orders, KeptFor(p),
           orders'[p].status = orders[p].status, bank'[p] = bank[p],
           "CONFIRMED" \in owed[p] => "CONFIRMED" \in owed'[p],
           overtaken \subseteq overtaken', throws' = throws, crashes' = crashes,
           Claimants(p)' = Claimants(p), Busy(p)' = Busy(p)
    PROVE  KeptFor(p)'
BY DEF KeptFor, Taken, Answerable

LEMMA KeptStep ==
    ASSUME OrdersTypeOK, Employed, Backed, Keyed, Decided, NEW p \in Orders,
         KeptFor(p), [OrdersNext]_orderVars
    PROVE  KeptFor(p)'
<1>a. p \in Orders /\ KeptFor(p)
  OBVIOUS
<1>1. ASSUME NEW o \in Orders, Bank(o)
       PROVE  KeptFor(p)'
  <2>0. Claimants(p)' = Claimants(p) /\ Busy(p)' = Busy(p)
    BY <1>1, BankEffect DEF Claimants, Busy, WorkingOn, OrderOf, Holds
  <2>1. CASE p # o
    BY <1>1, <1>a, <2>0, <2>1, BankEffect, KeptElsewhere DEF OnlyOrder
  <2>2. CASE p = o
    <3>1. bank'[p] = "captured" => "CONFIRMED" \in owed'[p] /\ Claimants(p) = {}
      BY <1>1, <2>2, BankEffect, HoldersHaveAnswers DEF Captured, Declined
    <3> QED BY <1>1, <1>a, <2>0, <2>2, <3>1, BankEffect DEF KeptFor, Taken, Answerable
  <2> QED BY <2>1, <2>2
<1>2. ASSUME NEW o \in Orders, InitRide(o) \/ InitTopUp(o)
       PROVE  KeptFor(p)'
  <2>0. Claimants(p)' = Claimants(p) /\ Busy(p)' = Busy(p)
    BY <1>2, OpensFormEffect DEF Claimants, Busy, WorkingOn, OrderOf, Holds
  <2>1. CASE p # o
    BY <1>2, <1>a, <2>0, <2>1, OpensFormEffect, KeptElsewhere DEF OnlyOrder
  <2>2. CASE p = o
    BY <1>2, <2>2, OpensFormEffect DEF KeptFor, Taken, Answerable
  <2> QED BY <2>1, <2>2
<1>3. ASSUME NEW w \in Workers, NEW o \in Orders,
             ChargeSavedCard(w, o) \/ ExtendSavedCard(w, o) \/ ChargeOverage(w, o)
       PROVE  KeptFor(p)'
  <2>1. Claimants(p)' = Claimants(p) /\ Busy(p)' = Busy(p)
    BY <1>3, BeginsChargeEffect, ClaimsElsewhere DEF Holds, At
  <2> QED BY <1>3, <1>a, <2>1, BeginsChargeEffect, KeptElsewhere
<1>4. ASSUME NEW w \in Workers, Reserve(w)
       PROVE  KeptFor(p)'
  <2>1. CASE p # OrderOf(w)
    <3>1. Claimants(p)' = Claimants(p) /\ Busy(p)' = Busy(p)
      BY <1>4, <2>1, ReserveEffect, IdleType, Kinds, ClaimsElsewhere DEF Keeps, OrderOf
    <3> QED
      BY <1>4, <1>a, <2>1, <3>1, ReserveEffect, KeptElsewhere DEF OnlyOrder
  <2>2. CASE p = OrderOf(w)
    <3>1. Claimants(p)' = Claimants(p) /\ Busy(p)' = Busy(p)
      BY <1>4, ReserveEffect, IdleType, ClaimsElsewhere DEF Holds, At
    <3>2. CASE UNCHANGED orders
      BY <1>4, <1>a, <3>1, <3>2, ReserveEffect, KeptElsewhere
    <3>3. CASE orders[p].status = "none" /\ orders'[p].status = "pending"
      BY <1>4, <3>3, ReserveEffect DEF Employed, KeptFor, Taken, Answerable
    <3> QED BY <1>4, <2>2, <3>2, <3>3, ReserveEffect
  <2> QED BY <2>1, <2>2
<1>5. ASSUME NEW w \in Workers, InitCharge(w)
       PROVE  KeptFor(p)'
  <2>1. CASE p # OrderOf(w)
    <3>1. Claimants(p)' = Claimants(p) /\ Busy(p)' = Busy(p)
      BY <1>5, <2>1, InitChargeEffect, IdleType, Kinds, ClaimsElsewhere DEF Keeps, OrderOf
    <3> QED
      BY <1>5, <1>a, <2>1, <3>1, InitChargeEffect, KeptElsewhere DEF OnlyOrder
  <2>2. CASE p = OrderOf(w)
    <3>1. Claimants(p)' = Claimants(p) /\ Busy(p)' = Busy(p)
      BY <1>5, InitChargeEffect, IdleType, ClaimsElsewhere DEF Holds, At
    <3>2. bank'[p] # "captured"
      BY <1>5, <2>2, InitChargeEffect DEF Keyed, AboutToCharge, At
    <3>3. orders'[p].status = orders[p].status \/ orders'[p].status = "failed"
      BY <1>5, <2>2, InitChargeEffect
    <3> QED BY <1>5, <1>a, <3>1, <3>2, <3>3, InitChargeEffect DEF KeptFor, Taken, Answerable
  <2> QED BY <2>1, <2>2
<1>6. ASSUME NEW w \in Workers, Charge(w)
       PROVE  KeptFor(p)'
  <2>1. CASE p # OrderOf(w)
    <3>1. Claimants(p)' = Claimants(p) /\ Busy(p)' = Busy(p)
      BY <1>6, <2>1, ChargeEffect, IdleType, Kinds, ClaimsElsewhere DEF Keeps, OrderOf
    <3> QED
      BY <1>6, <1>a, <2>1, <3>1, ChargeEffect, KeptElsewhere DEF OnlyOrder
  <2>2. CASE p = OrderOf(w)
    <3>1. Claimants(p)' = Claimants(p)
      <4>1. workers[w].via = "call" /\ ~Holds(w)
        BY <1>6, ChargeEffect DEF Keyed, At, Holds
      <4>2. workers'[w].via = "call"
        BY <1>6, <4>1, ChargeEffect DEF Keeps, Idle
      <4> QED BY <1>6, <4>1, <4>2, ChargeEffect DEF Claimants, WorkingOn, OrderOf, Holds,
                 OnlyWorker
    <3>2. Claimants(p) = {}
      BY <1>6, <2>2, ChargeEffect, HoldersHaveAnswers DEF Keyed, AboutToCharge, At,
         Captured,
         Declined
    <3>3. bank'[p] = "captured" => "CONFIRMED" \in owed'[p]
      BY <1>6, <2>2, ChargeEffect
    <3> QED BY <1>6, <1>a, <3>1, <3>2, <3>3, ChargeEffect DEF KeptFor, Taken, Answerable
  <2> QED BY <2>1, <2>2
<1>7. ASSUME NEW w \in Workers, GiveUp(w)
       PROVE  KeptFor(p)'
  <2>1. CASE p # OrderOf(w)
    <3>1. Claimants(p)' = Claimants(p) /\ Busy(p)' = Busy(p)
      BY <1>7, <2>1, GiveUpEffect, IdleType, Kinds, ClaimsElsewhere DEF Keeps, OrderOf
    <3> QED
      BY <1>7, <1>a, <2>1, <3>1, GiveUpEffect, KeptElsewhere DEF OnlyOrder
  <2>2. CASE p = OrderOf(w)
    <3>1. p \in Overages
      BY <1>7, <2>2, GiveUpEffect DEF Decided, At
    <3> QED BY <1>7, <2>2, <3>1, GiveUpEffect DEF KeptFor, Taken, Answerable
  <2> QED BY <2>1, <2>2
<1>8. ASSUME NEW w \in Workers, NEW o \in Orders, NEW s \in Notifications,
             NoticeArrives(w, o, s)
       PROVE  KeptFor(p)'
  <2>0. Claimants(p)' = Claimants(p) /\ Busy(p)' = Busy(p)
    <3>1. CASE UNCHANGED workers
      BY <3>1 DEF Claimants, Busy, WorkingOn, OrderOf, Holds
    <3>2. CASE workers'[w].step = "read"
      BY <1>8, <3>2, NoticeEffect, ClaimsElsewhere DEF Holds, At
    <3> QED BY <1>8, <3>1, <3>2, NoticeEffect
  <2>1. CASE p # o \/ s # "CONFIRMED" \/ UNCHANGED <<owed, overtaken>>
    <3>1. "CONFIRMED" \in owed[p] => "CONFIRMED" \in owed'[p]
      BY <1>8, <2>1, NoticeEffect DEF OnlyOrder
    <3> QED BY <1>8, <1>a, <2>0, <3>1, NoticeEffect, KeptElsewhere
  <2>2. CASE p = o /\ s = "CONFIRMED" /\ ~UNCHANGED <<owed, overtaken>>
    <3>1. orders'[p].status = "paid"
      BY <1>8, <2>2, NoticeEffect
    <3>2. p \in overtaken' \/ Claimants(p) = {}
      BY <1>8, <2>2, NoticeEffect DEF Claimants, Holds
    <3> QED BY <1>8, <1>a, <2>0, <3>1, <3>2, NoticeEffect DEF KeptFor, Taken, Answerable
  <2> QED BY <2>1, <2>2
<1>9. ASSUME NEW w \in Workers, Claim(w)
       PROVE  KeptFor(p)'
  <2>1. CASE p # OrderOf(w)
    <3>1. Claimants(p)' = Claimants(p) /\ Busy(p)' = Busy(p)
      BY <1>9, <2>1, ClaimEffect, IdleType, Kinds, ClaimsElsewhere DEF Keeps, OrderOf
    <3> QED
      BY <1>9, <1>a, <2>1, <3>1, ClaimEffect, KeptElsewhere DEF OnlyOrder
  <2>2. CASE p = OrderOf(w) /\ workers'[w].step = "settle"
    <3>1. /\ orders[p].status \notin {"paid", "processing"}
          /\ orders'[p].status = "processing" /\ Keeps(w) /\ UNCHANGED <<owed, overtaken>>
      BY <1>9, <2>2, ClaimEffect, IdleType
    <3>2. w \in Busy(p)'
      BY <2>2, <3>1 DEF Busy, WorkingOn, Holds, OrderOf, Keeps
    <3>3. workers[w].via = "webhook"
      BY <1>9, ClaimEffect DEF Decided, At
    <3>4. w \in Claimants(p)' /\ \A v \in Claimants(p)' : v = w \/ v \in Claimants(p)
      BY <1>9, <2>2, <3>1, <3>2, <3>3, ClaimEffect DEF Claimants, Busy, WorkingOn, Holds,
         OrderOf, Keeps, OnlyWorker
    <3>5. Taken(p) => Claimants(p) = {}
      BY <1>a, <3>1 DEF KeptFor
    <3> QED BY <1>9, <1>a, <3>1, <3>2, <3>4, <3>5, ClaimEffect DEF KeptFor, Taken,
         Answerable
  <2>3. CASE p = OrderOf(w) /\ workers'[w].step # "settle"
    <3>1. /\ orders[p].status \in {"paid", "processing"} /\ UNCHANGED orders
          /\ workers'[w] = Idle
          /\ \/ p \in overtaken'
             \/ \A v \in WorkingOn(p) : workers[v].step \in {"read", "checked"}
      BY <1>9, <2>3, ClaimEffect
    <3>2. Claimants(p)' = Claimants(p) /\ Busy(p)' = Busy(p)
      BY <1>9, <3>1, ClaimEffect, IdleType, ClaimsElsewhere DEF Holds, At
    <3>3. p \in overtaken' \/ Claimants(p) = {}
      BY <3>1 DEF Claimants, Holds
    <3>4. Claimants(p) # {} => Busy(p) # {}
      BY DEF Claimants, Busy
    <3> QED BY <1>9, <1>a, <3>1, <3>2, <3>3, <3>4, ClaimEffect DEF KeptFor, Taken,
         Answerable
  <2> QED BY <2>1, <2>2, <2>3
<1>10. ASSUME NEW w \in Workers, RecordFailure(w)
       PROVE  KeptFor(p)'
  <2>1. CASE p # OrderOf(w)
    <3>1. Claimants(p)' = Claimants(p) /\ Busy(p)' = Busy(p)
      BY <1>10, <2>1, RecordFailureEffect, IdleType, Kinds, ClaimsElsewhere DEF Keeps,
         OrderOf
    <3> QED
      BY <1>10, <1>a, <2>1, <3>1, RecordFailureEffect, KeptElsewhere DEF OnlyOrder
  <2>2. CASE p = OrderOf(w)
    <3>1. Declined(p)
      BY <1>10, <2>2, RecordFailureEffect DEF Decided
    <3> QED BY <1>10, <2>2, <3>1, RecordFailureEffect DEF KeptFor, Taken, Answerable,
         Declined
  <2> QED BY <2>1, <2>2
<1>11. ASSUME NEW w \in Workers,
             TopUp(w) \/ ExtendForPaidOrder(w) \/ LookForRide(w) \/ StartForPaidOrder(w)
       PROVE  KeptFor(p)'
  <2>1. Claimants(p)' = Claimants(p) /\ Busy(p)' = Busy(p)
    BY <1>11, GrantsEffect DEF Claimants, Busy, WorkingOn, OrderOf, Holds, Paying, At,
         Keeps,
       OnlyWorker
  <2> QED BY <1>11, <1>a, <2>1, GrantsEffect, KeptElsewhere
<1>12. ASSUME NEW w \in Workers, WritePaid(w)
       PROVE  KeptFor(p)'
  <2>1. CASE p # OrderOf(w)
    <3>1. Claimants(p)' = Claimants(p) /\ Busy(p)' = Busy(p)
      BY <1>12, <2>1, WritePaidEffect, IdleType, Kinds, ClaimsElsewhere DEF Keeps, OrderOf
    <3> QED
      BY <1>12, <1>a, <2>1, <3>1, WritePaidEffect, KeptElsewhere DEF OnlyOrder
  <2>2. CASE p = OrderOf(w)
    <3>1. orders'[p].status = "paid"
      BY <1>12, <2>2, WritePaidEffect
    <3>2. \A v \in Claimants(p)' : v \in Claimants(p) /\ v # w
      BY <1>12, <2>2, WritePaidEffect, IdleType DEF Claimants, WorkingOn, OrderOf, Holds,
         OnlyWorker
    <3>3. workers[w].via = "webhook" => w \in Claimants(p)
      BY <1>12, <2>2, WritePaidEffect DEF Claimants, WorkingOn, Holds, At
    <3>4. CASE workers[w].via = "webhook"
      BY <1>12, <1>a, <3>1, <3>2, <3>3, <3>4, WritePaidEffect DEF KeptFor, Taken, Answerable
    <3>5. CASE workers[w].via = "call"
      BY <1>12, <1>a, <3>1, <3>2, <3>5, WritePaidEffect DEF KeptFor, Taken, Answerable
    <3> QED BY <3>4, <3>5 DEF OrdersTypeOK, Worker
  <2> QED BY <2>1, <2>2
<1>13. ASSUME NEW w \in Workers, PayOverage(w)
       PROVE  KeptFor(p)'
  <2>1. CASE p # OrderOf(w)
    <3>1. Claimants(p)' = Claimants(p) /\ Busy(p)' = Busy(p)
      BY <1>13, <2>1, PayOverageEffect, IdleType, Kinds, ClaimsElsewhere DEF Keeps, OrderOf
    <3> QED
      BY <1>13, <1>a, <2>1, <3>1, PayOverageEffect, KeptElsewhere DEF OnlyOrder
  <2>2. CASE p = OrderOf(w)
    BY <1>13, <2>2, PayOverageEffect DEF KeptFor, Taken, Answerable
  <2> QED BY <2>1, <2>2
<1>14. ASSUME NEW w \in Workers, BookOverage(w)
       PROVE  KeptFor(p)'
  <2>1. CASE p # OrderOf(w)
    <3>1. Claimants(p)' = Claimants(p) /\ Busy(p)' = Busy(p)
      BY <1>14, <2>1, BookOverageEffect, IdleType, Kinds, ClaimsElsewhere DEF Keeps, OrderOf
    <3> QED
      BY <1>14, <1>a, <2>1, <3>1, BookOverageEffect, KeptElsewhere DEF OnlyOrder
  <2>2. CASE p = OrderOf(w)
    <3>1. p \in Overages
      BY <1>14, <2>2, BookOverageEffect DEF Decided, At
    <3>2. Claimants(p)' = Claimants(p) /\ Busy(p)' = Busy(p)
      BY <1>14, BookOverageEffect, IdleType, ClaimsElsewhere DEF Holds, At
    <3> QED BY <1>14, <1>a, <3>1, <3>2, BookOverageEffect DEF KeptFor, Taken, Answerable
  <2> QED BY <2>1, <2>2
<1>15. ASSUME NEW w \in Workers, StatementThrows(w)
       PROVE  KeptFor(p)'
  <2>a. throws' > 0
    BY <1>15, ThrowsEffect DEF OrdersTypeOK
  <2>1. CASE p # OrderOf(w)
    <3>1. Claimants(p)' = Claimants(p) /\ Busy(p)' = Busy(p)
      BY <1>15, <2>1, ThrowsEffect, IdleType, Kinds, ClaimsElsewhere DEF OrderOf
    <3> QED BY <1>15, <1>a, <2>1, <2>a, <3>1, ThrowsEffect DEF KeptFor, Taken,
         Answerable, OnlyOrder
  <2>2. CASE p = OrderOf(w) /\ p \in Overages
    <3>1. orders'[p].status # "processing"
      BY <1>15, <2>2, ThrowsEffect
    <3> QED BY <2>2, <3>1 DEF KeptFor, Taken, Answerable
  <2>3. CASE p = OrderOf(w) /\ p \notin Overages
    <3>1. Holds(w)
      BY <1>15, <2>3, ThrowsEffect DEF Decided, Holds
    <3>2. \A v \in Workers : v \in Claimants(p)' <=> (v \in Claimants(p) /\ v # w)
      BY <1>15, <2>3, ThrowsEffect, IdleType, Kinds DEF Claimants, WorkingOn, OrderOf,
         Holds,
         OnlyWorker
    <3>3. CASE workers[w].via = "webhook"
      <4>1. w \in Claimants(p)
        BY <2>3, <3>1, <3>3 DEF Claimants, WorkingOn
      <4>2. orders'[p].status = "pending"
        BY <1>15, <2>3, <3>3, ThrowsEffect
      <4>3. Claimants(p)' \subseteq Workers
        BY DEF Claimants, WorkingOn
      <4>4. Taken(p) => Claimants(p)' = {}
        BY <1>a, <3>2, <4>1, <4>3 DEF KeptFor
      <4> QED BY <1>15, <1>a, <2>a, <4>1, <4>2, <4>4, ThrowsEffect DEF KeptFor, Taken,
         Answerable
    <3>4. CASE workers[w].via = "call"
      <4>1. w \notin Claimants(p)
        BY <3>4 DEF Claimants
      <4>2. Claimants(p)' = Claimants(p)
        BY <3>2, <4>1 DEF Claimants, WorkingOn
      <4>3. orders'[p].status = orders[p].status
        BY <1>15, <2>3, <3>4, ThrowsEffect
      <4> QED BY <1>15, <1>a, <2>a, <4>2, <4>3, ThrowsEffect DEF KeptFor, Taken, Answerable
    <3> QED BY <3>3, <3>4 DEF OrdersTypeOK, Worker
  <2> QED BY <2>1, <2>2, <2>3
<1>16. CASE Crash
  <2>1. crashes' # 0
    BY <1>16, CrashEffect DEF OrdersTypeOK
  <2>2. Claimants(p)' = {}
    BY <1>16, CrashEffect, IdleType DEF Claimants, WorkingOn, Holds
  <2> QED BY <2>1, <2>2 DEF KeptFor, Answerable
<1>17. CASE EndRide \/ RentFromWallet \/ OthersRide \/ UNCHANGED orderVars
  <2>1. Same
    BY <1>17, QuietEffect
  <2>2. Claimants(p)' = Claimants(p) /\ Busy(p)' = Busy(p)
    BY <2>1 DEF Same, Claimants, Busy, WorkingOn, OrderOf, Holds
  <2> QED BY <1>a, <2>1, <2>2, KeptElsewhere DEF Same
<1> QED BY <1>1, <1>2, <1>3, <1>4, <1>5, <1>6, <1>7, <1>8, <1>9, <1>10, <1>11, <1>12,
     <1>13, <1>14, <1>15, <1>16, <1>17 DEF OrdersNext, Proceeds, Requests

-----------------------------------------------------------------------------
LEMMA OrdersStep == OrdersInv /\ [OrdersNext]_orderVars => OrdersInv'
<1> SUFFICES ASSUME OrdersInv, [OrdersNext]_orderVars PROVE OrdersInv'
  OBVIOUS
<1>1. OrdersTypeOK' /\ Employed'
  BY OrdersTypeStep DEF OrdersInv
<1>2. Backed' /\ Keyed' /\ Decided' /\ Claimed'
  BY BackedStep, KeyedStep, DecidedStep, ClaimedStep DEF OrdersInv
<1>3. Kept'
  BY KeptStep DEF OrdersInv, Kept
<1> QED BY <1>1, <1>2, <1>3 DEF OrdersInv

LEMMA OrdersInvariance == OrdersSpec => []OrdersInv
BY OrdersInitInv, OrdersStep, PTL DEF OrdersSpec

(* The rows, the bank and the handlers keep their types, and the row of an  *)
(* extension has the ride it extends.                                       *)
THEOREM OrdersAreTyped == OrdersSpec => []OrdersTypeOK
<1>1. OrdersInv => OrdersTypeOK
  BY DEF OrdersInv
<1> QED BY <1>1, OrdersInvariance, PTL

(* Whatever comes first of a request, its notification and their            *)
(* repetitions: nothing is granted or called paid before the bank has the   *)
(* money (tbank-handlers.ts, payments.ts).                                  *)
THEOREM NothingIsFree == OrdersSpec => []NothingForFree
<1>1. OrdersInv => NothingForFree
  BY DEF OrdersInv, Backed
<1> QED BY <1>1, OrdersInvariance, PTL

(* Any number of requests with one key charge the card once                 *)
(* (reservePaymentOrder's unique key).                                      *)
THEOREM CardChargedOnce == OrdersSpec => []ChargedOnce
<1>1. OrdersInv => ChargedOnce
  BY DEF OrdersInv, Keyed
<1> QED BY <1>1, OrdersInvariance, PTL

(* However often and concurrently the bank delivers a notification, a       *)
(* top-up is credited and a ride started once, and once more for each       *)
(* statement that failed after the grant (the claim of tbank-handlers.ts).  *)
THEOREM OrdersGrantOnce == OrdersSpec => []GrantedOnce
<1>1. OrdersInv => GrantedOnce
  BY Kinds DEF OrdersInv, OrdersTypeOK, Claimed, GrantedOnce
<1> QED BY <1>1, OrdersInvariance, PTL

(* Captured money that nobody works on and nobody will be told of again     *)
(* belongs to an order that says paid, with the exceptions of the property. *)
THEOREM MoneyIsKept == OrdersSpec => []MoneyIsNotForgotten
<1>1. ASSUME OrdersInv PROVE MoneyIsNotForgotten
  <2> SUFFICES ASSUME NEW o \in Orders \ Overages, bank[o] = "captured",
                      "CONFIRMED" \notin owed[o], WorkingOn(o) = {}, crashes = 0,
                      throws = 0 \/ o \notin overtaken
               PROVE  orders[o].status = "paid"
    BY DEF MoneyIsNotForgotten
  <2>1. KeptFor(o) /\ throws \in Nat
    BY <1>1 DEF OrdersInv, Kept, OrdersTypeOK
  <2>2. Answerable(o) /\ Busy(o) = {}
    BY DEF Answerable, Taken, Busy
  <2> QED BY <2>1, <2>2 DEF KeptFor
<1> QED BY <1>1, OrdersInvariance, PTL

-----------------------------------------------------------------------------
(* Refinement of PaidOnce by the orders of the hosted form.                 *)

LEMMA OnceStutters ==
    ASSUME \A p \in Hosted : /\ (Captured(p)' <=> Captured(p))
                            /\ applied'[p] = applied[p]
                            /\ (orders'[p].status = "paid" <=> orders[p].status = "paid")
    PROVE  UNCHANGED Once!onceVars
<1>1. {o \in Hosted : Captured(o)}' = {o \in Hosted : Captured(o)}
  OBVIOUS
<1>2. {o \in Hosted : applied[o] > 0}' = {o \in Hosted : applied[o] > 0}
  OBVIOUS
<1>3. {o \in Hosted : orders[o].status = "paid"}' = {o \in Hosted : orders[o].status = "paid"}
  OBVIOUS
<1> QED BY <1>1, <1>2, <1>3 DEF Once!onceVars

(* Each step takes a payment, grants one, settles one, or is none of        *)
(* PaidOnce's.                                                              *)
LEMMA OnceStep ==
    ASSUME OrdersInv, [OrdersNext]_orderVars
    PROVE  [Once!OnceNext]_Once!onceVars
<1> DEFINE Calm == \A p \in Hosted :
              /\ (Captured(p)' <=> Captured(p))
              /\ applied'[p] = applied[p]
              /\ (orders'[p].status = "paid" <=> orders[p].status = "paid")
<1>a. OrdersTypeOK /\ Employed /\ Backed /\ Keyed /\ OneHolder
  BY DEF OrdersInv, Claimed
<1>1. ASSUME NEW o \in Orders, Bank(o)
       PROVE  [Once!OnceNext]_Once!onceVars
  <2>1. CASE o \in Hosted /\ ~Captured(o) /\ Captured(o)'
    <3>1. {p \in Hosted : Captured(p)}' = {p \in Hosted : Captured(p)} \cup {o}
      BY <1>1, <1>a, <2>1, BankEffect, Kinds DEF Captured, OnlyOrder
    <3>2. UNCHANGED <<orders, applied>>
      BY <1>1, <1>a, BankEffect
    <3>3. Once!Take(o)
      BY <3>1, <3>2 DEF Once!Take
    <3> QED BY <2>1, <3>3 DEF Once!OnceNext
  <2>2. CASE ~(o \in Hosted /\ ~Captured(o) /\ Captured(o)')
    <3>1. Calm
      BY <1>1, <1>a, <2>2, BankEffect, Kinds DEF Captured, OnlyOrder
    <3> QED BY <3>1, OnceStutters
  <2> QED BY <2>1, <2>2
<1>2. ASSUME NEW o \in Orders, InitRide(o) \/ InitTopUp(o)
       PROVE  [Once!OnceNext]_Once!onceVars
  <2>1. Calm
    BY <1>2, <1>a, OpensFormEffect, Kinds
       DEF Captured, Employed, Keyed, AboutToCharge, OneHolder, Holds, At, OrderOf,
           OnlyOrder
  <2> QED BY <2>1, OnceStutters
<1>3. ASSUME NEW w \in Workers, NEW o \in Orders,
             ChargeSavedCard(w, o) \/ ExtendSavedCard(w, o) \/ ChargeOverage(w, o)
       PROVE  [Once!OnceNext]_Once!onceVars
  <2>1. Calm
    BY <1>3, <1>a, BeginsChargeEffect, Kinds
       DEF Captured, Employed, Keyed, AboutToCharge, OneHolder, Holds, At, OrderOf,
           OnlyOrder
  <2> QED BY <2>1, OnceStutters
<1>4. ASSUME NEW w \in Workers, Reserve(w)
       PROVE  [Once!OnceNext]_Once!onceVars
  <2>1. Calm
    BY <1>4, <1>a, ReserveEffect, Kinds
       DEF Captured, Employed, Keyed, AboutToCharge, OneHolder, Holds, At, OrderOf,
           OnlyOrder
  <2> QED BY <2>1, OnceStutters
<1>5. ASSUME NEW w \in Workers, InitCharge(w)
       PROVE  [Once!OnceNext]_Once!onceVars
  <2>1. Calm
    BY <1>5, <1>a, InitChargeEffect, Kinds
       DEF Captured, Employed, Keyed, AboutToCharge, OneHolder, Holds, At, OrderOf,
           OnlyOrder
  <2> QED BY <2>1, OnceStutters
<1>6. ASSUME NEW w \in Workers, Charge(w)
       PROVE  [Once!OnceNext]_Once!onceVars
  <2>1. Calm
    BY <1>6, <1>a, ChargeEffect, Kinds
       DEF Captured, Employed, Keyed, AboutToCharge, OneHolder, Holds, At, OrderOf,
           OnlyOrder
  <2> QED BY <2>1, OnceStutters
<1>7. ASSUME NEW w \in Workers, GiveUp(w)
       PROVE  [Once!OnceNext]_Once!onceVars
  <2>1. Calm
    BY <1>7, <1>a, GiveUpEffect, Kinds
       DEF Captured, Employed, Keyed, AboutToCharge, OneHolder, Holds, At, OrderOf,
           OnlyOrder
  <2> QED BY <2>1, OnceStutters
<1>8. ASSUME NEW w \in Workers, NEW o \in Orders, NEW s \in Notifications,
             NoticeArrives(w, o, s)
       PROVE  [Once!OnceNext]_Once!onceVars
  <2>1. Calm
    BY <1>8, <1>a, NoticeEffect, Kinds
       DEF Captured, Employed, Keyed, AboutToCharge, OneHolder, Holds, At, OrderOf,
           OnlyOrder
  <2> QED BY <2>1, OnceStutters
<1>9. ASSUME NEW w \in Workers, Claim(w)
       PROVE  [Once!OnceNext]_Once!onceVars
  <2>1. Calm
    BY <1>9, <1>a, ClaimEffect, Kinds
       DEF Captured, Employed, Keyed, AboutToCharge, OneHolder, Holds, At, OrderOf,
           OnlyOrder
  <2> QED BY <2>1, OnceStutters
<1>10. ASSUME NEW w \in Workers, RecordFailure(w)
       PROVE  [Once!OnceNext]_Once!onceVars
  <2>1. Calm
    BY <1>10, <1>a, RecordFailureEffect, Kinds
       DEF Captured, Employed, Keyed, AboutToCharge, OneHolder, Holds, At, OrderOf,
           OnlyOrder
  <2> QED BY <2>1, OnceStutters
<1>11. ASSUME NEW w \in Workers,
             TopUp(w) \/ ExtendForPaidOrder(w) \/ LookForRide(w) \/ StartForPaidOrder(w)
       PROVE  [Once!OnceNext]_Once!onceVars
  <2>1. UNCHANGED <<orders, bank>>
        /\ \A p \in Hosted : p # OrderOf(w) => applied'[p] = applied[p]
    BY <1>11, <1>a, GrantsEffect, Kinds DEF OnlyOrder
  <2>2. CASE OrderOf(w) \in Hosted /\ applied'[OrderOf(w)] = applied[OrderOf(w)] + 1
    <3>1. PICK o \in Hosted : o = OrderOf(w) /\ applied'[o] = applied[o] + 1
      BY <2>2
    <3>2. Captured(o) /\ orders[o].status = "processing" /\ applied[o] \in Nat
      BY <1>11, <1>a, <3>1, GrantSpends, Kinds DEF OrdersTypeOK
    <3>3. {p \in Hosted : applied[p] > 0}' = {p \in Hosted : applied[p] > 0} \cup {o}
      BY <2>1, <3>1, <3>2
    <3>4. {p \in Hosted : Captured(p)}' = {p \in Hosted : Captured(p)}
          /\ {p \in Hosted : orders[p].status = "paid"}'
             = {p \in Hosted : orders[p].status = "paid"}
      BY <2>1 DEF Captured
    <3>5. Once!Grant(o)
      BY <3>2, <3>3, <3>4 DEF Once!Grant
    <3> QED BY <3>5 DEF Once!OnceNext
  <2>3. CASE ~(OrderOf(w) \in Hosted /\ applied'[OrderOf(w)] = applied[OrderOf(w)] + 1)
    <3>1. Calm
      BY <1>11, <1>a, <2>1, <2>3, GrantsEffect DEF Captured
    <3> QED BY <3>1, OnceStutters
  <2> QED BY <2>2, <2>3
<1>12. ASSUME NEW w \in Workers, WritePaid(w)
       PROVE  [Once!OnceNext]_Once!onceVars
  <2>1. UNCHANGED <<bank, applied>> /\ OrderOf(w) \in Orders /\ At(w, "write")
        /\ orders'[OrderOf(w)].status = "paid"
        /\ \A p \in Hosted : p # OrderOf(w) => orders'[p] = orders[p]
    BY <1>12, <1>a, WritePaidEffect, Kinds DEF OnlyOrder
  <2>2. CASE OrderOf(w) \in Hosted
    <3>1. PICK o \in Hosted : o = OrderOf(w)
      BY <2>2
    <3>2. Captured(o)
      BY <1>a, <2>1, <3>1 DEF Backed, At
    <3>3. {p \in Hosted : orders[p].status = "paid"}'
             = {p \in Hosted : orders[p].status = "paid"} \cup {o}
      BY <2>1, <3>1
    <3>4. {p \in Hosted : Captured(p)}' = {p \in Hosted : Captured(p)}
      BY <2>1 DEF Captured
    <3>5. Once!Settle(o)
      BY <2>1, <3>2, <3>3, <3>4 DEF Once!Settle
    <3> QED BY <3>5 DEF Once!OnceNext
  <2>3. CASE OrderOf(w) \notin Hosted
    <3>1. Calm
      BY <2>1, <2>3 DEF Captured
    <3> QED BY <3>1, OnceStutters
  <2> QED BY <2>2, <2>3
<1>13. ASSUME NEW w \in Workers, PayOverage(w)
       PROVE  [Once!OnceNext]_Once!onceVars
  <2>1. Calm
    BY <1>13, <1>a, PayOverageEffect, Kinds
       DEF Captured, Employed, Keyed, AboutToCharge, OneHolder, Holds, At, OrderOf,
           OnlyOrder, Paying
  <2> QED BY <2>1, OnceStutters
<1>14. ASSUME NEW w \in Workers, BookOverage(w)
       PROVE  [Once!OnceNext]_Once!onceVars
  <2>1. Calm
    BY <1>14, <1>a, BookOverageEffect, Kinds
       DEF Captured, Employed, Keyed, AboutToCharge, OneHolder, Holds, At, OrderOf,
           OnlyOrder
  <2> QED BY <2>1, OnceStutters
<1>15. ASSUME NEW w \in Workers, StatementThrows(w)
       PROVE  [Once!OnceNext]_Once!onceVars
  <2>1. Calm
    BY <1>15, <1>a, ThrowsEffect, Kinds
       DEF Captured, Employed, Keyed, AboutToCharge, OneHolder, Holds, At, OrderOf,
           OnlyOrder
  <2> QED BY <2>1, OnceStutters
<1>16. CASE Crash
  <2>1. Calm
    BY <1>16, <1>a, CrashEffect, Kinds
       DEF Captured
  <2> QED BY <2>1, OnceStutters
<1>17. CASE EndRide \/ RentFromWallet \/ OthersRide \/ UNCHANGED orderVars
  <2>1. Calm
    BY <1>17, <1>a, QuietEffect, Kinds
       DEF Captured, Same
  <2> QED BY <2>1, OnceStutters
<1> QED BY <1>1, <1>2, <1>3, <1>4, <1>5, <1>6, <1>7, <1>8, <1>9, <1>10, <1>11, <1>12,
     <1>13, <1>14, <1>15, <1>16, <1>17 DEF OrdersNext, Proceeds, Requests

(* The orders of the hosted form implement PaidOnce: first the money, then  *)
(* what it buys, then an order that says paid, and none of the three is     *)
(* taken back, whatever the bank repeats, throws or dies in between.        *)
THEOREM OrdersImplementPaidOnce == OrdersSpec => ImplementsPaidOnce
<1>1. OrdersInit => Once!OnceInit
  BY Kinds DEF OrdersInit, Once!OnceInit, Captured
<1>2. OrdersInv /\ [OrdersNext]_orderVars => [Once!OnceNext]_Once!onceVars
  BY OnceStep
<1> QED BY <1>1, <1>2, OrdersInvariance, PTL DEF OrdersSpec, ImplementsPaidOnce,
   Once!OnceSpec

=============================================================================
