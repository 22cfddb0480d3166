------------------------------ MODULE CardBinding ------------------------------
(***************************************************************************)
(* Binding cards of one rider: attempts, what the bank says of them, and   *)
(* the return of the rouble that verifies a card.                          *)
(*                                                                         *)
(*   server/http/payments.ts              the rider's requests             *)
(*   server/http/payments/binding-reconciliation.ts                        *)
(*                                        asking the bank, superseding     *)
(*   server/payments/tbank-handlers.ts    notifications and the refund     *)
(*   server/storage/payment-method.ts     rows of payment_methods          *)
(*                                                                         *)
(* A worker is a request or a notification being handled, or the refund    *)
(* that outlives it; others run between any two of its statements.  The    *)
(* bank (external) repeats a notification until it is acknowledged.        *)
(***************************************************************************)
EXTENDS Naturals, FiniteSets

CONSTANTS
    Verifications,  \* attempts that pay a rouble on the bank's form
    AddCards,       \* attempts without a payment
    Cards,
    NoCard,
    Workers,
    NoMethod,       \* the worker is idle
    MaxBindings,    \* bound of the model: attempts that are made
    MaxThrows,      \* bound of the model: statements that fail
    MaxCrashes      \* bound of the model: deaths of the process

Methods == Verifications \cup AddCards

ASSUME BindingAssumption ==
    /\ Verifications \cap AddCards = {}
    /\ NoMethod \notin Methods /\ NoCard \notin Cards
    /\ MaxBindings \in Nat /\ MaxThrows \in Nat /\ MaxCrashes \in Nat

VARIABLES
    rows,       \* payment_methods
    bank,       \* the bank's side of each attempt
    boundTo,    \* the card that the bank bound
    money,      \* the rouble of a verification
    owed,       \* the notifications the bank has no "OK" for
    workers,
    throws, crashes

bindingVars == <<rows, bank, boundTo, money, owed, workers, throws, crashes>>
bankVars == <<bank, boundTo, money>>
faultVars == <<throws, crashes>>

(* known: the row has the identifier under which to ask the bank.           *)
Row == [status: {"none", "pending", "active", "failed", "deleted"},
        card: Cards \cup {NoCard}, known: BOOLEAN,
        refund: {"null", "pending", "refunded", "failed"}]

Steps == {"idle", "supersede", "insert", "identify",
          "ask", "recheck", "read", "decide", "activate", "fail",
          "reread", "dedup", "claim", "cancel", "note", "revoke", "delete"}

(* outcome is what the worker knows; then is what follows an update; aim    *)
(* tells a cancellation by the rider from the other ways to ask the bank.   *)
Worker == [step: Steps, method: Methods \cup {NoMethod}, todo: SUBSET Methods,
           outcome: {"pending", "active", "failed", "duplicate"},
           via: {"call", "webhook"}, aim: {"none", "delete"},
           then: {"end", "claim", "opens"}, refund: {"refunded", "failed"}]

Idle == [step |-> "idle", method |-> NoMethod, todo |-> {}, outcome |-> "pending",
         via |-> "call", aim |-> "none", then |-> "end", refund |-> "failed"]

BindingTypeOK ==
    /\ rows \in [Methods -> Row]
    /\ bank \in [Methods -> {"none", "form", "rejected", "bound"}]
    /\ boundTo \in [Methods -> Cards \cup {NoCard}]
    /\ money \in [Methods -> {"none", "taken", "returned"}]
    /\ owed \in [Methods -> SUBSET {"bound", "rejected"}]
    /\ workers \in [Workers -> Worker]
    /\ throws \in Nat /\ crashes \in Nat
    \* an active row has the card that the bank bound in this attempt
    /\ \A m \in Methods : rows[m].status = "active" =>
          boundTo[m] # NoCard /\ rows[m].card = boundTo[m]

BindingInit ==
    /\ rows = [m \in Methods |-> [status |-> "none", card |-> NoCard, known |-> FALSE,
                                  refund |-> "null"]]
    /\ bank = [m \in Methods |-> "none"]
    /\ boundTo = [m \in Methods |-> NoCard]
    /\ money = [m \in Methods |-> "none"]
    /\ owed = [m \in Methods |-> {}]
    /\ workers = [w \in Workers |-> Idle]
    /\ throws = 0 /\ crashes = 0

-----------------------------------------------------------------------------
At(w, step) == workers[w].step = step
MethodOf(w) == workers[w].method
WorkingOn(m) == {w \in Workers : MethodOf(w) = m}
Exists(m) == rows[m].status \in {"pending", "active", "failed"}
Pending == {m \in Methods : rows[m].status = "pending"}

Goes(w, step) == workers' = [workers EXCEPT ![w].step = step]
Rests(w) == workers' = [workers EXCEPT ![w] = Idle]

(* A notification is acknowledged when its handler returns.                 *)
Acknowledged(w) ==
    IF workers[w].via = "webhook"
    THEN [owed EXCEPT ![MethodOf(w)] =
              @ \ {IF workers[w].outcome = "failed" THEN "rejected" ELSE "bound"}]
    ELSE owed

(* updatePaymentMethod: the row if it still exists, then a look at it.      *)
Updates(w, new, then) ==
    /\ rows' = IF Exists(MethodOf(w)) THEN [rows EXCEPT ![MethodOf(w)] = new] ELSE rows
    /\ workers' = [workers EXCEPT ![w].step = "reread", ![w].then = then]

-----------------------------------------------------------------------------
(* The bank, external.                                                      *)

BankMoves(m, from, to, notice) ==
    /\ bank[m] \in from
    /\ bank' = [bank EXCEPT ![m] = to]
    /\ owed' = [owed EXCEPT ![m] = @ \cup {notice}]
    /\ UNCHANGED <<rows, workers, faultVars>>

BankRejects(m) ==
    BankMoves(m, {"form"}, "rejected", "rejected") /\ UNCHANGED <<boundTo, money>>

(* On the form the rider may try again after a decline.                     *)
BankBinds(m) ==
    /\ BankMoves(m, {"form", "rejected"}, "bound", "bound")
    /\ \E c \in Cards : boundTo' = [boundTo EXCEPT ![m] = c]
    /\ money' = IF m \in Verifications THEN [money EXCEPT ![m] = "taken"] ELSE money

(* GetState of a payment that was given back, an open form and an           *)
(* unavailable bank decide nothing.                                         *)
BankSays(m) ==
    CASE bank[m] = "bound" /\ money[m] # "returned" -> {"active", "pending"}
      [] bank[m] = "rejected" -> {"failed", "pending"}
      [] OTHER -> {"pending"}

-----------------------------------------------------------------------------
(* A new attempt: the unfinished ones are given up first.                   *)

BindCard(w, m) ==
    /\ At(w, "idle")
    /\ rows[m].status = "none" /\ WorkingOn(m) = {}
    /\ Cardinality({n \in Methods : rows[n].status # "none" \/ WorkingOn(n) # {}}) < MaxBindings
    /\ workers' = [workers EXCEPT ![w] =
           [Idle EXCEPT !.step = "supersede", !.method = m, !.todo = Pending]]
    /\ UNCHANGED <<rows, bankVars, owed, faultVars>>

(* Whatever has become of the row since the list was read.                  *)
Supersede(w) ==
    /\ At(w, "supersede")
    /\ \E m \in workers[w].todo :
          /\ rows' = IF Exists(m) THEN [rows EXCEPT ![m].status = "failed"] ELSE rows
          /\ workers' = [workers EXCEPT ![w].todo = @ \ {m}]
    /\ UNCHANGED <<bankVars, owed, faultVars>>

(* Init and AddCard may be refused; only an AddCard knows its identifier    *)
(* when the row is inserted.                                                *)
InsertMethod(w) ==
    LET m == MethodOf(w)
    IN  /\ At(w, "supersede") /\ workers[w].todo = {}
        /\ \/ /\ rows' = [rows EXCEPT ![m].status = "pending", ![m].known = m \in AddCards]
              /\ Goes(w, "identify")
           \/ Rests(w) /\ UNCHANGED rows
        /\ UNCHANGED <<bankVars, owed, faultVars>>

IdentifyMethod(w) ==
    /\ At(w, "identify")
    /\ Updates(w, [rows[MethodOf(w)] EXCEPT !.known = TRUE], "opens")
    /\ UNCHANGED <<bankVars, owed, faultVars>>

-----------------------------------------------------------------------------
(* Asking the bank: the list, a poll, or the first half of a cancellation.  *)

AskBank(w, m, aim) ==
    /\ At(w, "idle")
    /\ rows[m].status = "pending"
    /\ workers' = [workers EXCEPT ![w] =
           [Idle EXCEPT !.step = IF rows[m].known THEN "ask" ELSE "fail",
                        !.method = m, !.aim = aim]]
    /\ UNCHANGED <<rows, bankVars, owed, faultVars>>

Reconcile(w) ==
    /\ At(w, "ask")
    /\ \/ /\ "active" \in BankSays(MethodOf(w))
          /\ workers' = [workers EXCEPT ![w].step = "decide", ![w].outcome = "active"]
       \/ /\ "failed" \in BankSays(MethodOf(w))
          /\ workers' = [workers EXCEPT ![w].step = "fail", ![w].outcome = "failed"]
       \/ /\ "pending" \in BankSays(MethodOf(w))
          /\ IF workers[w].aim = "delete" THEN Goes(w, "recheck") ELSE Rests(w)
    /\ UNCHANGED <<rows, bankVars, owed, faultVars>>

(* A row that is still pending is deleted, as the rider asked.              *)
Recheck(w) ==
    /\ At(w, "recheck")
    /\ IF rows[MethodOf(w)].status = "pending" THEN Goes(w, "delete") ELSE Rests(w)
    /\ UNCHANGED <<rows, bankVars, owed, faultVars>>

(* Unlinking: the bank is asked to forget a bound card, then the row goes.  *)
Unlink(w, m) ==
    /\ At(w, "idle")
    /\ Exists(m)
    /\ workers' = [workers EXCEPT ![w] =
           [Idle EXCEPT !.step = IF rows[m].card = NoCard THEN "delete" ELSE "revoke",
                        !.method = m]]
    /\ UNCHANGED <<rows, bankVars, owed, faultVars>>

RemoveCard(w) ==
    /\ At(w, "revoke")
    /\ Goes(w, "delete") \/ Rests(w)
    /\ UNCHANGED <<rows, bankVars, owed, faultVars>>

DeleteMethod(w) ==
    /\ At(w, "delete")
    /\ rows' = [rows EXCEPT ![MethodOf(w)].status = "deleted"]
    /\ Rests(w)
    /\ UNCHANGED <<bankVars, owed, faultVars>>

-----------------------------------------------------------------------------
(* Notifications.                                                           *)

(* A missing or an active row needs nothing.                                *)
NoticeArrives(w, m, s) ==
    /\ s \in owed[m]
    /\ At(w, "idle")
    /\ IF rows[m].status \in {"pending", "failed"}
       THEN /\ workers' = [workers EXCEPT ![w] =
                   [Idle EXCEPT !.step = IF s = "bound" THEN "decide" ELSE "fail",
                                !.outcome = IF s = "bound" THEN "active" ELSE "failed",
                                !.method = m, !.via = "webhook"]]
            /\ UNCHANGED owed
       ELSE /\ owed' = [owed EXCEPT ![m] = @ \ {s}]
            /\ UNCHANGED workers
    /\ UNCHANGED <<rows, bankVars, faultVars>>

-----------------------------------------------------------------------------
(* What an answer of the bank leads to.                                     *)

SameCard(m, c) == {n \in Methods \ {m} : Exists(n) /\ rows[n].card = c}

FindDuplicate(w) ==
    LET m == MethodOf(w)
        duplicates == {n \in SameCard(m, boundTo[m]) : rows[n].status = "active"}
    IN  /\ At(w, "decide")
        /\ workers' = [workers EXCEPT
               ![w].step = IF duplicates = {} THEN "activate" ELSE "fail",
               ![w].outcome = IF duplicates = {} THEN "active" ELSE "duplicate"]
        /\ UNCHANGED <<rows, bankVars, owed, faultVars>>

(* Mutant: the rouble of a duplicate is kept.                               *)
RefundDueMutant(w) == MethodOf(w) \in Verifications /\ workers[w].outcome = "active"

(* The rouble of a verification goes back, whether or not the card is new.  *)
RefundDue(w) ==
    MethodOf(w) \in Verifications /\ workers[w].outcome \in {"active", "duplicate"}

AfterUpdate(w) == IF RefundDue(w) THEN "claim" ELSE "end"

Activate(w) ==
    /\ At(w, "activate")
    /\ Updates(w, [rows[MethodOf(w)] EXCEPT !.status = "active", !.card = boundTo[MethodOf(w)]],
               AfterUpdate(w))
    /\ UNCHANGED <<bankVars, owed, faultVars>>

FailMethod(w) ==
    /\ At(w, "fail")
    /\ Updates(w, [rows[MethodOf(w)] EXCEPT !.status = "failed"], AfterUpdate(w))
    /\ UNCHANGED <<bankVars, owed, faultVars>>

(* The end of an update: the handler goes on, and an attempt that was       *)
(* opened is the rider's to pay.                                            *)
Continues(w) ==
    CASE workers[w].then = "claim" -> Goes(w, "claim") /\ UNCHANGED <<bank, owed>>
      [] workers[w].then = "opens" ->
            /\ bank' = [bank EXCEPT ![MethodOf(w)] = "form"]
            /\ Rests(w)
            /\ UNCHANGED owed
      [] OTHER -> Rests(w) /\ owed' = Acknowledged(w) /\ UNCHANGED bank

RereadRow(w) ==
    /\ At(w, "reread")
    /\ IF rows[MethodOf(w)].status = "active"
       THEN Goes(w, "dedup") /\ UNCHANGED <<bank, owed>>
       ELSE Continues(w)
    /\ UNCHANGED <<rows, boundTo, money, faultVars>>

(* Mutant: nothing is deleted.                                              *)
WithoutDuplicatesMutant(m, c) == rows

WithoutDuplicates(m, c) ==
    [n \in Methods |-> IF n \in SameCard(m, c) THEN [rows[n] EXCEPT !.status = "deleted"]
                                               ELSE rows[n]]

(* The card of the row that was read; a failure to delete is swallowed.     *)
DeleteDuplicates(w) ==
    /\ At(w, "dedup")
    /\ \/ /\ rows' = WithoutDuplicates(MethodOf(w), boundTo[MethodOf(w)])
          /\ UNCHANGED throws
       \/ /\ throws < MaxThrows
          /\ throws' = throws + 1
          /\ UNCHANGED rows
    /\ Continues(w)
    /\ UNCHANGED <<boundTo, money, crashes>>

-----------------------------------------------------------------------------
(* The rouble.                                                              *)

(* Mutant: only a refund that is done cannot be claimed.                    *)
RefundClaimableMutant(m) == Exists(m) /\ rows[m].refund # "refunded"

RefundClaimable(m) == Exists(m) /\ rows[m].refund \notin {"pending", "refunded"}

(* The handler returns; the refund goes on without it.                      *)
ClaimRefund(w) ==
    LET m == MethodOf(w)
    IN  /\ At(w, "claim")
        /\ owed' = Acknowledged(w)
        /\ IF RefundClaimable(m)
           THEN /\ rows' = [rows EXCEPT ![m].refund = "pending"]
                /\ workers' = [workers EXCEPT ![w] =
                       [Idle EXCEPT !.step = "cancel", !.method = m]]
           ELSE UNCHANGED rows /\ Rests(w)
        /\ UNCHANGED <<bankVars, faultVars>>

(* Three attempts: the money may be back although no answer came.           *)
CancelPayment(w) ==
    LET m == MethodOf(w)
    IN  /\ At(w, "cancel")
        /\ \E result \in {"refunded", "failed"}, back \in {"returned", money[m]} :
              /\ result = "refunded" => back = "returned"
              /\ money' = [money EXCEPT ![m] = back]
              /\ workers' = [workers EXCEPT ![w].step = "note", ![w].refund = result]
        /\ UNCHANGED <<rows, bank, boundTo, owed, faultVars>>

NoteRefund(w) ==
    /\ At(w, "note")
    /\ Updates(w, [rows[MethodOf(w)] EXCEPT !.refund = workers[w].refund], "end")
    /\ UNCHANGED <<bankVars, owed, faultVars>>

-----------------------------------------------------------------------------
(* Faults.                                                                  *)

(* A request answers with an error and a notification with a 500; a result  *)
(* of the refund that could not be written is written as a failure.         *)
StatementThrows(w) ==
    /\ throws < MaxThrows
    /\ throws' = throws + 1
    /\ \/ /\ workers[w].step \in {"supersede", "identify", "recheck", "delete", "decide",
                                  "activate", "fail", "reread", "claim"}
          /\ Rests(w)
       \/ /\ At(w, "note")
          /\ workers' = [workers EXCEPT ![w].refund = "failed"]
    /\ UNCHANGED <<rows, bankVars, owed, crashes>>

Crash ==
    /\ crashes < MaxCrashes
    /\ crashes' = crashes + 1
    /\ workers' = [w \in Workers |-> Idle]
    /\ UNCHANGED <<rows, bankVars, owed, throws>>

Proceeds(w) ==
    \/ Supersede(w) \/ InsertMethod(w) \/ IdentifyMethod(w)
    \/ Reconcile(w) \/ Recheck(w) \/ RemoveCard(w) \/ DeleteMethod(w)
    \/ FindDuplicate(w) \/ Activate(w) \/ FailMethod(w)
    \/ RereadRow(w) \/ DeleteDuplicates(w)
    \/ ClaimRefund(w) \/ CancelPayment(w) \/ NoteRefund(w)

Requests(w, m) ==
    \/ BindCard(w, m) \/ Unlink(w, m)
    \/ \E aim \in {"none", "delete"} : AskBank(w, m, aim)
    \/ \E s \in {"bound", "rejected"} : NoticeArrives(w, m, s)

BindingNext ==
    \/ \E m \in Methods : BankRejects(m) \/ BankBinds(m)
    \/ \E w \in Workers : Proceeds(w) \/ StatementThrows(w)
    \/ \E w \in Workers, m \in Methods : Requests(w, m)
    \/ Crash

BindingSpec == BindingInit /\ [][BindingNext]_bindingVars

-----------------------------------------------------------------------------
(* Properties.                                                              *)

(* The rouble is asked back by one caller at a time: the webhook and the    *)
(* polls of the client that see the same activation do not both cancel.     *)
OneRefundAtATime ==
    \A m \in Methods :
        Cardinality({w \in WorkingOn(m) : workers[w].step \in {"cancel", "note"}}) <= 1

(* When nothing is going on a card is usable through one row: two attempts  *)
(* that bind the same card at once both pass the check for duplicates, and  *)
(* the deletion that follows an activation settles them.                    *)
OneRowPerCard ==
    ((\A w \in Workers : At(w, "idle")) /\ throws = 0 /\ crashes = 0) =>
        \A m, n \in Methods :
            (rows[m].status = "active" /\ rows[n].status = "active"
                /\ rows[m].card = rows[n].card) => m = n

(* A rouble that the bank still has is being given back, or its row says    *)
(* that this failed: no route to an active, failed or duplicate binding     *)
(* forgets it.  A statement that fails and a death of the process can.      *)
RoubleIsAccounted ==
    \A m \in Verifications :
        (/\ money[m] = "taken" /\ Exists(m) /\ WorkingOn(m) = {} /\ owed[m] = {}
         /\ throws = 0 /\ crashes = 0) => rows[m].refund = "failed"

=============================================================================
