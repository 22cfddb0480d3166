--------------------------- MODULE CardBindingProofs ---------------------------
(***************************************************************************)
(* Theorems about CardBinding for any number of attempts, cards, workers,  *)
(* failing statements and restarts.                                        *)
(***************************************************************************)
EXTENDS CardBinding, FiniteSetTheorems, TLAPS

Typed ==
    /\ rows \in [Methods -> Row]
    /\ bank \in [Methods -> {"none", "form", "rejected", "bound"}]
    /\ boundTo \in [Methods -> Cards \cup {NoCard}]
    /\ money \in [Methods -> {"none", "taken", "returned"}]
    /\ owed \in [Methods -> SUBSET {"bound", "rejected"}]
    /\ workers \in [Workers -> Worker]
    /\ throws \in Nat /\ crashes \in Nat

(* A worker that works has an attempt.                                      *)
WorkersHaveMethods == \A w \in Workers : ~At(w, "idle") => MethodOf(w) \in Methods

(* The claim on a row lasts until its worker has noted the outcome, and one *)
(* worker at a time has it.                                                 *)
Refunding(w) == workers[w].step \in {"cancel", "note"}

RefundsAreClaimed ==
    /\ \A w \in Workers : Refunding(w) => rows[MethodOf(w)].refund = "pending"
    /\ \A w, v \in Workers :
          (Refunding(w) /\ Refunding(v) /\ MethodOf(w) = MethodOf(v)) => w = v

(* What the bank has done in an attempt is known of its card, its rouble    *)
(* and its notifications, and an active row has the card of the attempt.    *)
BankAgrees ==
    \A m \in Methods :
        /\ boundTo[m] # NoCard <=> bank[m] = "bound"
        /\ money[m] # "none" => bank[m] = "bound"
        /\ "bound" \in owed[m] => bank[m] = "bound"
        /\ bank[m] # "none" => rows[m].status # "none"
        /\ rows[m].status = "none" => rows[m].refund = "null"
        /\ rows[m].status = "active" => bank[m] = "bound" /\ rows[m].card = boundTo[m]

(* An attempt is opened by one worker, before the bank knows of it; no      *)
(* other works on it until its row is there.                                *)
Opening(w) ==
    \/ workers[w].step \in {"supersede", "identify"}
    \/ workers[w].step \in {"reread", "dedup"} /\ workers[w].then = "opens"

OpenedOnce ==
    /\ \A w \in Workers : ~At(w, "idle") =>
          (At(w, "supersede") <=> rows[MethodOf(w)].status = "none")
    /\ \A w \in Workers : Opening(w) => bank[MethodOf(w)] = "none"
    /\ \A w, v \in Workers :
          (Opening(w) /\ Opening(v) /\ MethodOf(w) = MethodOf(v)) => w = v

(* A worker that takes an attempt for bound, or gives its rouble back, has  *)
(* the bank's word; one that answers the bank is on the way to a refund     *)
(* unless the bank rejected the attempt.                                    *)
Returning(w) ==
    \/ workers[w].step \in {"claim", "cancel", "note"}
    \/ workers[w].step \in {"reread", "dedup"} /\ workers[w].then = "claim"

Informed ==
    \A w \in Workers :
        /\ (\/ workers[w].outcome \in {"active", "duplicate"} /\ ~At(w, "idle")
            \/ workers[w].step \in {"decide", "activate"} \/ Returning(w))
                  => bank[MethodOf(w)] = "bound"
        /\ At(w, "activate") => workers[w].outcome = "active"
        /\ workers[w].via = "webhook" =>
              /\ workers[w].step \in
                    {"decide", "activate", "fail", "reread", "dedup", "claim"}
              /\ workers[w].outcome # "pending"
              /\ (workers[w].step \in {"reread", "dedup"} /\ MethodOf(w) \in Verifications
                     /\ workers[w].then # "claim") => workers[w].outcome = "failed"

(* Of two active rows with one card, one is about to delete the other.      *)
Faultless == throws = 0 /\ crashes = 0

Settling ==
    Faultless => \A m, n \in Methods :
        (/\ rows[m].status = "active" /\ rows[n].status = "active"
         /\ rows[m].card = rows[n].card /\ m # n) =>
            \E w \in Workers : /\ workers[w].step \in {"reread", "dedup"}
                               /\ MethodOf(w) \in {m, n}

(* A refund that is noted happened, one that is pending has a worker, and   *)
(* so has a rouble that is taken once the bank's notification is answered   *)
(* or the row is active.                                                    *)
RefundsHappened ==
    /\ \A m \in Methods : rows[m].refund = "refunded" => money[m] = "returned"
    /\ \A w \in Workers : (At(w, "note") /\ workers[w].refund = "refunded")
                              => money[MethodOf(w)] = "returned"

Due(m) ==
    /\ money[m] = "taken" /\ Exists(m) /\ rows[m].refund # "failed"
    /\ "bound" \notin owed[m] \/ rows[m].status = "active"

RefundsPursued ==
    Faultless => \A m \in Methods :
        /\ (Exists(m) /\ rows[m].refund = "pending") =>
              \E w \in Workers : MethodOf(w) = m /\ Refunding(w)
        /\ (m \in Verifications /\ Due(m)) =>
              \E w \in Workers : MethodOf(w) = m /\ Returning(w)

BindingInv ==
    /\ Typed /\ WorkersHaveMethods /\ RefundsAreClaimed /\ BankAgrees /\ OpenedOnce
    /\ Informed /\ Settling /\ RefundsHappened /\ RefundsPursued

-----------------------------------------------------------------------------
(* What the small moves of the actions do, field by field.                  *)

OnlyWorker(w) ==
    /\ workers' \in [Workers -> Worker]
    /\ \A v \in Workers \ {w} : workers'[v] = workers[v]

OnlyRow(m) ==
    /\ rows' \in [Methods -> Row]
    /\ \A n \in Methods \ {m} : rows'[n] = rows[n]

(* The worker goes on with its attempt and with what it knows of it.        *)
Keeps(w) ==
    /\ workers'[w].method = workers[w].method /\ workers'[w].via = workers[w].via
    /\ workers'[w].outcome = workers[w].outcome

LEMMA IdleType ==
    /\ Idle \in Worker /\ Idle.step = "idle" /\ Idle.via = "call" /\ Idle.then = "end"
    /\ Idle.outcome = "pending"
  BY DEF Idle, Worker, Steps

LEMMA WorkerBecomes ==
    ASSUME Typed, NEW w \in Workers, NEW x \in Worker,
           workers' = [workers EXCEPT ![w] = x]
    PROVE  OnlyWorker(w) /\ workers'[w] = x
  BY DEF Typed, OnlyWorker

LEMMA RowBecomes ==
    ASSUME Typed, NEW m \in Methods, NEW x \in Row, rows' = [rows EXCEPT ![m] = x]
    PROVE  OnlyRow(m) /\ rows'[m] = x
  BY DEF Typed, OnlyRow

LEMMA RestsEffect ==
    ASSUME Typed, NEW w \in Workers, Rests(w)
    PROVE  OnlyWorker(w) /\ workers'[w] = Idle
  BY IdleType, WorkerBecomes DEF Rests

LEMMA GoesEffect ==
    ASSUME Typed, NEW w \in Workers, NEW s \in Steps, Goes(w, s)
    PROVE  /\ OnlyWorker(w) /\ Keeps(w)
           /\ workers'[w].step = s /\ workers'[w].then = workers[w].then
  BY DEF Typed, Goes, Worker, OnlyWorker, Keeps

(* A row that is gone is not updated.                                       *)
LEMMA UpdatesEffect ==
    ASSUME Typed, NEW w \in Workers, MethodOf(w) \in Methods, NEW new \in Row,
           NEW then \in {"end", "claim", "opens"}, Updates(w, new, then)
    PROVE  /\ OnlyWorker(w) /\ Keeps(w)
           /\ workers'[w].step = "reread" /\ workers'[w].then = then
           /\ OnlyRow(MethodOf(w))
           /\ Exists(MethodOf(w)) => rows'[MethodOf(w)] = new
           /\ ~Exists(MethodOf(w)) => rows'[MethodOf(w)] = rows[MethodOf(w)]
<1> DEFINE x == [workers[w] EXCEPT !.step = "reread", !.then = then]
<1>1. workers[w] \in Worker
  BY DEF Typed
<1>2. /\ x \in Worker /\ x.step = "reread" /\ x.then = then
      /\ x.method = workers[w].method /\ x.via = workers[w].via
      /\ x.outcome = workers[w].outcome
  BY ZenonT(60), <1>1 DEF Worker, Steps
<1>3. workers' = [workers EXCEPT ![w] = x]
  BY DEF Updates, Typed
<1> HIDE DEF x
<1>4. OnlyWorker(w) /\ workers'[w] = x
  BY <1>2, <1>3, WorkerBecomes
<1>5. /\ OnlyRow(MethodOf(w))
      /\ Exists(MethodOf(w)) => rows'[MethodOf(w)] = new
      /\ ~Exists(MethodOf(w)) => rows'[MethodOf(w)] = rows[MethodOf(w)]
  BY DEF Typed, Updates, OnlyRow
<1> QED BY <1>2, <1>4, <1>5 DEF Keeps

LEMMA AcknowledgedEffect ==
    ASSUME Typed, NEW w \in Workers, MethodOf(w) \in Methods, owed' = Acknowledged(w)
    PROVE  /\ owed' \in [Methods -> SUBSET {"bound", "rejected"}]
           /\ \A m \in Methods : owed'[m] \subseteq owed[m]
           /\ \A m \in Methods \ {MethodOf(w)} : owed'[m] = owed[m]
           /\ (workers[w].via # "webhook" \/ workers[w].outcome = "failed") =>
                 ("bound" \in owed[MethodOf(w)] => "bound" \in owed'[MethodOf(w)])
  BY DEF Typed, Acknowledged

(* The end of an update: on to the claim, to the rider's form, or nothing   *)
(* more to do.                                                              *)
LEMMA ContinuesEffect ==
    ASSUME Typed, NEW w \in Workers, MethodOf(w) \in Methods, Continues(w)
    PROVE  /\ OnlyWorker(w)
           /\ owed' \in [Methods -> SUBSET {"bound", "rejected"}]
           /\ bank' \in [Methods -> {"none", "form", "rejected", "bound"}]
           /\ \A m \in Methods : owed'[m] \subseteq owed[m]
           /\ \A m \in Methods \ {MethodOf(w)} : owed'[m] = owed[m] /\ bank'[m] = bank[m]
           /\ \/ /\ workers[w].then = "claim" /\ owed' = owed /\ bank' = bank
                 /\ workers'[w].step = "claim" /\ Keeps(w)
              \/ /\ workers[w].then = "opens" /\ owed' = owed
                 /\ bank'[MethodOf(w)] = "form" /\ workers'[w] = Idle
              \/ /\ workers[w].then = "end" /\ bank' = bank /\ workers'[w] = Idle
                 /\ (workers[w].via # "webhook" \/ workers[w].outcome = "failed") =>
                       ("bound" \in owed[MethodOf(w)] => "bound" \in owed'[MethodOf(w)])
<1>1. CASE workers[w].then = "claim"
  <2>1. Goes(w, "claim") /\ owed' = owed /\ bank' = bank
    BY <1>1 DEF Continues
  <2> QED BY <1>1, <2>1, GoesEffect DEF Typed, Steps
<1>2. CASE workers[w].then = "opens"
  <2>1. Rests(w) /\ owed' = owed /\ bank' = [bank EXCEPT ![MethodOf(w)] = "form"]
    BY <1>2 DEF Continues
  <2> QED BY <1>2, <2>1, RestsEffect DEF Typed
<1>3. CASE workers[w].then \notin {"claim", "opens"}
  <2>1. Rests(w) /\ owed' = Acknowledged(w) /\ bank' = bank /\ workers[w].then = "end"
    BY <1>3 DEF Continues, Typed, Worker
  <2> QED BY <2>1, RestsEffect, AcknowledgedEffect DEF Typed
<1> QED BY <1>1, <1>2, <1>3

-----------------------------------------------------------------------------
(* What each action does.                                                   *)

LEMMA BankEffect ==
    ASSUME Typed, NEW m \in Methods, BankRejects(m) \/ BankBinds(m)
    PROVE  /\ Typed' /\ UNCHANGED <<rows, workers, throws, crashes>>
           /\ bank[m] \in {"form", "rejected"}
           /\ \A n \in Methods : owed[n] \subseteq owed'[n]
           /\ \A n \in Methods \ {m} :
                 /\ bank'[n] = bank[n] /\ boundTo'[n] = boundTo[n]
                 /\ money'[n] = money[n] /\ owed'[n] = owed[n]
           /\ \/ /\ bank[m] = "form" /\ bank'[m] = "rejected" /\ boundTo' = boundTo
                 /\ money' = money /\ owed'[m] = owed[m] \cup {"rejected"}
              \/ /\ bank'[m] = "bound" /\ boundTo'[m] \in Cards /\ "bound" \in owed'[m]
<1>1. CASE BankRejects(m)
  BY <1>1 DEF BankRejects, BankMoves, Typed, faultVars
<1>2. CASE BankBinds(m)
  BY <1>2 DEF BankBinds, BankMoves, Typed, faultVars
<1> QED BY <1>1, <1>2

(* A request starts a worker that was idle.                                 *)
LEMMA StartsEffect ==
    ASSUME Typed, NEW w \in Workers, NEW m \in Methods,
           BindCard(w, m) \/ Unlink(w, m)
               \/ \E aim \in {"none", "delete"} : AskBank(w, m, aim)
    PROVE  /\ Typed' /\ UNCHANGED <<rows, bank, boundTo, money, owed, throws, crashes>>
           /\ OnlyWorker(w) /\ At(w, "idle")
           /\ workers'[w].method = m /\ workers'[w].via = "call"
           /\ workers'[w].outcome = "pending"
           /\ \/ /\ workers'[w].step = "supersede"
                 /\ rows[m].status = "none" /\ WorkingOn(m) = {}
              \/ /\ workers'[w].step \in {"delete", "revoke", "ask", "fail"}
                 /\ rows[m].status # "none"
<1>1. ASSUME NEW x \in Worker, workers' = [workers EXCEPT ![w] = x],
             UNCHANGED <<rows, bankVars, owed, faultVars>>
      PROVE  /\ Typed' /\ OnlyWorker(w) /\ workers'[w] = x
             /\ UNCHANGED <<rows, bank, boundTo, money, owed, throws, crashes>>
  BY <1>1, WorkerBecomes DEF Typed, OnlyWorker, bankVars, faultVars
<1>2. CASE BindCard(w, m)
  <2> DEFINE x == [Idle EXCEPT !.step = "supersede", !.method = m, !.todo = Pending]
  <2>1. x \in Worker /\ x.step = "supersede" /\ x.method = m /\ x.via = "call"
        /\ x.outcome = "pending"
    BY DEF Idle, Worker, Steps, Pending
  <2>2. /\ workers' = [workers EXCEPT ![w] = x] /\ At(w, "idle")
        /\ UNCHANGED <<rows, bankVars, owed, faultVars>>
        /\ rows[m].status = "none" /\ WorkingOn(m) = {}
    BY <1>2 DEF BindCard
  <2> HIDE DEF x
  <2> QED BY <1>1, <2>1, <2>2
<1>3. CASE Unlink(w, m)
  <2>1. PICK s \in {"delete", "revoke"} :
          workers' = [workers EXCEPT ![w] = [Idle EXCEPT !.step = s, !.method = m]]
    BY <1>3 DEF Unlink
  <2> DEFINE x == [Idle EXCEPT !.step = s, !.method = m]
  <2>2. x \in Worker /\ x.step = s /\ x.method = m /\ x.via = "call"
        /\ x.outcome = "pending"
    BY ZenonT(60), IdleType DEF Idle, Worker, Steps
  <2>3. /\ workers' = [workers EXCEPT ![w] = x] /\ At(w, "idle")
        /\ UNCHANGED <<rows, bankVars, owed, faultVars>> /\ rows[m].status # "none"
    BY <1>3, <2>1 DEF Unlink, Exists
  <2> HIDE DEF x
  <2> QED BY <1>1, <2>2, <2>3
<1>4. ASSUME NEW aim \in {"none", "delete"}, AskBank(w, m, aim)
      PROVE  /\ Typed' /\ UNCHANGED <<rows, bank, boundTo, money, owed, throws, crashes>>
             /\ OnlyWorker(w) /\ At(w, "idle")
             /\ workers'[w].method = m /\ workers'[w].via = "call"
             /\ workers'[w].outcome = "pending"
             /\ workers'[w].step \in {"ask", "fail"} /\ rows[m].status # "none"
  <2>1. PICK s \in {"ask", "fail"} :
          workers' = [workers EXCEPT ![w] =
              [Idle EXCEPT !.step = s, !.method = m, !.aim = aim]]
    BY <1>4 DEF AskBank
  <2> DEFINE x == [Idle EXCEPT !.step = s, !.method = m, !.aim = aim]
  <2>2. x \in Worker /\ x.step = s /\ x.method = m /\ x.via = "call"
        /\ x.outcome = "pending"
    BY ZenonT(60), IdleType DEF Idle, Worker, Steps
  <2>3. /\ workers' = [workers EXCEPT ![w] = x] /\ At(w, "idle")
        /\ UNCHANGED <<rows, bankVars, owed, faultVars>> /\ rows[m].status # "none"
    BY <1>4, <2>1 DEF AskBank
  <2> HIDE DEF x
  <2> QED BY <1>1, <2>2, <2>3
<1> QED BY <1>2, <1>3, <1>4

(* A notification starts a worker, or is acknowledged at once.              *)
LEMMA NoticeEffect ==
    ASSUME Typed, NEW w \in Workers, NEW m \in Methods, NEW s \in {"bound", "rejected"},
           NoticeArrives(w, m, s)
    PROVE  /\ Typed' /\ UNCHANGED <<rows, bank, boundTo, money, throws, crashes>>
           /\ s \in owed[m] /\ At(w, "idle") /\ OnlyWorker(w)
           /\ \/ /\ owed' = owed /\ rows[m].status \in {"pending", "failed"}
                 /\ workers'[w].method = m /\ workers'[w].via = "webhook"
                 /\ \/ /\ s = "bound" /\ workers'[w].step = "decide"
                       /\ workers'[w].outcome = "active"
                    \/ workers'[w].step = "fail" /\ workers'[w].outcome = "failed"
              \/ /\ workers' = workers /\ rows[m].status \notin {"pending", "failed"}
                 /\ \A n \in Methods \ {m} : owed'[n] = owed[n]
                 /\ owed'[m] \subseteq owed[m]
<1>0. /\ UNCHANGED <<rows, bank, boundTo, money, throws, crashes>>
      /\ s \in owed[m] /\ At(w, "idle")
  BY DEF NoticeArrives, bankVars, faultVars
<1>1. CASE rows[m].status \in {"pending", "failed"}
  <2>1. PICK t \in {"decide", "fail"}, o \in {"active", "failed"} :
          /\ workers' = [workers EXCEPT ![w] =
                [Idle EXCEPT !.step = t, !.outcome = o, !.method = m, !.via = "webhook"]]
          /\ (s = "bound" /\ t = "decide" /\ o = "active") \/ (t = "fail" /\ o = "failed")
    BY <1>1 DEF NoticeArrives
  <2> DEFINE x == [Idle EXCEPT !.step = t, !.outcome = o, !.method = m, !.via = "webhook"]
  <2>2. x \in Worker
    BY ZenonT(60), IdleType DEF Worker, Steps
  <2>3. x.step = t /\ x.outcome = o /\ x.method = m /\ x.via = "webhook"
    BY DEF Idle
  <2>4. workers' = [workers EXCEPT ![w] = x] /\ owed' = owed
    BY <1>1, <2>1 DEF NoticeArrives
  <2> HIDE DEF x
  <2>5. OnlyWorker(w) /\ workers'[w] = x
    BY <2>2, <2>4, WorkerBecomes
  <2>6. Typed'
    BY <1>0, <2>4, <2>5 DEF Typed, OnlyWorker
  <2> QED BY <1>0, <1>1, <2>1, <2>3, <2>4, <2>5, <2>6
<1>2. CASE rows[m].status \notin {"pending", "failed"}
  <2>1. owed' = [owed EXCEPT ![m] = @ \ {s}] /\ workers' = workers
    BY <1>2 DEF NoticeArrives
  <2> QED BY <1>0, <1>2, <2>1 DEF Typed, OnlyWorker
<1> QED BY <1>1, <1>2

LEMMA SupersedeEffect ==
    ASSUME Typed, WorkersHaveMethods, NEW w \in Workers,
           Supersede(w)
    PROVE  /\ MethodOf(w) \in Methods /\ Typed'
           /\ UNCHANGED <<bank, boundTo, money, owed, throws, crashes>>
           /\ At(w, "supersede") /\ OnlyWorker(w) /\ Keeps(w)
           /\ workers'[w].step = "supersede"
           /\ \A n \in Methods :
                 /\ rows'[n].card = rows[n].card /\ rows'[n].refund = rows[n].refund
                 /\ rows'[n].status = rows[n].status
                       \/ (Exists(n) /\ rows'[n].status = "failed")
<1>m. MethodOf(w) \in Methods
  BY DEF Supersede, At, WorkersHaveMethods
<1> USE <1>m
<1>1. PICK n \in workers[w].todo :
        /\ rows' = IF Exists(n) THEN [rows EXCEPT ![n].status = "failed"] ELSE rows
        /\ workers' = [workers EXCEPT ![w].todo = @ \ {n}]
  BY DEF Supersede
<1>2. n \in Methods
  BY <1>1 DEF Typed, Worker
<1>3. /\ At(w, "supersede") /\ OnlyWorker(w) /\ Keeps(w)
      /\ workers'[w].step = "supersede"
  BY <1>1 DEF Supersede, At, Typed, Worker, OnlyWorker, Keeps
<1>4. /\ rows' \in [Methods -> Row]
      /\ \A k \in Methods :
            /\ rows'[k].card = rows[k].card /\ rows'[k].refund = rows[k].refund
            /\ rows'[k].status = rows[k].status
                  \/ (Exists(k) /\ rows'[k].status = "failed")
  BY <1>1, <1>2 DEF Typed, Row
<1>5. UNCHANGED <<bank, boundTo, money, owed, throws, crashes>>
  BY DEF Supersede, bankVars, faultVars
<1>6. Typed'
  BY <1>3, <1>4, <1>5 DEF Typed, OnlyWorker
<1> QED BY <1>3, <1>4, <1>5, <1>6

LEMMA InsertEffect ==
    ASSUME Typed, WorkersHaveMethods, NEW w \in Workers,
           InsertMethod(w)
    PROVE  /\ MethodOf(w) \in Methods /\ Typed'
           /\ UNCHANGED <<bank, boundTo, money, owed, throws, crashes>>
           /\ At(w, "supersede") /\ OnlyWorker(w) /\ OnlyRow(MethodOf(w))
           /\ \/ /\ workers'[w].step = "identify" /\ Keeps(w)
                 /\ rows'[MethodOf(w)].status = "pending"
                 /\ rows'[MethodOf(w)].card = rows[MethodOf(w)].card
                 /\ rows'[MethodOf(w)].refund = rows[MethodOf(w)].refund
              \/ rows' = rows /\ workers'[w] = Idle
<1>m. MethodOf(w) \in Methods
  BY DEF InsertMethod, At, WorkersHaveMethods
<1> USE <1>m
<1>0. UNCHANGED <<bank, boundTo, money, owed, throws, crashes>> /\ At(w, "supersede")
  BY DEF InsertMethod, bankVars, faultVars
<1>1. CASE /\ rows' = [rows EXCEPT ![MethodOf(w)].status = "pending",
                                   ![MethodOf(w)].known = MethodOf(w) \in AddCards]
           /\ Goes(w, "identify")
  <2>1. /\ OnlyRow(MethodOf(w)) /\ rows'[MethodOf(w)].status = "pending"
        /\ rows'[MethodOf(w)].card = rows[MethodOf(w)].card
        /\ rows'[MethodOf(w)].refund = rows[MethodOf(w)].refund
    <3>0. PICK k \in BOOLEAN :
            rows' = [rows EXCEPT ![MethodOf(w)].status = "pending",
                                 ![MethodOf(w)].known = k]
      <4>1. (MethodOf(w) \in AddCards) \in BOOLEAN
        OBVIOUS
      <4> QED BY Zenon, <1>1, <4>1
    <3> DEFINE x == [rows[MethodOf(w)] EXCEPT !.status = "pending", !.known = k]
    <3>1. /\ x \in Row /\ x.status = "pending" /\ x.card = rows[MethodOf(w)].card
          /\ x.refund = rows[MethodOf(w)].refund
      <4>1. rows[MethodOf(w)] \in Row
        BY DEF Typed
      <4> QED BY ZenonT(60), <4>1 DEF Row
    <3>2. rows' = [rows EXCEPT ![MethodOf(w)] = x]
      BY <3>0 DEF Typed
    <3> HIDE DEF x
    <3> QED BY <3>1, <3>2, RowBecomes
  <2>2. OnlyWorker(w) /\ Keeps(w) /\ workers'[w].step = "identify"
    BY <1>1, GoesEffect DEF Steps
  <2>3. Typed'
    BY <1>0, <2>1, <2>2 DEF Typed, OnlyRow, OnlyWorker
  <2> QED BY <1>0, <2>1, <2>2, <2>3
<1>2. CASE Rests(w) /\ rows' = rows
  <2>1. OnlyWorker(w) /\ workers'[w] = Idle /\ OnlyRow(MethodOf(w))
    BY <1>2, RestsEffect DEF OnlyRow, Typed
  <2>2. Typed'
    BY <1>0, <1>2, <2>1 DEF Typed, OnlyWorker
  <2> QED BY <1>0, <1>2, <2>1, <2>2
<1> QED BY <1>1, <1>2 DEF InsertMethod

LEMMA IdentifyEffect ==
    ASSUME Typed, WorkersHaveMethods, NEW w \in Workers,
           IdentifyMethod(w)
    PROVE  /\ MethodOf(w) \in Methods /\ Typed'
           /\ UNCHANGED <<bank, boundTo, money, owed, throws, crashes>>
           /\ At(w, "identify") /\ OnlyWorker(w) /\ Keeps(w)
           /\ workers'[w].step = "reread" /\ workers'[w].then = "opens"
           /\ OnlyRow(MethodOf(w))
           /\ rows'[MethodOf(w)].status = rows[MethodOf(w)].status
           /\ rows'[MethodOf(w)].card = rows[MethodOf(w)].card
           /\ rows'[MethodOf(w)].refund = rows[MethodOf(w)].refund
<1>m. MethodOf(w) \in Methods
  BY DEF IdentifyMethod, At, WorkersHaveMethods
<1> USE <1>m
<1> DEFINE x == [rows[MethodOf(w)] EXCEPT !.known = TRUE]
<1>0. rows[MethodOf(w)] \in Row
  BY DEF Typed
<1>1. /\ x \in Row /\ x.status = rows[MethodOf(w)].status
      /\ x.card = rows[MethodOf(w)].card /\ x.refund = rows[MethodOf(w)].refund
  BY ZenonT(60), <1>0 DEF Row
<1>2. /\ Updates(w, x, "opens") /\ At(w, "identify")
      /\ UNCHANGED <<bank, boundTo, money, owed, throws, crashes>>
  BY DEF IdentifyMethod, bankVars, faultVars
<1> HIDE DEF x
<1>3. /\ OnlyWorker(w) /\ Keeps(w) /\ OnlyRow(MethodOf(w))
      /\ workers'[w].step = "reread" /\ workers'[w].then = "opens"
      /\ rows'[MethodOf(w)] \in {x, rows[MethodOf(w)]}
  BY <1>1, <1>2, UpdatesEffect
<1>4. Typed'
  BY <1>2, <1>3 DEF Typed, OnlyWorker, OnlyRow
<1> QED BY <1>1, <1>2, <1>3, <1>4

LEMMA ActivateEffect ==
    ASSUME Typed, WorkersHaveMethods, NEW w \in Workers,
           Activate(w)
    PROVE  /\ MethodOf(w) \in Methods /\ Typed'
           /\ UNCHANGED <<bank, boundTo, money, owed, throws, crashes>>
           /\ At(w, "activate") /\ OnlyWorker(w) /\ Keeps(w)
           /\ workers'[w].step = "reread" /\ workers'[w].then = AfterUpdate(w)
           /\ OnlyRow(MethodOf(w))
           /\ rows'[MethodOf(w)].refund = rows[MethodOf(w)].refund
           /\ ~Exists(MethodOf(w)) => rows'[MethodOf(w)] = rows[MethodOf(w)]
           /\ Exists(MethodOf(w)) =>
                 /\ rows'[MethodOf(w)].status = "active"
                 /\ rows'[MethodOf(w)].card = boundTo[MethodOf(w)]
<1>m. MethodOf(w) \in Methods
  BY DEF Activate, At, WorkersHaveMethods
<1> USE <1>m
<1> DEFINE x == [rows[MethodOf(w)] EXCEPT !.status = "active",
                                          !.card = boundTo[MethodOf(w)]]
<1>0. rows[MethodOf(w)] \in Row /\ boundTo[MethodOf(w)] \in Cards \cup {NoCard}
  BY DEF Typed
<1>1. /\ x \in Row /\ x.status = "active" /\ x.card = boundTo[MethodOf(w)]
      /\ x.refund = rows[MethodOf(w)].refund
  BY ZenonT(60), <1>0 DEF Row
<1>2. /\ Updates(w, x, AfterUpdate(w)) /\ At(w, "activate")
      /\ UNCHANGED <<bank, boundTo, money, owed, throws, crashes>>
  BY DEF Activate, bankVars, faultVars
<1> HIDE DEF x
<1>3. /\ OnlyWorker(w) /\ Keeps(w) /\ OnlyRow(MethodOf(w))
      /\ workers'[w].step = "reread" /\ workers'[w].then = AfterUpdate(w)
      /\ Exists(MethodOf(w)) => rows'[MethodOf(w)] = x
      /\ ~Exists(MethodOf(w)) => rows'[MethodOf(w)] = rows[MethodOf(w)]
  BY <1>1, <1>2, UpdatesEffect DEF AfterUpdate
<1>4. Typed'
  BY <1>2, <1>3 DEF Typed, OnlyWorker, OnlyRow
<1> QED BY <1>1, <1>2, <1>3, <1>4

LEMMA FailEffect ==
    ASSUME Typed, WorkersHaveMethods, NEW w \in Workers,
           FailMethod(w)
    PROVE  /\ MethodOf(w) \in Methods /\ Typed'
           /\ UNCHANGED <<bank, boundTo, money, owed, throws, crashes>>
           /\ At(w, "fail") /\ OnlyWorker(w) /\ Keeps(w)
           /\ workers'[w].step = "reread" /\ workers'[w].then = AfterUpdate(w)
           /\ OnlyRow(MethodOf(w))
           /\ rows'[MethodOf(w)].refund = rows[MethodOf(w)].refund
           /\ rows'[MethodOf(w)].card = rows[MethodOf(w)].card
           /\ ~Exists(MethodOf(w)) => rows'[MethodOf(w)] = rows[MethodOf(w)]
           /\ Exists(MethodOf(w)) => rows'[MethodOf(w)].status = "failed"
<1>m. MethodOf(w) \in Methods
  BY DEF FailMethod, At, WorkersHaveMethods
<1> USE <1>m
<1> DEFINE x == [rows[MethodOf(w)] EXCEPT !.status = "failed"]
<1>1. /\ x \in Row /\ x.status = "failed" /\ x.card = rows[MethodOf(w)].card
      /\ x.refund = rows[MethodOf(w)].refund
  BY DEF Typed, Row
<1>2. /\ Updates(w, x, AfterUpdate(w)) /\ At(w, "fail")
      /\ UNCHANGED <<bank, boundTo, money, owed, throws, crashes>>
  BY DEF FailMethod, bankVars, faultVars
<1> HIDE DEF x
<1>3. /\ OnlyWorker(w) /\ Keeps(w) /\ OnlyRow(MethodOf(w))
      /\ workers'[w].step = "reread" /\ workers'[w].then = AfterUpdate(w)
      /\ Exists(MethodOf(w)) => rows'[MethodOf(w)] = x
      /\ ~Exists(MethodOf(w)) => rows'[MethodOf(w)] = rows[MethodOf(w)]
  BY <1>1, <1>2, UpdatesEffect DEF AfterUpdate
<1>4. Typed'
  BY <1>2, <1>3 DEF Typed, OnlyWorker, OnlyRow
<1> QED BY <1>1, <1>2, <1>3, <1>4

LEMMA NoteEffect ==
    ASSUME Typed, WorkersHaveMethods, NEW w \in Workers,
           NoteRefund(w)
    PROVE  /\ MethodOf(w) \in Methods /\ Typed'
           /\ UNCHANGED <<bank, boundTo, money, owed, throws, crashes>>
           /\ At(w, "note") /\ OnlyWorker(w) /\ Keeps(w)
           /\ workers'[w].step = "reread" /\ workers'[w].then = "end"
           /\ OnlyRow(MethodOf(w))
           /\ rows'[MethodOf(w)].status = rows[MethodOf(w)].status
           /\ rows'[MethodOf(w)].card = rows[MethodOf(w)].card
           /\ ~Exists(MethodOf(w)) => rows'[MethodOf(w)] = rows[MethodOf(w)]
           /\ Exists(MethodOf(w)) => rows'[MethodOf(w)].refund = workers[w].refund
           /\ workers[w].refund \in {"refunded", "failed"}
<1>m. MethodOf(w) \in Methods
  BY DEF NoteRefund, At, WorkersHaveMethods
<1> USE <1>m
<1> DEFINE x == [rows[MethodOf(w)] EXCEPT !.refund = workers[w].refund]
<1>0. workers[w].refund \in {"refunded", "failed"}
  BY DEF Typed, Worker
<1>1. /\ x \in Row /\ x.status = rows[MethodOf(w)].status
      /\ x.card = rows[MethodOf(w)].card /\ x.refund = workers[w].refund
  BY <1>0 DEF Typed, Row
<1>2. /\ Updates(w, x, "end") /\ At(w, "note")
      /\ UNCHANGED <<bank, boundTo, money, owed, throws, crashes>>
  BY DEF NoteRefund, bankVars, faultVars
<1> HIDE DEF x
<1>3. /\ OnlyWorker(w) /\ Keeps(w) /\ OnlyRow(MethodOf(w))
      /\ workers'[w].step = "reread" /\ workers'[w].then = "end"
      /\ Exists(MethodOf(w)) => rows'[MethodOf(w)] = x
      /\ ~Exists(MethodOf(w)) => rows'[MethodOf(w)] = rows[MethodOf(w)]
  BY <1>1, <1>2, UpdatesEffect
<1>4. Typed'
  BY <1>2, <1>3 DEF Typed, OnlyWorker, OnlyRow
<1> QED BY <1>0, <1>1, <1>2, <1>3, <1>4

(* Asking the bank touches nothing but the worker.                          *)
LEMMA AsksEffect ==
    ASSUME Typed, WorkersHaveMethods, NEW w \in Workers,
           Reconcile(w) \/ Recheck(w) \/ RemoveCard(w)
    PROVE  /\ MethodOf(w) \in Methods /\ Typed'
           /\ UNCHANGED <<rows, bank, boundTo, money, owed, throws, crashes>>
           /\ workers[w].step \in {"ask", "recheck", "revoke"} /\ OnlyWorker(w)
           /\ \/ workers'[w] = Idle
              \/ /\ workers'[w].method = workers[w].method
                 /\ workers'[w].via = workers[w].via
                 /\ \/ workers'[w].step = "decide" /\ bank[MethodOf(w)] = "bound"
                    \/ workers'[w].step = "fail" /\ workers'[w].outcome = "failed"
                    \/ workers'[w].step \in {"recheck", "delete"}
                          /\ workers'[w].outcome = workers[w].outcome
<1>m. MethodOf(w) \in Methods
  BY DEF Reconcile, Recheck, RemoveCard, At, WorkersHaveMethods
<1> USE <1>m
<1>0. /\ UNCHANGED <<rows, bank, boundTo, money, owed, throws, crashes>>
      /\ workers[w].step \in {"ask", "recheck", "revoke"}
  BY DEF Reconcile, Recheck, RemoveCard, At, bankVars, faultVars
<1>1. ASSUME OnlyWorker(w) PROVE Typed'
  BY <1>0, <1>1 DEF Typed, OnlyWorker
<1>2. CASE Rests(w)
  BY <1>0, <1>1, <1>2, RestsEffect
<1>3. CASE Goes(w, "delete")
  BY <1>0, <1>1, <1>3, GoesEffect DEF Steps, Keeps
<1>4. CASE Reconcile(w)
  <2>0. workers[w] \in Worker
    BY DEF Typed
  <2>1. ASSUME "active" \in BankSays(MethodOf(w)),
               workers' = [workers EXCEPT ![w].step = "decide", ![w].outcome = "active"]
        PROVE  /\ OnlyWorker(w) /\ workers'[w].method = workers[w].method
               /\ workers'[w].via = workers[w].via
               /\ workers'[w].step = "decide" /\ bank[MethodOf(w)] = "bound"
    <3> DEFINE x == [workers[w] EXCEPT !.step = "decide", !.outcome = "active"]
    <3>1. /\ x \in Worker /\ x.step = "decide"
          /\ x.method = workers[w].method /\ x.via = workers[w].via
      BY ZenonT(60), <2>0 DEF Worker, Steps
    <3>2. workers' = [workers EXCEPT ![w] = x]
      BY <2>1 DEF Typed
    <3>3. bank[MethodOf(w)] = "bound"
      BY <2>1 DEF BankSays
    <3> HIDE DEF x
    <3> QED BY <3>1, <3>2, <3>3, WorkerBecomes
  <2>2. ASSUME workers' = [workers EXCEPT ![w].step = "fail", ![w].outcome = "failed"]
        PROVE  /\ OnlyWorker(w) /\ workers'[w].method = workers[w].method
               /\ workers'[w].via = workers[w].via
               /\ workers'[w].step = "fail" /\ workers'[w].outcome = "failed"
    <3> DEFINE x == [workers[w] EXCEPT !.step = "fail", !.outcome = "failed"]
    <3>1. /\ x \in Worker /\ x.step = "fail" /\ x.outcome = "failed"
          /\ x.method = workers[w].method /\ x.via = workers[w].via
      BY ZenonT(60), <2>0 DEF Worker, Steps
    <3>2. workers' = [workers EXCEPT ![w] = x]
      BY <2>2 DEF Typed
    <3> HIDE DEF x
    <3> QED BY <3>1, <3>2, WorkerBecomes
  <2>3. CASE Goes(w, "recheck")
    BY <1>0, <1>1, <2>3, GoesEffect DEF Steps, Keeps
  <2> QED BY <1>0, <1>1, <1>2, <1>4, <2>1, <2>2, <2>3 DEF Reconcile
<1> QED BY <1>2, <1>3, <1>4 DEF Recheck, RemoveCard

LEMMA DeleteEffect ==
    ASSUME Typed, WorkersHaveMethods, NEW w \in Workers,
           DeleteMethod(w)
    PROVE  /\ MethodOf(w) \in Methods /\ Typed'
           /\ UNCHANGED <<bank, boundTo, money, owed, throws, crashes>>
           /\ At(w, "delete") /\ OnlyWorker(w) /\ workers'[w] = Idle
           /\ OnlyRow(MethodOf(w)) /\ rows'[MethodOf(w)].status = "deleted"
           /\ rows'[MethodOf(w)].card = rows[MethodOf(w)].card
           /\ rows'[MethodOf(w)].refund = rows[MethodOf(w)].refund
<1>m. MethodOf(w) \in Methods
  BY DEF DeleteMethod, At, WorkersHaveMethods
<1> USE <1>m
<1>1. /\ UNCHANGED <<bank, boundTo, money, owed, throws, crashes>>
      /\ At(w, "delete") /\ OnlyWorker(w) /\ workers'[w] = Idle
  BY RestsEffect DEF DeleteMethod, bankVars, faultVars
<1>2. /\ OnlyRow(MethodOf(w)) /\ rows'[MethodOf(w)].status = "deleted"
      /\ rows'[MethodOf(w)].card = rows[MethodOf(w)].card
      /\ rows'[MethodOf(w)].refund = rows[MethodOf(w)].refund
  BY DEF DeleteMethod, Typed, Row, OnlyRow
<1>3. Typed'
  BY <1>1, <1>2 DEF Typed, OnlyWorker, OnlyRow
<1> QED BY <1>1, <1>2, <1>3

LEMMA FindEffect ==
    ASSUME Typed, WorkersHaveMethods, NEW w \in Workers,
           FindDuplicate(w)
    PROVE  /\ MethodOf(w) \in Methods /\ Typed'
           /\ UNCHANGED <<rows, bank, boundTo, money, owed, throws, crashes>>
           /\ At(w, "decide") /\ OnlyWorker(w)
           /\ workers'[w].method = workers[w].method /\ workers'[w].via = workers[w].via
           /\ \/ workers'[w].step = "activate" /\ workers'[w].outcome = "active"
              \/ workers'[w].step = "fail" /\ workers'[w].outcome = "duplicate"
<1>m. MethodOf(w) \in Methods
  BY DEF FindDuplicate, At, WorkersHaveMethods
<1> USE <1>m
<1>0. /\ UNCHANGED <<rows, bank, boundTo, money, owed, throws, crashes>>
      /\ At(w, "decide")
  BY DEF FindDuplicate, bankVars, faultVars
<1>1. PICK s \in {"activate", "fail"}, o \in {"active", "duplicate"} :
        /\ workers' = [workers EXCEPT ![w].step = s, ![w].outcome = o]
        /\ s = "activate" <=> o = "active"
  BY DEF FindDuplicate
<1> DEFINE x == [workers[w] EXCEPT !.step = s, !.outcome = o]
<1>2. workers[w] \in Worker
  BY DEF Typed
<1>3. /\ x \in Worker /\ x.step = s /\ x.outcome = o
      /\ x.method = workers[w].method /\ x.via = workers[w].via
  BY ZenonT(60), <1>2 DEF Worker, Steps
<1>4. workers' = [workers EXCEPT ![w] = x]
  BY <1>1 DEF Typed
<1> HIDE DEF x
<1>5. OnlyWorker(w) /\ workers'[w] = x
  BY <1>3, <1>4, WorkerBecomes
<1>6. Typed'
  BY <1>0, <1>5 DEF Typed, OnlyWorker
<1> QED BY <1>0, <1>1, <1>3, <1>5, <1>6

LEMMA RereadEffect ==
    ASSUME Typed, WorkersHaveMethods, NEW w \in Workers,
           RereadRow(w)
    PROVE  /\ MethodOf(w) \in Methods /\ Typed'
           /\ UNCHANGED <<rows, boundTo, money, throws, crashes>>
           /\ At(w, "reread") /\ OnlyWorker(w)
           /\ \/ /\ rows[MethodOf(w)].status = "active" /\ UNCHANGED <<bank, owed>>
                 /\ workers'[w].step = "dedup" /\ Keeps(w)
                 /\ workers'[w].then = workers[w].then
              \/ rows[MethodOf(w)].status # "active" /\ Continues(w)
<1>m. MethodOf(w) \in Methods
  BY DEF RereadRow, At, WorkersHaveMethods
<1> USE <1>m
<1>0. UNCHANGED <<rows, boundTo, money, throws, crashes>> /\ At(w, "reread")
  BY DEF RereadRow, faultVars
<1>1. CASE rows[MethodOf(w)].status = "active"
  <2>1. Goes(w, "dedup") /\ UNCHANGED <<bank, owed>>
    BY <1>1 DEF RereadRow
  <2>2. /\ OnlyWorker(w) /\ Keeps(w)
        /\ workers'[w].step = "dedup" /\ workers'[w].then = workers[w].then
    BY <2>1, GoesEffect DEF Steps
  <2>3. Typed'
    BY <1>0, <2>1, <2>2 DEF Typed, OnlyWorker
  <2> QED BY <1>0, <1>1, <2>1, <2>2, <2>3
<1>2. CASE rows[MethodOf(w)].status # "active"
  <2>1. Continues(w)
    BY <1>2 DEF RereadRow
  <2>2. /\ OnlyWorker(w)
        /\ owed' \in [Methods -> SUBSET {"bound", "rejected"}]
        /\ bank' \in [Methods -> {"none", "form", "rejected", "bound"}]
    BY <2>1, ContinuesEffect
  <2>3. Typed'
    BY <1>0, <2>2 DEF Typed, OnlyWorker
  <2> QED BY <1>0, <1>2, <2>1, <2>2, <2>3
<1> QED BY <1>1, <1>2

(* The other rows with the card of the attempt go, or the failure to delete *)
(* them is counted.                                                         *)
LEMMA DedupEffect ==
    ASSUME Typed, WorkersHaveMethods, NEW w \in Workers,
           DeleteDuplicates(w)
    PROVE  /\ MethodOf(w) \in Methods /\ Typed'
           /\ UNCHANGED <<boundTo, money, crashes>>
           /\ At(w, "dedup") /\ OnlyWorker(w) /\ Continues(w)
           /\ throws' = throws \/ throws' = throws + 1
           /\ \A n \in Methods :
                 /\ rows'[n].card = rows[n].card /\ rows'[n].refund = rows[n].refund
                 /\ rows'[n].status = rows[n].status
                       \/ (Exists(n) /\ rows'[n].status = "deleted")
                 /\ (/\ throws' = throws
                     /\ n \in SameCard(MethodOf(w), boundTo[MethodOf(w)])) =>
                       rows'[n].status = "deleted"
<1>m. MethodOf(w) \in Methods
  BY DEF DeleteDuplicates, At, WorkersHaveMethods
<1> USE <1>m
<1> DEFINE m == MethodOf(w)
           deleted(n) == [rows[n] EXCEPT !.status = "deleted"]
<1>0. UNCHANGED <<boundTo, money, crashes>> /\ At(w, "dedup") /\ Continues(w)
  BY DEF DeleteDuplicates
<1>1. \A n \in Methods : rows[n] \in Row
  BY DEF Typed
<1>2. \A n \in Methods : /\ deleted(n) \in Row /\ deleted(n).status = "deleted"
                         /\ deleted(n).card = rows[n].card
                         /\ deleted(n).refund = rows[n].refund
  BY <1>1 DEF Row
<1>3. CASE rows' = WithoutDuplicates(m, boundTo[m]) /\ throws' = throws
  <2>1. rows' = [n \in Methods |-> IF n \in SameCard(m, boundTo[m])
                                   THEN deleted(n) ELSE rows[n]]
    BY <1>3, Zenon DEF WithoutDuplicates
  <2>2. \A n \in SameCard(m, boundTo[m]) : Exists(n)
    BY DEF SameCard
  <2> HIDE DEF deleted
  <2>3. /\ rows' \in [Methods -> Row] /\ throws' \in Nat
        /\ \A n \in Methods :
              /\ rows'[n].card = rows[n].card /\ rows'[n].refund = rows[n].refund
              /\ rows'[n].status = rows[n].status
                    \/ (Exists(n) /\ rows'[n].status = "deleted")
              /\ n \in SameCard(m, boundTo[m]) => rows'[n].status = "deleted"
    BY <1>1, <1>2, <1>3, <2>1, <2>2 DEF Typed
  <2>4. /\ OnlyWorker(w)
        /\ owed' \in [Methods -> SUBSET {"bound", "rejected"}]
        /\ bank' \in [Methods -> {"none", "form", "rejected", "bound"}]
    BY <1>0, ContinuesEffect
  <2>5. Typed'
    BY <1>0, <2>3, <2>4 DEF Typed, OnlyWorker
  <2> QED BY <1>0, <1>3, <2>3, <2>4, <2>5
<1>4. CASE rows' = rows /\ throws' = throws + 1
  <2>1. /\ OnlyWorker(w)
        /\ owed' \in [Methods -> SUBSET {"bound", "rejected"}]
        /\ bank' \in [Methods -> {"none", "form", "rejected", "bound"}]
    BY <1>0, ContinuesEffect
  <2>2. Typed' /\ throws' # throws
    BY <1>0, <1>4, <2>1 DEF Typed, OnlyWorker
  <2> QED BY <1>0, <1>4, <2>1, <2>2
<1> QED BY <1>3, <1>4 DEF DeleteDuplicates

LEMMA ClaimEffect ==
    ASSUME Typed, WorkersHaveMethods, NEW w \in Workers,
           ClaimRefund(w)
    PROVE  /\ MethodOf(w) \in Methods /\ Typed'
           /\ UNCHANGED <<bank, boundTo, money, throws, crashes>>
           /\ At(w, "claim") /\ OnlyWorker(w) /\ OnlyRow(MethodOf(w))
           /\ \A n \in Methods : owed'[n] \subseteq owed[n]
           /\ \A n \in Methods \ {MethodOf(w)} : owed'[n] = owed[n]
           /\ rows'[MethodOf(w)].status = rows[MethodOf(w)].status
           /\ rows'[MethodOf(w)].card = rows[MethodOf(w)].card
           /\ \/ /\ RefundClaimable(MethodOf(w)) /\ rows'[MethodOf(w)].refund = "pending"
                 /\ workers'[w].step = "cancel" /\ workers'[w].method = workers[w].method
                 /\ workers'[w].via = "call" /\ workers'[w].outcome = "pending"
              \/ ~RefundClaimable(MethodOf(w)) /\ rows' = rows /\ workers'[w] = Idle
<1>m. MethodOf(w) \in Methods
  BY DEF ClaimRefund, At, WorkersHaveMethods
<1> USE <1>m
<1>0. UNCHANGED <<bank, boundTo, money, throws, crashes>> /\ At(w, "claim")
  BY DEF ClaimRefund, bankVars, faultVars
<1>1. /\ owed' \in [Methods -> SUBSET {"bound", "rejected"}]
      /\ \A n \in Methods : owed'[n] \subseteq owed[n]
      /\ \A n \in Methods \ {MethodOf(w)} : owed'[n] = owed[n]
  BY AcknowledgedEffect DEF ClaimRefund
<1>2. CASE RefundClaimable(MethodOf(w))
  <2> DEFINE x == [Idle EXCEPT !.step = "cancel", !.method = MethodOf(w)]
             y == [rows[MethodOf(w)] EXCEPT !.refund = "pending"]
  <2>1. /\ x \in Worker /\ x.step = "cancel" /\ x.method = workers[w].method
        /\ x.via = "call" /\ x.outcome = "pending"
    BY DEF Idle, Worker, Steps, MethodOf
  <2>2. /\ y \in Row /\ y.refund = "pending" /\ y.status = rows[MethodOf(w)].status
        /\ y.card = rows[MethodOf(w)].card
    BY DEF Typed, Row
  <2>3. rows' = [rows EXCEPT ![MethodOf(w)] = y]
    BY <1>2 DEF ClaimRefund, Typed
  <2>4. workers' = [workers EXCEPT ![w] = x]
    BY <1>2 DEF ClaimRefund
  <2> HIDE DEF x, y
  <2>5. /\ OnlyWorker(w) /\ workers'[w] = x
        /\ OnlyRow(MethodOf(w)) /\ rows'[MethodOf(w)] = y
    BY <2>1, <2>2, <2>3, <2>4, WorkerBecomes, RowBecomes
  <2>6. Typed'
    BY <1>0, <1>1, <2>5 DEF Typed, OnlyWorker, OnlyRow
  <2> QED BY <1>0, <1>1, <1>2, <2>1, <2>2, <2>5, <2>6
<1>3. CASE ~RefundClaimable(MethodOf(w))
  <2>1. rows' = rows /\ Rests(w)
    BY <1>3 DEF ClaimRefund
  <2>2. OnlyWorker(w) /\ workers'[w] = Idle /\ OnlyRow(MethodOf(w))
    BY <2>1, RestsEffect DEF OnlyRow, Typed
  <2>3. Typed'
    BY <1>0, <1>1, <2>1, <2>2 DEF Typed, OnlyWorker
  <2> QED BY <1>0, <1>1, <1>3, <2>1, <2>2, <2>3
<1> QED BY <1>2, <1>3

LEMMA CancelEffect ==
    ASSUME Typed, WorkersHaveMethods, NEW w \in Workers,
           CancelPayment(w)
    PROVE  /\ MethodOf(w) \in Methods /\ Typed'
           /\ UNCHANGED <<rows, bank, boundTo, owed, throws, crashes>>
           /\ At(w, "cancel") /\ OnlyWorker(w) /\ Keeps(w) /\ workers'[w].step = "note"
           /\ \A n \in Methods : money'[n] \in {money[n], "returned"}
           /\ \A n \in Methods \ {MethodOf(w)} : money'[n] = money[n]
           /\ workers'[w].refund = "refunded" => money'[MethodOf(w)] = "returned"
<1>m. MethodOf(w) \in Methods
  BY DEF CancelPayment, At, WorkersHaveMethods
<1> USE <1>m
<1>0. UNCHANGED <<rows, bank, boundTo, owed, throws, crashes>> /\ At(w, "cancel")
  BY DEF CancelPayment, faultVars
<1>1. PICK r \in {"refunded", "failed"}, back \in {"returned", money[MethodOf(w)]} :
        /\ r = "refunded" => back = "returned"
        /\ money' = [money EXCEPT ![MethodOf(w)] = back]
        /\ workers' = [workers EXCEPT ![w].step = "note", ![w].refund = r]
  BY DEF CancelPayment
<1>2. /\ money' \in [Methods -> {"none", "taken", "returned"}]
      /\ \A n \in Methods : money'[n] \in {money[n], "returned"}
      /\ \A n \in Methods \ {MethodOf(w)} : money'[n] = money[n]
      /\ r = "refunded" => money'[MethodOf(w)] = "returned"
  BY <1>1 DEF Typed
<1> DEFINE x == [workers[w] EXCEPT !.step = "note", !.refund = r]
<1>3. workers[w] \in Worker
  BY DEF Typed
<1>4. /\ x \in Worker /\ x.step = "note" /\ x.refund = r /\ x.method = workers[w].method
      /\ x.via = workers[w].via /\ x.outcome = workers[w].outcome
  BY ZenonT(60), <1>3 DEF Worker, Steps
<1>5. workers' = [workers EXCEPT ![w] = x]
  BY <1>1 DEF Typed
<1> HIDE DEF x
<1>6. OnlyWorker(w) /\ workers'[w] = x
  BY <1>4, <1>5, WorkerBecomes
<1>7. Typed'
  BY <1>0, <1>2, <1>6 DEF Typed, OnlyWorker
<1> QED BY <1>0, <1>2, <1>4, <1>6, <1>7 DEF Keeps

LEMMA ThrowsEffect ==
    ASSUME Typed, NEW w \in Workers, StatementThrows(w)
    PROVE  /\ Typed' /\ UNCHANGED <<rows, bank, boundTo, money, owed>>
           /\ ~Faultless' /\ OnlyWorker(w)
           /\ \/ workers'[w] = Idle
              \/ /\ At(w, "note") /\ workers'[w].step = "note" /\ Keeps(w)
                 /\ workers'[w].refund = "failed"
<1>1. /\ UNCHANGED <<rows, bank, boundTo, money, owed, crashes>>
      /\ throws' \in Nat /\ ~Faultless'
  BY DEF StatementThrows, bankVars, Faultless, Typed
<1>2. CASE Rests(w)
  <2>1. OnlyWorker(w) /\ workers'[w] = Idle
    BY <1>2, RestsEffect
  <2> QED BY <1>1, <2>1 DEF Typed, OnlyWorker
<1>3. CASE At(w, "note") /\ workers' = [workers EXCEPT ![w].refund = "failed"]
  <2>1. /\ OnlyWorker(w) /\ Keeps(w)
        /\ workers'[w].step = "note" /\ workers'[w].refund = "failed"
    BY <1>3 DEF Typed, Worker, OnlyWorker, Keeps, At
  <2> QED BY <1>1, <1>3, <2>1 DEF Typed, OnlyWorker
<1> QED BY <1>2, <1>3 DEF StatementThrows

LEMMA CrashEffect ==
    ASSUME Typed, Crash
    PROVE  /\ Typed' /\ UNCHANGED <<rows, bank, boundTo, money, owed>>
           /\ ~Faultless' /\ \A w \in Workers : workers'[w] = Idle
  BY IdleType DEF Crash, Typed, bankVars, Faultless

LEMMA QuietEffect ==
    ASSUME Typed, UNCHANGED bindingVars
    PROVE  /\ Typed'
           /\ UNCHANGED <<rows, bank, boundTo, money, owed, workers, throws, crashes>>
  BY DEF bindingVars, Typed

-----------------------------------------------------------------------------
(* The parts of the invariant, step by step.                                *)

LEMMA TypedStep ==
    ASSUME Typed, WorkersHaveMethods, [BindingNext]_bindingVars
    PROVE  Typed' /\ WorkersHaveMethods'
<1>1. ASSUME NEW m \in Methods, BankRejects(m) \/ BankBinds(m)
      PROVE  Typed' /\ WorkersHaveMethods'
  BY <1>1, BankEffect, IdleType DEF WorkersHaveMethods, OnlyWorker, Keeps, MethodOf, At
<1>2. ASSUME NEW w \in Workers, NEW m \in Methods,
             BindCard(w, m) \/ Unlink(w, m)
                 \/ \E aim \in {"none", "delete"} : AskBank(w, m, aim)
      PROVE  Typed' /\ WorkersHaveMethods'
  BY <1>2, StartsEffect, IdleType DEF WorkersHaveMethods, OnlyWorker, Keeps, MethodOf,
     At
<1>3. ASSUME NEW w \in Workers, NEW m \in Methods, NEW s \in {"bound", "rejected"},
             NoticeArrives(w, m, s)
      PROVE  Typed' /\ WorkersHaveMethods'
  BY <1>3, NoticeEffect, IdleType DEF WorkersHaveMethods, OnlyWorker, Keeps, MethodOf,
     At
<1>4. ASSUME NEW w \in Workers, Supersede(w)
      PROVE  Typed' /\ WorkersHaveMethods'
  BY <1>4, SupersedeEffect, IdleType DEF WorkersHaveMethods, OnlyWorker, Keeps,
     MethodOf, At
<1>5. ASSUME NEW w \in Workers, InsertMethod(w)
      PROVE  Typed' /\ WorkersHaveMethods'
  BY <1>5, InsertEffect, IdleType DEF WorkersHaveMethods, OnlyWorker, Keeps, MethodOf,
     At
<1>6. ASSUME NEW w \in Workers, IdentifyMethod(w)
      PROVE  Typed' /\ WorkersHaveMethods'
  BY <1>6, IdentifyEffect, IdleType DEF WorkersHaveMethods, OnlyWorker, Keeps,
     MethodOf, At
<1>7. ASSUME NEW w \in Workers, Reconcile(w) \/ Recheck(w) \/ RemoveCard(w)
      PROVE  Typed' /\ WorkersHaveMethods'
  BY <1>7, AsksEffect, IdleType DEF WorkersHaveMethods, OnlyWorker, Keeps, MethodOf, At
<1>8. ASSUME NEW w \in Workers, DeleteMethod(w)
      PROVE  Typed' /\ WorkersHaveMethods'
  BY <1>8, DeleteEffect, IdleType DEF WorkersHaveMethods, OnlyWorker, Keeps, MethodOf,
     At
<1>9. ASSUME NEW w \in Workers, FindDuplicate(w)
      PROVE  Typed' /\ WorkersHaveMethods'
  BY <1>9, FindEffect, IdleType DEF WorkersHaveMethods, OnlyWorker, Keeps, MethodOf, At
<1>10. ASSUME NEW w \in Workers, Activate(w)
      PROVE  Typed' /\ WorkersHaveMethods'
  BY <1>10, ActivateEffect, IdleType DEF WorkersHaveMethods, OnlyWorker, Keeps,
     MethodOf, At
<1>11. ASSUME NEW w \in Workers, FailMethod(w)
      PROVE  Typed' /\ WorkersHaveMethods'
  BY <1>11, FailEffect, IdleType DEF WorkersHaveMethods, OnlyWorker, Keeps, MethodOf, At
<1>12. ASSUME NEW w \in Workers, RereadRow(w)
      PROVE  Typed' /\ WorkersHaveMethods'
  BY <1>12, RereadEffect, ContinuesEffect, IdleType DEF WorkersHaveMethods, OnlyWorker,
     Keeps, MethodOf, At
<1>13. ASSUME NEW w \in Workers, DeleteDuplicates(w)
      PROVE  Typed' /\ WorkersHaveMethods'
  BY <1>13, DedupEffect, ContinuesEffect, IdleType DEF WorkersHaveMethods, OnlyWorker,
     Keeps, MethodOf, At
<1>14. ASSUME NEW w \in Workers, ClaimRefund(w)
      PROVE  Typed' /\ WorkersHaveMethods'
  BY <1>14, ClaimEffect, IdleType DEF WorkersHaveMethods, OnlyWorker, Keeps, MethodOf,
     At
<1>15. ASSUME NEW w \in Workers, CancelPayment(w)
      PROVE  Typed' /\ WorkersHaveMethods'
  BY <1>15, CancelEffect, IdleType DEF WorkersHaveMethods, OnlyWorker, Keeps, MethodOf,
     At
<1>16. ASSUME NEW w \in Workers, NoteRefund(w)
      PROVE  Typed' /\ WorkersHaveMethods'
  BY <1>16, NoteEffect, IdleType DEF WorkersHaveMethods, OnlyWorker, Keeps, MethodOf, At
<1>17. ASSUME NEW w \in Workers, StatementThrows(w)
      PROVE  Typed' /\ WorkersHaveMethods'
  BY <1>17, ThrowsEffect, IdleType DEF WorkersHaveMethods, OnlyWorker, Keeps, MethodOf,
     At
<1>18. CASE Crash
  BY <1>18, CrashEffect, IdleType DEF WorkersHaveMethods, OnlyWorker, Keeps, MethodOf,
     At
<1>19. CASE UNCHANGED bindingVars
  BY <1>19, QuietEffect, IdleType DEF WorkersHaveMethods, OnlyWorker, Keeps, MethodOf,
     At
<1> QED BY <1>1, <1>2, <1>3, <1>4, <1>5, <1>6, <1>7, <1>8, <1>9, <1>10, <1>11, <1>12,
     <1>13, <1>14, <1>15, <1>16, <1>17, <1>18, <1>19 DEF BindingNext, Proceeds, Requests

LEMMA RefundsAreClaimedStep ==
    ASSUME Typed, WorkersHaveMethods, RefundsAreClaimed, [BindingNext]_bindingVars
    PROVE  RefundsAreClaimed'
<1>1. ASSUME NEW m \in Methods, BankRejects(m) \/ BankBinds(m)
      PROVE  RefundsAreClaimed'
  BY <1>1, BankEffect, IdleType DEF RefundsAreClaimed, Refunding, WorkersHaveMethods,
     OnlyWorker, OnlyRow, Keeps, MethodOf, At, RefundClaimable
<1>2. ASSUME NEW w \in Workers, NEW m \in Methods,
             BindCard(w, m) \/ Unlink(w, m)
                 \/ \E aim \in {"none", "delete"} : AskBank(w, m, aim)
      PROVE  RefundsAreClaimed'
  BY <1>2, StartsEffect, IdleType DEF RefundsAreClaimed, Refunding, WorkersHaveMethods,
     OnlyWorker, OnlyRow, Keeps, MethodOf, At, RefundClaimable
<1>3. ASSUME NEW w \in Workers, NEW m \in Methods, NEW s \in {"bound", "rejected"},
             NoticeArrives(w, m, s)
      PROVE  RefundsAreClaimed'
  BY <1>3, NoticeEffect, IdleType DEF RefundsAreClaimed, Refunding, WorkersHaveMethods,
     OnlyWorker, OnlyRow, Keeps, MethodOf, At, RefundClaimable
<1>4. ASSUME NEW w \in Workers, Supersede(w)
      PROVE  RefundsAreClaimed'
  BY <1>4, SupersedeEffect, IdleType DEF RefundsAreClaimed, Refunding,
     WorkersHaveMethods, OnlyWorker, OnlyRow, Keeps, MethodOf, At, RefundClaimable
<1>5. ASSUME NEW w \in Workers, InsertMethod(w)
      PROVE  RefundsAreClaimed'
  BY <1>5, InsertEffect, IdleType DEF RefundsAreClaimed, Refunding, WorkersHaveMethods,
     OnlyWorker, OnlyRow, Keeps, MethodOf, At, RefundClaimable
<1>6. ASSUME NEW w \in Workers, IdentifyMethod(w)
      PROVE  RefundsAreClaimed'
  BY <1>6, IdentifyEffect, IdleType DEF RefundsAreClaimed, Refunding,
     WorkersHaveMethods, OnlyWorker, OnlyRow, Keeps, MethodOf, At, RefundClaimable
<1>7. ASSUME NEW w \in Workers, Reconcile(w) \/ Recheck(w) \/ RemoveCard(w)
      PROVE  RefundsAreClaimed'
  BY <1>7, AsksEffect, IdleType DEF RefundsAreClaimed, Refunding, WorkersHaveMethods,
     OnlyWorker, OnlyRow, Keeps, MethodOf, At, RefundClaimable
<1>8. ASSUME NEW w \in Workers, DeleteMethod(w)
      PROVE  RefundsAreClaimed'
  BY <1>8, DeleteEffect, IdleType DEF RefundsAreClaimed, Refunding, WorkersHaveMethods,
     OnlyWorker, OnlyRow, Keeps, MethodOf, At, RefundClaimable
<1>9. ASSUME NEW w \in Workers, FindDuplicate(w)
      PROVE  RefundsAreClaimed'
  BY <1>9, FindEffect, IdleType DEF RefundsAreClaimed, Refunding, WorkersHaveMethods,
     OnlyWorker, OnlyRow, Keeps, MethodOf, At, RefundClaimable
<1>10. ASSUME NEW w \in Workers, Activate(w)
      PROVE  RefundsAreClaimed'
  BY <1>10, ActivateEffect, IdleType DEF RefundsAreClaimed, Refunding,
     WorkersHaveMethods, OnlyWorker, OnlyRow, Keeps, MethodOf, At, RefundClaimable
<1>11. ASSUME NEW w \in Workers, FailMethod(w)
      PROVE  RefundsAreClaimed'
  BY <1>11, FailEffect, IdleType DEF RefundsAreClaimed, Refunding, WorkersHaveMethods,
     OnlyWorker, OnlyRow, Keeps, MethodOf, At, RefundClaimable
<1>12. ASSUME NEW w \in Workers, RereadRow(w)
      PROVE  RefundsAreClaimed'
  BY <1>12, RereadEffect, ContinuesEffect, IdleType DEF RefundsAreClaimed, Refunding,
     WorkersHaveMethods, OnlyWorker, OnlyRow, Keeps, MethodOf, At, RefundClaimable
<1>13. ASSUME NEW w \in Workers, DeleteDuplicates(w)
      PROVE  RefundsAreClaimed'
  BY <1>13, DedupEffect, ContinuesEffect, IdleType DEF RefundsAreClaimed, Refunding,
     WorkersHaveMethods, OnlyWorker, OnlyRow, Keeps, MethodOf, At, RefundClaimable
<1>14. ASSUME NEW w \in Workers, ClaimRefund(w)
      PROVE  RefundsAreClaimed'
  BY <1>14, ClaimEffect, IdleType DEF RefundsAreClaimed, Refunding, WorkersHaveMethods,
     OnlyWorker, OnlyRow, Keeps, MethodOf, At, RefundClaimable
<1>15. ASSUME NEW w \in Workers, CancelPayment(w)
      PROVE  RefundsAreClaimed'
  BY <1>15, CancelEffect, IdleType DEF RefundsAreClaimed, Refunding,
     WorkersHaveMethods, OnlyWorker, OnlyRow, Keeps, MethodOf, At, RefundClaimable
<1>16. ASSUME NEW w \in Workers, NoteRefund(w)
      PROVE  RefundsAreClaimed'
  BY <1>16, NoteEffect, IdleType DEF RefundsAreClaimed, Refunding, WorkersHaveMethods,
     OnlyWorker, OnlyRow, Keeps, MethodOf, At, RefundClaimable
<1>17. ASSUME NEW w \in Workers, StatementThrows(w)
      PROVE  RefundsAreClaimed'
  BY <1>17, ThrowsEffect, IdleType DEF RefundsAreClaimed, Refunding,
     WorkersHaveMethods, OnlyWorker, OnlyRow, Keeps, MethodOf, At, RefundClaimable
<1>18. CASE Crash
  BY <1>18, CrashEffect, IdleType DEF RefundsAreClaimed, Refunding, WorkersHaveMethods,
     OnlyWorker, OnlyRow, Keeps, MethodOf, At, RefundClaimable
<1>19. CASE UNCHANGED bindingVars
  BY <1>19, QuietEffect, IdleType DEF RefundsAreClaimed, Refunding, WorkersHaveMethods,
     OnlyWorker, OnlyRow, Keeps, MethodOf, At, RefundClaimable
<1> QED BY <1>1, <1>2, <1>3, <1>4, <1>5, <1>6, <1>7, <1>8, <1>9, <1>10, <1>11, <1>12,
     <1>13, <1>14, <1>15, <1>16, <1>17, <1>18, <1>19 DEF BindingNext, Proceeds, Requests

LEMMA BankAgreesStep ==
    ASSUME Typed, WorkersHaveMethods, BankAgrees, OpenedOnce, Informed,
           [BindingNext]_bindingVars
    PROVE  BankAgrees'
<1>1. ASSUME NEW m \in Methods, BankRejects(m) \/ BankBinds(m)
      PROVE  BankAgrees'
  BY <1>1, BankEffect, IdleType, BindingAssumption DEF BankAgrees, OpenedOnce, Opening,
     Informed, Returning, Exists, RefundClaimable, WorkersHaveMethods, OnlyWorker,
     OnlyRow, Keeps, MethodOf, At
<1>2. ASSUME NEW w \in Workers, NEW m \in Methods,
             BindCard(w, m) \/ Unlink(w, m)
                 \/ \E aim \in {"none", "delete"} : AskBank(w, m, aim)
      PROVE  BankAgrees'
  BY <1>2, StartsEffect, IdleType, BindingAssumption DEF BankAgrees, OpenedOnce,
     Opening, Informed, Returning, Exists, RefundClaimable, WorkersHaveMethods,
     OnlyWorker, OnlyRow, Keeps, MethodOf, At
<1>3. ASSUME NEW w \in Workers, NEW m \in Methods, NEW s \in {"bound", "rejected"},
             NoticeArrives(w, m, s)
      PROVE  BankAgrees'
  BY <1>3, NoticeEffect, IdleType, BindingAssumption DEF BankAgrees, OpenedOnce,
     Opening, Informed, Returning, Exists, RefundClaimable, WorkersHaveMethods,
     OnlyWorker, OnlyRow, Keeps, MethodOf, At
<1>4. ASSUME NEW w \in Workers, Supersede(w)
      PROVE  BankAgrees'
  BY <1>4, SupersedeEffect, IdleType, BindingAssumption DEF BankAgrees, OpenedOnce,
     Opening, Informed, Returning, Exists, RefundClaimable, WorkersHaveMethods,
     OnlyWorker, OnlyRow, Keeps, MethodOf, At
<1>5. ASSUME NEW w \in Workers, InsertMethod(w)
      PROVE  BankAgrees'
  BY <1>5, InsertEffect, IdleType, BindingAssumption DEF BankAgrees, OpenedOnce,
     Opening, Informed, Returning, Exists, RefundClaimable, WorkersHaveMethods,
     OnlyWorker, OnlyRow, Keeps, MethodOf, At
<1>6. ASSUME NEW w \in Workers, IdentifyMethod(w)
      PROVE  BankAgrees'
  BY <1>6, IdentifyEffect, IdleType, BindingAssumption DEF BankAgrees, OpenedOnce,
     Opening, Informed, Returning, Exists, RefundClaimable, WorkersHaveMethods,
     OnlyWorker, OnlyRow, Keeps, MethodOf, At
<1>7. ASSUME NEW w \in Workers, Reconcile(w) \/ Recheck(w) \/ RemoveCard(w)
      PROVE  BankAgrees'
  BY <1>7, AsksEffect, IdleType, BindingAssumption DEF BankAgrees, OpenedOnce, Opening,
     Informed, Returning, Exists, RefundClaimable, WorkersHaveMethods, OnlyWorker,
     OnlyRow, Keeps, MethodOf, At
<1>8. ASSUME NEW w \in Workers, DeleteMethod(w)
      PROVE  BankAgrees'
  BY <1>8, DeleteEffect, IdleType, BindingAssumption DEF BankAgrees, OpenedOnce,
     Opening, Informed, Returning, Exists, RefundClaimable, WorkersHaveMethods,
     OnlyWorker, OnlyRow, Keeps, MethodOf, At
<1>9. ASSUME NEW w \in Workers, FindDuplicate(w)
      PROVE  BankAgrees'
  BY <1>9, FindEffect, IdleType, BindingAssumption DEF BankAgrees, OpenedOnce, Opening,
     Informed, Returning, Exists, RefundClaimable, WorkersHaveMethods, OnlyWorker,
     OnlyRow, Keeps, MethodOf, At
<1>10. ASSUME NEW w \in Workers, Activate(w)
      PROVE  BankAgrees'
  BY <1>10, ActivateEffect, IdleType, BindingAssumption DEF BankAgrees, OpenedOnce,
     Opening, Informed, Returning, Exists, RefundClaimable, WorkersHaveMethods,
     OnlyWorker, OnlyRow, Keeps, MethodOf, At
<1>11. ASSUME NEW w \in Workers, FailMethod(w)
      PROVE  BankAgrees'
  BY <1>11, FailEffect, IdleType, BindingAssumption DEF BankAgrees, OpenedOnce,
     Opening, Informed, Returning, Exists, RefundClaimable, WorkersHaveMethods,
     OnlyWorker, OnlyRow, Keeps, MethodOf, At
<1>12. ASSUME NEW w \in Workers, RereadRow(w)
      PROVE  BankAgrees'
  BY <1>12, RereadEffect, ContinuesEffect, IdleType, BindingAssumption DEF BankAgrees,
     OpenedOnce, Opening, Informed, Returning, Exists, RefundClaimable,
     WorkersHaveMethods, OnlyWorker, OnlyRow, Keeps, MethodOf, At
<1>13. ASSUME NEW w \in Workers, DeleteDuplicates(w)
      PROVE  BankAgrees'
  BY <1>13, DedupEffect, ContinuesEffect, IdleType, BindingAssumption DEF BankAgrees,
     OpenedOnce, Opening, Informed, Returning, Exists, RefundClaimable,
     WorkersHaveMethods, OnlyWorker, OnlyRow, Keeps, MethodOf, At
<1>14. ASSUME NEW w \in Workers, ClaimRefund(w)
      PROVE  BankAgrees'
  BY <1>14, ClaimEffect, IdleType, BindingAssumption DEF BankAgrees, OpenedOnce,
     Opening, Informed, Returning, Exists, RefundClaimable, WorkersHaveMethods,
     OnlyWorker, OnlyRow, Keeps, MethodOf, At
<1>15. ASSUME NEW w \in Workers, CancelPayment(w)
      PROVE  BankAgrees'
  BY <1>15, CancelEffect, IdleType, BindingAssumption DEF BankAgrees, OpenedOnce,
     Opening, Informed, Returning, Exists, RefundClaimable, WorkersHaveMethods,
     OnlyWorker, OnlyRow, Keeps, MethodOf, At
<1>16. ASSUME NEW w \in Workers, NoteRefund(w)
      PROVE  BankAgrees'
  BY <1>16, NoteEffect, IdleType, BindingAssumption DEF BankAgrees, OpenedOnce,
     Opening, Informed, Returning, Exists, RefundClaimable, WorkersHaveMethods,
     OnlyWorker, OnlyRow, Keeps, MethodOf, At
<1>17. ASSUME NEW w \in Workers, StatementThrows(w)
      PROVE  BankAgrees'
  BY <1>17, ThrowsEffect, IdleType, BindingAssumption DEF BankAgrees, OpenedOnce,
     Opening, Informed, Returning, Exists, RefundClaimable, WorkersHaveMethods,
     OnlyWorker, OnlyRow, Keeps, MethodOf, At
<1>18. CASE Crash
  BY <1>18, CrashEffect, IdleType, BindingAssumption DEF BankAgrees, OpenedOnce,
     Opening, Informed, Returning, Exists, RefundClaimable, WorkersHaveMethods,
     OnlyWorker, OnlyRow, Keeps, MethodOf, At
<1>19. CASE UNCHANGED bindingVars
  BY <1>19, QuietEffect, IdleType, BindingAssumption DEF BankAgrees, OpenedOnce,
     Opening, Informed, Returning, Exists, RefundClaimable, WorkersHaveMethods,
     OnlyWorker, OnlyRow, Keeps, MethodOf, At
<1> QED BY <1>1, <1>2, <1>3, <1>4, <1>5, <1>6, <1>7, <1>8, <1>9, <1>10, <1>11, <1>12,
     <1>13, <1>14, <1>15, <1>16, <1>17, <1>18, <1>19 DEF BindingNext, Proceeds, Requests

LEMMA OpenedOnceStep ==
    ASSUME Typed, WorkersHaveMethods, BankAgrees, OpenedOnce, [BindingNext]_bindingVars
    PROVE  OpenedOnce'
<1>1. ASSUME NEW m \in Methods, BankRejects(m) \/ BankBinds(m)
      PROVE  OpenedOnce'
  BY <1>1, BankEffect, IdleType DEF OpenedOnce, Opening, BankAgrees, Exists, WorkingOn,
     AfterUpdate, WorkersHaveMethods, OnlyWorker, OnlyRow, Keeps, MethodOf, At
<1>2. ASSUME NEW w \in Workers, NEW m \in Methods,
             BindCard(w, m) \/ Unlink(w, m)
                 \/ \E aim \in {"none", "delete"} : AskBank(w, m, aim)
      PROVE  OpenedOnce'
  BY <1>2, StartsEffect, IdleType DEF OpenedOnce, Opening, BankAgrees, Exists,
     WorkingOn, AfterUpdate, WorkersHaveMethods, OnlyWorker, OnlyRow, Keeps, MethodOf,
     At
<1>3. ASSUME NEW w \in Workers, NEW m \in Methods, NEW s \in {"bound", "rejected"},
             NoticeArrives(w, m, s)
      PROVE  OpenedOnce'
  BY <1>3, NoticeEffect, IdleType DEF OpenedOnce, Opening, BankAgrees, Exists,
     WorkingOn, AfterUpdate, WorkersHaveMethods, OnlyWorker, OnlyRow, Keeps, MethodOf,
     At
<1>4. ASSUME NEW w \in Workers, Supersede(w)
      PROVE  OpenedOnce'
  BY <1>4, SupersedeEffect, IdleType DEF OpenedOnce, Opening, BankAgrees, Exists,
     WorkingOn, AfterUpdate, WorkersHaveMethods, OnlyWorker, OnlyRow, Keeps, MethodOf,
     At
<1>5. ASSUME NEW w \in Workers, InsertMethod(w)
      PROVE  OpenedOnce'
  BY <1>5, InsertEffect, IdleType DEF OpenedOnce, Opening, BankAgrees, Exists,
     WorkingOn, AfterUpdate, WorkersHaveMethods, OnlyWorker, OnlyRow, Keeps, MethodOf,
     At
<1>6. ASSUME NEW w \in Workers, IdentifyMethod(w)
      PROVE  OpenedOnce'
  BY <1>6, IdentifyEffect, IdleType DEF OpenedOnce, Opening, BankAgrees, Exists,
     WorkingOn, AfterUpdate, WorkersHaveMethods, OnlyWorker, OnlyRow, Keeps, MethodOf,
     At
<1>7. ASSUME NEW w \in Workers, Reconcile(w) \/ Recheck(w) \/ RemoveCard(w)
      PROVE  OpenedOnce'
  BY <1>7, AsksEffect, IdleType DEF OpenedOnce, Opening, BankAgrees, Exists, WorkingOn,
     AfterUpdate, WorkersHaveMethods, OnlyWorker, OnlyRow, Keeps, MethodOf, At
<1>8. ASSUME NEW w \in Workers, DeleteMethod(w)
      PROVE  OpenedOnce'
  BY <1>8, DeleteEffect, IdleType DEF OpenedOnce, Opening, BankAgrees, Exists,
     WorkingOn, AfterUpdate, WorkersHaveMethods, OnlyWorker, OnlyRow, Keeps, MethodOf,
     At
<1>9. ASSUME NEW w \in Workers, FindDuplicate(w)
      PROVE  OpenedOnce'
  BY <1>9, FindEffect, IdleType DEF OpenedOnce, Opening, BankAgrees, Exists, WorkingOn,
     AfterUpdate, WorkersHaveMethods, OnlyWorker, OnlyRow, Keeps, MethodOf, At
<1>10. ASSUME NEW w \in Workers, Activate(w)
      PROVE  OpenedOnce'
  BY <1>10, ActivateEffect, IdleType DEF OpenedOnce, Opening, BankAgrees, Exists,
     WorkingOn, AfterUpdate, WorkersHaveMethods, OnlyWorker, OnlyRow, Keeps, MethodOf,
     At
<1>11. ASSUME NEW w \in Workers, FailMethod(w)
      PROVE  OpenedOnce'
  BY <1>11, FailEffect, IdleType DEF OpenedOnce, Opening, BankAgrees, Exists,
     WorkingOn, AfterUpdate, WorkersHaveMethods, OnlyWorker, OnlyRow, Keeps, MethodOf,
     At
<1>12. ASSUME NEW w \in Workers, RereadRow(w)
      PROVE  OpenedOnce'
  BY <1>12, RereadEffect, ContinuesEffect, IdleType DEF OpenedOnce, Opening,
     BankAgrees, Exists, WorkingOn, AfterUpdate, WorkersHaveMethods, OnlyWorker,
     OnlyRow, Keeps, MethodOf, At
<1>13. ASSUME NEW w \in Workers, DeleteDuplicates(w)
      PROVE  OpenedOnce'
  BY <1>13, DedupEffect, ContinuesEffect, IdleType DEF OpenedOnce, Opening, BankAgrees,
     Exists, WorkingOn, AfterUpdate, WorkersHaveMethods, OnlyWorker, OnlyRow, Keeps,
     MethodOf, At
<1>14. ASSUME NEW w \in Workers, ClaimRefund(w)
      PROVE  OpenedOnce'
  BY <1>14, ClaimEffect, IdleType DEF OpenedOnce, Opening, BankAgrees, Exists,
     WorkingOn, AfterUpdate, WorkersHaveMethods, OnlyWorker, OnlyRow, Keeps, MethodOf,
     At
<1>15. ASSUME NEW w \in Workers, CancelPayment(w)
      PROVE  OpenedOnce'
  BY <1>15, CancelEffect, IdleType DEF OpenedOnce, Opening, BankAgrees, Exists,
     WorkingOn, AfterUpdate, WorkersHaveMethods, OnlyWorker, OnlyRow, Keeps, MethodOf,
     At
<1>16. ASSUME NEW w \in Workers, NoteRefund(w)
      PROVE  OpenedOnce'
  BY <1>16, NoteEffect, IdleType DEF OpenedOnce, Opening, BankAgrees, Exists,
     WorkingOn, AfterUpdate, WorkersHaveMethods, OnlyWorker, OnlyRow, Keeps, MethodOf,
     At
<1>17. ASSUME NEW w \in Workers, StatementThrows(w)
      PROVE  OpenedOnce'
  BY <1>17, ThrowsEffect, IdleType DEF OpenedOnce, Opening, BankAgrees, Exists,
     WorkingOn, AfterUpdate, WorkersHaveMethods, OnlyWorker, OnlyRow, Keeps, MethodOf,
     At
<1>18. CASE Crash
  BY <1>18, CrashEffect, IdleType DEF OpenedOnce, Opening, BankAgrees, Exists,
     WorkingOn, AfterUpdate, WorkersHaveMethods, OnlyWorker, OnlyRow, Keeps, MethodOf,
     At
<1>19. CASE UNCHANGED bindingVars
  BY <1>19, QuietEffect, IdleType DEF OpenedOnce, Opening, BankAgrees, Exists,
     WorkingOn, AfterUpdate, WorkersHaveMethods, OnlyWorker, OnlyRow, Keeps, MethodOf,
     At
<1> QED BY <1>1, <1>2, <1>3, <1>4, <1>5, <1>6, <1>7, <1>8, <1>9, <1>10, <1>11, <1>12,
     <1>13, <1>14, <1>15, <1>16, <1>17, <1>18, <1>19 DEF BindingNext, Proceeds, Requests

LEMMA InformedStep ==
    ASSUME Typed, WorkersHaveMethods, BankAgrees, OpenedOnce, Informed,
           [BindingNext]_bindingVars
    PROVE  Informed'
<1>1. ASSUME NEW m \in Methods, BankRejects(m) \/ BankBinds(m)
      PROVE  Informed'
  BY <1>1, BankEffect, IdleType DEF Informed, Returning, Opening, OpenedOnce,
     BankAgrees, AfterUpdate, RefundDue, WorkersHaveMethods, OnlyWorker, OnlyRow,
     Keeps, MethodOf, At
<1>2. ASSUME NEW w \in Workers, NEW m \in Methods,
             BindCard(w, m) \/ Unlink(w, m)
                 \/ \E aim \in {"none", "delete"} : AskBank(w, m, aim)
      PROVE  Informed'
  BY <1>2, StartsEffect, IdleType DEF Informed, Returning, Opening, OpenedOnce,
     BankAgrees, AfterUpdate, RefundDue, WorkersHaveMethods, OnlyWorker, OnlyRow,
     Keeps, MethodOf, At
<1>3. ASSUME NEW w \in Workers, NEW m \in Methods, NEW s \in {"bound", "rejected"},
             NoticeArrives(w, m, s)
      PROVE  Informed'
  BY <1>3, NoticeEffect, IdleType DEF Informed, Returning, Opening, OpenedOnce,
     BankAgrees, AfterUpdate, RefundDue, WorkersHaveMethods, OnlyWorker, OnlyRow,
     Keeps, MethodOf, At
<1>4. ASSUME NEW w \in Workers, Supersede(w)
      PROVE  Informed'
  BY <1>4, SupersedeEffect, IdleType DEF Informed, Returning, Opening, OpenedOnce,
     BankAgrees, AfterUpdate, RefundDue, WorkersHaveMethods, OnlyWorker, OnlyRow,
     Keeps, MethodOf, At
<1>5. ASSUME NEW w \in Workers, InsertMethod(w)
      PROVE  Informed'
  BY <1>5, InsertEffect, IdleType DEF Informed, Returning, Opening, OpenedOnce,
     BankAgrees, AfterUpdate, RefundDue, WorkersHaveMethods, OnlyWorker, OnlyRow,
     Keeps, MethodOf, At
<1>6. ASSUME NEW w \in Workers, IdentifyMethod(w)
      PROVE  Informed'
  BY <1>6, IdentifyEffect, IdleType DEF Informed, Returning, Opening, OpenedOnce,
     BankAgrees, AfterUpdate, RefundDue, WorkersHaveMethods, OnlyWorker, OnlyRow,
     Keeps, MethodOf, At
<1>7. ASSUME NEW w \in Workers, Reconcile(w) \/ Recheck(w) \/ RemoveCard(w)
      PROVE  Informed'
  BY <1>7, AsksEffect, IdleType DEF Informed, Returning, Opening, OpenedOnce,
     BankAgrees, AfterUpdate, RefundDue, WorkersHaveMethods, OnlyWorker, OnlyRow,
     Keeps, MethodOf, At
<1>8. ASSUME NEW w \in Workers, DeleteMethod(w)
      PROVE  Informed'
  BY <1>8, DeleteEffect, IdleType DEF Informed, Returning, Opening, OpenedOnce,
     BankAgrees, AfterUpdate, RefundDue, WorkersHaveMethods, OnlyWorker, OnlyRow,
     Keeps, MethodOf, At
<1>9. ASSUME NEW w \in Workers, FindDuplicate(w)
      PROVE  Informed'
  BY <1>9, FindEffect, IdleType DEF Informed, Returning, Opening, OpenedOnce,
     BankAgrees, AfterUpdate, RefundDue, WorkersHaveMethods, OnlyWorker, OnlyRow,
     Keeps, MethodOf, At
<1>10. ASSUME NEW w \in Workers, Activate(w)
      PROVE  Informed'
  BY <1>10, ActivateEffect, IdleType DEF Informed, Returning, Opening, OpenedOnce,
     BankAgrees, AfterUpdate, RefundDue, WorkersHaveMethods, OnlyWorker, OnlyRow,
     Keeps, MethodOf, At
<1>11. ASSUME NEW w \in Workers, FailMethod(w)
      PROVE  Informed'
  BY <1>11, FailEffect, IdleType DEF Informed, Returning, AfterUpdate, RefundDue,
     Typed, Worker, WorkersHaveMethods, OnlyWorker, OnlyRow, Keeps, MethodOf, At
<1>12. ASSUME NEW w \in Workers, RereadRow(w)
      PROVE  Informed'
  BY <1>12, RereadEffect, ContinuesEffect, IdleType DEF Informed, Returning, Opening,
     OpenedOnce, BankAgrees, AfterUpdate, RefundDue, WorkersHaveMethods, OnlyWorker,
     OnlyRow, Keeps, MethodOf, At
<1>13. ASSUME NEW w \in Workers, DeleteDuplicates(w)
      PROVE  Informed'
  BY <1>13, DedupEffect, ContinuesEffect, IdleType DEF Informed, Returning, Opening,
     OpenedOnce, BankAgrees, AfterUpdate, RefundDue, WorkersHaveMethods, OnlyWorker,
     OnlyRow, Keeps, MethodOf, At
<1>14. ASSUME NEW w \in Workers, ClaimRefund(w)
      PROVE  Informed'
  BY <1>14, ClaimEffect, IdleType DEF Informed, Returning, Opening, OpenedOnce,
     BankAgrees, AfterUpdate, RefundDue, WorkersHaveMethods, OnlyWorker, OnlyRow,
     Keeps, MethodOf, At
<1>15. ASSUME NEW w \in Workers, CancelPayment(w)
      PROVE  Informed'
  BY <1>15, CancelEffect, IdleType DEF Informed, Returning, Opening, OpenedOnce,
     BankAgrees, AfterUpdate, RefundDue, WorkersHaveMethods, OnlyWorker, OnlyRow,
     Keeps, MethodOf, At
<1>16. ASSUME NEW w \in Workers, NoteRefund(w)
      PROVE  Informed'
  BY <1>16, NoteEffect, IdleType DEF Informed, Returning, Opening, OpenedOnce,
     BankAgrees, AfterUpdate, RefundDue, WorkersHaveMethods, OnlyWorker, OnlyRow,
     Keeps, MethodOf, At
<1>17. ASSUME NEW w \in Workers, StatementThrows(w)
      PROVE  Informed'
  BY <1>17, ThrowsEffect, IdleType DEF Informed, Returning, Opening, OpenedOnce,
     BankAgrees, AfterUpdate, RefundDue, WorkersHaveMethods, OnlyWorker, OnlyRow,
     Keeps, MethodOf, At
<1>18. CASE Crash
  BY <1>18, CrashEffect, IdleType DEF Informed, Returning, Opening, OpenedOnce,
     BankAgrees, AfterUpdate, RefundDue, WorkersHaveMethods, OnlyWorker, OnlyRow,
     Keeps, MethodOf, At
<1>19. CASE UNCHANGED bindingVars
  BY <1>19, QuietEffect, IdleType DEF Informed, Returning, Opening, OpenedOnce,
     BankAgrees, AfterUpdate, RefundDue, WorkersHaveMethods, OnlyWorker, OnlyRow,
     Keeps, MethodOf, At
<1> QED BY <1>1, <1>2, <1>3, <1>4, <1>5, <1>6, <1>7, <1>8, <1>9, <1>10, <1>11, <1>12,
     <1>13, <1>14, <1>15, <1>16, <1>17, <1>18, <1>19 DEF BindingNext, Proceeds, Requests

LEMMA SettlingStep ==
    ASSUME Typed, WorkersHaveMethods, BankAgrees, Settling, [BindingNext]_bindingVars
    PROVE  Settling'
<1>1. ASSUME NEW m \in Methods, BankRejects(m) \/ BankBinds(m)
      PROVE  Settling'
  BY <1>1, BankEffect, IdleType DEF Settling, Faultless, BankAgrees, SameCard, Exists,
     Typed, WorkersHaveMethods, OnlyWorker, OnlyRow, Keeps, MethodOf, At
<1>2. ASSUME NEW w \in Workers, NEW m \in Methods,
             BindCard(w, m) \/ Unlink(w, m)
                 \/ \E aim \in {"none", "delete"} : AskBank(w, m, aim)
      PROVE  Settling'
  BY <1>2, StartsEffect, IdleType DEF Settling, Faultless, BankAgrees, SameCard,
     Exists, Typed, WorkersHaveMethods, OnlyWorker, OnlyRow, Keeps, MethodOf, At
<1>3. ASSUME NEW w \in Workers, NEW m \in Methods, NEW s \in {"bound", "rejected"},
             NoticeArrives(w, m, s)
      PROVE  Settling'
  <2>1. At(w, "idle") /\ OnlyWorker(w) /\ UNCHANGED <<rows, throws, crashes>>
    BY <1>3, NoticeEffect
  <2> QED BY <2>1 DEF Settling, Faultless, OnlyWorker, MethodOf, At
<1>4. ASSUME NEW w \in Workers, Supersede(w)
      PROVE  Settling'
  BY <1>4, SupersedeEffect, IdleType DEF Settling, Faultless, BankAgrees, SameCard,
     Exists, Typed, WorkersHaveMethods, OnlyWorker, OnlyRow, Keeps, MethodOf, At
<1>5. ASSUME NEW w \in Workers, InsertMethod(w)
      PROVE  Settling'
  BY <1>5, InsertEffect, IdleType DEF Settling, Faultless, BankAgrees, SameCard,
     Exists, Typed, WorkersHaveMethods, OnlyWorker, OnlyRow, Keeps, MethodOf, At
<1>6. ASSUME NEW w \in Workers, IdentifyMethod(w)
      PROVE  Settling'
  BY <1>6, IdentifyEffect, IdleType DEF Settling, Faultless, BankAgrees, SameCard,
     Exists, Typed, WorkersHaveMethods, OnlyWorker, OnlyRow, Keeps, MethodOf, At
<1>7. ASSUME NEW w \in Workers, Reconcile(w) \/ Recheck(w) \/ RemoveCard(w)
      PROVE  Settling'
  BY <1>7, AsksEffect, IdleType DEF Settling, Faultless, BankAgrees, SameCard, Exists,
     Typed, WorkersHaveMethods, OnlyWorker, OnlyRow, Keeps, MethodOf, At
<1>8. ASSUME NEW w \in Workers, DeleteMethod(w)
      PROVE  Settling'
  BY <1>8, DeleteEffect, IdleType DEF Settling, Faultless, BankAgrees, SameCard,
     Exists, Typed, WorkersHaveMethods, OnlyWorker, OnlyRow, Keeps, MethodOf, At
<1>9. ASSUME NEW w \in Workers, FindDuplicate(w)
      PROVE  Settling'
  BY <1>9, FindEffect, IdleType DEF Settling, Faultless, BankAgrees, SameCard, Exists,
     Typed, WorkersHaveMethods, OnlyWorker, OnlyRow, Keeps, MethodOf, At
<1>10. ASSUME NEW w \in Workers, Activate(w)
      PROVE  Settling'
  BY <1>10, ActivateEffect, IdleType DEF Settling, Faultless, BankAgrees, SameCard,
     Exists, Typed, WorkersHaveMethods, OnlyWorker, OnlyRow, Keeps, MethodOf, At
<1>11. ASSUME NEW w \in Workers, FailMethod(w)
      PROVE  Settling'
  BY <1>11, FailEffect, IdleType DEF Settling, Faultless, BankAgrees, SameCard, Exists,
     Typed, WorkersHaveMethods, OnlyWorker, OnlyRow, Keeps, MethodOf, At
<1>12. ASSUME NEW w \in Workers, RereadRow(w)
      PROVE  Settling'
  BY <1>12, RereadEffect, ContinuesEffect, IdleType DEF Settling, Faultless,
     BankAgrees, SameCard, Exists, Typed, WorkersHaveMethods, OnlyWorker, OnlyRow,
     Keeps, MethodOf, At
<1>13. ASSUME NEW w \in Workers, DeleteDuplicates(w)
      PROVE  Settling'
  <2>1. CASE throws' = throws
    <3> SUFFICES ASSUME Faultless, NEW m \in Methods, NEW n \in Methods, m # n,
                        rows'[m].status = "active", rows'[n].status = "active",
                        rows'[m].card = rows'[n].card
                 PROVE  \E v \in Workers : /\ workers'[v].step \in {"reread", "dedup"}
                                           /\ workers'[v].method \in {m, n}
      BY <1>13, <2>1, DedupEffect DEF Settling, Faultless, MethodOf
    <3>1. /\ rows[m].status = "active" /\ rows[n].status = "active"
          /\ rows[m].card = rows[n].card
      BY <1>13, DedupEffect
    <3>2. PICK v \in Workers : /\ workers[v].step \in {"reread", "dedup"}
                              /\ MethodOf(v) \in {m, n}
      BY <3>1 DEF Settling
    <3>3. boundTo[m] = rows[m].card /\ boundTo[n] = rows[n].card
      BY <3>1 DEF BankAgrees
    <3>4. n \in SameCard(m, boundTo[m]) /\ m \in SameCard(n, boundTo[n])
      BY <3>1, <3>3 DEF SameCard, Exists
    <3>5. MethodOf(w) \notin {m, n}
      BY <1>13, <2>1, <3>4, DedupEffect
    <3> QED BY <1>13, <3>2, <3>5, DedupEffect DEF OnlyWorker, MethodOf
  <2>2. CASE throws' = throws + 1
    BY <2>2 DEF Settling, Faultless, Typed
  <2> QED BY <1>13, <2>1, <2>2, DedupEffect
<1>14. ASSUME NEW w \in Workers, ClaimRefund(w)
      PROVE  Settling'
  <2>1. \A n \in Methods : rows'[n].status = rows[n].status /\ rows'[n].card = rows[n].card
    BY <1>14, ClaimEffect DEF OnlyRow
  <2>2. OnlyWorker(w) /\ workers[w].step = "claim" /\ UNCHANGED <<throws, crashes>>
    BY <1>14, ClaimEffect DEF At
  <2> QED BY <2>1, <2>2 DEF Settling, Faultless, OnlyWorker, MethodOf
<1>15. ASSUME NEW w \in Workers, CancelPayment(w)
      PROVE  Settling'
  BY <1>15, CancelEffect, IdleType DEF Settling, Faultless, BankAgrees, SameCard,
     Exists, Typed, WorkersHaveMethods, OnlyWorker, OnlyRow, Keeps, MethodOf, At
<1>16. ASSUME NEW w \in Workers, NoteRefund(w)
      PROVE  Settling'
  <2>1. \A n \in Methods : rows'[n].status = rows[n].status /\ rows'[n].card = rows[n].card
    BY <1>16, NoteEffect DEF OnlyRow
  <2>2. OnlyWorker(w) /\ workers[w].step = "note" /\ UNCHANGED <<throws, crashes>>
    BY <1>16, NoteEffect DEF At
  <2> QED BY <2>1, <2>2 DEF Settling, Faultless, OnlyWorker, MethodOf
<1>17. ASSUME NEW w \in Workers, StatementThrows(w)
      PROVE  Settling'
  BY <1>17, ThrowsEffect, IdleType DEF Settling
<1>18. CASE Crash
  BY <1>18, CrashEffect, IdleType DEF Settling
<1>19. CASE UNCHANGED bindingVars
  BY <1>19, QuietEffect, IdleType DEF Settling, Faultless, BankAgrees, SameCard,
     Exists, Typed, WorkersHaveMethods, OnlyWorker, OnlyRow, Keeps, MethodOf, At
<1> QED BY <1>1, <1>2, <1>3, <1>4, <1>5, <1>6, <1>7, <1>8, <1>9, <1>10, <1>11, <1>12,
     <1>13, <1>14, <1>15, <1>16, <1>17, <1>18, <1>19 DEF BindingNext, Proceeds, Requests

LEMMA RefundsHappenedStep ==
    ASSUME Typed, WorkersHaveMethods, BankAgrees, Informed, RefundsHappened,
           [BindingNext]_bindingVars
    PROVE  RefundsHappened'
<1>1. ASSUME NEW m \in Methods, BankRejects(m) \/ BankBinds(m)
      PROVE  RefundsHappened'
  BY <1>1, BankEffect, IdleType DEF RefundsHappened, BankAgrees, Informed, Returning,
     WorkersHaveMethods, OnlyWorker, OnlyRow, Keeps, MethodOf, At
<1>2. ASSUME NEW w \in Workers, NEW m \in Methods,
             BindCard(w, m) \/ Unlink(w, m)
                 \/ \E aim \in {"none", "delete"} : AskBank(w, m, aim)
      PROVE  RefundsHappened'
  BY <1>2, StartsEffect, IdleType DEF RefundsHappened, BankAgrees, Informed, Returning,
     WorkersHaveMethods, OnlyWorker, OnlyRow, Keeps, MethodOf, At
<1>3. ASSUME NEW w \in Workers, NEW m \in Methods, NEW s \in {"bound", "rejected"},
             NoticeArrives(w, m, s)
      PROVE  RefundsHappened'
  BY <1>3, NoticeEffect, IdleType DEF RefundsHappened, BankAgrees, Informed, Returning,
     WorkersHaveMethods, OnlyWorker, OnlyRow, Keeps, MethodOf, At
<1>4. ASSUME NEW w \in Workers, Supersede(w)
      PROVE  RefundsHappened'
  BY <1>4, SupersedeEffect, IdleType DEF RefundsHappened, BankAgrees, Informed,
     Returning, WorkersHaveMethods, OnlyWorker, OnlyRow, Keeps, MethodOf, At
<1>5. ASSUME NEW w \in Workers, InsertMethod(w)
      PROVE  RefundsHappened'
  BY <1>5, InsertEffect, IdleType DEF RefundsHappened, BankAgrees, Informed, Returning,
     WorkersHaveMethods, OnlyWorker, OnlyRow, Keeps, MethodOf, At
<1>6. ASSUME NEW w \in Workers, IdentifyMethod(w)
      PROVE  RefundsHappened'
  BY <1>6, IdentifyEffect, IdleType DEF RefundsHappened, BankAgrees, Informed,
     Returning, WorkersHaveMethods, OnlyWorker, OnlyRow, Keeps, MethodOf, At
<1>7. ASSUME NEW w \in Workers, Reconcile(w) \/ Recheck(w) \/ RemoveCard(w)
      PROVE  RefundsHappened'
  BY <1>7, AsksEffect, IdleType DEF RefundsHappened, BankAgrees, Informed, Returning,
     WorkersHaveMethods, OnlyWorker, OnlyRow, Keeps, MethodOf, At
<1>8. ASSUME NEW w \in Workers, DeleteMethod(w)
      PROVE  RefundsHappened'
  BY <1>8, DeleteEffect, IdleType DEF RefundsHappened, BankAgrees, Informed, Returning,
     WorkersHaveMethods, OnlyWorker, OnlyRow, Keeps, MethodOf, At
<1>9. ASSUME NEW w \in Workers, FindDuplicate(w)
      PROVE  RefundsHappened'
  BY <1>9, FindEffect, IdleType DEF RefundsHappened, BankAgrees, Informed, Returning,
     WorkersHaveMethods, OnlyWorker, OnlyRow, Keeps, MethodOf, At
<1>10. ASSUME NEW w \in Workers, Activate(w)
      PROVE  RefundsHappened'
  BY <1>10, ActivateEffect, IdleType DEF RefundsHappened, BankAgrees, Informed,
     Returning, WorkersHaveMethods, OnlyWorker, OnlyRow, Keeps, MethodOf, At
<1>11. ASSUME NEW w \in Workers, FailMethod(w)
      PROVE  RefundsHappened'
  BY <1>11, FailEffect, IdleType DEF RefundsHappened, BankAgrees, Informed, Returning,
     WorkersHaveMethods, OnlyWorker, OnlyRow, Keeps, MethodOf, At
<1>12. ASSUME NEW w \in Workers, RereadRow(w)
      PROVE  RefundsHappened'
  BY <1>12, RereadEffect, ContinuesEffect, IdleType DEF RefundsHappened, BankAgrees,
     Informed, Returning, WorkersHaveMethods, OnlyWorker, OnlyRow, Keeps, MethodOf, At
<1>13. ASSUME NEW w \in Workers, DeleteDuplicates(w)
      PROVE  RefundsHappened'
  BY <1>13, DedupEffect, ContinuesEffect, IdleType DEF RefundsHappened, BankAgrees,
     Informed, Returning, WorkersHaveMethods, OnlyWorker, OnlyRow, Keeps, MethodOf, At
<1>14. ASSUME NEW w \in Workers, ClaimRefund(w)
      PROVE  RefundsHappened'
  BY <1>14, ClaimEffect, IdleType DEF RefundsHappened, BankAgrees, Informed, Returning,
     WorkersHaveMethods, OnlyWorker, OnlyRow, Keeps, MethodOf, At
<1>15. ASSUME NEW w \in Workers, CancelPayment(w)
      PROVE  RefundsHappened'
  BY <1>15, CancelEffect, IdleType DEF RefundsHappened, BankAgrees, Informed,
     Returning, WorkersHaveMethods, OnlyWorker, OnlyRow, Keeps, MethodOf, At
<1>16. ASSUME NEW w \in Workers, NoteRefund(w)
      PROVE  RefundsHappened'
  BY <1>16, NoteEffect, IdleType DEF RefundsHappened, BankAgrees, Informed, Returning,
     WorkersHaveMethods, OnlyWorker, OnlyRow, Keeps, MethodOf, At
<1>17. ASSUME NEW w \in Workers, StatementThrows(w)
      PROVE  RefundsHappened'
  BY <1>17, ThrowsEffect, IdleType DEF RefundsHappened, BankAgrees, Informed,
     Returning, WorkersHaveMethods, OnlyWorker, OnlyRow, Keeps, MethodOf, At
<1>18. CASE Crash
  BY <1>18, CrashEffect, IdleType DEF RefundsHappened, BankAgrees, Informed, Returning,
     WorkersHaveMethods, OnlyWorker, OnlyRow, Keeps, MethodOf, At
<1>19. CASE UNCHANGED bindingVars
  BY <1>19, QuietEffect, IdleType DEF RefundsHappened, BankAgrees, Informed, Returning,
     WorkersHaveMethods, OnlyWorker, OnlyRow, Keeps, MethodOf, At
<1> QED BY <1>1, <1>2, <1>3, <1>4, <1>5, <1>6, <1>7, <1>8, <1>9, <1>10, <1>11, <1>12,
     <1>13, <1>14, <1>15, <1>16, <1>17, <1>18, <1>19 DEF BindingNext, Proceeds, Requests

(* No refund is dropped by a worker that leaves none behind, and none falls *)
(* due.                                                                     *)
LEMMA PursuitGoesOn ==
    ASSUME RefundsPursued, NEW w \in Workers, OnlyWorker(w), UNCHANGED <<throws, crashes>>,
           Returning(w) => Returning(w)' /\ MethodOf(w)' = MethodOf(w),
           Refunding(w) => Refunding(w)',
           \A n \in Methods : (n \in Verifications /\ Due(n)') => Due(n),
           \A n \in Methods : (Exists(n)' /\ rows'[n].refund = "pending")
                                  => (Exists(n) /\ rows[n].refund = "pending")
    PROVE  RefundsPursued'
<1>1. \A v \in Workers : Returning(v) => Returning(v)' /\ MethodOf(v)' = MethodOf(v)
  BY DEF OnlyWorker, Returning, MethodOf
<1>2. \A v \in Workers : Refunding(v) => Refunding(v)' /\ MethodOf(v)' = MethodOf(v)
  BY <1>1 DEF OnlyWorker, Returning, Refunding, MethodOf
<1> QED BY <1>1, <1>2 DEF RefundsPursued, Faultless

(* An acknowledgement makes no rouble due: a handler that owes the bank its *)
(* answer for a binding goes on to the claim first.                         *)
LEMMA AnswersAreLast ==
    ASSUME Typed, Informed, NEW w \in Workers, MethodOf(w) \in Methods,
           workers[w].step \in {"reread", "dedup"}, Continues(w), money' = money,
           \A n \in Methods : /\ rows'[n].refund = rows[n].refund
                              /\ rows'[n].status \in {rows[n].status, "deleted"}
    PROVE  /\ Returning(w) => Returning(w)' /\ MethodOf(w)' = MethodOf(w)
           /\ \A n \in Methods : (n \in Verifications /\ Due(n)') => Due(n)
           /\ \A n \in Methods : Exists(n)' => Exists(n)
<1>1. Returning(w) => Returning(w)' /\ MethodOf(w)' = MethodOf(w)
  BY ContinuesEffect DEF Returning, Keeps, MethodOf
<1>2. \A n \in Methods : Exists(n)' => Exists(n)
  BY DEF Exists
<1>3. ASSUME NEW n \in Methods, n \in Verifications, "bound" \in owed[n]
      PROVE  "bound" \in owed'[n]
  BY <1>3, ContinuesEffect DEF Informed, MethodOf
<1>4. \A n \in Methods : (n \in Verifications /\ Due(n)') => Due(n)
  BY <1>2, <1>3 DEF Due
<1> QED BY <1>1, <1>2, <1>4

LEMMA RefundsPursuedStep ==
    ASSUME Typed, WorkersHaveMethods, BankAgrees, OpenedOnce, Informed,
           RefundsHappened, RefundsPursued, [BindingNext]_bindingVars
    PROVE  RefundsPursued'
<1>1. ASSUME NEW m \in Methods, BankRejects(m) \/ BankBinds(m)
      PROVE  RefundsPursued'
  BY <1>1, BankEffect, IdleType DEF RefundsPursued, Due, Faultless, Refunding,
     Returning, BankAgrees, OpenedOnce, Opening, Informed, RefundsHappened,
     RefundClaimable, Exists, AfterUpdate, RefundDue, Typed, WorkersHaveMethods,
     OnlyWorker, OnlyRow, Keeps, MethodOf, At
<1>2. ASSUME NEW w \in Workers, NEW m \in Methods,
             BindCard(w, m) \/ Unlink(w, m)
                 \/ \E aim \in {"none", "delete"} : AskBank(w, m, aim)
      PROVE  RefundsPursued'
  <2>1. \A n \in Methods : Due(n)' = Due(n) /\ Exists(n)' = Exists(n)
    BY <1>2, StartsEffect DEF Due, Exists
  <2> QED BY <1>2, <2>1, StartsEffect, PursuitGoesOn DEF At, Returning, Refunding
<1>3. ASSUME NEW w \in Workers, NEW m \in Methods, NEW s \in {"bound", "rejected"},
             NoticeArrives(w, m, s)
      PROVE  RefundsPursued'
  <2>1. \A n \in Methods : Due(n)' => Due(n)
    BY <1>3, NoticeEffect DEF Due, Exists
  <2> QED BY <1>3, <2>1, NoticeEffect, PursuitGoesOn DEF At, Returning, Refunding, Exists
<1>4. ASSUME NEW w \in Workers, Supersede(w)
      PROVE  RefundsPursued'
  <2>1. \A n \in Methods : Exists(n)' => Exists(n)
    BY <1>4, SupersedeEffect DEF Exists
  <2>2. \A n \in Methods : Due(n)' => Due(n)
    BY <1>4, <2>1, SupersedeEffect DEF Due
  <2> QED BY <1>4, <2>1, <2>2, SupersedeEffect, PursuitGoesOn DEF At, Returning, Refunding
<1>5. ASSUME NEW w \in Workers, InsertMethod(w)
      PROVE  RefundsPursued'
  BY <1>5, InsertEffect, IdleType DEF RefundsPursued, Due, Faultless, Refunding,
     Returning, BankAgrees, OpenedOnce, Opening, Informed, RefundsHappened,
     RefundClaimable, Exists, AfterUpdate, RefundDue, Typed, WorkersHaveMethods,
     OnlyWorker, OnlyRow, Keeps, MethodOf, At
<1>6. ASSUME NEW w \in Workers, IdentifyMethod(w)
      PROVE  RefundsPursued'
  <2>1. \A n \in Methods :
          rows'[n].status = rows[n].status /\ rows'[n].refund = rows[n].refund
    BY <1>6, IdentifyEffect DEF OnlyRow
  <2>2. \A n \in Methods : Due(n)' = Due(n) /\ Exists(n)' = Exists(n)
    BY <1>6, <2>1, IdentifyEffect DEF Due, Exists
  <2> QED BY <1>6, <2>1, <2>2, IdentifyEffect, PursuitGoesOn DEF At, Returning, Refunding
<1>7. ASSUME NEW w \in Workers, Reconcile(w) \/ Recheck(w) \/ RemoveCard(w)
      PROVE  RefundsPursued'
  <2>1. \A n \in Methods : Due(n)' = Due(n) /\ Exists(n)' = Exists(n)
    BY <1>7, AsksEffect DEF Due, Exists
  <2> QED BY <1>7, <2>1, AsksEffect, PursuitGoesOn DEF At, Returning, Refunding
<1>8. ASSUME NEW w \in Workers, DeleteMethod(w)
      PROVE  RefundsPursued'
  BY <1>8, DeleteEffect, IdleType DEF RefundsPursued, Due, Faultless, Refunding,
     Returning, BankAgrees, OpenedOnce, Opening, Informed, RefundsHappened,
     RefundClaimable, Exists, AfterUpdate, RefundDue, Typed, WorkersHaveMethods,
     OnlyWorker, OnlyRow, Keeps, MethodOf, At
<1>9. ASSUME NEW w \in Workers, FindDuplicate(w)
      PROVE  RefundsPursued'
  <2>1. \A n \in Methods : Due(n)' = Due(n) /\ Exists(n)' = Exists(n)
    BY <1>9, FindEffect DEF Due, Exists
  <2> QED BY <1>9, <2>1, FindEffect, PursuitGoesOn DEF At, Returning, Refunding
<1>10. ASSUME NEW w \in Workers, Activate(w)
      PROVE  RefundsPursued'
  <2>1. AfterUpdate(w) = "claim" \/ MethodOf(w) \notin Verifications
    BY <1>10, ActivateEffect DEF Informed, AfterUpdate, RefundDue
  <2>2. CASE AfterUpdate(w) = "claim"
    <3>1. MethodOf(w)' = MethodOf(w) /\ Returning(w)' /\ ~Refunding(w)
      BY <1>10, <2>2, ActivateEffect DEF Keeps, MethodOf, Returning, Refunding, At
    <3>2. \A n \in Methods \ {MethodOf(w)} : Due(n)' = Due(n)
      BY <1>10, ActivateEffect DEF OnlyRow, Due, Exists
    <3>3. \A n \in Methods : /\ rows'[n].refund = rows[n].refund
                             /\ Exists(n)' => Exists(n)
      BY <1>10, ActivateEffect DEF OnlyRow, Exists
    <3>4. \A v \in Workers : Returning(v) => Returning(v)' /\ MethodOf(v)' = MethodOf(v)
      BY <1>10, <3>1, ActivateEffect DEF OnlyWorker, Returning, MethodOf
    <3>5. \A v \in Workers : Refunding(v) => Refunding(v)' /\ MethodOf(v)' = MethodOf(v)
      BY <1>10, <3>1, ActivateEffect DEF OnlyWorker, Refunding, MethodOf
    <3> QED BY <1>10, <3>1, <3>2, <3>3, <3>4, <3>5, ActivateEffect DEF RefundsPursued, Faultless
  <2>3. CASE MethodOf(w) \notin Verifications
    <3>1. \A n \in Methods : /\ (n \in Verifications /\ Due(n)') => Due(n)
                             /\ (Exists(n)' /\ rows'[n].refund = "pending")
                                   => (Exists(n) /\ rows[n].refund = "pending")
      BY <1>10, <2>3, ActivateEffect DEF OnlyRow, Due, Exists
    <3> QED BY <1>10, <3>1, ActivateEffect, PursuitGoesOn DEF At, Returning, Refunding
  <2> QED BY <2>1, <2>2, <2>3
<1>11. ASSUME NEW w \in Workers, FailMethod(w)
      PROVE  RefundsPursued'
  BY <1>11, FailEffect, IdleType DEF RefundsPursued, Due, Faultless, Refunding,
     Returning, BankAgrees, OpenedOnce, Opening, Informed, RefundsHappened,
     RefundClaimable, Exists, AfterUpdate, RefundDue, Typed, WorkersHaveMethods,
     OnlyWorker, OnlyRow, Keeps, MethodOf, At
<1>12. ASSUME NEW w \in Workers, RereadRow(w)
      PROVE  RefundsPursued'
  <2>1. CASE rows[MethodOf(w)].status = "active"
    <3>1. \A n \in Methods : Due(n)' = Due(n) /\ Exists(n)' = Exists(n)
      BY <1>12, <2>1, RereadEffect DEF Due, Exists
    <3> QED BY <1>12, <2>1, <3>1, RereadEffect, PursuitGoesOn
            DEF At, Returning, Refunding, Keeps, MethodOf
  <2>2. CASE rows[MethodOf(w)].status # "active"
    <3>1. /\ Continues(w) /\ OnlyWorker(w) /\ UNCHANGED <<rows, money, throws, crashes>>
          /\ MethodOf(w) \in Methods /\ workers[w].step = "reread"
      BY <1>12, <2>2, RereadEffect DEF At
    <3> QED BY <3>1, AnswersAreLast, PursuitGoesOn DEF Refunding
  <2> QED BY <2>1, <2>2
<1>13. ASSUME NEW w \in Workers, DeleteDuplicates(w)
      PROVE  RefundsPursued'
  <2>1. CASE throws' = throws
    <3>1. /\ Continues(w) /\ OnlyWorker(w) /\ UNCHANGED <<money, throws, crashes>>
          /\ MethodOf(w) \in Methods /\ workers[w].step = "dedup"
          /\ \A n \in Methods : /\ rows'[n].refund = rows[n].refund
                                /\ rows'[n].status \in {rows[n].status, "deleted"}
      BY <1>13, <2>1, DedupEffect DEF At
    <3> QED BY <3>1, AnswersAreLast, PursuitGoesOn DEF Refunding
  <2>2. CASE throws' = throws + 1
    BY <2>2 DEF RefundsPursued, Faultless, Typed
  <2> QED BY <1>13, <2>1, <2>2, DedupEffect
<1>14. ASSUME NEW w \in Workers, ClaimRefund(w)
      PROVE  RefundsPursued'
  BY <1>14, ClaimEffect, IdleType DEF RefundsPursued, Due, Faultless, Refunding,
     Returning, BankAgrees, OpenedOnce, Opening, Informed, RefundsHappened,
     RefundClaimable, Exists, AfterUpdate, RefundDue, Typed, WorkersHaveMethods,
     OnlyWorker, OnlyRow, Keeps, MethodOf, At
<1>15. ASSUME NEW w \in Workers, CancelPayment(w)
      PROVE  RefundsPursued'
  BY <1>15, CancelEffect, IdleType DEF RefundsPursued, Due, Faultless, Refunding,
     Returning, BankAgrees, OpenedOnce, Opening, Informed, RefundsHappened,
     RefundClaimable, Exists, AfterUpdate, RefundDue, Typed, WorkersHaveMethods,
     OnlyWorker, OnlyRow, Keeps, MethodOf, At
<1>16. ASSUME NEW w \in Workers, NoteRefund(w)
      PROVE  RefundsPursued'
  BY <1>16, NoteEffect, IdleType DEF RefundsPursued, Due, Faultless, Refunding,
     Returning, BankAgrees, OpenedOnce, Opening, Informed, RefundsHappened,
     RefundClaimable, Exists, AfterUpdate, RefundDue, Typed, WorkersHaveMethods,
     OnlyWorker, OnlyRow, Keeps, MethodOf, At
<1>17. ASSUME NEW w \in Workers, StatementThrows(w)
      PROVE  RefundsPursued'
  BY <1>17, ThrowsEffect, IdleType DEF RefundsPursued
<1>18. CASE Crash
  BY <1>18, CrashEffect, IdleType DEF RefundsPursued
<1>19. CASE UNCHANGED bindingVars
  BY <1>19, QuietEffect, IdleType DEF RefundsPursued, Due, Faultless, Refunding,
     Returning, BankAgrees, OpenedOnce, Opening, Informed, RefundsHappened,
     RefundClaimable, Exists, AfterUpdate, RefundDue, Typed, WorkersHaveMethods,
     OnlyWorker, OnlyRow, Keeps, MethodOf, At
<1> QED BY <1>1, <1>2, <1>3, <1>4, <1>5, <1>6, <1>7, <1>8, <1>9, <1>10, <1>11, <1>12,
     <1>13, <1>14, <1>15, <1>16, <1>17, <1>18, <1>19 DEF BindingNext, Proceeds, Requests

LEMMA BindingInitially ==
    ASSUME BindingInit
    PROVE  BindingInv
<1>1. Typed /\ \A w \in Workers : workers[w] = Idle
  BY IdleType DEF BindingInit, Typed, Row
<1>2. BankAgrees
  BY BindingAssumption DEF BindingInit, BankAgrees
<1>3. WorkersHaveMethods /\ RefundsAreClaimed /\ OpenedOnce /\ Informed
  BY <1>1, IdleType DEF WorkersHaveMethods, RefundsAreClaimed, Refunding, OpenedOnce, Opening,
     Informed, Returning, At
<1>4. Settling
  BY DEF BindingInit, Settling
<1>5. RefundsHappened
  BY <1>1, IdleType DEF BindingInit, RefundsHappened, At
<1>6. RefundsPursued
  BY DEF BindingInit, RefundsPursued, Due, Exists, Methods
<1> QED BY <1>1, <1>2, <1>3, <1>4, <1>5, <1>6 DEF BindingInv

(* However the page's requests, the bank's notifications and the refunds of *)
(* any number of attempts interleave, what each of them knows and has still *)
(* to do stays in step with the rows and the bank (payments.ts).            *)
THEOREM BindingInvariant == BindingSpec => []BindingInv
<1>1. BindingInit => BindingInv
  BY BindingInitially
<1>2. BindingInv /\ [BindingNext]_bindingVars => BindingInv'
  BY TypedStep, RefundsAreClaimedStep, BankAgreesStep, OpenedOnceStep, InformedStep,
     SettlingStep, RefundsHappenedStep, RefundsPursuedStep DEF BindingInv
<1> QED BY <1>1, <1>2, PTL DEF BindingSpec

-----------------------------------------------------------------------------
(* The theorems.                                                            *)

(* Attempts, rows and workers have their types, and an active row has the   *)
(* card that the bank bound in its attempt.                                 *)
THEOREM BindingsAreTyped == BindingSpec => []BindingTypeOK
<1>1. BindingInv => BindingTypeOK
  BY DEF BindingInv, Typed, BankAgrees, BindingTypeOK
<1> QED BY <1>1, BindingInvariant, PTL

(* For any number of attempts, cards and requests at once, the rouble of an *)
(* attempt is never asked back by two callers at a time.                    *)
THEOREM RefundsAreSingle == BindingSpec => []OneRefundAtATime
<1>1. BindingInv => OneRefundAtATime
  <2> SUFFICES ASSUME BindingInv, NEW m \in Methods
               PROVE  Cardinality({w \in WorkingOn(m) :
                                      workers[w].step \in {"cancel", "note"}}) <= 1
    BY DEF OneRefundAtATime
  <2> DEFINE Both == {w \in WorkingOn(m) : workers[w].step \in {"cancel", "note"}}
  <2>1. \A w, v \in Both : w = v
    BY DEF BindingInv, RefundsAreClaimed, Refunding, WorkingOn
  <2>2. CASE Both = {}
    <3>1. Cardinality(Both) = 0
      BY <2>2, FS_EmptySet
    <3> QED BY <3>1
  <2>3. ASSUME NEW w \in Both PROVE Cardinality(Both) <= 1
    <3>1. Both = {w}
      BY <2>1, <2>3
    <3>2. Cardinality(Both) = 1
      BY <3>1, FS_Singleton
    <3> QED BY <3>2
  <2> QED BY <2>2, <2>3
<1> QED BY <1>1, BindingInvariant, PTL

(* When nothing is going on and nothing failed, a card is usable through    *)
(* one row, however many attempts bound it at once.                         *)
THEOREM CardsHaveOneRow == BindingSpec => []OneRowPerCard
<1>1. BindingInv => OneRowPerCard
  BY DEF BindingInv, Settling, Faultless, OneRowPerCard, At
<1> QED BY <1>1, BindingInvariant, PTL

(* A rouble that the bank has is being given back or its row says that this *)
(* failed, whichever requests and notifications saw the binding.            *)
THEOREM RoublesAreAccounted == BindingSpec => []RoubleIsAccounted
<1>1. BindingInv => RoubleIsAccounted
  <2> SUFFICES ASSUME BindingInv, NEW m \in Verifications,
                      money[m] = "taken", Exists(m), WorkingOn(m) = {}, owed[m] = {},
                      throws = 0, crashes = 0
               PROVE  rows[m].refund = "failed"
    BY DEF RoubleIsAccounted
  <2>1. m \in Methods /\ \A w \in Workers : MethodOf(w) # m
    BY DEF Methods, WorkingOn
  <2> QED BY <2>1 DEF BindingInv, RefundsPursued, Due, Faultless
<1> QED BY <1>1, BindingInvariant, PTL
=============================================================================
