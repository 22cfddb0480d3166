-------------------------------- MODULE Accounts --------------------------------
(***************************************************************************)
(* Accounts and sessions: login and registration by a code sent to the     *)
(* phone, the change of the phone, and the deletion of an account.         *)
(*                                                                         *)
(*   server/storage/otp.ts    startOtp, verifyOtp, completeRegistration,   *)
(*                            startPhoneChange, verifyPhoneChange, purge   *)
(*   server/storage/user.ts   deleteAccount                                *)
(*   server/http/auth.ts, account.ts, admin.ts    requests and sessions    *)
(*                                                                         *)
(* A browser has one session and one request at a time; two tabs are two   *)
(* browsers.  An action is what a request does between two awaits that     *)
(* others can come between; "checking" is inside the transaction that has  *)
(* locked the row of the code.  Timestamps are not modelled: a code and a  *)
(* pending registration expire, and the resend lock passes, at any time,   *)
(* that is, an attempt that would succeed may always be refused.           *)
(***************************************************************************)
EXTENDS Naturals

CONSTANTS
    Browsers,
    Phones, NoPhone,
    Users, NoUser,
    MaxAttempts,    \* OTP_MAX_ATTEMPTS
    MaxCodes        \* bound of the model: codes that are sent

ASSUME AccountsAssumption ==
    /\ NoPhone \notin Phones /\ NoUser \notin Users
    /\ MaxAttempts \in Nat \ {0} /\ MaxCodes \in Nat

NoCode == 0
Codes == 1..MaxCodes

VARIABLES
    account,    \* users: the phone, and whether the row is deleted
    otp,        \* otp_requests, by phone
    change,     \* phone_change_requests, by user
    session,    \* userId and pendingPhone of each browser's session
    request,    \* the request of each browser, with what it has read
    sent,       \* codes sent so far
    wrong,      \* wrong guesses each code was compared with
    used,       \* times each code was accepted
    overlapped  \* users deleted while a request was starting a phone change

accountsVars == <<account, otp, change, session, request, sent, wrong, used, overlapped>>

NoRow == [code |-> NoCode, phone |-> NoPhone, attempts |-> 0, consumed |-> FALSE]
NoSession == [user |-> NoUser, phone |-> NoPhone]
Idle == [step |-> "idle", user |-> NoUser, phone |-> NoPhone, row |-> NoRow, right |-> FALSE]

Rows == [code : 0..MaxCodes, phone : Phones \cup {NoPhone}, attempts : 0..MaxAttempts,
         consumed : BOOLEAN]
People == [phone : Phones \cup {NoPhone}, state : {"none", "active", "deleted"}]
Sessions == [user : Users \cup {NoUser}, phone : Phones \cup {NoPhone}]
Steps == {"idle", "checking", "proven", "found", "insert", "raced", "login", "asking"}
Requests == [step : Steps, user : Users \cup {NoUser}, phone : Phones \cup {NoPhone},
             row : Rows, right : BOOLEAN]

AccountsTypeOK ==
    /\ account \in [Users -> People]
    /\ otp \in [Phones -> Rows] /\ change \in [Users -> Rows]
    /\ session \in [Browsers -> Sessions]
    /\ request \in [Browsers -> Requests]
    /\ sent \in 0..MaxCodes
    /\ wrong \in [Codes -> Nat] /\ used \in [Codes -> Nat]
    /\ overlapped \subseteq Users

AccountsInit ==
    /\ account = [u \in Users |-> [phone |-> NoPhone, state |-> "none"]]
    /\ otp = [p \in Phones |-> NoRow] /\ change = [u \in Users |-> NoRow]
    /\ session = [b \in Browsers |-> NoSession]
    /\ request = [b \in Browsers |-> Idle]
    /\ sent = 0
    /\ wrong = [c \in Codes |-> 0] /\ used = [c \in Codes |-> 0]
    /\ overlapped = {}

-----------------------------------------------------------------------------
(* Rows, codes and sessions.                                                *)

Active(u) == account[u].state = "active"

(* Rows of users with this phone; deletion takes the phone off a row.       *)
Holders(p) == {u \in Users : account[u].phone = p}

(* Mutant: the row is read without FOR UPDATE.                              *)
RowIsFreeMutant(p) == TRUE

RowIsFree(p) == \A b \in Browsers : request[b].step = "checking" => request[b].phone # p

Usable(row) == row.code # NoCode /\ ~row.consumed /\ row.attempts < MaxAttempts

FreshRow(p) == [code |-> sent + 1, phone |-> p, attempts |-> 0, consumed |-> FALSE]

Continues(b, step) == request' = [request EXCEPT ![b].step = step]
Finds(b, step, u) == request' = [request EXCEPT ![b].step = step, ![b].user = u]
Ends(b) == request' = [request EXCEPT ![b] = Idle]

(* A request keeps the user it acts for: the one whose account it found, or *)
(* the one of the session it loaded.                                        *)
Begins(b, step, p, u) ==
    /\ request[b] = Idle
    /\ request' = [request EXCEPT ![b] =
          [step |-> step, user |-> u, phone |-> p, row |-> NoRow, right |-> FALSE]]

-----------------------------------------------------------------------------
(* Codes for login and registration.                                        *)

(* The upsert replaces a code that is still good.                           *)
StartOtp(p) ==
    /\ sent < MaxCodes /\ RowIsFree(p)
    /\ otp' = [otp EXCEPT ![p] = FreshRow(p)]
    /\ sent' = sent + 1
    /\ UNCHANGED <<account, change, session, request, wrong, used, overlapped>>

PurgeExpired(p) ==
    /\ otp[p] # NoRow /\ RowIsFree(p)
    /\ otp' = [otp EXCEPT ![p] = NoRow]
    /\ UNCHANGED <<account, change, session, request, sent, wrong, used, overlapped>>

VerifyReads(b, p, right) ==
    /\ request[b] = Idle
    /\ RowIsFree(p) /\ Usable(otp[p])
    /\ request' = [request EXCEPT ![b] =
          [step |-> "checking", user |-> session[b].user, phone |-> p, row |-> otp[p], right |-> right]]
    /\ UNCHANGED <<account, otp, change, session, sent, wrong, used, overlapped>>

VerifyFails(b) ==
    LET p == request[b].phone IN
    /\ request[b].step = "checking" /\ ~request[b].right
    /\ otp' = [otp EXCEPT ![p].attempts = request[b].row.attempts + 1]
    /\ wrong' = [wrong EXCEPT ![request[b].row.code] = @ + 1]
    /\ Ends(b)
    /\ UNCHANGED <<account, change, session, sent, used, overlapped>>

(* The row of the phone may be the one of a deleted account.                *)
VerifySucceeds(b) ==
    LET p == request[b].phone IN
    /\ request[b].step = "checking" /\ request[b].right
    /\ otp' = [otp EXCEPT ![p].consumed = TRUE]
    /\ used' = [used EXCEPT ![request[b].row.code] = @ + 1]
    /\ IF Holders(p) = {}
       THEN Continues(b, "proven")
       ELSE \E u \in Holders(p) : Finds(b, "found", u)
    /\ UNCHANGED <<account, change, session, sent, wrong, overlapped>>

(* pendingPhone is saved with the rest of the session that was loaded.      *)
PendingIsSaved(b) ==
    /\ request[b].step = "proven"
    /\ session' = [session EXCEPT ![b] = [user |-> request[b].user, phone |-> request[b].phone]]
    /\ Ends(b)
    /\ UNCHANGED <<account, otp, change, sent, wrong, used, overlapped>>

(* getUser after the transaction: a deleted account ends in an error.       *)
UserIsRead(b) ==
    /\ request[b].step = "found"
    /\ IF Active(request[b].user) THEN Continues(b, "login") ELSE Ends(b)
    /\ UNCHANGED <<account, otp, change, session, sent, wrong, used, overlapped>>

SessionIsRegenerated(b) ==
    /\ request[b].step = "login"
    /\ session' = [session EXCEPT ![b] = [user |-> request[b].user, phone |-> NoPhone]]
    /\ Ends(b)
    /\ UNCHANGED <<account, otp, change, sent, wrong, used, overlapped>>

-----------------------------------------------------------------------------
(* Registration.                                                            *)

RegisterComplete(b) ==
    LET p == session[b].phone IN
    /\ p # NoPhone
    /\ IF Holders(p) = {}
       THEN Begins(b, "insert", p, session[b].user)
       ELSE \E u \in Holders(p) : Begins(b, "login", p, u)
    /\ UNCHANGED <<account, otp, change, session, sent, wrong, used, overlapped>>

(* Mutant: the boot could not create the partial unique index.              *)
PhoneIsTakenMutant(p) == FALSE

(* idx_users_phone_active.                                                  *)
PhoneIsTaken(p) == \E u \in Holders(p) : Active(u)

InsertUser(b) ==
    /\ request[b].step = "insert"
    /\ ~PhoneIsTaken(request[b].phone)
    /\ \E u \in Users :
          /\ account[u].state = "none"
          /\ account' = [account EXCEPT ![u] = [phone |-> request[b].phone, state |-> "active"]]
          /\ Finds(b, "found", u)
    /\ UNCHANGED <<otp, change, session, sent, wrong, used, overlapped>>

InsertConflicts(b) ==
    /\ request[b].step = "insert"
    /\ PhoneIsTaken(request[b].phone)
    /\ Continues(b, "raced")
    /\ UNCHANGED <<account, otp, change, session, sent, wrong, used, overlapped>>

(* getUserByPhone: the winner may be gone, which is an error.               *)
WinnerIsRead(b) ==
    /\ request[b].step = "raced"
    /\ IF PhoneIsTaken(request[b].phone)
       THEN \E u \in Holders(request[b].phone) :
               /\ Active(u)
               /\ Finds(b, "login", u)
       ELSE Ends(b)
    /\ UNCHANGED <<account, otp, change, session, sent, wrong, used, overlapped>>

-----------------------------------------------------------------------------
(* Changing the phone.                                                      *)

(* Mutant: a session that outlived its account may start a change.          *)
MayAskMutant(u, p) == u # NoUser /\ account[u].phone # p /\ Holders(p) = {}

MayAsk(u, p) == u # NoUser /\ Active(u) /\ account[u].phone # p /\ Holders(p) = {}

StartPhoneChange(b, p) ==
    /\ MayAsk(session[b].user, p)
    /\ Begins(b, "asking", p, session[b].user)
    /\ UNCHANGED <<account, otp, change, session, sent, wrong, used, overlapped>>

ChangeIsAsked(b) ==
    /\ request[b].step = "asking" /\ sent < MaxCodes
    /\ change' = [change EXCEPT ![request[b].user] = FreshRow(request[b].phone)]
    /\ sent' = sent + 1
    /\ Ends(b)
    /\ UNCHANGED <<account, otp, session, wrong, used, overlapped>>

PurgeChange(u) ==
    /\ change[u] # NoRow
    /\ change' = [change EXCEPT ![u] = NoRow]
    /\ UNCHANGED <<account, otp, session, request, sent, wrong, used, overlapped>>

(* One transaction, with the row of the request locked.                     *)
ChangeFails(b) ==
    LET u == session[b].user IN
    /\ request[b] = Idle
    /\ u # NoUser /\ Usable(change[u])
    /\ change' = [change EXCEPT ![u].attempts = @ + 1]
    /\ wrong' = [wrong EXCEPT ![change[u].code] = @ + 1]
    /\ UNCHANGED <<account, otp, session, request, sent, used, overlapped>>

(* The number may have been taken since; the account is not looked at.      *)
ChangeSucceeds(b) ==
    LET u == session[b].user
        p == change[u].phone
    IN
    /\ request[b] = Idle
    /\ u # NoUser /\ Usable(change[u])
    /\ Holders(p) \subseteq {u}
    /\ change' = [change EXCEPT ![u].consumed = TRUE]
    /\ used' = [used EXCEPT ![change[u].code] = @ + 1]
    /\ account' = [account EXCEPT ![u].phone = p]
    /\ UNCHANGED <<otp, session, request, sent, wrong, overlapped>>

-----------------------------------------------------------------------------
(* The end of an account and of a session.                                  *)

(* One transaction, asked for by the rider or by an administrator; it waits *)
(* for a verification that has the row of its phone locked.                 *)
DeleteAccount(u) ==
    LET p == account[u].phone IN
    /\ Active(u) /\ RowIsFree(p)
    /\ account' = [account EXCEPT ![u] = [phone |-> NoPhone, state |-> "deleted"]]
    /\ change' = [change EXCEPT ![u] = NoRow]
    /\ otp' = [otp EXCEPT ![p] = NoRow]
    /\ session' = [b \in Browsers |-> IF session[b].user = u THEN NoSession ELSE session[b]]
    /\ overlapped' =
          IF \E b \in Browsers : request[b].step = "asking" /\ request[b].user = u
          THEN overlapped \cup {u} ELSE overlapped
    /\ UNCHANGED <<request, sent, wrong, used>>

Logout(b) ==
    /\ request[b] = Idle /\ session[b] # NoSession
    /\ session' = [session EXCEPT ![b] = NoSession]
    /\ UNCHANGED <<account, otp, change, request, sent, wrong, used, overlapped>>

(* GET /api/users/current drops the id of an account that is gone.          *)
CurrentUser(b) ==
    /\ request[b] = Idle
    /\ session[b].user # NoUser /\ ~Active(session[b].user)
    /\ session' = [session EXCEPT ![b].user = NoUser]
    /\ UNCHANGED <<account, otp, change, request, sent, wrong, used, overlapped>>

(* The process dies, or the session store cannot be written.                *)
RequestDies(b) ==
    /\ request[b] # Idle
    /\ Ends(b)
    /\ UNCHANGED <<account, otp, change, session, sent, wrong, used, overlapped>>

BrowserActs(b) ==
    \/ \E p \in Phones, right \in BOOLEAN : VerifyReads(b, p, right)
    \/ VerifyFails(b) \/ VerifySucceeds(b) \/ PendingIsSaved(b) \/ UserIsRead(b)
    \/ SessionIsRegenerated(b) \/ RegisterComplete(b) \/ InsertUser(b) \/ InsertConflicts(b)
    \/ WinnerIsRead(b) \/ ChangeIsAsked(b) \/ ChangeFails(b) \/ ChangeSucceeds(b)
    \/ (\E p \in Phones : StartPhoneChange(b, p))
    \/ Logout(b) \/ CurrentUser(b) \/ RequestDies(b)

AccountsNext ==
    \/ \E b \in Browsers : BrowserActs(b)
    \/ \E p \in Phones : StartOtp(p) \/ PurgeExpired(p)
    \/ \E u \in Users : PurgeChange(u) \/ DeleteAccount(u)

AccountsSpec == AccountsInit /\ [][AccountsNext]_accountsVars

-----------------------------------------------------------------------------
(* Properties.                                                              *)

(* Two registrations, or a registration and a change of phone, that race    *)
(* for a number leave it to one account.                                    *)
OneAccountPerPhone ==
    \A u, v \in Users :
        (Active(u) /\ Active(v) /\ account[u].phone = account[v].phone) => u = v

(* A code is accepted once and compared with at most MaxAttempts wrong      *)
(* guesses, however many verifications of the phone run at once and         *)
(* whatever new codes are sent between them.                                *)
CodesAreCounted ==
    \A c \in Codes : used[c] <= 1 /\ wrong[c] <= MaxAttempts

(* A deleted account does not get a phone again, not even through a session *)
(* that outlives it, unless the change of its phone was being started when  *)
(* it was deleted.                                                          *)
DeletedStaysErased ==
    \A u \in Users \ overlapped :
        account[u].state = "deleted" => account[u].phone = NoPhone
=============================================================================
