---------------------------- MODULE AccountsProofs ----------------------------
(***************************************************************************)
(* Theorems about Accounts for any number of browsers, phones, accounts    *)
(* and codes.                                                              *)
(***************************************************************************)
EXTENDS Accounts, TLAPS

(* While nobody was starting a change of phone for it, a deleted account    *)
(* has neither a phone nor a pending change of it, and cannot ask for one.  *)
ErasedForGood ==
    \A u \in Users \ overlapped :
        account[u].state = "deleted" =>
            /\ account[u].phone = NoPhone
            /\ change[u] = NoRow
            /\ \A b \in Browsers : ~(request[b].step = "asking" /\ request[b].user = u)

(* A row counts what happened to its code.                                  *)
RowCounts(row) ==
    row.code # NoCode =>
        /\ row.code <= sent
        /\ wrong[row.code] = row.attempts
        /\ used[row.code] = IF row.consumed THEN 1 ELSE 0

(* Each code is in one row, and the row a verification has read is still    *)
(* what the table holds, because it has the row locked.                     *)
Ledger ==
    /\ \A p \in Phones : RowCounts(otp[p])
    /\ \A u \in Users : RowCounts(change[u])
    /\ \A p, q \in Phones : otp[p].code = otp[q].code /\ otp[p].code # NoCode => p = q
    /\ \A u, v \in Users : change[u].code = change[v].code /\ change[u].code # NoCode => u = v
    /\ \A p \in Phones, u \in Users : otp[p].code = change[u].code => otp[p].code = NoCode
    /\ \A c \in Codes : c > sent => used[c] = 0 /\ wrong[c] = 0

LockedRows ==
    /\ \A b \in Browsers : request[b].step = "checking" =>
          /\ request[b].phone \in Phones
          /\ request[b].row = otp[request[b].phone]
          /\ Usable(request[b].row)
    /\ \A a, b \in Browsers :
          request[a].step = "checking" /\ request[b].step = "checking"
              /\ request[a].phone = request[b].phone => a = b

AccountsInv ==
    /\ AccountsTypeOK
    /\ OneAccountPerPhone
    /\ ErasedForGood
    /\ CodesAreCounted /\ Ledger /\ LockedRows

LEMMA AccountsInitInv == AccountsInit => AccountsInv
BY AccountsAssumption
DEF AccountsInit, AccountsInv, AccountsTypeOK, OneAccountPerPhone, Active, ErasedForGood,
    CodesAreCounted, Ledger, LockedRows, RowCounts, Rows, NoRow, NoSession, Idle,
    NoCode, Codes, People, Sessions, Steps, Requests

(* What the actions put into the variables has its type.                    *)
LEMMA Typed ==
    /\ NoRow \in Rows /\ Idle \in Requests /\ NoSession \in Sessions
    /\ \A step \in Steps, p \in Phones \cup {NoPhone}, u \in Users \cup {NoUser},
          row \in Rows, right \in BOOLEAN :
          [step |-> step, user |-> u, phone |-> p, row |-> row, right |-> right] \in Requests
    /\ \A p \in Phones \cup {NoPhone}, u \in Users \cup {NoUser} :
          [user |-> u, phone |-> p] \in Sessions
    /\ \A x \in Requests : /\ x.step \in Steps /\ x.user \in Users \cup {NoUser}
                           /\ x.phone \in Phones \cup {NoPhone}
                           /\ x.row \in Rows /\ x.right \in BOOLEAN
    /\ \A x \in Sessions : x.user \in Users \cup {NoUser} /\ x.phone \in Phones \cup {NoPhone}
    /\ \A x \in People : x.phone \in Phones \cup {NoPhone}
<1>1. NoRow \in Rows
  BY AccountsAssumption DEF Rows, NoRow, NoCode
<1>2. Idle \in Requests
  BY <1>1 DEF Requests, Steps, Idle
<1>3. NoSession \in Sessions
  BY DEF Sessions, NoSession
<1> QED BY <1>1, <1>2, <1>3 DEF Requests, Sessions, People

(* A request moves on and the others stay.                                  *)
Moves(b, step, u, p, row, right) ==
    /\ request' \in [Browsers -> Requests]
    /\ \A a \in Browsers \ {b} : request'[a] = request[a]
    /\ request'[b].step = step /\ request'[b].user = u /\ request'[b].phone = p
    /\ request'[b].row = row /\ request'[b].right = right

LEMMA RequestMoves ==
    ASSUME AccountsTypeOK, NEW b \in Browsers, NEW step \in Steps
    PROVE  /\ Continues(b, step) => Moves(b, step, request[b].user, request[b].phone,
                                          request[b].row, request[b].right)
           /\ \A u \in Users : Finds(b, step, u) =>
                 Moves(b, step, u, request[b].phone, request[b].row, request[b].right)
           /\ \A u \in Users \cup {NoUser}, p \in Phones \cup {NoPhone} :
                 Begins(b, step, p, u) => Moves(b, step, u, p, NoRow, FALSE)
           /\ Ends(b) => Moves(b, "idle", NoUser, NoPhone, NoRow, FALSE)
<1> DEFINE old == request[b]
<1>1. old \in Requests
  BY DEF AccountsTypeOK
<1>2. ASSUME NEW u \in Users
      PROVE  [old EXCEPT !.step = step, !.user = u] \in Requests
  BY <1>1 DEF Requests
<1>3. [old EXCEPT !.step = step] \in Requests
  BY <1>1 DEF Requests
<1>4. ASSUME Continues(b, step)
      PROVE  Moves(b, step, old.user, old.phone, old.row, old.right)
  <2>1. request' = [request EXCEPT ![b] = [old EXCEPT !.step = step]]
    BY <1>4 DEF Continues
  <2> HIDE DEF old
  <2>2. request'[b] = [old EXCEPT !.step = step]
    BY <2>1 DEF AccountsTypeOK
  <2>3. request' \in [Browsers -> Requests] /\ \A a \in Browsers \ {b} : request'[a] = request[a]
    BY <1>3, <2>1 DEF AccountsTypeOK
  <2> QED BY <1>1, <2>2, <2>3 DEF Moves, Requests
<1>5. ASSUME NEW u \in Users, Finds(b, step, u)
      PROVE  Moves(b, step, u, old.phone, old.row, old.right)
  <2>1. request' = [request EXCEPT ![b] = [old EXCEPT !.step = step, !.user = u]]
    BY <1>5 DEF Finds
  <2> HIDE DEF old
  <2>2. request'[b] = [old EXCEPT !.step = step, !.user = u]
    BY <2>1 DEF AccountsTypeOK
  <2>3. request' \in [Browsers -> Requests] /\ \A a \in Browsers \ {b} : request'[a] = request[a]
    BY <1>2, <2>1 DEF AccountsTypeOK
  <2> QED BY <1>1, <2>2, <2>3 DEF Moves, Requests
<1>6. ASSUME NEW u \in Users \cup {NoUser}, NEW p \in Phones \cup {NoPhone},
             Begins(b, step, p, u)
      PROVE  Moves(b, step, u, p, NoRow, FALSE)
  BY <1>6, Typed DEF Begins, Moves, AccountsTypeOK
<1>7. ASSUME Ends(b)
      PROVE  Moves(b, "idle", NoUser, NoPhone, NoRow, FALSE)
  <2>1. request' \in [Browsers -> Requests] /\ request'[b] = Idle
    BY <1>7, Typed DEF Ends, AccountsTypeOK
  <2>2. \A a \in Browsers \ {b} : request'[a] = request[a]
    BY <1>7 DEF Ends, AccountsTypeOK
  <2> QED BY <2>1, <2>2 DEF Moves, Idle
<1> QED BY <1>4, <1>5, <1>6, <1>7

(* No step but VerifyReads locks a row and none but StartPhoneChange asks.   *)
Quiet(b) ==
    /\ request' \in [Browsers -> Requests]
    /\ \A a \in Browsers \ {b} : request'[a] = request[a]
    /\ request'[b].step \notin {"checking", "asking"}

LEMMA QuietSteps ==
    ASSUME AccountsTypeOK, NEW b \in Browsers,
           \/ VerifyFails(b) \/ VerifySucceeds(b) \/ PendingIsSaved(b) \/ UserIsRead(b)
           \/ SessionIsRegenerated(b) \/ RegisterComplete(b) \/ InsertUser(b)
           \/ InsertConflicts(b) \/ WinnerIsRead(b) \/ ChangeIsAsked(b) \/ RequestDies(b)
    PROVE  Quiet(b)
<1>1. CASE VerifyFails(b)
  BY <1>1, Typed, RequestMoves DEF VerifyFails, Usable, Quiet, Moves, Steps, AccountsTypeOK
<1>2. CASE VerifySucceeds(b)
  BY <1>2, Typed, RequestMoves DEF VerifySucceeds, Holders, Quiet, Moves, Steps, AccountsTypeOK
<1>3. CASE PendingIsSaved(b)
  BY <1>3, Typed, RequestMoves DEF PendingIsSaved, Quiet, Moves, Steps, AccountsTypeOK
<1>4. CASE UserIsRead(b)
  BY <1>4, Typed, RequestMoves DEF UserIsRead, Quiet, Moves, Steps, AccountsTypeOK
<1>5. CASE SessionIsRegenerated(b)
  BY <1>5, Typed, RequestMoves DEF SessionIsRegenerated, Quiet, Moves, Steps, AccountsTypeOK
<1>6. CASE RegisterComplete(b)
  <2>1. session[b].user \in Users \cup {NoUser} /\ session[b].phone \in Phones \cup {NoPhone}
    BY Typed DEF AccountsTypeOK
  <2>2. CASE Begins(b, "insert", session[b].phone, session[b].user)
    BY ZenonT(60), <2>1, <2>2, RequestMoves DEF Quiet, Moves, Steps
  <2>3. CASE \E u \in Holders(session[b].phone) : Begins(b, "login", session[b].phone, u)
    BY <2>1, <2>3, RequestMoves DEF Quiet, Moves, Steps, Holders
  <2> QED BY <1>6, <2>2, <2>3 DEF RegisterComplete
<1>7. CASE InsertUser(b)
  BY <1>7, Typed, RequestMoves DEF InsertUser, PhoneIsTaken, Holders, Active, Quiet, Moves, Steps, AccountsTypeOK
<1>8. CASE InsertConflicts(b)
  BY <1>8, Typed, RequestMoves DEF InsertConflicts, Quiet, Moves, Steps, AccountsTypeOK
<1>9. CASE WinnerIsRead(b)
  BY <1>9, Typed, RequestMoves DEF WinnerIsRead, Holders, Quiet, Moves, Steps, AccountsTypeOK
<1>10. CASE ChangeIsAsked(b)
  BY <1>10, Typed, RequestMoves DEF ChangeIsAsked, FreshRow, Quiet, Moves, Steps, AccountsTypeOK
<1>11. CASE RequestDies(b)
  BY <1>11, Typed, RequestMoves DEF RequestDies, Quiet, Moves, Steps, AccountsTypeOK
<1> QED BY <1>1, <1>2, <1>3, <1>4, <1>5, <1>6, <1>7, <1>8, <1>9, <1>10, <1>11

(* Rows that are updated keep their type and their other fields.             *)
LEMMA RowUpdates ==
    /\ \A row \in Rows, n \in 0..MaxAttempts :
          [row EXCEPT !.attempts = n] \in Rows
    /\ \A row \in Rows : [row EXCEPT !.consumed = TRUE] \in Rows
    /\ \A p \in Phones : sent \in 0..MaxCodes /\ sent < MaxCodes => FreshRow(p) \in Rows
    /\ \A x \in Sessions : [x EXCEPT !.user = NoUser] \in Sessions
    /\ \A x \in People, p \in Phones \cup {NoPhone} : [x EXCEPT !.phone = p] \in People
<1>1. ASSUME NEW row \in Rows, NEW n \in 0..MaxAttempts
      PROVE  [row EXCEPT !.attempts = n] \in Rows
  BY DEF Rows
<1>2. ASSUME NEW row \in Rows
      PROVE  [row EXCEPT !.consumed = TRUE] \in Rows
  BY DEF Rows
<1>3. ASSUME NEW p \in Phones, sent \in 0..MaxCodes, sent < MaxCodes
      PROVE  FreshRow(p) \in Rows
  <2>1. sent + 1 \in 0..MaxCodes /\ 0 \in 0..MaxAttempts
    BY <1>3, AccountsAssumption
  <2> QED BY <2>1 DEF Rows, FreshRow
<1>4. ASSUME NEW x \in Sessions
      PROVE  [x EXCEPT !.user = NoUser] \in Sessions
  BY DEF Sessions
<1>5. ASSUME NEW x \in People, NEW p \in Phones \cup {NoPhone}
      PROVE  [x EXCEPT !.phone = p] \in People
  BY DEF People
<1> QED BY <1>1, <1>2, <1>3, <1>4, <1>5

(* Types.                                                                   *)
LEMMA AccountsTypeStep ==
    ASSUME AccountsInv, [AccountsNext]_accountsVars
    PROVE  AccountsTypeOK'
<1>1. ASSUME NEW b \in Browsers, NEW p \in Phones, NEW right \in BOOLEAN, VerifyReads(b,
        p, right) PROVE AccountsTypeOK'
  BY <1>1, AccountsAssumption, Typed, RequestMoves DEF VerifyReads, RowIsFree, Usable,
        AccountsInv, AccountsTypeOK, Moves, Codes, Steps, NoCode, LockedRows
<1>2. ASSUME NEW b \in Browsers, VerifyFails(b) PROVE AccountsTypeOK'
  <2> DEFINE p == request[b].phone
  <2>1. /\ p \in Phones /\ request[b].row = otp[p] /\ otp[p] \in Rows
        /\ otp[p].attempts + 1 \in 0..MaxAttempts /\ otp[p].code \in Codes
    BY <1>2, AccountsAssumption
    DEF VerifyFails, AccountsInv, LockedRows, Usable, AccountsTypeOK, Rows, NoCode, Codes
  <2>2. otp' = [otp EXCEPT ![p] = [otp[p] EXCEPT !.attempts = otp[p].attempts + 1]]
    BY <1>2, <2>1 DEF VerifyFails
  <2>3. otp' \in [Phones -> Rows]
    BY <2>1, <2>2, RowUpdates DEF AccountsInv, AccountsTypeOK
  <2>4. wrong' \in [Codes -> Nat]
    BY <1>2, <2>1 DEF VerifyFails, AccountsInv, AccountsTypeOK
  <2>5. request' \in [Browsers -> Requests]
    BY <1>2, QuietSteps DEF Quiet, AccountsInv
  <2> QED BY <1>2, <2>3, <2>4, <2>5 DEF VerifyFails, AccountsInv, AccountsTypeOK
<1>3. ASSUME NEW b \in Browsers, VerifySucceeds(b) PROVE AccountsTypeOK'
  <2> DEFINE p == request[b].phone
  <2>1. p \in Phones /\ request[b].row = otp[p] /\ otp[p] \in Rows /\ otp[p].code \in Codes
    BY <1>3, AccountsAssumption
    DEF VerifySucceeds, AccountsInv, LockedRows, Usable, AccountsTypeOK, Rows, NoCode, Codes
  <2>2. otp' = [otp EXCEPT ![p] = [otp[p] EXCEPT !.consumed = TRUE]]
    BY <1>3, <2>1 DEF VerifySucceeds
  <2>3. otp' \in [Phones -> Rows]
    BY <2>1, <2>2, RowUpdates DEF AccountsInv, AccountsTypeOK
  <2>4. used' \in [Codes -> Nat]
    BY <1>3, <2>1 DEF VerifySucceeds, AccountsInv, AccountsTypeOK
  <2>5. request' \in [Browsers -> Requests]
    BY <1>3, QuietSteps DEF Quiet, AccountsInv
  <2> QED BY <1>3, <2>3, <2>4, <2>5 DEF VerifySucceeds, AccountsInv, AccountsTypeOK
<1>4. ASSUME NEW b \in Browsers, PendingIsSaved(b) PROVE AccountsTypeOK'
  BY ZenonT(60), <1>4, AccountsAssumption, Typed, RequestMoves DEF PendingIsSaved, AccountsInv,
        AccountsTypeOK, Moves, Codes, Steps, NoCode, LockedRows
<1>5. ASSUME NEW b \in Browsers, UserIsRead(b) PROVE AccountsTypeOK'
  BY <1>5, AccountsAssumption, Typed, RequestMoves DEF UserIsRead, AccountsInv,
        AccountsTypeOK, Moves, Codes, Steps, NoCode, LockedRows
<1>6. ASSUME NEW b \in Browsers, SessionIsRegenerated(b) PROVE AccountsTypeOK'
  BY ZenonT(60), <1>6, AccountsAssumption, Typed, RequestMoves DEF SessionIsRegenerated, AccountsInv,
        AccountsTypeOK, Moves, Codes, Steps, NoCode, LockedRows
<1>7. ASSUME NEW b \in Browsers, RegisterComplete(b) PROVE AccountsTypeOK'
  BY ZenonT(60), <1>7, AccountsAssumption, Typed, RequestMoves DEF RegisterComplete, Holders,
        AccountsInv, AccountsTypeOK, Moves, Codes, Steps, NoCode, LockedRows
<1>8. ASSUME NEW b \in Browsers, InsertUser(b) PROVE AccountsTypeOK'
  <2>1. [phone |-> request[b].phone, state |-> "active"] \in People
    BY Typed DEF AccountsInv, AccountsTypeOK, People
  <2>2. account' \in [Users -> People]
    BY <1>8, <2>1 DEF InsertUser, AccountsInv, AccountsTypeOK
  <2>3. request' \in [Browsers -> Requests]
    BY <1>8, QuietSteps DEF Quiet, AccountsInv
  <2> QED BY <1>8, <2>2, <2>3 DEF InsertUser, AccountsInv, AccountsTypeOK
<1>9. ASSUME NEW b \in Browsers, InsertConflicts(b) PROVE AccountsTypeOK'
  BY <1>9, AccountsAssumption, Typed, RequestMoves DEF InsertConflicts, AccountsInv,
        AccountsTypeOK, Moves, Codes, Steps, NoCode, LockedRows
<1>10. ASSUME NEW b \in Browsers, WinnerIsRead(b) PROVE AccountsTypeOK'
  BY <1>10, AccountsAssumption, Typed, RequestMoves DEF WinnerIsRead, Holders,
        AccountsInv, AccountsTypeOK, Moves, Codes, Steps, NoCode, LockedRows
<1>11. ASSUME NEW b \in Browsers, ChangeIsAsked(b) PROVE AccountsTypeOK'
  <2>1. FreshRow(request[b].phone) \in Rows
    BY <1>11, Typed, AccountsAssumption
    DEF ChangeIsAsked, AccountsInv, AccountsTypeOK, FreshRow, Rows
  <2>2. change' \in [Users -> Rows]
    BY <1>11, <2>1 DEF ChangeIsAsked, AccountsInv, AccountsTypeOK
  <2>4. sent' \in 0..MaxCodes
    BY <1>11, AccountsAssumption DEF ChangeIsAsked, AccountsInv, AccountsTypeOK
  <2>3. request' \in [Browsers -> Requests]
    BY <1>11, QuietSteps DEF Quiet, AccountsInv
  <2> QED BY <1>11, <2>2, <2>3, <2>4 DEF ChangeIsAsked, AccountsInv, AccountsTypeOK
<1>12. ASSUME NEW b \in Browsers, ChangeFails(b) PROVE AccountsTypeOK'
  <2> DEFINE u == session[b].user
  <2>1. /\ u \in Users /\ change[u] \in Rows
        /\ change[u].attempts + 1 \in 0..MaxAttempts /\ change[u].code \in Codes
    BY <1>12, Typed, AccountsAssumption
    DEF ChangeFails, AccountsInv, Usable, AccountsTypeOK, Rows, NoCode, Codes
  <2>2. change' = [change EXCEPT ![u] = [change[u] EXCEPT !.attempts = change[u].attempts + 1]]
    BY <1>12 DEF ChangeFails
  <2>3. change' \in [Users -> Rows]
    BY <2>1, <2>2, RowUpdates DEF AccountsInv, AccountsTypeOK
  <2>4. wrong' \in [Codes -> Nat]
    BY <1>12, <2>1 DEF ChangeFails, AccountsInv, AccountsTypeOK
  <2> QED BY <1>12, <2>3, <2>4 DEF ChangeFails, AccountsInv, AccountsTypeOK
<1>13. ASSUME NEW b \in Browsers, ChangeSucceeds(b) PROVE AccountsTypeOK'
  <2> DEFINE u == session[b].user
  <2>1. /\ u \in Users /\ change[u] \in Rows
        /\ change[u].attempts + 1 \in 0..MaxAttempts /\ change[u].code \in Codes
    BY <1>13, Typed, AccountsAssumption
    DEF ChangeSucceeds, AccountsInv, Usable, AccountsTypeOK, Rows, NoCode, Codes
  <2>2. change' = [change EXCEPT ![u] = [change[u] EXCEPT !.consumed = TRUE]]
    BY <1>13 DEF ChangeSucceeds
  <2>3. change' \in [Users -> Rows]
    BY <2>1, <2>2, RowUpdates DEF AccountsInv, AccountsTypeOK
  <2>4. used' \in [Codes -> Nat]
    BY <1>13, <2>1 DEF ChangeSucceeds, AccountsInv, AccountsTypeOK
  <2>5. account' = [account EXCEPT ![u] = [account[u] EXCEPT !.phone = change[u].phone]]
    BY <1>13 DEF ChangeSucceeds
  <2>6. change[u].phone \in Phones \cup {NoPhone} /\ account[u] \in People
    BY <2>1 DEF Rows, AccountsInv, AccountsTypeOK
  <2>7. [account[u] EXCEPT !.phone = change[u].phone] \in People
    BY <2>6, RowUpdates
  <2> HIDE DEF u
  <2>8. account' \in [Users -> People]
    BY <2>5, <2>7 DEF AccountsInv, AccountsTypeOK
  <2> QED BY <1>13, <2>3, <2>4, <2>8 DEF ChangeSucceeds, AccountsInv, AccountsTypeOK
<1>14. ASSUME NEW b \in Browsers, NEW p \in Phones, StartPhoneChange(b,
        p) PROVE AccountsTypeOK'
  BY <1>14, AccountsAssumption, Typed, RequestMoves DEF StartPhoneChange, MayAsk, Active,
        AccountsInv, AccountsTypeOK, Moves, Codes, Steps, NoCode, LockedRows
<1>15. ASSUME NEW b \in Browsers, Logout(b) PROVE AccountsTypeOK'
  BY <1>15, AccountsAssumption, Typed, RequestMoves DEF Logout, AccountsInv,
        AccountsTypeOK, Moves, Codes, Steps, NoCode, LockedRows
<1>16. ASSUME NEW b \in Browsers, CurrentUser(b) PROVE AccountsTypeOK'
  <2>1. session' = [session EXCEPT ![b] = [session[b] EXCEPT !.user = NoUser]]
    BY <1>16 DEF CurrentUser
  <2>2. session' \in [Browsers -> Sessions]
    BY <2>1, RowUpdates DEF AccountsInv, AccountsTypeOK
  <2> QED BY <1>16, <2>2 DEF CurrentUser, AccountsInv, AccountsTypeOK
<1>17. ASSUME NEW b \in Browsers, RequestDies(b) PROVE AccountsTypeOK'
  BY <1>17, AccountsAssumption, Typed, RequestMoves DEF RequestDies, AccountsInv,
        AccountsTypeOK, Moves, Codes, Steps, NoCode, LockedRows
<1>18. ASSUME NEW p \in Phones, StartOtp(p) PROVE AccountsTypeOK'
  <2>1. otp' \in [Phones -> Rows] /\ sent' \in 0..MaxCodes
    BY <1>18, RowUpdates, AccountsAssumption DEF StartOtp, AccountsInv, AccountsTypeOK
  <2> QED BY <1>18, <2>1 DEF StartOtp, AccountsInv, AccountsTypeOK
<1>19. ASSUME NEW p \in Phones, PurgeExpired(p) PROVE AccountsTypeOK'
  BY <1>19, AccountsAssumption, Typed, RequestMoves DEF PurgeExpired, RowIsFree,
        AccountsInv, AccountsTypeOK, Moves, Codes, Steps, NoCode, LockedRows
<1>20. ASSUME NEW u \in Users, PurgeChange(u) PROVE AccountsTypeOK'
  BY <1>20, AccountsAssumption, Typed, RequestMoves DEF PurgeChange, AccountsInv,
        AccountsTypeOK, Moves, Codes, Steps, NoCode, LockedRows
<1>21. ASSUME NEW u \in Users, DeleteAccount(u) PROVE AccountsTypeOK'
  <2>1. [phone |-> NoPhone, state |-> "deleted"] \in People
    BY DEF People
  <2>2. account' \in [Users -> People]
    BY <1>21, <2>1 DEF DeleteAccount, AccountsInv, AccountsTypeOK
  <2>3. change' \in [Users -> Rows] /\ otp' \in [Phones -> Rows]
    BY <1>21, Typed DEF DeleteAccount, AccountsInv, AccountsTypeOK
  <2>4. session' \in [Browsers -> Sessions]
    BY <1>21, Typed DEF DeleteAccount, AccountsInv, AccountsTypeOK
  <2> QED BY <1>21, <2>2, <2>3, <2>4 DEF DeleteAccount, AccountsInv, AccountsTypeOK
<1>22. CASE UNCHANGED accountsVars
  BY <1>22, AccountsAssumption, Typed, RequestMoves DEF accountsVars, AccountsInv,
        AccountsTypeOK, Moves, Codes, Steps, NoCode, LockedRows
<1> QED BY <1>1, <1>2, <1>3, <1>4, <1>5, <1>6, <1>7, <1>8, <1>9, <1>10, <1>11, <1>12,
        <1>13, <1>14, <1>15, <1>16, <1>17, <1>18, <1>19, <1>20, <1>21,
        <1>22 DEF AccountsNext, BrowserActs

(* Only InsertUser and ChangeSucceeds give a row a phone.                   *)
LEMMA UniqueStep ==
    ASSUME AccountsInv, [AccountsNext]_accountsVars
    PROVE  OneAccountPerPhone'
<1>1. ASSUME NEW b \in Browsers, NEW p \in Phones, NEW right \in BOOLEAN, VerifyReads(b,
        p, right) PROVE OneAccountPerPhone'
  BY <1>1, AccountsAssumption DEF VerifyReads, RowIsFree, Usable, AccountsInv,
        AccountsTypeOK, OneAccountPerPhone, Active, Holders, PhoneIsTaken
<1>2. ASSUME NEW b \in Browsers, VerifyFails(b) PROVE OneAccountPerPhone'
  BY <1>2, AccountsAssumption DEF VerifyFails, Usable, AccountsInv, AccountsTypeOK,
        OneAccountPerPhone, Active, Holders, PhoneIsTaken
<1>3. ASSUME NEW b \in Browsers, VerifySucceeds(b) PROVE OneAccountPerPhone'
  BY <1>3, AccountsAssumption DEF VerifySucceeds, Holders, AccountsInv, AccountsTypeOK,
        OneAccountPerPhone, Active, Holders, PhoneIsTaken
<1>4. ASSUME NEW b \in Browsers, PendingIsSaved(b) PROVE OneAccountPerPhone'
  BY <1>4, AccountsAssumption DEF PendingIsSaved, AccountsInv, AccountsTypeOK,
        OneAccountPerPhone, Active, Holders, PhoneIsTaken
<1>5. ASSUME NEW b \in Browsers, UserIsRead(b) PROVE OneAccountPerPhone'
  BY <1>5, AccountsAssumption DEF UserIsRead, AccountsInv, AccountsTypeOK,
        OneAccountPerPhone, Active, Holders, PhoneIsTaken
<1>6. ASSUME NEW b \in Browsers, SessionIsRegenerated(b) PROVE OneAccountPerPhone'
  BY <1>6, AccountsAssumption DEF SessionIsRegenerated, AccountsInv, AccountsTypeOK,
        OneAccountPerPhone, Active, Holders, PhoneIsTaken
<1>7. ASSUME NEW b \in Browsers, RegisterComplete(b) PROVE OneAccountPerPhone'
  BY <1>7, AccountsAssumption DEF RegisterComplete, Holders, AccountsInv, AccountsTypeOK,
        OneAccountPerPhone, Active, Holders, PhoneIsTaken
<1>8. ASSUME NEW b \in Browsers, InsertUser(b) PROVE OneAccountPerPhone'
  BY <1>8, AccountsAssumption DEF InsertUser, PhoneIsTaken, Holders, Active, AccountsInv,
        AccountsTypeOK, OneAccountPerPhone, Active, Holders, PhoneIsTaken
<1>9. ASSUME NEW b \in Browsers, InsertConflicts(b) PROVE OneAccountPerPhone'
  BY <1>9, AccountsAssumption DEF InsertConflicts, AccountsInv, AccountsTypeOK,
        OneAccountPerPhone, Active, Holders, PhoneIsTaken
<1>10. ASSUME NEW b \in Browsers, WinnerIsRead(b) PROVE OneAccountPerPhone'
  BY <1>10, AccountsAssumption DEF WinnerIsRead, Holders, AccountsInv, AccountsTypeOK,
        OneAccountPerPhone, Active, Holders, PhoneIsTaken
<1>11. ASSUME NEW b \in Browsers, ChangeIsAsked(b) PROVE OneAccountPerPhone'
  BY <1>11, AccountsAssumption DEF ChangeIsAsked, FreshRow, AccountsInv, AccountsTypeOK,
        OneAccountPerPhone, Active, Holders, PhoneIsTaken
<1>12. ASSUME NEW b \in Browsers, ChangeFails(b) PROVE OneAccountPerPhone'
  BY <1>12, AccountsAssumption DEF ChangeFails, Usable, AccountsInv, AccountsTypeOK,
        OneAccountPerPhone, Active, Holders, PhoneIsTaken
<1>13. ASSUME NEW b \in Browsers, ChangeSucceeds(b) PROVE OneAccountPerPhone'
  BY <1>13, AccountsAssumption DEF ChangeSucceeds, Usable, Holders, AccountsInv,
        AccountsTypeOK, OneAccountPerPhone, Active, Holders, PhoneIsTaken
<1>14. ASSUME NEW b \in Browsers, NEW p \in Phones, StartPhoneChange(b,
        p) PROVE OneAccountPerPhone'
  BY <1>14, AccountsAssumption DEF StartPhoneChange, MayAsk, Active, AccountsInv,
        AccountsTypeOK, OneAccountPerPhone, Active, Holders, PhoneIsTaken
<1>15. ASSUME NEW b \in Browsers, Logout(b) PROVE OneAccountPerPhone'
  BY <1>15, AccountsAssumption DEF Logout, AccountsInv, AccountsTypeOK,
        OneAccountPerPhone, Active, Holders, PhoneIsTaken
<1>16. ASSUME NEW b \in Browsers, CurrentUser(b) PROVE OneAccountPerPhone'
  BY <1>16, AccountsAssumption DEF CurrentUser, AccountsInv, AccountsTypeOK,
        OneAccountPerPhone, Active, Holders, PhoneIsTaken
<1>17. ASSUME NEW b \in Browsers, RequestDies(b) PROVE OneAccountPerPhone'
  BY <1>17, AccountsAssumption DEF RequestDies, AccountsInv, AccountsTypeOK,
        OneAccountPerPhone, Active, Holders, PhoneIsTaken
<1>18. ASSUME NEW p \in Phones, StartOtp(p) PROVE OneAccountPerPhone'
  BY <1>18, AccountsAssumption DEF StartOtp, FreshRow, RowIsFree, AccountsInv,
        AccountsTypeOK, OneAccountPerPhone, Active, Holders, PhoneIsTaken
<1>19. ASSUME NEW p \in Phones, PurgeExpired(p) PROVE OneAccountPerPhone'
  BY <1>19, AccountsAssumption DEF PurgeExpired, RowIsFree, AccountsInv, AccountsTypeOK,
        OneAccountPerPhone, Active, Holders, PhoneIsTaken
<1>20. ASSUME NEW u \in Users, PurgeChange(u) PROVE OneAccountPerPhone'
  BY <1>20, AccountsAssumption DEF PurgeChange, AccountsInv, AccountsTypeOK,
        OneAccountPerPhone, Active, Holders, PhoneIsTaken
<1>21. ASSUME NEW u \in Users, DeleteAccount(u) PROVE OneAccountPerPhone'
  BY <1>21, AccountsAssumption DEF DeleteAccount, RowIsFree, Active, AccountsInv,
        AccountsTypeOK, OneAccountPerPhone, Active, Holders, PhoneIsTaken
<1>22. CASE UNCHANGED accountsVars
  BY <1>22, AccountsAssumption DEF accountsVars, AccountsInv, AccountsTypeOK,
        OneAccountPerPhone, Active, Holders, PhoneIsTaken
<1> QED BY <1>1, <1>2, <1>3, <1>4, <1>5, <1>6, <1>7, <1>8, <1>9, <1>10, <1>11, <1>12,
        <1>13, <1>14, <1>15, <1>16, <1>17, <1>18, <1>19, <1>20, <1>21,
        <1>22 DEF AccountsNext, BrowserActs

(* What a deletion takes off stays off.                                     *)
LEMMA ErasedStep ==
    ASSUME AccountsInv, [AccountsNext]_accountsVars
    PROVE  ErasedForGood'
<1>1. ASSUME NEW b \in Browsers, NEW p \in Phones, NEW right \in BOOLEAN, VerifyReads(b,
        p, right) PROVE ErasedForGood'
  BY <1>1, AccountsAssumption DEF VerifyReads, RowIsFree, Usable, Quiet, AccountsInv,
        AccountsTypeOK, ErasedForGood, Active, Idle, NoRow
<1>2. ASSUME NEW b \in Browsers, VerifyFails(b) PROVE ErasedForGood'
  <2>1. Quiet(b)
    BY <1>2, QuietSteps DEF AccountsInv
  <2> QED BY <1>2, <2>1, AccountsAssumption DEF VerifyFails, Usable, Quiet, AccountsInv,
        AccountsTypeOK, ErasedForGood, Active, Idle, NoRow
<1>3. ASSUME NEW b \in Browsers, VerifySucceeds(b) PROVE ErasedForGood'
  <2>1. Quiet(b)
    BY <1>3, QuietSteps DEF AccountsInv
  <2> QED BY <1>3, <2>1, AccountsAssumption DEF VerifySucceeds, Holders, Quiet,
        AccountsInv, AccountsTypeOK, ErasedForGood, Active, Idle, NoRow
<1>4. ASSUME NEW b \in Browsers, PendingIsSaved(b) PROVE ErasedForGood'
  <2>1. Quiet(b)
    BY <1>4, QuietSteps DEF AccountsInv
  <2> QED BY <1>4, <2>1, AccountsAssumption DEF PendingIsSaved, Quiet, AccountsInv,
        AccountsTypeOK, ErasedForGood, Active, Idle, NoRow
<1>5. ASSUME NEW b \in Browsers, UserIsRead(b) PROVE ErasedForGood'
  <2>1. Quiet(b)
    BY <1>5, QuietSteps DEF AccountsInv
  <2> QED BY <1>5, <2>1, AccountsAssumption DEF UserIsRead, Quiet, AccountsInv,
        AccountsTypeOK, ErasedForGood, Active, Idle, NoRow
<1>6. ASSUME NEW b \in Browsers, SessionIsRegenerated(b) PROVE ErasedForGood'
  <2>1. Quiet(b)
    BY <1>6, QuietSteps DEF AccountsInv
  <2> QED BY <1>6, <2>1, AccountsAssumption DEF SessionIsRegenerated, Quiet, AccountsInv,
        AccountsTypeOK, ErasedForGood, Active, Idle, NoRow
<1>7. ASSUME NEW b \in Browsers, RegisterComplete(b) PROVE ErasedForGood'
  <2>1. Quiet(b)
    BY <1>7, QuietSteps DEF AccountsInv
  <2> QED BY <1>7, <2>1, AccountsAssumption DEF RegisterComplete, Holders, Quiet,
        AccountsInv, AccountsTypeOK, ErasedForGood, Active, Idle, NoRow
<1>8. ASSUME NEW b \in Browsers, InsertUser(b) PROVE ErasedForGood'
  <2>1. Quiet(b)
    BY <1>8, QuietSteps DEF AccountsInv
  <2> DEFINE person == [phone |-> request[b].phone, state |-> "active"]
  <2>2. PICK u \in Users :
           account[u].state = "none" /\ account' = [account EXCEPT ![u] = person]
    BY <1>8 DEF InsertUser
  <2>3. account'[u].state = "active" /\ \A v \in Users \ {u} : account'[v] = account[v]
    BY <2>2 DEF AccountsInv, AccountsTypeOK
  <2> QED BY <1>8, <2>1, <2>3 DEF InsertUser, Quiet, AccountsInv, ErasedForGood
<1>9. ASSUME NEW b \in Browsers, InsertConflicts(b) PROVE ErasedForGood'
  <2>1. Quiet(b)
    BY <1>9, QuietSteps DEF AccountsInv
  <2> QED BY <1>9, <2>1, AccountsAssumption DEF InsertConflicts, Quiet, AccountsInv,
        AccountsTypeOK, ErasedForGood, Active, Idle, NoRow
<1>10. ASSUME NEW b \in Browsers, WinnerIsRead(b) PROVE ErasedForGood'
  <2>1. Quiet(b)
    BY <1>10, QuietSteps DEF AccountsInv
  <2> QED BY <1>10, <2>1, AccountsAssumption DEF WinnerIsRead, Holders, Quiet,
        AccountsInv, AccountsTypeOK, ErasedForGood, Active, Idle, NoRow
<1>11. ASSUME NEW b \in Browsers, ChangeIsAsked(b) PROVE ErasedForGood'
  <2> DEFINE u == request[b].user
  <2>1. Quiet(b)
    BY <1>11, QuietSteps DEF AccountsInv
  <2>2. \A v \in Users \ {u} : change'[v] = change[v]
    BY <1>11 DEF ChangeIsAsked, AccountsInv, AccountsTypeOK
  <2>3. ASSUME u \in Users \ overlapped
        PROVE  account[u].state # "deleted"
    BY <1>11, <2>3 DEF ChangeIsAsked, AccountsInv, ErasedForGood
  <2> QED BY <1>11, <2>1, <2>2, <2>3 DEF ChangeIsAsked, Quiet, AccountsInv, ErasedForGood
<1>12. ASSUME NEW b \in Browsers, ChangeFails(b) PROVE ErasedForGood'
  <2>1. session[b].user \in Users /\ change[session[b].user] # NoRow
    BY <1>12, Typed DEF ChangeFails, Usable, NoRow, AccountsInv, AccountsTypeOK
  <2>2. \A u \in Users \ {session[b].user} : change'[u] = change[u]
    BY <1>12 DEF ChangeFails, AccountsInv, AccountsTypeOK
  <2> QED BY <1>12, <2>1, <2>2 DEF ChangeFails, AccountsInv, ErasedForGood
<1>13. ASSUME NEW b \in Browsers, ChangeSucceeds(b) PROVE ErasedForGood'
  <2>1. session[b].user \in Users /\ change[session[b].user] # NoRow
    BY <1>13, Typed DEF ChangeSucceeds, Usable, NoRow, AccountsInv, AccountsTypeOK
  <2>2. \A u \in Users \ {session[b].user} : change'[u] = change[u] /\ account'[u] = account[u]
    BY <1>13 DEF ChangeSucceeds, AccountsInv, AccountsTypeOK
  <2>3. account'[session[b].user].state = account[session[b].user].state
    BY <1>13, <2>1 DEF ChangeSucceeds, AccountsInv, AccountsTypeOK, People
  <2> QED BY <1>13, <2>1, <2>2, <2>3 DEF ChangeSucceeds, AccountsInv, ErasedForGood
<1>14. ASSUME NEW b \in Browsers, NEW p \in Phones, StartPhoneChange(b,
        p) PROVE ErasedForGood'
  <2> DEFINE u == session[b].user
  <2>1. u \in Users /\ account[u].state = "active"
    BY <1>14, Typed DEF StartPhoneChange, MayAsk, Active, AccountsInv, AccountsTypeOK
  <2>2. Moves(b, "asking", u, p, NoRow, FALSE)
    BY <1>14, <2>1, RequestMoves DEF StartPhoneChange, AccountsInv, Steps
  <2> QED BY <1>14, <2>1, <2>2 DEF StartPhoneChange, Moves, AccountsInv, ErasedForGood
<1>15. ASSUME NEW b \in Browsers, Logout(b) PROVE ErasedForGood'
  BY <1>15, AccountsAssumption DEF Logout, Quiet, AccountsInv, AccountsTypeOK,
        ErasedForGood, Active, Idle, NoRow
<1>16. ASSUME NEW b \in Browsers, CurrentUser(b) PROVE ErasedForGood'
  BY <1>16, AccountsAssumption DEF CurrentUser, Quiet, AccountsInv, AccountsTypeOK,
        ErasedForGood, Active, Idle, NoRow
<1>17. ASSUME NEW b \in Browsers, RequestDies(b) PROVE ErasedForGood'
  <2>1. Quiet(b)
    BY <1>17, QuietSteps DEF AccountsInv
  <2> QED BY <1>17, <2>1, AccountsAssumption DEF RequestDies, Quiet, AccountsInv,
        AccountsTypeOK, ErasedForGood, Active, Idle, NoRow
<1>18. ASSUME NEW p \in Phones, StartOtp(p) PROVE ErasedForGood'
  BY <1>18, AccountsAssumption DEF StartOtp, FreshRow, RowIsFree, Quiet, AccountsInv,
        AccountsTypeOK, ErasedForGood, Active, Idle, NoRow
<1>19. ASSUME NEW p \in Phones, PurgeExpired(p) PROVE ErasedForGood'
  BY <1>19, AccountsAssumption DEF PurgeExpired, RowIsFree, Quiet, AccountsInv,
        AccountsTypeOK, ErasedForGood, Active, Idle, NoRow
<1>20. ASSUME NEW u \in Users, PurgeChange(u) PROVE ErasedForGood'
  BY <1>20, AccountsAssumption DEF PurgeChange, Quiet, AccountsInv, AccountsTypeOK,
        ErasedForGood, Active, Idle, NoRow
<1>21. ASSUME NEW u \in Users, DeleteAccount(u) PROVE ErasedForGood'
  BY ZenonT(60), <1>21, AccountsAssumption DEF DeleteAccount, RowIsFree, Active, Quiet, AccountsInv,
        AccountsTypeOK, ErasedForGood, Active, Idle, NoRow
<1>22. CASE UNCHANGED accountsVars
  BY <1>22, AccountsAssumption DEF accountsVars, Quiet, AccountsInv, AccountsTypeOK,
        ErasedForGood, Active, Idle, NoRow
<1> QED BY <1>1, <1>2, <1>3, <1>4, <1>5, <1>6, <1>7, <1>8, <1>9, <1>10, <1>11, <1>12,
        <1>13, <1>14, <1>15, <1>16, <1>17, <1>18, <1>19, <1>20, <1>21,
        <1>22 DEF AccountsNext, BrowserActs

(* Nobody touches a row that a verification has locked.                     *)
LEMMA LockedStep ==
    ASSUME AccountsInv, [AccountsNext]_accountsVars
    PROVE  LockedRows'
<1>1. ASSUME NEW b \in Browsers, NEW p \in Phones, NEW right \in BOOLEAN, VerifyReads(b,
        p, right) PROVE LockedRows'
  BY <1>1, AccountsAssumption DEF VerifyReads, RowIsFree, Usable, Quiet, AccountsInv,
        AccountsTypeOK, LockedRows, Usable, RowIsFree, Idle, NoRow, NoCode
<1>2. ASSUME NEW b \in Browsers, VerifyFails(b) PROVE LockedRows'
  <2> DEFINE p == request[b].phone
  <2>1. Quiet(b)
    BY <1>2, QuietSteps DEF AccountsInv
  <2>2. \A q \in Phones \ {p} : otp'[q] = otp[q]
    BY <1>2 DEF VerifyFails, AccountsInv, AccountsTypeOK
  <2>3. \A a \in Browsers \ {b} : request[a].step = "checking" => request[a].phone # p
    BY <1>2 DEF VerifyFails, AccountsInv, LockedRows
  <2> QED BY <2>1, <2>2, <2>3 DEF Quiet, AccountsInv, LockedRows, Usable
<1>3. ASSUME NEW b \in Browsers, VerifySucceeds(b) PROVE LockedRows'
  <2> DEFINE p == request[b].phone
  <2>1. Quiet(b)
    BY <1>3, QuietSteps DEF AccountsInv
  <2>2. \A q \in Phones \ {p} : otp'[q] = otp[q]
    BY <1>3 DEF VerifySucceeds, AccountsInv, AccountsTypeOK
  <2>3. \A a \in Browsers \ {b} : request[a].step = "checking" => request[a].phone # p
    BY <1>3 DEF VerifySucceeds, AccountsInv, LockedRows
  <2> QED BY <2>1, <2>2, <2>3 DEF Quiet, AccountsInv, LockedRows, Usable
<1>4. ASSUME NEW b \in Browsers, PendingIsSaved(b) PROVE LockedRows'
  <2>1. Quiet(b)
    BY <1>4, QuietSteps DEF AccountsInv
  <2> QED BY <1>4, <2>1, AccountsAssumption DEF PendingIsSaved, Quiet, AccountsInv,
        AccountsTypeOK, LockedRows, Usable, RowIsFree, Idle, NoRow, NoCode
<1>5. ASSUME NEW b \in Browsers, UserIsRead(b) PROVE LockedRows'
  <2>1. Quiet(b)
    BY <1>5, QuietSteps DEF AccountsInv
  <2> QED BY <1>5, <2>1, AccountsAssumption DEF UserIsRead, Quiet, AccountsInv,
        AccountsTypeOK, LockedRows, Usable, RowIsFree, Idle, NoRow, NoCode
<1>6. ASSUME NEW b \in Browsers, SessionIsRegenerated(b) PROVE LockedRows'
  <2>1. Quiet(b)
    BY <1>6, QuietSteps DEF AccountsInv
  <2> QED BY <1>6, <2>1, AccountsAssumption DEF SessionIsRegenerated, Quiet, AccountsInv,
        AccountsTypeOK, LockedRows, Usable, RowIsFree, Idle, NoRow, NoCode
<1>7. ASSUME NEW b \in Browsers, RegisterComplete(b) PROVE LockedRows'
  <2>1. Quiet(b)
    BY <1>7, QuietSteps DEF AccountsInv
  <2> QED BY <1>7, <2>1, AccountsAssumption DEF RegisterComplete, Holders, Quiet,
        AccountsInv, AccountsTypeOK, LockedRows, Usable, RowIsFree, Idle, NoRow, NoCode
<1>8. ASSUME NEW b \in Browsers, InsertUser(b) PROVE LockedRows'
  <2>1. Quiet(b)
    BY <1>8, QuietSteps DEF AccountsInv
  <2> QED BY <1>8, <2>1, AccountsAssumption DEF InsertUser, PhoneIsTaken, Holders,
        Active, Quiet, AccountsInv, AccountsTypeOK, LockedRows, Usable, RowIsFree, Idle,
        NoRow, NoCode
<1>9. ASSUME NEW b \in Browsers, InsertConflicts(b) PROVE LockedRows'
  <2>1. Quiet(b)
    BY <1>9, QuietSteps DEF AccountsInv
  <2> QED BY <1>9, <2>1, AccountsAssumption DEF InsertConflicts, Quiet, AccountsInv,
        AccountsTypeOK, LockedRows, Usable, RowIsFree, Idle, NoRow, NoCode
<1>10. ASSUME NEW b \in Browsers, WinnerIsRead(b) PROVE LockedRows'
  <2>1. Quiet(b)
    BY <1>10, QuietSteps DEF AccountsInv
  <2> QED BY <1>10, <2>1, AccountsAssumption DEF WinnerIsRead, Holders, Quiet,
        AccountsInv, AccountsTypeOK, LockedRows, Usable, RowIsFree, Idle, NoRow, NoCode
<1>11. ASSUME NEW b \in Browsers, ChangeIsAsked(b) PROVE LockedRows'
  <2>1. Quiet(b)
    BY <1>11, QuietSteps DEF AccountsInv
  <2> QED BY <1>11, <2>1, AccountsAssumption DEF ChangeIsAsked, FreshRow, Quiet,
        AccountsInv, AccountsTypeOK, LockedRows, Usable, RowIsFree, Idle, NoRow, NoCode
<1>12. ASSUME NEW b \in Browsers, ChangeFails(b) PROVE LockedRows'
  BY <1>12, AccountsAssumption DEF ChangeFails, Usable, Quiet, AccountsInv,
        AccountsTypeOK, LockedRows, Usable, RowIsFree, Idle, NoRow, NoCode
<1>13. ASSUME NEW b \in Browsers, ChangeSucceeds(b) PROVE LockedRows'
  BY <1>13, AccountsAssumption DEF ChangeSucceeds, Usable, Holders, Quiet, AccountsInv,
        AccountsTypeOK, LockedRows, Usable, RowIsFree, Idle, NoRow, NoCode
<1>14. ASSUME NEW b \in Browsers, NEW p \in Phones, StartPhoneChange(b, p) PROVE LockedRows'
  <2>1. session[b].user \in Users
    BY <1>14, Typed DEF StartPhoneChange, MayAsk, AccountsInv, AccountsTypeOK
  <2>2. Moves(b, "asking", session[b].user, p, NoRow, FALSE)
    BY <1>14, <2>1, RequestMoves DEF StartPhoneChange, AccountsInv, Steps
  <2> QED BY <1>14, <2>2 DEF StartPhoneChange, Moves, AccountsInv, LockedRows, Usable
<1>15. ASSUME NEW b \in Browsers, Logout(b) PROVE LockedRows'
  BY <1>15, AccountsAssumption DEF Logout, Quiet, AccountsInv, AccountsTypeOK,
        LockedRows, Usable, RowIsFree, Idle, NoRow, NoCode
<1>16. ASSUME NEW b \in Browsers, CurrentUser(b) PROVE LockedRows'
  BY <1>16, AccountsAssumption DEF CurrentUser, Quiet, AccountsInv, AccountsTypeOK,
        LockedRows, Usable, RowIsFree, Idle, NoRow, NoCode
<1>17. ASSUME NEW b \in Browsers, RequestDies(b) PROVE LockedRows'
  <2>1. Quiet(b)
    BY <1>17, QuietSteps DEF AccountsInv
  <2> QED BY <1>17, <2>1, AccountsAssumption DEF RequestDies, Quiet, AccountsInv,
        AccountsTypeOK, LockedRows, Usable, RowIsFree, Idle, NoRow, NoCode
<1>18. ASSUME NEW p \in Phones, StartOtp(p) PROVE LockedRows'
  BY <1>18, AccountsAssumption DEF StartOtp, FreshRow, RowIsFree, Quiet, AccountsInv,
        AccountsTypeOK, LockedRows, Usable, RowIsFree, Idle, NoRow, NoCode
<1>19. ASSUME NEW p \in Phones, PurgeExpired(p) PROVE LockedRows'
  BY <1>19, AccountsAssumption DEF PurgeExpired, RowIsFree, Quiet, AccountsInv,
        AccountsTypeOK, LockedRows, Usable, RowIsFree, Idle, NoRow, NoCode
<1>20. ASSUME NEW u \in Users, PurgeChange(u) PROVE LockedRows'
  BY <1>20, AccountsAssumption DEF PurgeChange, Quiet, AccountsInv, AccountsTypeOK,
        LockedRows, Usable, RowIsFree, Idle, NoRow, NoCode
<1>21. ASSUME NEW u \in Users, DeleteAccount(u) PROVE LockedRows'
  BY <1>21, AccountsAssumption DEF DeleteAccount, RowIsFree, Active, Quiet, AccountsInv,
        AccountsTypeOK, LockedRows, Usable, RowIsFree, Idle, NoRow, NoCode
<1>22. CASE UNCHANGED accountsVars
  BY <1>22, AccountsAssumption DEF accountsVars, Quiet, AccountsInv, AccountsTypeOK,
        LockedRows, Usable, RowIsFree, Idle, NoRow, NoCode
<1> QED BY <1>1, <1>2, <1>3, <1>4, <1>5, <1>6, <1>7, <1>8, <1>9, <1>10, <1>11, <1>12,
        <1>13, <1>14, <1>15, <1>16, <1>17, <1>18, <1>19, <1>20, <1>21,
        <1>22 DEF AccountsNext, BrowserActs

(* The books of the codes.                                                  *)
LEMMA LedgerStep ==
    ASSUME AccountsInv, [AccountsNext]_accountsVars
    PROVE  Ledger'
<1>1. ASSUME NEW b \in Browsers, NEW p \in Phones, NEW right \in BOOLEAN, VerifyReads(b,
        p, right) PROVE Ledger'
  BY <1>1, AccountsAssumption DEF VerifyReads, RowIsFree, Usable, AccountsInv,
        AccountsTypeOK, Rows, NoRow, Requests, Sessions, Ledger, LockedRows, RowCounts,
        Codes, NoCode
<1>2. ASSUME NEW b \in Browsers, VerifyFails(b) PROVE Ledger'
  BY <1>2, AccountsAssumption DEF VerifyFails, Usable, AccountsInv, AccountsTypeOK, Rows,
        NoRow, Requests, Sessions, Ledger, LockedRows, RowCounts, Codes, NoCode
<1>3. ASSUME NEW b \in Browsers, VerifySucceeds(b) PROVE Ledger'
  <2> DEFINE p == request[b].phone
  <2>1. /\ p \in Phones /\ request[b].row = otp[p] /\ otp[p].code \in Codes
        /\ ~otp[p].consumed
    BY <1>3, AccountsAssumption
    DEF VerifySucceeds, AccountsInv, LockedRows, Usable, AccountsTypeOK, Rows, NoCode, Codes
  <2> DEFINE c == otp[p].code
  <2>2. /\ \A q \in Phones : otp'[q].code = otp[q].code /\ otp'[q].attempts = otp[q].attempts
        /\ \A q \in Phones \ {p} : otp'[q] = otp[q]
        /\ otp'[p].consumed
    BY <1>3, <2>1 DEF VerifySucceeds, AccountsInv, AccountsTypeOK, Rows
  <2>3. used'[c] = used[c] + 1 /\ \A d \in Codes \ {c} : used'[d] = used[d]
    BY <1>3, <2>1 DEF VerifySucceeds, AccountsInv, AccountsTypeOK
  <2>4. UNCHANGED <<wrong, change, sent>>
    BY <1>3 DEF VerifySucceeds
  <2>5. used[c] = 0 /\ c <= sent /\ wrong[c] = otp[p].attempts
    BY <2>1 DEF AccountsInv, Ledger, RowCounts, Codes, NoCode
  <2>6. \A q \in Phones : otp[q].code \in 0..MaxCodes
    BY DEF AccountsInv, AccountsTypeOK, Rows
  <2>7. \A u \in Users : change[u].code \in 0..MaxCodes
    BY DEF AccountsInv, AccountsTypeOK, Rows
  <2> HIDE DEF p
  <2>8. \A q \in Phones : RowCounts(otp[q])'
    <3> SUFFICES ASSUME NEW q \in Phones PROVE RowCounts(otp[q])'
      OBVIOUS
    <3>1. CASE q = p
      BY <3>1, <2>2, <2>3, <2>4, <2>5 DEF RowCounts
    <3>2. CASE q # p
      BY <3>2, <2>1, <2>2, <2>3, <2>4, <2>6 DEF RowCounts, AccountsInv, Ledger, Codes,
        NoCode
    <3> QED BY <3>1, <3>2
  <2>9. \A u \in Users : RowCounts(change[u])'
    BY <2>1, <2>3, <2>4, <2>7 DEF RowCounts, AccountsInv, Ledger, Codes, NoCode
  <2>10. \A d \in Codes : d > sent' => used'[d] = 0 /\ wrong'[d] = 0
    BY <2>1, <2>3, <2>4, <2>5, AccountsAssumption DEF AccountsInv, AccountsTypeOK,
        Ledger, Codes
  <2> QED BY <2>2, <2>4, <2>8, <2>9, <2>10 DEF AccountsInv, Ledger
<1>4. ASSUME NEW b \in Browsers, PendingIsSaved(b) PROVE Ledger'
  BY <1>4, AccountsAssumption DEF PendingIsSaved, AccountsInv, AccountsTypeOK, Rows,
        NoRow, Requests, Sessions, Ledger, LockedRows, RowCounts, Codes, NoCode
<1>5. ASSUME NEW b \in Browsers, UserIsRead(b) PROVE Ledger'
  BY <1>5, AccountsAssumption DEF UserIsRead, AccountsInv, AccountsTypeOK, Rows, NoRow,
        Requests, Sessions, Ledger, LockedRows, RowCounts, Codes, NoCode
<1>6. ASSUME NEW b \in Browsers, SessionIsRegenerated(b) PROVE Ledger'
  BY <1>6, AccountsAssumption DEF SessionIsRegenerated, AccountsInv, AccountsTypeOK,
        Rows, NoRow, Requests, Sessions, Ledger, LockedRows, RowCounts, Codes, NoCode
<1>7. ASSUME NEW b \in Browsers, RegisterComplete(b) PROVE Ledger'
  BY <1>7, AccountsAssumption DEF RegisterComplete, Holders, AccountsInv, AccountsTypeOK,
        Rows, NoRow, Requests, Sessions, Ledger, LockedRows, RowCounts, Codes, NoCode
<1>8. ASSUME NEW b \in Browsers, InsertUser(b) PROVE Ledger'
  BY <1>8, AccountsAssumption DEF InsertUser, PhoneIsTaken, Holders, Active, AccountsInv,
        AccountsTypeOK, Rows, NoRow, Requests, Sessions, Ledger, LockedRows, RowCounts,
        Codes, NoCode
<1>9. ASSUME NEW b \in Browsers, InsertConflicts(b) PROVE Ledger'
  BY <1>9, AccountsAssumption DEF InsertConflicts, AccountsInv, AccountsTypeOK, Rows,
        NoRow, Requests, Sessions, Ledger, LockedRows, RowCounts, Codes, NoCode
<1>10. ASSUME NEW b \in Browsers, WinnerIsRead(b) PROVE Ledger'
  BY <1>10, AccountsAssumption DEF WinnerIsRead, Holders, AccountsInv, AccountsTypeOK,
        Rows, NoRow, Requests, Sessions, Ledger, LockedRows, RowCounts, Codes, NoCode
<1>11. ASSUME NEW b \in Browsers, ChangeIsAsked(b) PROVE Ledger'
  <2> DEFINE v == request[b].user
             n == sent + 1
  <2>1. /\ n \in Codes /\ sent' = n /\ sent \in Nat
        /\ UNCHANGED <<otp, wrong, used>>
    BY <1>11, AccountsAssumption DEF ChangeIsAsked, AccountsInv, AccountsTypeOK, Codes
  <2>2. /\ \A u \in Users \ {v} : change'[u] = change[u]
        /\ v \in Users => change'[v] = FreshRow(request[b].phone)
    BY <1>11 DEF ChangeIsAsked, AccountsInv, AccountsTypeOK
  <2>3. used[n] = 0 /\ wrong[n] = 0
    BY <2>1 DEF AccountsInv, Ledger
  <2>4. /\ \A q \in Phones : otp[q].code # NoCode => otp[q].code <= sent
        /\ \A u \in Users : change[u].code # NoCode => change[u].code <= sent
    BY DEF AccountsInv, Ledger, RowCounts
  <2>5. /\ \A q \in Phones : otp[q].code \in 0..MaxCodes
        /\ \A u \in Users : change[u].code \in 0..MaxCodes
    BY DEF AccountsInv, AccountsTypeOK, Rows
  <2>6. v \in Users => /\ change'[v].code = n /\ change'[v].attempts = 0
                       /\ ~change'[v].consumed
    BY <2>2 DEF FreshRow
  <2> HIDE DEF v, n
  <2>7. n > sent /\ n # NoCode
    BY <2>1, AccountsAssumption DEF n, NoCode
  <2>8. \A q \in Phones : RowCounts(otp[q])'
    BY <2>1, <2>4, <2>5, <2>7 DEF AccountsInv, Ledger, RowCounts, NoCode, Codes
  <2>9. \A u \in Users : RowCounts(change[u])'
    BY <2>1, <2>2, <2>3, <2>4, <2>5, <2>6, <2>7 DEF AccountsInv, Ledger, RowCounts,
        NoCode, Codes
  <2>10. /\ \A u, w \in Users :
              change'[u].code = change'[w].code /\ change'[u].code # NoCode => u = w
         /\ \A q \in Phones : \A u \in Users :
              otp[q].code = change'[u].code => otp[q].code = NoCode
    BY <2>1, <2>2, <2>4, <2>5, <2>6, <2>7 DEF AccountsInv, Ledger, NoCode
  <2>11. \A d \in Codes : d > sent' => used'[d] = 0 /\ wrong'[d] = 0
    BY SMTT(60), <2>1, <2>7 DEF AccountsInv, Ledger, Codes
  <2> QED BY <2>1, <2>8, <2>9, <2>10, <2>11 DEF AccountsInv, Ledger
<1>12. ASSUME NEW b \in Browsers, ChangeFails(b) PROVE Ledger'
  BY SMTT(60), <1>12, AccountsAssumption DEF ChangeFails, Usable, AccountsInv, AccountsTypeOK,
        Rows, NoRow, Requests, Sessions, Ledger, LockedRows, RowCounts, Codes, NoCode
<1>13. ASSUME NEW b \in Browsers, ChangeSucceeds(b) PROVE Ledger'
  BY <1>13, AccountsAssumption DEF ChangeSucceeds, Usable, Holders, AccountsInv,
        AccountsTypeOK, Rows, NoRow, Requests, Sessions, Ledger, LockedRows, RowCounts,
        Codes, NoCode
<1>14. ASSUME NEW b \in Browsers, NEW p \in Phones, StartPhoneChange(b, p) PROVE Ledger'
  BY <1>14, AccountsAssumption DEF StartPhoneChange, MayAsk, Active, AccountsInv,
        AccountsTypeOK, Rows, NoRow, Requests, Sessions, Ledger, LockedRows, RowCounts,
        Codes, NoCode
<1>15. ASSUME NEW b \in Browsers, Logout(b) PROVE Ledger'
  BY <1>15, AccountsAssumption DEF Logout, AccountsInv, AccountsTypeOK, Rows, NoRow,
        Requests, Sessions, Ledger, LockedRows, RowCounts, Codes, NoCode
<1>16. ASSUME NEW b \in Browsers, CurrentUser(b) PROVE Ledger'
  BY <1>16, AccountsAssumption DEF CurrentUser, AccountsInv, AccountsTypeOK, Rows, NoRow,
        Requests, Sessions, Ledger, LockedRows, RowCounts, Codes, NoCode
<1>17. ASSUME NEW b \in Browsers, RequestDies(b) PROVE Ledger'
  BY <1>17, AccountsAssumption DEF RequestDies, AccountsInv, AccountsTypeOK, Rows, NoRow,
        Requests, Sessions, Ledger, LockedRows, RowCounts, Codes, NoCode
<1>18. ASSUME NEW p \in Phones, StartOtp(p) PROVE Ledger'
  BY SMTT(60), <1>18, AccountsAssumption DEF StartOtp, FreshRow, RowIsFree, AccountsInv,
        AccountsTypeOK, Rows, NoRow, Requests, Sessions, Ledger, LockedRows, RowCounts,
        Codes, NoCode
<1>19. ASSUME NEW p \in Phones, PurgeExpired(p) PROVE Ledger'
  BY <1>19, AccountsAssumption DEF PurgeExpired, RowIsFree, AccountsInv, AccountsTypeOK,
        Rows, NoRow, Requests, Sessions, Ledger, LockedRows, RowCounts, Codes, NoCode
<1>20. ASSUME NEW u \in Users, PurgeChange(u) PROVE Ledger'
  BY <1>20, AccountsAssumption DEF PurgeChange, AccountsInv, AccountsTypeOK, Rows, NoRow,
        Requests, Sessions, Ledger, LockedRows, RowCounts, Codes, NoCode
<1>21. ASSUME NEW u \in Users, DeleteAccount(u) PROVE Ledger'
  BY ZenonT(60), <1>21, AccountsAssumption DEF DeleteAccount, RowIsFree, Active, AccountsInv,
        AccountsTypeOK, Rows, NoRow, Requests, Sessions, Ledger, LockedRows, RowCounts,
        Codes, NoCode
<1>22. CASE UNCHANGED accountsVars
  BY <1>22, AccountsAssumption DEF accountsVars, AccountsInv, AccountsTypeOK, Rows,
        NoRow, Requests, Sessions, Ledger, LockedRows, RowCounts, Codes, NoCode
<1> QED BY <1>1, <1>2, <1>3, <1>4, <1>5, <1>6, <1>7, <1>8, <1>9, <1>10, <1>11, <1>12,
        <1>13, <1>14, <1>15, <1>16, <1>17, <1>18, <1>19, <1>20, <1>21,
        <1>22 DEF AccountsNext, BrowserActs

(* A usable row has room for one more guess and was not consumed.           *)
LEMMA CountedStep ==
    ASSUME AccountsInv, [AccountsNext]_accountsVars
    PROVE  CodesAreCounted'
<1>1. ASSUME NEW b \in Browsers, NEW p \in Phones, NEW right \in BOOLEAN, VerifyReads(b,
        p, right) PROVE CodesAreCounted'
  BY <1>1, AccountsAssumption DEF VerifyReads, RowIsFree, Usable, AccountsInv,
        AccountsTypeOK, Rows, NoRow, Usable, CodesAreCounted, Ledger, LockedRows,
        RowCounts, Codes, NoCode
<1>2. ASSUME NEW b \in Browsers, VerifyFails(b) PROVE CodesAreCounted'
  BY <1>2, AccountsAssumption DEF VerifyFails, Usable, AccountsInv, AccountsTypeOK, Rows,
        NoRow, Usable, CodesAreCounted, Ledger, LockedRows, RowCounts, Codes, NoCode
<1>3. ASSUME NEW b \in Browsers, VerifySucceeds(b) PROVE CodesAreCounted'
  BY <1>3, AccountsAssumption DEF VerifySucceeds, Holders, AccountsInv, AccountsTypeOK,
        Rows, NoRow, Usable, CodesAreCounted, Ledger, LockedRows, RowCounts, Codes, NoCode
<1>4. ASSUME NEW b \in Browsers, PendingIsSaved(b) PROVE CodesAreCounted'
  BY <1>4, AccountsAssumption DEF PendingIsSaved, AccountsInv, AccountsTypeOK, Rows,
        NoRow, Usable, CodesAreCounted, Ledger, LockedRows, RowCounts, Codes, NoCode
<1>5. ASSUME NEW b \in Browsers, UserIsRead(b) PROVE CodesAreCounted'
  BY <1>5, AccountsAssumption DEF UserIsRead, AccountsInv, AccountsTypeOK, Rows, NoRow,
        Usable, CodesAreCounted, Ledger, LockedRows, RowCounts, Codes, NoCode
<1>6. ASSUME NEW b \in Browsers, SessionIsRegenerated(b) PROVE CodesAreCounted'
  BY <1>6, AccountsAssumption DEF SessionIsRegenerated, AccountsInv, AccountsTypeOK,
        Rows, NoRow, Usable, CodesAreCounted, Ledger, LockedRows, RowCounts, Codes, NoCode
<1>7. ASSUME NEW b \in Browsers, RegisterComplete(b) PROVE CodesAreCounted'
  BY <1>7, AccountsAssumption DEF RegisterComplete, Holders, AccountsInv, AccountsTypeOK,
        Rows, NoRow, Usable, CodesAreCounted, Ledger, LockedRows, RowCounts, Codes, NoCode
<1>8. ASSUME NEW b \in Browsers, InsertUser(b) PROVE CodesAreCounted'
  BY <1>8, AccountsAssumption DEF InsertUser, PhoneIsTaken, Holders, Active, AccountsInv,
        AccountsTypeOK, Rows, NoRow, Usable, CodesAreCounted, Ledger, LockedRows,
        RowCounts, Codes, NoCode
<1>9. ASSUME NEW b \in Browsers, InsertConflicts(b) PROVE CodesAreCounted'
  BY <1>9, AccountsAssumption DEF InsertConflicts, AccountsInv, AccountsTypeOK, Rows,
        NoRow, Usable, CodesAreCounted, Ledger, LockedRows, RowCounts, Codes, NoCode
<1>10. ASSUME NEW b \in Browsers, WinnerIsRead(b) PROVE CodesAreCounted'
  BY <1>10, AccountsAssumption DEF WinnerIsRead, Holders, AccountsInv, AccountsTypeOK,
        Rows, NoRow, Usable, CodesAreCounted, Ledger, LockedRows, RowCounts, Codes, NoCode
<1>11. ASSUME NEW b \in Browsers, ChangeIsAsked(b) PROVE CodesAreCounted'
  BY <1>11, AccountsAssumption DEF ChangeIsAsked, FreshRow, AccountsInv, AccountsTypeOK,
        Rows, NoRow, Usable, CodesAreCounted, Ledger, LockedRows, RowCounts, Codes, NoCode
<1>12. ASSUME NEW b \in Browsers, ChangeFails(b) PROVE CodesAreCounted'
  <2> DEFINE u == session[b].user
             c == change[u].code
  <2>1. /\ u \in Users /\ c \in Codes /\ ~change[u].consumed
        /\ change[u].attempts \in Nat /\ change[u].attempts < MaxAttempts
    BY <1>12, Typed, AccountsAssumption
    DEF ChangeFails, AccountsInv, Usable, AccountsTypeOK, Rows, NoCode, Codes
  <2>2. wrong[c] = change[u].attempts /\ used[c] = 0
    BY <2>1 DEF AccountsInv, Ledger, RowCounts, NoCode, Codes
  <2>3. /\ wrong'[c] = wrong[c] + 1 /\ \A d \in Codes \ {c} : wrong'[d] = wrong[d]
        /\ used' = used
    BY <1>12, <2>1 DEF ChangeFails, AccountsInv, AccountsTypeOK
  <2> HIDE DEF u, c
  <2> QED BY <2>1, <2>2, <2>3, AccountsAssumption DEF AccountsInv, CodesAreCounted
<1>13. ASSUME NEW b \in Browsers, ChangeSucceeds(b) PROVE CodesAreCounted'
  <2> DEFINE u == session[b].user
             c == change[u].code
  <2>1. /\ u \in Users /\ c \in Codes /\ ~change[u].consumed
        /\ change[u].attempts \in Nat /\ change[u].attempts < MaxAttempts
    BY <1>13, Typed, AccountsAssumption
    DEF ChangeSucceeds, AccountsInv, Usable, AccountsTypeOK, Rows, NoCode, Codes
  <2>2. wrong[c] = change[u].attempts /\ used[c] = 0
    BY <2>1 DEF AccountsInv, Ledger, RowCounts, NoCode, Codes
  <2>3. /\ used'[c] = used[c] + 1 /\ \A d \in Codes \ {c} : used'[d] = used[d]
        /\ wrong' = wrong
    BY <1>13, <2>1 DEF ChangeSucceeds, AccountsInv, AccountsTypeOK
  <2> HIDE DEF u, c
  <2> QED BY <2>1, <2>2, <2>3, AccountsAssumption DEF AccountsInv, CodesAreCounted
<1>14. ASSUME NEW b \in Browsers, NEW p \in Phones, StartPhoneChange(b,
        p) PROVE CodesAreCounted'
  BY <1>14, AccountsAssumption DEF StartPhoneChange, MayAsk, Active, AccountsInv,
        AccountsTypeOK, Rows, NoRow, Usable, CodesAreCounted, Ledger, LockedRows,
        RowCounts, Codes, NoCode
<1>15. ASSUME NEW b \in Browsers, Logout(b) PROVE CodesAreCounted'
  BY <1>15, AccountsAssumption DEF Logout, AccountsInv, AccountsTypeOK, Rows, NoRow,
        Usable, CodesAreCounted, Ledger, LockedRows, RowCounts, Codes, NoCode
<1>16. ASSUME NEW b \in Browsers, CurrentUser(b) PROVE CodesAreCounted'
  BY <1>16, AccountsAssumption DEF CurrentUser, AccountsInv, AccountsTypeOK, Rows, NoRow,
        Usable, CodesAreCounted, Ledger, LockedRows, RowCounts, Codes, NoCode
<1>17. ASSUME NEW b \in Browsers, RequestDies(b) PROVE CodesAreCounted'
  BY <1>17, AccountsAssumption DEF RequestDies, AccountsInv, AccountsTypeOK, Rows, NoRow,
        Usable, CodesAreCounted, Ledger, LockedRows, RowCounts, Codes, NoCode
<1>18. ASSUME NEW p \in Phones, StartOtp(p) PROVE CodesAreCounted'
  BY <1>18, AccountsAssumption DEF StartOtp, FreshRow, RowIsFree, AccountsInv,
        AccountsTypeOK, Rows, NoRow, Usable, CodesAreCounted, Ledger, LockedRows,
        RowCounts, Codes, NoCode
<1>19. ASSUME NEW p \in Phones, PurgeExpired(p) PROVE CodesAreCounted'
  BY <1>19, AccountsAssumption DEF PurgeExpired, RowIsFree, AccountsInv, AccountsTypeOK,
        Rows, NoRow, Usable, CodesAreCounted, Ledger, LockedRows, RowCounts, Codes, NoCode
<1>20. ASSUME NEW u \in Users, PurgeChange(u) PROVE CodesAreCounted'
  BY <1>20, AccountsAssumption DEF PurgeChange, AccountsInv, AccountsTypeOK, Rows, NoRow,
        Usable, CodesAreCounted, Ledger, LockedRows, RowCounts, Codes, NoCode
<1>21. ASSUME NEW u \in Users, DeleteAccount(u) PROVE CodesAreCounted'
  BY <1>21, AccountsAssumption DEF DeleteAccount, RowIsFree, Active, AccountsInv,
        AccountsTypeOK, Rows, NoRow, Usable, CodesAreCounted, Ledger, LockedRows,
        RowCounts, Codes, NoCode
<1>22. CASE UNCHANGED accountsVars
  BY <1>22, AccountsAssumption DEF accountsVars, AccountsInv, AccountsTypeOK, Rows,
        NoRow, Usable, CodesAreCounted, Ledger, LockedRows, RowCounts, Codes, NoCode
<1> QED BY <1>1, <1>2, <1>3, <1>4, <1>5, <1>6, <1>7, <1>8, <1>9, <1>10, <1>11, <1>12,
        <1>13, <1>14, <1>15, <1>16, <1>17, <1>18, <1>19, <1>20, <1>21,
        <1>22 DEF AccountsNext, BrowserActs

LEMMA AccountsInvHolds == AccountsSpec => []AccountsInv
<1>1. AccountsInv /\ [AccountsNext]_accountsVars => AccountsInv'
  BY AccountsTypeStep, UniqueStep, ErasedStep, LockedStep, LedgerStep, CountedStep
  DEF AccountsInv
<1> QED BY <1>1, AccountsInitInv, PTL DEF AccountsSpec

(* Every variable keeps its type: no counter of attempts passes its limit.  *)
THEOREM AccountsAreTyped == AccountsSpec => []AccountsTypeOK
BY AccountsInvHolds, PTL DEF AccountsInv

(* A phone never belongs to two accounts, whatever registrations, changes   *)
(* of phone and deletions race for it.                                      *)
THEOREM PhonesAreUnique == AccountsSpec => []OneAccountPerPhone
BY AccountsInvHolds, PTL DEF AccountsInv

(* However many verifications run at once, a code is accepted once and is   *)
(* compared with at most MaxAttempts wrong guesses.                         *)
THEOREM CodesAreUsedOnce == AccountsSpec => []CodesAreCounted
BY AccountsInvHolds, PTL DEF AccountsInv

(* A deleted account stays without a phone unless a change of its phone was *)
(* being started when it was deleted.                                       *)
THEOREM DeletionIsFinal == AccountsSpec => []DeletedStaysErased
<1>1. AccountsInv => DeletedStaysErased
  BY DEF AccountsInv, ErasedForGood, DeletedStaysErased
<1> QED BY <1>1, AccountsInvHolds, PTL
=============================================================================
