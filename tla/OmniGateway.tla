------------------------------ MODULE OmniGateway ------------------------------
(***************************************************************************)
(* The TCP gateway of the smart locks, as one lock sees it: its sockets    *)
(* and the registry of live ones, the cache of authorisations, the unlock  *)
(* commands and their echoes, and the online flag in the database.         *)
(*                                                                         *)
(*   server/omni/server.ts     OmniTcpServer, OmniConnection               *)
(*   server/omni/store.ts      resolveLock, setLockOnline, the sweep       *)
(*   server/http/catalog.ts    registering, editing, decommissioning       *)
(*   server/storage/lock.ts                                                *)
(*                                                                         *)
(* Every map of the gateway is keyed by the IMEI, and the locks meet only  *)
(* in the limits on connections, so that one lock is modelled.  An action  *)
(* is what runs between two awaits.  Timestamps are not modelled: a timer  *)
(* may fire, and a cached verdict or a lock's presence expire, at any time.*)
(***************************************************************************)
EXTENDS Naturals, FiniteSets

CONSTANTS
    Conns,          \* the connections that are made, each once
    NoConn,
    Commands,       \* the unlock commands that are asked for
    NoCommand,
    MaxStops        \* bound of the model: ends of the process

ASSUME GatewayAssumption ==
    /\ NoConn \notin Conns /\ NoCommand \notin Commands
    /\ MaxStops \in Nat

VARIABLES
    row,        \* locks.status; "offline" stands for every other status
    calls,      \* committed edits whose call of the gateway is still to come
    raced,      \* the last revocation met a lookup that had already succeeded
    up,         \* the server listens
    socket,     \* the connections
    lookup,     \* where bind stands for each of them; "bound": it has the IMEI
    owner,      \* byImei
    cache,      \* imeiCache
    writes,     \* statements about presence that have not landed yet
    pending,    \* pendingUnlocks
    inFlight,   \* imeiCommandInFlight
    answer,     \* what the caller of each command was told
    lock,       \* what the lock did with each command, external
    echo,       \* the echo of each command
    told,       \* openings that onUnsolicitedUnlockEcho gave to reconciliation
    stops

admin == <<row, calls, raced>>
net == <<socket, lookup, owner>>
command == <<pending, inFlight, answer>>
device == <<lock, echo, told>>
gatewayVars == <<admin, up, net, cache, writes, command, device, stops>>

GatewayTypeOK ==
    /\ row \in {"none", "offline", "active", "decommissioned"}
    /\ calls \subseteq {"admit", "revoke"}
    /\ raced \in BOOLEAN /\ up \in BOOLEAN
    /\ socket \in [Conns -> {"new", "open", "closed"}]
    /\ lookup \in [Conns -> {"none", "select", "update", "found", "refused", "unknown",
                             "failed", "bound"}]
    /\ owner \in Conns \cup {NoConn}
    /\ cache \in {"none", "yes", "no"}
    /\ writes \subseteq Conns \X {"online", "offline"}
    /\ pending \in Commands \cup {NoCommand} /\ inFlight \in BOOLEAN
    /\ answer \in [Commands -> {"none", "waiting", "opened", "refused", "error"}]
    /\ lock \in [Commands -> {"none", "sent", "opened", "refused"}]
    /\ echo \in [Commands -> {"none", "recorded", "resolved", "lost"}]
    /\ told \subseteq Commands
    /\ stops \in Nat

GatewayInit ==
    /\ row = "none" /\ calls = {} /\ raced = FALSE /\ up = TRUE
    /\ socket = [c \in Conns |-> "new"]
    /\ lookup = [c \in Conns |-> "none"]
    /\ owner = NoConn /\ cache = "none" /\ writes = {}
    /\ pending = NoCommand /\ inFlight = FALSE
    /\ answer = [k \in Commands |-> "none"]
    /\ lock = [k \in Commands |-> "none"]
    /\ echo = [k \in Commands |-> "none"]
    /\ told = {} /\ stops = 0

-----------------------------------------------------------------------------
(* The registry of devices and the operator.                                *)

Register ==
    /\ up /\ row = "none"
    /\ row' = "offline"
    /\ calls' = calls \cup {"admit"}
    /\ UNCHANGED <<raced, up, net, cache, writes, command, device, stops>>

(* PATCH sets any status, DELETE the last one.                              *)
EditStatus(status) ==
    /\ up /\ row # "none"
    /\ row' = status
    /\ calls' = IF status = "decommissioned" THEN calls \cup {"revoke"} ELSE calls
    /\ raced' = FALSE
    /\ UNCHANGED <<up, net, cache, writes, command, device, stops>>

-----------------------------------------------------------------------------
(* Sockets.                                                                 *)

OpenSockets == {c \in Conns : socket[c] = "open"}
Unbound == {c \in OpenSockets : lookup[c] # "bound"}

(* The cap on connections and the rate limit of the address may refuse it.  *)
Accept(c) ==
    /\ up /\ socket[c] = "new"
    /\ \E state \in {"open", "closed"} : socket' = [socket EXCEPT ![c] = state]
    /\ UNCHANGED <<admin, up, lookup, owner, cache, writes, command, device, stops>>

(* A promise is settled once.                                               *)
Answer(k, result) ==
    answer' = [answer EXCEPT ![k] = IF @ = "waiting" THEN result ELSE @]

(* settle: the pending command is answered and the lock is free for others. *)
Settle(k, result) ==
    /\ pending' = NoCommand
    /\ inFlight' = FALSE
    /\ Answer(k, result)

(* release: only the socket that owns the slot takes the lock offline.      *)
Release(c) ==
    IF owner = c
    THEN /\ owner' = NoConn
         /\ writes' = writes \cup {<<c, "offline">>}
         /\ IF pending # NoCommand THEN Settle(pending, "error") ELSE UNCHANGED command
    ELSE UNCHANGED <<owner, writes, command>>

(* The peer, a timer, a framing error, the frame limit, a change of IMEI.   *)
Closes(c) ==
    /\ c \in OpenSockets
    /\ socket' = [socket EXCEPT ![c] = "closed"]
    /\ Release(c)
    /\ UNCHANGED <<admin, up, lookup, cache, device, stops>>

-----------------------------------------------------------------------------
(* Binding a connection to the lock.                                        *)

(* The predecessor is destroyed after the slot has changed hands, so that   *)
(* its release leaves the slot, the flag and a pending command alone.       *)
Attach(c) ==
    /\ owner' = c
    /\ lookup' = [lookup EXCEPT ![c] = "bound"]
    /\ socket' = [s \in Conns |-> IF s = owner THEN "closed" ELSE socket[s]]
    /\ writes' = writes \cup {<<c, "online">>}
    /\ UNCHANGED command

Refuse(c) ==
    /\ lookup' = [lookup EXCEPT ![c] = "none"]
    /\ socket' = [socket EXCEPT ![c] = "closed"]
    /\ UNCHANGED <<owner, writes, command>>

(* The first valid frame: a cached verdict is followed without an await.    *)
FirstFrame(c) ==
    /\ c \in Unbound /\ lookup[c] = "none"
    /\ CASE cache = "yes" -> Attach(c)
         [] cache = "no" -> Refuse(c)
         [] OTHER -> /\ lookup' = [lookup EXCEPT ![c] = "select"]
                     /\ UNCHANGED <<socket, owner, writes, command>>
    /\ UNCHANGED <<admin, up, cache, device, stops>>

Looks(c, verdict) ==
    /\ lookup' = [lookup EXCEPT ![c] = verdict]
    /\ UNCHANGED <<calls, raced, up, socket, owner, cache, writes, command, device, stops>>

SelectRow(c) ==
    /\ lookup[c] = "select"
    /\ Looks(c, CASE row = "none" -> "unknown"
                  [] row = "decommissioned" -> "refused"
                  [] OTHER -> "update")
    /\ UNCHANGED row

(* The update checks the status again.                                      *)
UpdateRow(c) ==
    /\ lookup[c] = "update"
    /\ IF row = "decommissioned"
       THEN Looks(c, "refused") /\ UNCHANGED row
       ELSE Looks(c, "found") /\ row' = "active"

LookupFails(c) ==
    /\ lookup[c] \in {"select", "update"}
    /\ Looks(c, "failed")
    /\ UNCHANGED row

(* Mutant: a socket that closed during the lookup is registered.            *)
ClosedMutant(c) == FALSE

IsClosed(c) == socket[c] = "closed"

(* The rest of resolveAuth and of bind: a failed lookup is not remembered.  *)
Resolved(c) ==
    /\ lookup[c] \in {"found", "refused", "unknown", "failed"}
    /\ cache' = CASE lookup[c] = "found" -> "yes"
                  [] lookup[c] = "failed" -> cache
                  [] OTHER -> "no"
    /\ IF lookup[c] = "found" /\ ~IsClosed(c) THEN Attach(c) ELSE Refuse(c)
    /\ UNCHANGED <<admin, up, device, stops>>

CacheExpires ==
    /\ cache # "none"
    /\ cache' = "none"
    /\ UNCHANGED <<admin, up, net, writes, command, device, stops>>

Admit ==
    /\ "admit" \in calls
    /\ calls' = calls \ {"admit"}
    /\ cache' = "none"
    /\ UNCHANGED <<row, raced, up, net, writes, command, device, stops>>

(* Mutant: the cached verdict survives the revocation.                      *)
CacheAfterRevokeMutant == cache

CacheAfterRevoke == "none"

Revoke ==
    /\ "revoke" \in calls
    /\ calls' = calls \ {"revoke"}
    /\ raced' = \E c \in Conns : lookup[c] = "found"
    /\ cache' = CacheAfterRevoke
    /\ IF owner = NoConn
       THEN UNCHANGED <<socket, owner, writes, command>>
       ELSE socket' = [socket EXCEPT ![owner] = "closed"] /\ Release(owner)
    /\ UNCHANGED <<row, up, lookup, device, stops>>

-----------------------------------------------------------------------------
(* The online flag.                                                         *)

(* A report of the lock says that it is there.                              *)
Reports(c) ==
    /\ owner = c
    /\ writes' = writes \cup {<<c, "online">>}
    /\ UNCHANGED <<admin, up, net, cache, command, device, stops>>

(* A report older than the row is not applied, and the statement about a    *)
(* connection that is gone may fail; a decommissioned row keeps its status. *)
WriteLands(c, presence) ==
    /\ <<c, presence>> \in writes
    /\ writes' = writes \ {<<c, presence>>}
    /\ \/ /\ row # "decommissioned"
          /\ row' = IF presence = "online" THEN "active" ELSE "offline"
       \/ (row = "decommissioned" \/ owner # c) /\ UNCHANGED row
    /\ UNCHANGED <<calls, raced, up, net, cache, command, device, stops>>

(* Mutant: only locks that are connected are swept.                         *)
SweepableMutant == row = "active" /\ owner # NoConn

Sweepable == row = "active"

(* A lock that has been silent for ten minutes, connected or not.           *)
SweepOfflineLocks ==
    /\ up /\ Sweepable
    /\ row' = "offline"
    /\ UNCHANGED <<calls, raced, up, net, cache, writes, command, device, stops>>

-----------------------------------------------------------------------------
(* Unlock commands.                                                         *)

SendUnlockCommand(k) ==
    /\ up /\ answer[k] = "none"
    /\ IF owner = NoConn \/ inFlight
       THEN /\ answer' = [answer EXCEPT ![k] = "error"]
            /\ UNCHANGED <<pending, inFlight>>
       ELSE /\ pending' = k
            /\ inFlight' = TRUE
            /\ answer' = [answer EXCEPT ![k] = "waiting"]
    /\ lock' = IF pending' = k THEN [lock EXCEPT ![k] = "sent"] ELSE lock
    /\ UNCHANGED <<admin, up, net, cache, writes, echo, told, stops>>

(* write() says no, which it also does when the packet is only queued.      *)
SendRejected(k) ==
    /\ up /\ answer[k] = "none"
    /\ owner # NoConn /\ ~inFlight
    /\ answer' = [answer EXCEPT ![k] = "error"]
    /\ lock' \in {lock, [lock EXCEPT ![k] = "sent"]}
    /\ UNCHANGED <<admin, up, net, cache, writes, pending, inFlight, echo, told, stops>>

(* Mutant: the timer only answers the caller.                               *)
TimedOutMutant(k) ==
    Answer(k, "error") /\ UNCHANGED <<pending, inFlight>>

TimedOut(k) == Settle(k, "error")

UnlockTimesOut ==
    /\ pending # NoCommand
    /\ TimedOut(pending)
    /\ UNCHANGED <<admin, up, net, cache, writes, device, stops>>

(* External: the lock opens, or it does not.                                *)
LockActs(k) ==
    /\ lock[k] = "sent"
    /\ \E result \in {"opened", "refused"} : lock' = [lock EXCEPT ![k] = result]
    /\ UNCHANGED <<admin, up, net, cache, writes, command, echo, told, stops>>

(* The echo comes on whatever connection the lock has; it is persisted.     *)
EchoArrives(k) ==
    /\ owner # NoConn
    /\ lock[k] \in {"opened", "refused"} /\ echo[k] = "none"
    /\ echo' = [echo EXCEPT ![k] = "recorded"]
    /\ UNCHANGED <<admin, up, net, cache, writes, command, lock, told, stops>>

(* resolveUnlock: it answers whichever command of this lock is pending.     *)
ResolveUnlock(k) ==
    /\ echo[k] = "recorded"
    /\ echo' = [echo EXCEPT ![k] = "resolved"]
    /\ IF pending = NoCommand
       THEN /\ told' = IF lock[k] = "opened" THEN told \cup {k} ELSE told
            /\ UNCHANGED command
       ELSE Settle(pending, lock[k]) /\ UNCHANGED told
    /\ UNCHANGED <<admin, up, net, cache, writes, lock, stops>>

-----------------------------------------------------------------------------
(* The process.                                                             *)

(* close() or a death: the memory goes; statements under way may be lost;   *)
(* an echo that was being persisted is not resolved any more.               *)
Stops ==
    /\ up /\ stops < MaxStops
    /\ stops' = stops + 1
    /\ up' = FALSE
    /\ socket' = [c \in Conns |-> IF c \in OpenSockets THEN "closed" ELSE socket[c]]
    /\ lookup' = [c \in Conns |-> "none"]
    /\ owner' = NoConn /\ cache' = "none"
    /\ calls' = {} /\ raced' = FALSE
    /\ writes' \in SUBSET (writes \cup (IF owner = NoConn THEN {} ELSE {<<owner, "offline">>}))
    /\ pending' = NoCommand /\ inFlight' = FALSE
    /\ answer' = [k \in Commands |-> IF answer[k] = "waiting" THEN "error" ELSE answer[k]]
    /\ echo' = [k \in Commands |-> IF echo[k] = "recorded" THEN "lost" ELSE echo[k]]
    /\ UNCHANGED <<row, lock, told>>

(* resetAllLocksOffline, then listen.                                       *)
Listen ==
    /\ ~up
    /\ up' = TRUE
    /\ row' = IF row = "active" THEN "offline" ELSE row
    /\ UNCHANGED <<calls, raced, net, cache, writes, command, device, stops>>

ConnectionActs(c) ==
    \/ Accept(c) \/ FirstFrame(c) \/ Closes(c) \/ Reports(c)
    \/ SelectRow(c) \/ UpdateRow(c) \/ LookupFails(c) \/ Resolved(c)
    \/ \E presence \in {"online", "offline"} : WriteLands(c, presence)

CommandActs(k) ==
    \/ SendUnlockCommand(k) \/ SendRejected(k)
    \/ LockActs(k) \/ EchoArrives(k) \/ ResolveUnlock(k)

GatewayNext ==
    \/ Register \/ \E status \in {"offline", "active", "decommissioned"} : EditStatus(status)
    \/ Admit \/ Revoke
    \/ \E c \in Conns : ConnectionActs(c)
    \/ \E k \in Commands : CommandActs(k)
    \/ CacheExpires \/ SweepOfflineLocks \/ UnlockTimesOut
    \/ Stops \/ Listen

GatewaySpec == GatewayInit /\ [][GatewayNext]_gatewayVars

(* A lock that is connected goes on reporting; statements, lookups and the  *)
(* sweep's timer are run by the process; a process that ended is restarted. *)
FairGatewaySpec ==
    /\ GatewaySpec
    /\ WF_gatewayVars(Listen) /\ WF_gatewayVars(SweepOfflineLocks)
    /\ WF_gatewayVars(UnlockTimesOut)
    /\ \A c \in Conns :
          /\ WF_gatewayVars(SelectRow(c) \/ UpdateRow(c) \/ LookupFails(c))
          /\ WF_gatewayVars(Resolved(c)) /\ WF_gatewayVars(Reports(c))
          /\ \A presence \in {"online", "offline"} : WF_gatewayVars(WriteLands(c, presence))

-----------------------------------------------------------------------------
(* Properties.                                                              *)

(* The slot of a lock holds a live socket, every other bound socket is      *)
(* closed, and the mutex is held exactly while a command is pending on a    *)
(* connected lock: no dead socket swallows commands, and no mutex that was  *)
(* left behind bars the lock.                                               *)
RegistryIsSound ==
    /\ \A c \in OpenSockets : lookup[c] = "bound" <=> c = owner
    /\ owner # NoConn => socket[owner] = "open"
    /\ inFlight <=> pending # NoCommand
    /\ pending # NoCommand => owner # NoConn /\ answer[pending] = "waiting"
    /\ \A k \in Commands : answer[k] = "waiting" => k = pending

(* When a decommissioning has come through, the lock has no connection and  *)
(* no cached authorisation to make one with, unless a lookup had succeeded  *)
(* before the decommissioning and was still to be followed.                 *)
RevokedIsCutOff ==
    (row = "decommissioned" /\ "revoke" \notin calls /\ ~raced) =>
        owner = NoConn /\ cache # "yes"

(* Every opening that the lock reports is heard once: by the caller of a    *)
(* command, who is told of one, or by the reconciliation of bikes that are  *)
(* open and not rented.  A caller that has given up hears nothing.          *)
OpeningsAreHeard ==
    Cardinality({k \in Commands : answer[k] = "opened"}) + Cardinality(told)
        = Cardinality({k \in Commands : lock[k] = "opened" /\ echo[k] = "resolved"})

(* The status in the database follows the socket, whatever order the        *)
(* statements about it land in: a lock that is gone does not stay online,   *)
(* and one that stays connected does not stay offline.                      *)
StatusSettles ==
    /\ <>[](owner = NoConn) => []<>(row # "active")
    /\ <>[](owner # NoConn) => []<>(row # "offline")

=============================================================================
