--------------------------- MODULE OmniGatewayProofs ---------------------------
(***************************************************************************)
(* Theorems about OmniGateway for any number of connections and commands.  *)
(***************************************************************************)
EXTENDS OmniGateway, FiniteSetTheorems, TLAPS

(* Only a connection that was accepted is being bound.                      *)
LookupsAreAccepted == \A c \in Conns : lookup[c] # "none" => socket[c] # "new"

(* A lock answers what it has done, and reconciliation hears of openings.   *)
EchoesFollowLocks ==
    /\ \A k \in Commands : echo[k] # "none" => lock[k] \in {"opened", "refused"}
    /\ \A k \in Commands : answer[k] = "none" => lock[k] = "none" /\ echo[k] = "none"
    /\ \A k \in told : echo[k] = "resolved" /\ lock[k] = "opened"

(* Nor does a lookup that succeeded wait behind a revocation.               *)
NobodyIsLetIn ==
    (row = "decommissioned" /\ "revoke" \notin calls /\ ~raced) =>
        \A c \in Conns : lookup[c] # "found"

NetInv == GatewayTypeOK /\ LookupsAreAccepted /\ RegistryIsSound /\ EchoesFollowLocks
CutInv == RevokedIsCutOff /\ NobodyIsLetIn

-----------------------------------------------------------------------------
(* The steps that share their effect on the registry.                       *)

LEMMA ReleaseKeeps ==
    ASSUME NetInv, NEW c \in OpenSockets, Release(c),
           socket' = [socket EXCEPT ![c] = "closed"],
           UNCHANGED <<admin, up, lookup, device, stops>>,
           cache' \in {"none", "yes", "no"}
    PROVE  NetInv'
<1> USE DEF NetInv, OpenSockets
<1>1. GatewayTypeOK'
  <2>1. socket' \in [Conns -> {"new", "open", "closed"}] /\ owner' \in Conns \cup {NoConn}
    BY DEF GatewayTypeOK, Release
  <2>2. writes' \subseteq Conns \X {"online", "offline"}
    BY DEF GatewayTypeOK, Release
  <2>3. /\ pending' \in Commands \cup {NoCommand} /\ inFlight' \in BOOLEAN
        /\ answer' \in [Commands -> {"none", "waiting", "opened", "refused", "error"}]
    BY ZenonT(60) DEF GatewayTypeOK, Release, Settle, Answer, command
  <2> QED BY <2>1, <2>2, <2>3 DEF GatewayTypeOK, admin, device
<1>2. LookupsAreAccepted'
  BY DEF LookupsAreAccepted, GatewayTypeOK
<1>3. RegistryIsSound'
  BY GatewayAssumption DEF RegistryIsSound, GatewayTypeOK, Release, Settle, Answer, command
<1>4. EchoesFollowLocks'
  BY DEF EchoesFollowLocks, GatewayTypeOK, Release, Settle, Answer, command, device
<1> QED BY <1>1, <1>2, <1>3, <1>4

LEMMA AttachKeeps ==
    ASSUME NetInv, NEW c \in Unbound, Attach(c),
           UNCHANGED <<admin, up, device, stops>>,
           cache' \in {"none", "yes", "no"}
    PROVE  NetInv'
<1> USE DEF NetInv, OpenSockets, Unbound
<1>1. GatewayTypeOK'
  BY GatewayAssumption DEF GatewayTypeOK, Attach, admin, device, command
<1>2. LookupsAreAccepted'
  BY DEF LookupsAreAccepted, GatewayTypeOK, Attach
<1>3. RegistryIsSound'
  BY GatewayAssumption DEF RegistryIsSound, GatewayTypeOK, Attach, command
<1>4. EchoesFollowLocks'
  BY DEF EchoesFollowLocks, Attach, command, device
<1> QED BY <1>1, <1>2, <1>3, <1>4

LEMMA RefuseKeeps ==
    ASSUME NetInv, NEW c \in Conns, lookup[c] # "bound", Refuse(c),
           UNCHANGED <<admin, up, device, stops>>,
           cache' \in {"none", "yes", "no"}
    PROVE  NetInv'
<1> USE DEF NetInv, OpenSockets
<1>1. GatewayTypeOK'
  BY GatewayAssumption DEF GatewayTypeOK, Refuse, admin, device, command
<1>2. LookupsAreAccepted'
  BY DEF LookupsAreAccepted, GatewayTypeOK, Refuse
<1>3. RegistryIsSound'
  BY GatewayAssumption DEF RegistryIsSound, GatewayTypeOK, Refuse, command
<1>4. EchoesFollowLocks'
  BY DEF EchoesFollowLocks, Refuse, command, device
<1> QED BY <1>1, <1>2, <1>3, <1>4

LEMMA LooksKeeps ==
    ASSUME NetInv, NEW c \in Conns, lookup[c] \notin {"none", "bound"},
           NEW verdict \in {"update", "found", "refused", "unknown", "failed"},
           Looks(c, verdict),
           row' \in {"none", "offline", "active", "decommissioned"}
    PROVE  NetInv'
  BY GatewayAssumption DEF NetInv, Looks, GatewayTypeOK, LookupsAreAccepted, RegistryIsSound,
     EchoesFollowLocks, OpenSockets, command, device

(* No step breaks the registry.                                             *)
LEMMA NetStep ==
    ASSUME NetInv, [GatewayNext]_gatewayVars
    PROVE  NetInv'
<1> USE GatewayAssumption
<1> DEFINE Quiet == UNCHANGED <<socket, lookup, owner, pending, inFlight, answer>>
<1>0. ASSUME GatewayTypeOK', EchoesFollowLocks', Quiet PROVE NetInv'
  BY <1>0 DEF NetInv, LookupsAreAccepted, RegistryIsSound, OpenSockets
<1>1. CASE Register
  <2>1. GatewayTypeOK' /\ EchoesFollowLocks' /\ Quiet
    BY <1>1 DEF Register, NetInv, EchoesFollowLocks, GatewayTypeOK, net, command, device
  <2> QED BY <2>1, <1>0
<1>2. ASSUME NEW status \in {"offline", "active", "decommissioned"}, EditStatus(status)
      PROVE  NetInv'
  <2>1. GatewayTypeOK' /\ EchoesFollowLocks' /\ Quiet
    BY <1>2 DEF EditStatus, NetInv, EchoesFollowLocks, GatewayTypeOK, net, command, device
  <2> QED BY <2>1, <1>0
<1>3. CASE Admit
  <2>1. GatewayTypeOK' /\ EchoesFollowLocks' /\ Quiet
    BY <1>3 DEF Admit, NetInv, EchoesFollowLocks, GatewayTypeOK, net, command, device
  <2> QED BY <2>1, <1>0
<1>4. CASE Revoke
  <2>1. CASE owner = NoConn
    <3>1. GatewayTypeOK' /\ EchoesFollowLocks' /\ Quiet
      BY <1>4, <2>1 DEF Revoke, CacheAfterRevoke, NetInv, EchoesFollowLocks, GatewayTypeOK, net, command, device
    <3> QED BY <3>1, <1>0
  <2>2. CASE owner # NoConn
    <3>1. owner \in OpenSockets
      BY <2>2 DEF NetInv, GatewayTypeOK, RegistryIsSound, OpenSockets
    <3>2. GatewayTypeOK'
      <4>1. socket' \in [Conns -> {"new", "open", "closed"}] /\ owner' \in Conns \cup {NoConn}
        BY <1>4, <2>2 DEF Revoke, NetInv, GatewayTypeOK, Release
      <4>2. writes' \subseteq Conns \X {"online", "offline"}
        BY <1>4, <2>2 DEF Revoke, NetInv, GatewayTypeOK, Release
      <4>3. /\ pending' \in Commands \cup {NoCommand} /\ inFlight' \in BOOLEAN
            /\ answer' \in [Commands -> {"none", "waiting", "opened", "refused", "error"}]
        <5>1. CASE pending = NoCommand
          BY <1>4, <2>2, <5>1 DEF Revoke, NetInv, GatewayTypeOK, Release, command
        <5>2. CASE pending # NoCommand
          <6>1. Settle(pending, "error")
            BY <1>4, <2>2, <5>2 DEF Revoke, Release
          <6> QED BY <6>1 DEF NetInv, GatewayTypeOK, Settle, Answer
        <5> QED BY <5>1, <5>2
      <4>4. raced' \in BOOLEAN
        BY <1>4, Zenon DEF Revoke
      <4>5. /\ UNCHANGED <<row, up, lookup, lock, echo, told, stops>>
            /\ cache' = "none" /\ calls' \subseteq calls
        BY <1>4 DEF Revoke, CacheAfterRevoke, device
      <4> QED BY <4>1, <4>2, <4>3, <4>4, <4>5 DEF NetInv, GatewayTypeOK
    <3>3. LookupsAreAccepted'
      BY <1>4, <2>2 DEF Revoke, NetInv, GatewayTypeOK, LookupsAreAccepted
    <3>4. RegistryIsSound'
      BY <1>4, <2>2, <3>1 DEF Revoke, NetInv, GatewayTypeOK, RegistryIsSound, Release, Settle,
         Answer, OpenSockets, command
    <3>5. EchoesFollowLocks'
      BY <1>4, <2>2 DEF Revoke, NetInv, GatewayTypeOK, EchoesFollowLocks, Release, Settle, Answer,
         command, device
    <3> QED BY <3>2, <3>3, <3>4, <3>5 DEF NetInv
  <2> QED BY <2>1, <2>2
<1>5. ASSUME NEW c \in Conns, ConnectionActs(c) PROVE NetInv'
  <2>1. CASE Accept(c)
    BY <2>1 DEF Accept, NetInv, GatewayTypeOK, LookupsAreAccepted, RegistryIsSound,
       EchoesFollowLocks, OpenSockets, admin, command, device
  <2>2. CASE FirstFrame(c)
    <3>1. CASE cache = "yes"
      <4>1. Attach(c) BY <2>2, <3>1 DEF FirstFrame
      <4> QED BY <2>2, <4>1, AttachKeeps DEF FirstFrame, NetInv, GatewayTypeOK
    <3>2. CASE cache = "no"
      <4>1. Refuse(c) BY <2>2, <3>2 DEF FirstFrame
      <4> QED BY <2>2, <4>1, RefuseKeeps DEF FirstFrame, NetInv, GatewayTypeOK, Unbound
    <3>3. CASE cache = "none"
      BY <2>2, <3>3 DEF FirstFrame, NetInv, GatewayTypeOK, LookupsAreAccepted, RegistryIsSound,
         EchoesFollowLocks, OpenSockets, Unbound, admin, command, device
    <3> QED BY <3>1, <3>2, <3>3 DEF NetInv, GatewayTypeOK
  <2>3. CASE Closes(c)
    BY <2>3, ReleaseKeeps DEF Closes, NetInv, GatewayTypeOK
  <2>4. CASE Reports(c)
    <3>1. GatewayTypeOK' /\ EchoesFollowLocks' /\ Quiet
      BY <2>4 DEF Reports, NetInv, EchoesFollowLocks, GatewayTypeOK, admin, net, command, device
    <3> QED BY <3>1, <1>0
  <2>5. CASE SelectRow(c)
    BY <2>5, LooksKeeps DEF SelectRow, NetInv, GatewayTypeOK
  <2>6. CASE UpdateRow(c)
    BY <2>6, LooksKeeps DEF UpdateRow, NetInv, GatewayTypeOK
  <2>7. CASE LookupFails(c)
    BY <2>7, LooksKeeps DEF LookupFails, NetInv, GatewayTypeOK
  <2>8. CASE Resolved(c)
    <3>1. CASE lookup[c] = "found" /\ ~IsClosed(c)
      <4>1. Attach(c) /\ c \in Unbound
        BY <2>8, <3>1 DEF Resolved, IsClosed, NetInv, GatewayTypeOK, LookupsAreAccepted, Unbound,
           OpenSockets
      <4> QED BY <2>8, <4>1, AttachKeeps DEF Resolved, NetInv, GatewayTypeOK
    <3>2. CASE ~(lookup[c] = "found" /\ ~IsClosed(c))
      <4>1. Refuse(c) /\ lookup[c] # "bound" BY <2>8, <3>2 DEF Resolved
      <4> QED BY <2>8, <4>1, RefuseKeeps DEF Resolved, NetInv, GatewayTypeOK
    <3> QED BY <3>1, <3>2
  <2>9. ASSUME NEW presence \in {"online", "offline"}, WriteLands(c, presence) PROVE NetInv'
    <3>1. GatewayTypeOK' /\ EchoesFollowLocks' /\ Quiet
      BY <2>9 DEF WriteLands, NetInv, EchoesFollowLocks, GatewayTypeOK, net, command, device
    <3> QED BY <3>1, <1>0
  <2> QED BY <1>5, <2>1, <2>2, <2>3, <2>4, <2>5, <2>6, <2>7, <2>8, <2>9 DEF ConnectionActs
<1>6. ASSUME NEW k \in Commands, CommandActs(k) PROVE NetInv'
  <2>1. CASE SendUnlockCommand(k)
    <3>1. GatewayTypeOK'
      BY ZenonT(60), <2>1 DEF SendUnlockCommand, NetInv, GatewayTypeOK, admin, net
    <3>2. LookupsAreAccepted'
      BY <2>1 DEF SendUnlockCommand, NetInv, LookupsAreAccepted, net
    <3>3. RegistryIsSound'
      BY <2>1 DEF SendUnlockCommand, NetInv, GatewayTypeOK, RegistryIsSound, OpenSockets, net
    <3>4. EchoesFollowLocks'
      BY <2>1 DEF SendUnlockCommand, NetInv, GatewayTypeOK, EchoesFollowLocks
    <3> QED BY <3>1, <3>2, <3>3, <3>4 DEF NetInv
  <2>2. CASE SendRejected(k)
    <3>1. CASE lock' = lock
      BY <2>2, <3>1 DEF SendRejected, NetInv, GatewayTypeOK, LookupsAreAccepted, RegistryIsSound,
         EchoesFollowLocks, OpenSockets, admin, net
    <3>2. CASE lock' = [lock EXCEPT ![k] = "sent"]
      BY <2>2, <3>2 DEF SendRejected, NetInv, GatewayTypeOK, LookupsAreAccepted, RegistryIsSound,
         EchoesFollowLocks, OpenSockets, admin, net
    <3> QED BY <2>2, <3>1, <3>2 DEF SendRejected
  <2>3. CASE LockActs(k)
    <3>1. GatewayTypeOK' /\ EchoesFollowLocks' /\ Quiet
      BY <2>3 DEF LockActs, NetInv, EchoesFollowLocks, GatewayTypeOK, admin, net, command
    <3> QED BY <3>1, <1>0
  <2>4. CASE EchoArrives(k)
    <3>1. GatewayTypeOK' /\ EchoesFollowLocks' /\ Quiet
      BY <2>4 DEF EchoArrives, NetInv, EchoesFollowLocks, GatewayTypeOK, admin, net, command
    <3> QED BY <3>1, <1>0
  <2>5. CASE ResolveUnlock(k)
    <3>1. /\ pending' \in Commands \cup {NoCommand} /\ inFlight' \in BOOLEAN
          /\ answer' \in [Commands -> {"none", "waiting", "opened", "refused", "error"}]
      <4>1. lock[k] \in {"opened", "refused"}
        BY <2>5 DEF ResolveUnlock, NetInv, EchoesFollowLocks
      <4>2. CASE pending = NoCommand
        BY <2>5, <4>2 DEF ResolveUnlock, NetInv, GatewayTypeOK, command
      <4>3. CASE pending # NoCommand
        <5>1. Settle(pending, lock[k])
          BY <2>5, <4>3 DEF ResolveUnlock
        <5> QED BY <4>1, <5>1 DEF NetInv, GatewayTypeOK, Settle, Answer
      <4> QED BY <4>2, <4>3
    <3>2. GatewayTypeOK'
      BY ZenonT(60), <2>5, <3>1 DEF ResolveUnlock, NetInv, GatewayTypeOK, admin, net
    <3>3. LookupsAreAccepted' /\ EchoesFollowLocks'
      BY <2>5 DEF ResolveUnlock, Settle, Answer, NetInv, GatewayTypeOK, LookupsAreAccepted,
         EchoesFollowLocks, net, command
    <3>4. RegistryIsSound'
      BY <2>5 DEF ResolveUnlock, Settle, Answer, NetInv, GatewayTypeOK, RegistryIsSound,
         OpenSockets, net, command
    <3> QED BY <3>2, <3>3, <3>4 DEF NetInv
  <2> QED BY <1>6, <2>1, <2>2, <2>3, <2>4, <2>5 DEF CommandActs
<1>7. CASE CacheExpires
  <2>1. GatewayTypeOK' /\ EchoesFollowLocks' /\ Quiet
    BY <1>7 DEF CacheExpires, NetInv, EchoesFollowLocks, GatewayTypeOK, admin, net, command, device
  <2> QED BY <2>1, <1>0
<1>8. CASE SweepOfflineLocks
  <2>1. GatewayTypeOK' /\ EchoesFollowLocks' /\ Quiet
    BY <1>8 DEF SweepOfflineLocks, NetInv, EchoesFollowLocks, GatewayTypeOK, net, command, device
  <2> QED BY <2>1, <1>0
<1>9. CASE UnlockTimesOut
  BY ZenonT(60), <1>9 DEF UnlockTimesOut, TimedOut, Settle, Answer, NetInv, GatewayTypeOK,
     LookupsAreAccepted, RegistryIsSound, EchoesFollowLocks, OpenSockets, admin, net, device
<1>10. CASE Stops
  <2>1. writes' \subseteq Conns \X {"online", "offline"}
    BY <1>10 DEF Stops, NetInv, GatewayTypeOK
  <2>2. GatewayTypeOK'
    <3>1. /\ socket' \in [Conns -> {"new", "open", "closed"}]
          /\ answer' \in [Commands -> {"none", "waiting", "opened", "refused", "error"}]
          /\ echo' \in [Commands -> {"none", "recorded", "resolved", "lost"}]
      BY <1>10 DEF Stops, NetInv, GatewayTypeOK
    <3>2. lookup' \in [Conns -> {"none", "select", "update", "found", "refused", "unknown",
                                "failed", "bound"}]
      BY <1>10 DEF Stops
    <3>3. /\ UNCHANGED <<row, lock, told>>
          /\ up' = FALSE /\ owner' = NoConn /\ cache' = "none" /\ calls' = {} /\ raced' = FALSE
          /\ pending' = NoCommand /\ inFlight' = FALSE /\ stops' = stops + 1
      BY <1>10 DEF Stops
    <3>4. /\ row' \in {"none", "offline", "active", "decommissioned"}
          /\ lock' \in [Commands -> {"none", "sent", "opened", "refused"}]
          /\ told' \subseteq Commands /\ stops' \in Nat
      BY <3>3 DEF NetInv, GatewayTypeOK
    <3>5. /\ calls' \subseteq {"admit", "revoke"} /\ raced' \in BOOLEAN /\ up' \in BOOLEAN
          /\ owner' \in Conns \cup {NoConn} /\ cache' \in {"none", "yes", "no"}
          /\ pending' \in Commands \cup {NoCommand} /\ inFlight' \in BOOLEAN
      BY <3>3
    <3> QED BY <2>1, <3>1, <3>2, <3>4, <3>5 DEF GatewayTypeOK
  <2>3. LookupsAreAccepted' /\ RegistryIsSound'
    BY <1>10 DEF Stops, NetInv, GatewayTypeOK, LookupsAreAccepted, RegistryIsSound, OpenSockets
  <2>4. EchoesFollowLocks'
    BY <1>10 DEF Stops, NetInv, GatewayTypeOK, EchoesFollowLocks
  <2> QED BY <2>2, <2>3, <2>4 DEF NetInv
<1>11. CASE Listen
  <2>1. GatewayTypeOK' /\ EchoesFollowLocks' /\ Quiet
    BY <1>11 DEF Listen, NetInv, EchoesFollowLocks, GatewayTypeOK, net, command, device
  <2> QED BY <2>1, <1>0
<1>12. CASE UNCHANGED gatewayVars
  <2>1. GatewayTypeOK' /\ EchoesFollowLocks' /\ Quiet
    BY <1>12 DEF gatewayVars, NetInv, EchoesFollowLocks, GatewayTypeOK, admin, net, command, device
  <2> QED BY <2>1, <1>0
<1> QED BY <1>1, <1>2, <1>3, <1>4, <1>5, <1>6, <1>7, <1>8, <1>9, <1>10, <1>11, <1>12
    DEF GatewayNext

(* The registry's maps, lookups, commands and echoes keep their types, for  *)
(* any number of connections and commands; only an accepted connection is   *)
(* looked up, and an echo says what the lock did (omni/server.ts).          *)
THEOREM NetIsSound == GatewaySpec => []NetInv
<1>1. GatewayInit => NetInv
  <2>1. GatewayInit => GatewayTypeOK
    <3> SUFFICES ASSUME GatewayInit PROVE GatewayTypeOK
      OBVIOUS
    <3>1. socket \in [Conns -> {"new", "open", "closed"}] /\ writes = {} /\ calls = {}
      BY DEF GatewayInit
    <3>2. lookup \in [Conns -> {"none", "select", "update", "found", "refused", "unknown",
                               "failed", "bound"}]
      BY DEF GatewayInit
    <3>3. /\ answer \in [Commands -> {"none", "waiting", "opened", "refused", "error"}]
          /\ lock \in [Commands -> {"none", "sent", "opened", "refused"}]
          /\ echo \in [Commands -> {"none", "recorded", "resolved", "lost"}]
      BY DEF GatewayInit
    <3>4. /\ row = "none" /\ raced = FALSE /\ up = TRUE /\ owner = NoConn /\ cache = "none"
          /\ pending = NoCommand /\ inFlight = FALSE /\ told = {} /\ stops = 0
      BY DEF GatewayInit
    <3> QED BY <3>1, <3>2, <3>3, <3>4 DEF GatewayTypeOK
  <2>2. GatewayInit => LookupsAreAccepted /\ RegistryIsSound /\ EchoesFollowLocks
    BY GatewayAssumption DEF GatewayInit, LookupsAreAccepted, RegistryIsSound, OpenSockets,
       EchoesFollowLocks
  <2> QED BY <2>1, <2>2 DEF NetInv
<1>2. NetInv /\ [GatewayNext]_gatewayVars => NetInv'
  BY NetStep
<1> QED BY <1>1, <1>2, PTL DEF GatewaySpec

(* For any number of sockets, the slot of a lock holds a live one and every *)
(* other bound one is closed; the mutex is held just while a command that   *)
(* somebody waits for is pending on a connected lock.                       *)
THEOREM RegistryStaysSound == GatewaySpec => []RegistryIsSound
  BY NetIsSound, PTL DEF NetInv

-----------------------------------------------------------------------------
(* The revocation.                                                          *)

(* Before a revocation, and while the lock is not decommissioned, nothing   *)
(* is claimed; only the lookups that find a row can let a connection in.    *)
LEMMA CutStep ==
    ASSUME NetInv, CutInv, [GatewayNext]_gatewayVars
    PROVE  CutInv'
<1> USE GatewayAssumption DEF CutInv, RevokedIsCutOff, NobodyIsLetIn
<1> DEFINE Steady == UNCHANGED <<row, calls, raced, owner>>
<1>0. ASSUME Steady, cache' \in {cache, "none"},
             \A c \in Conns : lookup'[c] = "found" => lookup[c] = "found"
      PROVE  CutInv'
  BY <1>0
<1>1. CASE Register
  BY <1>1 DEF Register, net
<1>2. ASSUME NEW status \in {"offline", "active", "decommissioned"}, EditStatus(status)
      PROVE  CutInv'
  BY <1>2 DEF EditStatus, net
<1>3. CASE Admit
  BY <1>3 DEF Admit, net
<1>4. CASE Revoke
  <2>1. cache' = "none" /\ owner' = NoConn /\ lookup' = lookup
    BY <1>4 DEF Revoke, CacheAfterRevoke, Release
  <2>2. ~raced' => \A c \in Conns : lookup[c] # "found"
    BY <1>4 DEF Revoke
  <2> QED BY <2>1, <2>2
<1>5. ASSUME NEW c \in Conns, ConnectionActs(c) PROVE CutInv'
  <2>1. CASE Accept(c)
    BY <2>1, <1>0 DEF Accept, admin
  <2>2. CASE FirstFrame(c)
    <3>1. CASE cache = "yes"
      <4>1. row # "decommissioned" \/ "revoke" \in calls \/ raced
        BY <3>1
      <4> QED BY <2>2, <4>1 DEF FirstFrame, admin
    <3>2. CASE cache = "no"
      BY <2>2, <3>2 DEF FirstFrame, Refuse, admin, NetInv, GatewayTypeOK
    <3>3. CASE cache = "none"
      BY <2>2, <3>3 DEF FirstFrame, admin, NetInv, GatewayTypeOK
    <3> QED BY <3>1, <3>2, <3>3 DEF NetInv, GatewayTypeOK
  <2>3. CASE Closes(c)
    BY <2>3 DEF Closes, Release, admin
  <2>4. CASE Reports(c)
    BY <2>4, <1>0 DEF Reports, admin, net
  <2>5. CASE SelectRow(c)
    BY <2>5, <1>0 DEF SelectRow, Looks, NetInv, GatewayTypeOK
  <2>6. CASE UpdateRow(c)
    <3>1. CASE row = "decommissioned"
      BY <2>6, <3>1, <1>0 DEF UpdateRow, Looks, NetInv, GatewayTypeOK
    <3>2. CASE row # "decommissioned"
      BY <2>6, <3>2 DEF UpdateRow
    <3> QED BY <3>1, <3>2
  <2>7. CASE LookupFails(c)
    BY <2>7, <1>0 DEF LookupFails, Looks, NetInv, GatewayTypeOK
  <2>8. CASE Resolved(c)
    <3>1. CASE lookup[c] = "found"
      <4>1. row # "decommissioned" \/ "revoke" \in calls \/ raced
        BY <3>1
      <4> QED BY <2>8, <4>1 DEF Resolved, admin
    <3>2. CASE lookup[c] # "found"
      <4>1. Refuse(c) /\ UNCHANGED admin
        BY <2>8, <3>2 DEF Resolved
      <4>2. cache' \in {cache, "no"}
        BY <2>8, <3>2 DEF Resolved
      <4> QED BY <4>1, <4>2 DEF Refuse, admin, NetInv, GatewayTypeOK
    <3> QED BY <3>1, <3>2
  <2>9. ASSUME NEW presence \in {"online", "offline"}, WriteLands(c, presence) PROVE CutInv'
    BY <2>9 DEF WriteLands, net
  <2> QED BY <1>5, <2>1, <2>2, <2>3, <2>4, <2>5, <2>6, <2>7, <2>8, <2>9 DEF ConnectionActs
<1>6. ASSUME NEW k \in Commands, CommandActs(k) PROVE CutInv'
  BY <1>6, <1>0 DEF CommandActs, SendUnlockCommand, SendRejected, LockActs, EchoArrives,
     ResolveUnlock, admin, net
<1>7. CASE CacheExpires
  BY <1>7, <1>0 DEF CacheExpires, admin, net
<1>8. CASE SweepOfflineLocks
  BY <1>8 DEF SweepOfflineLocks, net
<1>9. CASE UnlockTimesOut
  BY <1>9, <1>0 DEF UnlockTimesOut, admin, net
<1>10. CASE Stops
  BY <1>10 DEF Stops
<1>11. CASE Listen
  BY <1>11 DEF Listen, net
<1>12. CASE UNCHANGED gatewayVars
  BY <1>12, <1>0 DEF gatewayVars, admin, net
<1> QED BY <1>1, <1>2, <1>3, <1>4, <1>5, <1>6, <1>7, <1>8, <1>9, <1>10, <1>11, <1>12
    DEF GatewayNext

(* For any number of connections, a lock whose decommissioning has come     *)
(* through is disconnected and not authorised from the cache, whatever      *)
(* lookups, sweeps and late statements are under way.                       *)
THEOREM RevocationHolds == GatewaySpec => []RevokedIsCutOff
<1>1. GatewayInit => CutInv
  BY DEF GatewayInit, CutInv, RevokedIsCutOff, NobodyIsLetIn
<1>2. NetInv /\ CutInv /\ [GatewayNext]_gatewayVars => CutInv'
  BY CutStep
<1>3. CutInv => RevokedIsCutOff
  BY DEF CutInv
<1> QED BY <1>1, <1>2, <1>3, NetIsSound, PTL DEF GatewaySpec

-----------------------------------------------------------------------------
(* The openings.                                                            *)

Answered == {k \in Commands : answer[k] = "opened"}
Opened == {k \in Commands : lock[k] = "opened" /\ echo[k] = "resolved"}

(* A step that resolves no echo changes none of the three sets.             *)
LEMMA OthersAreSilent ==
    ASSUME NetInv, [GatewayNext]_gatewayVars, \A k \in Commands : ~ResolveUnlock(k)
    PROVE  Answered' = Answered /\ told' = told /\ Opened' = Opened
<1> USE DEF NetInv, GatewayTypeOK, Answered, Opened
<1> DEFINE Goal == Answered' = Answered /\ told' = told /\ Opened' = Opened
<1>1. ASSUME UNCHANGED <<command, device>> PROVE Goal
  BY <1>1 DEF command, device
<1>2. ASSUME NEW k \in Commands, Settle(k, "error"), UNCHANGED device PROVE Goal
  BY <1>2 DEF Settle, Answer, device
<1>3. ASSUME NEW c \in Conns, Release(c), UNCHANGED device PROVE Goal
  BY <1>1, <1>2, <1>3 DEF Release
<1>4. CASE Revoke
  BY <1>1, <1>3, <1>4 DEF Revoke
<1>5. ASSUME NEW c \in Conns, ConnectionActs(c) PROVE Goal
  <2>1. CASE Accept(c) BY <1>1, <2>1 DEF Accept
  <2>2. CASE FirstFrame(c)
    <3>1. UNCHANGED device /\ UNCHANGED command
      BY <2>2 DEF FirstFrame, Attach, Refuse
    <3> QED BY <1>1, <3>1
  <2>3. CASE Closes(c) BY <1>3, <2>3 DEF Closes
  <2>4. CASE Reports(c) BY <1>1, <2>4 DEF Reports
  <2>5. CASE SelectRow(c) \/ UpdateRow(c) \/ LookupFails(c)
    <3>1. \E verdict : Looks(c, verdict)
      BY <2>5 DEF SelectRow, UpdateRow, LookupFails
    <3> QED BY <1>1, <3>1 DEF Looks
  <2>6. CASE Resolved(c)
    <3>1. UNCHANGED device /\ UNCHANGED command
      BY <2>6 DEF Resolved, Attach, Refuse
    <3> QED BY <1>1, <3>1
  <2>7. ASSUME NEW presence \in {"online", "offline"}, WriteLands(c, presence) PROVE Goal
    BY <1>1, <2>7 DEF WriteLands
  <2> QED BY <1>5, <2>1, <2>2, <2>3, <2>4, <2>5, <2>6, <2>7 DEF ConnectionActs
<1>6. ASSUME NEW k \in Commands, CommandActs(k) PROVE Goal
  <2>1. CASE SendUnlockCommand(k)
    BY <2>1 DEF SendUnlockCommand, EchoesFollowLocks
  <2>2. CASE SendRejected(k)
    <3>1. UNCHANGED <<told, echo>> /\ Answered' = Answered
      BY <2>2 DEF SendRejected
    <3>2. lock' = lock \/ (lock' = [lock EXCEPT ![k] = "sent"] /\ echo[k] = "none")
      BY <2>2 DEF SendRejected, EchoesFollowLocks
    <3> QED BY <3>1, <3>2
  <2>3. CASE LockActs(k)
    BY <2>3 DEF LockActs, EchoesFollowLocks, command
  <2>4. CASE EchoArrives(k)
    BY <2>4 DEF EchoArrives, command
  <2> QED BY <1>6, <2>1, <2>2, <2>3, <2>4 DEF CommandActs
<1>7. CASE UnlockTimesOut
  BY <1>2, <1>7 DEF UnlockTimesOut, TimedOut
<1>8. CASE Stops
  BY <1>8 DEF Stops
<1>9. CASE UNCHANGED gatewayVars
  BY <1>1, <1>9 DEF gatewayVars
<1>10. CASE \/ Register \/ Admit \/ CacheExpires \/ SweepOfflineLocks \/ Listen
            \/ \E status \in {"offline", "active", "decommissioned"} : EditStatus(status)
  BY <1>1, <1>10 DEF Register, Admit, CacheExpires, SweepOfflineLocks, Listen, EditStatus
<1> QED BY <1>4, <1>5, <1>6, <1>7, <1>8, <1>9, <1>10 DEF GatewayNext

(* For any finite number of commands and of connections, every opening      *)
(* whose echo is resolved is told once, to one caller or to reconciliation. *)
THEOREM OpeningsReachSomebody ==
    IsFiniteSet(Commands) => (GatewaySpec => []OpeningsAreHeard)
<1> SUFFICES ASSUME IsFiniteSet(Commands) PROVE GatewaySpec => []OpeningsAreHeard
  OBVIOUS
<1> DEFINE Heard == Cardinality(Answered) + Cardinality(told) = Cardinality(Opened)
<1>1. GatewayInit => Heard
  <2> SUFFICES ASSUME GatewayInit PROVE Heard
    OBVIOUS
  <2>1. Answered = {} /\ told = {} /\ Opened = {}
    BY DEF GatewayInit, Answered, Opened
  <2> QED BY <2>1, FS_EmptySet
<1>2. NetInv /\ Heard /\ [GatewayNext]_gatewayVars => Heard'
  <2> SUFFICES ASSUME NetInv, Heard, [GatewayNext]_gatewayVars PROVE Heard'
    OBVIOUS
  <2>1. /\ Answered \subseteq Commands /\ told \subseteq Commands /\ Opened \subseteq Commands
        /\ IsFiniteSet(Answered) /\ IsFiniteSet(told) /\ IsFiniteSet(Opened)
    BY FS_Subset DEF NetInv, GatewayTypeOK, Answered, Opened
  <2>2. /\ Cardinality(Answered) \in Nat /\ Cardinality(told) \in Nat
        /\ Cardinality(Opened) \in Nat
    BY <2>1, FS_CardinalityType
  <2>3. CASE \A k \in Commands : ~ResolveUnlock(k)
    BY <2>3, OthersAreSilent
  <2>4. ASSUME NEW k \in Commands, ResolveUnlock(k) PROVE Heard'
    <3>1. k \notin Opened /\ k \notin told /\ lock[k] \in {"opened", "refused"}
      BY <2>4 DEF ResolveUnlock, Opened, NetInv, EchoesFollowLocks
    <3>2. Opened' = IF lock[k] = "opened" THEN Opened \cup {k} ELSE Opened
      BY <2>4 DEF ResolveUnlock, Opened, NetInv, GatewayTypeOK
    <3>3. lock[k] = "opened" => Cardinality(Opened') = Cardinality(Opened) + 1
      BY <2>1, <3>1, <3>2, FS_AddElement
    <3>4. CASE pending = NoCommand
      <4>1. Answered' = Answered /\ told' = IF lock[k] = "opened" THEN told \cup {k} ELSE told
        BY <2>4, <3>4 DEF ResolveUnlock, Answered, command
      <4>2. lock[k] = "opened" => Cardinality(told') = Cardinality(told) + 1
        BY <2>1, <3>1, <4>1, FS_AddElement
      <4> QED BY <2>2, <3>2, <3>3, <4>1, <4>2
    <3>5. CASE pending # NoCommand
      <4>1. pending \in Commands /\ answer[pending] = "waiting" /\ told' = told
        BY <2>4, <3>5 DEF ResolveUnlock, NetInv, GatewayTypeOK, RegistryIsSound
      <4>2. Settle(pending, lock[k])
        BY <2>4, <3>5 DEF ResolveUnlock
      <4>3. /\ pending \notin Answered
            /\ Answered' = IF lock[k] = "opened" THEN Answered \cup {pending} ELSE Answered
        BY <3>1, <4>1, <4>2 DEF Settle, Answer, Answered, NetInv, GatewayTypeOK
      <4>4. lock[k] = "opened" => Cardinality(Answered') = Cardinality(Answered) + 1
        BY <2>1, <4>3, FS_AddElement
      <4> QED BY <2>2, <3>2, <3>3, <4>1, <4>3, <4>4
    <3> QED BY <3>4, <3>5
  <2> QED BY <2>3, <2>4
<1>3. Heard => OpeningsAreHeard
  BY DEF OpeningsAreHeard, Answered, Opened
<1> QED BY <1>1, <1>2, <1>3, NetIsSound, PTL DEF GatewaySpec
=============================================================================
