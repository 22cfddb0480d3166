------------------------------ MODULE RideStream ------------------------------
(***************************************************************************)
(* How a rider's tab comes to show the rides the rider has: the stream the  *)
(* server pushes, the poll beside it, and the change of accounts under      *)
(* both.                                                                    *)
(*                                                                          *)
(*   server/http/rides.ts             the stream and its serialised pushes  *)
(*   server/http/stream-session.ts    whether a stream may go on            *)
(*   client/.../use-active-ride-stream.tsx   the tab's end, its watchdog    *)
(*   client/.../queryClient.ts        the poll, generations of the session  *)
(*   client/.../SessionBoundary.tsx   what a notice of another tab does     *)
(*                                                                          *)
(* The rides of an account are a version number.  The tab's session is the  *)
(* browser's cookie, which other tabs change; they leave a notice.          *)
(***************************************************************************)
EXTENDS Naturals, Sequences

CONSTANTS
    Accounts,
    Guest,          \* no account: the session of the demo rider
    Conns,          \* connections that can be open at a time
    NoConn,
    MaxChanges,     \* bound of the model: changes of rides
    MaxLogins,      \* bound of the model: changes of the cookie
    MaxFaults       \* bound of the model: read errors, dead connections, restarts

ASSUME StreamAssumption ==
    /\ Guest \notin Accounts /\ NoConn \notin Conns
    /\ MaxChanges \in Nat /\ MaxLogins \in Nat /\ MaxFaults \in Nat

VARIABLES
    truth,      \* the version of each account's rides in the database
    unsaid,     \* committed changes whose event is still to be emitted
    session,    \* whose session the cookie holds, and which one it is
    barred,     \* accounts that staff have blocked
    conns,      \* the server's end of the connections, and what is under way
    tab,        \* what the tab shows and what its stream is
    poll,       \* the request for the active rides under way
    who,        \* the request for the current user under way
    notices,    \* notices of other tabs that are still to arrive
    faults

serverVars == <<truth, unsaid, session, barred>>
vars == <<serverVars, conns, tab, poll, who, notices, faults>>

Riders == Accounts \cup {Guest}
Versions == 0..(MaxChanges + 1)
Nothing == 0        \* no version: nothing read, written or shown

(* push: where the serialised push stands; written: the last frame.         *)
Conn == [state: {"free", "open", "ended"}, owner: Riders, session: Nat,
         push: {"idle", "check", "query", "write"}, dirty: BOOLEAN, failed: BOOLEAN,
         read: Versions, written: Versions, frames: Seq(Versions), dead: BOOLEAN]

FreeConn == [state |-> "free", owner |-> Guest, session |-> 0, push |-> "idle",
             dirty |-> FALSE, failed |-> FALSE, read |-> Nothing, written |-> Nothing,
             frames |-> <<>>, dead |-> FALSE]

(* A request under way is known by what the server has read for it; until   *)
(* then nothing depends on it.                                              *)
Request == [pending: BOOLEAN, owner: Riders, version: Versions]
NoRequest == [pending |-> FALSE, owner |-> Guest, version |-> Nothing]

(* me: the account the tab was told of; mounted: the one its stream is for; *)
(* stale: the session's generation has changed since the stream's mount.    *)
Tab == [me: Riders, checking: BOOLEAN, mounted: Riders, conn: Conns \cup {NoConn},
        stale: BOOLEAN, owner: Riders, version: Versions]

StreamTypeOK ==
    /\ truth \in [Riders -> Versions] /\ unsaid \in [Riders -> Nat]
    /\ session \in [user: Riders, id: Nat] /\ barred \subseteq Accounts
    /\ conns \in [Conns -> Conn]
    /\ tab \in Tab /\ poll \in Request /\ who \in Request
    /\ notices \in Nat /\ faults \in Nat

StreamInit ==
    /\ truth = [r \in Riders |-> 1] /\ unsaid = [r \in Riders |-> 0]
    /\ \E r \in Riders :
          /\ session = [user |-> r, id |-> 0]
          /\ tab = [me |-> r, checking |-> FALSE, mounted |-> Guest, conn |-> NoConn,
                    stale |-> FALSE, owner |-> Guest, version |-> Nothing]
    /\ barred = {} /\ conns = [c \in Conns |-> FreeConn]
    /\ poll = NoRequest /\ who = NoRequest /\ notices = 0 /\ faults = 0

Fault == faults < MaxFaults /\ faults' = faults + 1

-----------------------------------------------------------------------------
(* The database, the bus and the sessions.                                  *)

(* Versions are counted over all accounts.                                  *)
Change(a) ==
    /\ \E v \in Versions :
          /\ \A r \in Riders : truth[r] < v
          /\ truth' = [truth EXCEPT ![a] = v]
    /\ unsaid' = [unsaid EXCEPT ![a] = @ + 1]
    /\ UNCHANGED <<session, barred, conns, tab, poll, who, notices, faults>>

(* Mutant: what comes while a push is under way is dropped.                 *)
PushedMutant(k) == IF k.push = "idle" THEN [k EXCEPT !.push = "check"] ELSE k

(* One push at a time; what comes in between is remembered.                 *)
Pushed(k) == IF k.push = "idle" THEN [k EXCEPT !.push = "check"] ELSE [k EXCEPT !.dirty = TRUE]

Emit(a) ==
    /\ unsaid[a] > 0
    /\ unsaid' = [unsaid EXCEPT ![a] = @ - 1]
    /\ conns' = [c \in Conns |-> IF conns[c].state = "open" /\ conns[c].owner = a
                                 THEN Pushed(conns[c]) ELSE conns[c]]
    /\ UNCHANGED <<truth, session, barred, tab, poll, who, notices, faults>>

(* Another tab signs in or out; this one will hear of it.                   *)
OtherTab(r) ==
    /\ session.id < MaxLogins
    /\ r # session.user
    /\ session' = [user |-> r, id |-> session.id + 1]
    /\ notices' = notices + 1
    /\ UNCHANGED <<truth, unsaid, barred, conns, tab, poll, who, faults>>

(* The session is revoked or runs out: no tab is told.                      *)
SessionEnds ==
    /\ session.id < MaxLogins
    /\ session.user # Guest
    /\ session' = [user |-> Guest, id |-> session.id + 1]
    /\ UNCHANGED <<truth, unsaid, barred, conns, tab, poll, who, notices, faults>>

(* Staff block an account, or let it in again; its sessions are not touched. *)
SetUserBlocked(a) ==
    /\ Fault
    /\ barred' = IF a \in barred THEN barred \ {a} ELSE barred \cup {a}
    /\ UNCHANGED <<truth, unsaid, session, conns, tab, poll, who, notices>>

-----------------------------------------------------------------------------
(* The server's end of a stream.                                            *)

Open(c) == conns[c].state = "open"
Pushing(c, step) == conns[c].push = step
ConnStep(c, k) ==
    /\ conns' = [conns EXCEPT ![c] = k]
    /\ UNCHANGED <<serverVars, tab, poll, who, notices>>

(* The end of a push: what came in the meantime is pushed now.              *)
Finished(k) == [k EXCEPT !.push = IF k.dirty THEN "check" ELSE "idle",
                         !.dirty = FALSE, !.read = Nothing]

(* The end of a stream: frames under way still arrive.                      *)
Ended(k) == [FreeConn EXCEPT !.state = "ended", !.owner = k.owner, !.session = k.session,
                             !.frames = k.frames, !.dead = k.dead]

(* Mutant: the session is looked up once, when the stream opens.            *)
SessionValidMutant(k) == TRUE

(* streamSessionValid; a session of no account is never looked up.          *)
SessionValid(k) ==
    k.owner = Guest \/ (k.session = session.id /\ k.owner \notin barred)

CheckSession(c) ==
    /\ Pushing(c, "check")
    /\ ConnStep(c, IF SessionValid(conns[c]) THEN [conns[c] EXCEPT !.push = "query"]
                   ELSE Ended(conns[c]))
    /\ UNCHANGED faults

(* A session or an account that cannot be looked up counts as none.         *)
CheckFails(c) ==
    /\ Pushing(c, "check") /\ conns[c].owner # Guest
    /\ Fault
    /\ ConnStep(c, Ended(conns[c]))

ReadRides(c) ==
    /\ Pushing(c, "query")
    /\ ConnStep(c, [conns[c] EXCEPT !.push = "write", !.read = truth[conns[c].owner]])
    /\ UNCHANGED faults

(* A read error is swallowed; the next event will do.                       *)
ReadFails(c) ==
    /\ Pushing(c, "query")
    /\ Fault
    /\ ConnStep(c, Finished([conns[c] EXCEPT !.failed = TRUE]))

(* A buffer that is full ends the stream after the frame.                   *)
WriteFrame(c) ==
    LET k == conns[c]
        sent == [k EXCEPT !.written = k.read, !.failed = FALSE,
                          !.frames = IF k.dead THEN @ ELSE Append(@, k.read)]
    IN  /\ Pushing(c, "write")
        /\ \/ ConnStep(c, Finished(sent)) /\ UNCHANGED faults
           \/ ConnStep(c, Ended(sent)) /\ Fault

(* The heartbeat pushes too: a failed read is made good and the session is  *)
(* looked at again.  Bound of the model: pushes and frames are faster than  *)
(* heartbeats.                                                              *)
Heartbeat(c) ==
    /\ Open(c)
    /\ Pushing(c, "idle") /\ conns[c].frames = <<>>
    /\ ConnStep(c, Pushed(conns[c]))
    /\ UNCHANGED faults

(* The other end is gone: the handler is closed and its listener removed.   *)
Cleanup(c) ==
    /\ conns[c].state # "free"
    /\ tab.conn # c
    /\ ConnStep(c, FreeConn)
    /\ UNCHANGED faults

(* The network drops the connection and tells nobody.                       *)
Die(c) ==
    /\ Open(c) /\ ~conns[c].dead
    /\ Fault
    /\ ConnStep(c, [conns[c] EXCEPT !.dead = TRUE, !.frames = <<>>])

(* The process dies and comes back: streams, pushes and events are gone.    *)
Restart ==
    /\ Fault
    /\ conns' = [c \in Conns |-> IF conns[c].state = "free" THEN FreeConn ELSE
                    Ended([conns[c] EXCEPT !.frames = <<>>])]
    /\ unsaid' = [r \in Riders |-> 0]
    /\ poll' = NoRequest /\ who' = NoRequest
    /\ UNCHANGED <<truth, session, barred, tab, notices>>

-----------------------------------------------------------------------------
(* The tab.                                                                 *)

Showing == IF tab.checking THEN Guest ELSE tab.me

(* resetSessionData: a new generation; what was cached of the old is gone.  *)
Forgotten(t) == [t EXCEPT !.stale = TRUE, !.owner = Guest, !.version = Nothing]

TabStep == UNCHANGED <<serverVars, notices, faults>>

(* The effect runs when the account it is for has changed: the old stream   *)
(* is closed, and a new one belongs to the new generation.                  *)
Render ==
    /\ tab.mounted # Showing
    /\ tab' = [tab EXCEPT !.mounted = Showing, !.conn = NoConn, !.stale = FALSE]
    /\ UNCHANGED <<conns, poll, who>>
    /\ TabStep

(* The browser connects: the stream belongs to whom the cookie says.  The   *)
(* first snapshot is pushed when the listener is there.                     *)
FreeSlot == CHOOSE c \in Conns : conns[c].state = "free"

Connect(c) ==
    /\ tab.mounted # Guest /\ tab.mounted = Showing /\ tab.conn = NoConn
    /\ conns[c].state = "free" /\ c = FreeSlot
    /\ tab' = [tab EXCEPT !.conn = c]
    /\ conns' = [conns EXCEPT ![c] = Pushed([FreeConn EXCEPT
                    !.state = "open", !.owner = session.user, !.session = session.id])]
    /\ UNCHANGED <<poll, who>>
    /\ TabStep

(* Mutant: a frame of the stream of the account before is taken.            *)
TakesMutant(t) == TRUE

(* A frame counts if the session's generation is still that of the mount.   *)
Takes(t) == ~t.stale

(* Older snapshots of the poll are cancelled before the stream's is shown.  *)
Frame(c) ==
    /\ tab.conn = c /\ ~conns[c].dead /\ conns[c].frames # <<>>
    /\ conns' = [conns EXCEPT ![c].frames = Tail(@)]
    /\ IF Takes(tab)
       THEN /\ tab' = [tab EXCEPT !.owner = conns[c].owner,
                                  !.version = Head(conns[c].frames)]
            /\ poll' = NoRequest
       ELSE UNCHANGED <<tab, poll>>
    /\ UNCHANGED who
    /\ TabStep

Loses(c) ==
    /\ tab.conn = c
    /\ tab' = [tab EXCEPT !.conn = NoConn]
    /\ UNCHANGED <<conns, poll, who>>

(* The server has ended the stream; the browser reconnects by itself.       *)
StreamErrors(c) ==
    /\ conns[c].state = "ended" /\ ~conns[c].dead /\ conns[c].frames = <<>>
    /\ Loses(c)
    /\ TabStep

(* Mutant: only an error that the browser reports makes the tab reconnect.  *)
NoticesSilenceMutant(c) == FALSE

(* Nothing was heard for longer than the threshold: no heartbeat either.    *)
NoticesSilence(c) == conns[c].dead

Watchdog(c) ==
    /\ NoticesSilence(c)
    /\ Loses(c)
    /\ TabStep

(* The tab was hidden or offline: it reconnects to be sure.                 *)
Reconnect(c) ==
    /\ Loses(c)
    /\ Fault
    /\ UNCHANGED <<serverVars, notices>>

-----------------------------------------------------------------------------
(* The poll of the rides and of the current user.                           *)

Answer(version) == [pending |-> TRUE, owner |-> session.user, version |-> version]

(* The timer skips it while a snapshot of the stream is fresh, but what the *)
(* rider does invalidates that one: it may happen at any time.              *)
PollReads ==
    /\ tab.mounted # Guest /\ ~poll.pending
    /\ poll' = Answer(truth[session.user])
    /\ UNCHANGED <<conns, tab, who>> /\ TabStep

PollReturns ==
    /\ poll.pending
    /\ tab' = [tab EXCEPT !.owner = poll.owner, !.version = poll.version]
    /\ poll' = NoRequest
    /\ UNCHANGED <<conns, who>> /\ TabStep

WhoReads ==
    /\ tab.mounted = Showing /\ ~who.pending
    /\ who' = Answer(Nothing)
    /\ UNCHANGED <<conns, tab, poll>> /\ TabStep

(* acceptSessionUser                                                        *)
WhoReturns ==
    /\ who.pending
    /\ LET told == [tab EXCEPT !.me = who.owner, !.checking = FALSE]
       IN  IF who.owner = tab.me
           THEN tab' = told /\ UNCHANGED poll
           ELSE tab' = Forgotten(told) /\ poll' = NoRequest
    /\ who' = NoRequest
    /\ UNCHANGED conns /\ TabStep

(* SessionBoundary: everything of the old session is dropped and hidden     *)
(* until the server has said whose session it is.                           *)
NoticeArrives ==
    /\ notices > 0
    /\ notices' = notices - 1
    /\ tab' = Forgotten([tab EXCEPT !.checking = TRUE])
    /\ poll' = NoRequest /\ who' = NoRequest
    /\ UNCHANGED <<serverVars, conns, faults>>

StreamNext ==
    \/ \E a \in Accounts : Change(a) \/ Emit(a) \/ SetUserBlocked(a)
    \/ \E r \in Riders : OtherTab(r)
    \/ SessionEnds
    \/ \E c \in Conns :
          \/ CheckSession(c) \/ CheckFails(c) \/ ReadRides(c) \/ ReadFails(c) \/ WriteFrame(c)
          \/ Heartbeat(c) \/ Cleanup(c) \/ Die(c)
          \/ Connect(c) \/ Frame(c) \/ StreamErrors(c) \/ Watchdog(c) \/ Reconnect(c)
    \/ Restart \/ Render
    \/ PollReads \/ PollReturns \/ WhoReads \/ WhoReturns \/ NoticeArrives

StreamSpec == StreamInit /\ [][StreamNext]_vars

(* The server's pushes and heartbeats go on, and so do the tab's connection, *)
(* its watchdog and its look at whose session it is.  Nothing is assumed of *)
(* the poll of the rides: the stream has to do alone.                       *)
StreamFairness ==
    /\ \A a \in Accounts : WF_vars(Emit(a))
    /\ \A c \in Conns :
          /\ WF_vars(CheckSession(c)) /\ WF_vars(ReadRides(c)) /\ WF_vars(WriteFrame(c))
          /\ WF_vars(Heartbeat(c)) /\ WF_vars(Cleanup(c))
          /\ WF_vars(Frame(c)) /\ WF_vars(StreamErrors(c)) /\ WF_vars(Watchdog(c))
    /\ WF_vars(\E c \in Conns : Connect(c))
    /\ WF_vars(Render)
    /\ WF_vars(WhoReads) /\ WF_vars(WhoReturns)
    /\ WF_vars(NoticeArrives)

FairStreamSpec == StreamSpec /\ StreamFairness

-----------------------------------------------------------------------------
(* The last state always wins: when a stream has nothing under way and no   *)
(* event is on its way, its last frame is the database's state, however     *)
(* changes, pushes and heartbeats overlap; only a failed read may defer it. *)
LastStateWins ==
    \A c \in Conns :
        LET k == conns[c]
        IN  (Open(c) /\ k.push = "idle" /\ ~k.failed /\ unsaid[k.owner] = 0)
                => k.written = truth[k.owner]

(* A rider's tab shows nobody else's rides: not from a request or a stream  *)
(* of the session before, once the notices of the change have arrived.      *)
OwnRidesOnly ==
    (notices = 0 /\ ~tab.checking /\ {tab.me, tab.owner} \subseteq Accounts)
        => tab.owner = tab.me

(* Liveness: a stream does not outlive the session it was opened with, even *)
(* if nothing ever happens to the rides.                                    *)
Revoked(k) ==
    k.owner # Guest /\ (k.session # session.id \/ k.owner \in barred)

RevokedStreamCloses ==
    \A c \in Conns : (Open(c) /\ Revoked(conns[c])) ~> ~(Open(c) /\ Revoked(conns[c]))

(* Liveness: through failed reads, dropped connections, restarts and a      *)
(* change of accounts the tab comes to show the rides there are.            *)
TabCatchesUp ==
    <>[](tab.mounted \in Accounts \ barred =>
            (tab.owner = tab.mounted /\ tab.version = truth[tab.mounted]))

=============================================================================
