--------------------------- MODULE RideStreamProofs ---------------------------
(* Proofs about RideStream, for any number of accounts and connections, and *)
(* any number of changes, logins and faults.                                *)
EXTENDS RideStream, TLAPS

-----------------------------------------------------------------------------
(* Types.                                                                   *)

LEMMA Members ==
    /\ Guest \in Riders /\ Accounts \subseteq Riders
    /\ 0 \in Nat /\ Nothing \in Versions /\ <<>> \in Seq(Versions)
    /\ NoRequest \in Request
<1>1. Guest \in Riders /\ Accounts \subseteq Riders
    BY DEF Riders
<1>2. 0 \in Nat /\ Nothing \in Versions /\ <<>> \in Seq(Versions)
    BY StreamAssumption DEF Versions, Nothing
<1>3. NoRequest \in Request
    BY <1>1, <1>2, Zenon DEF NoRequest, Request
<1>4. QED
    BY <1>1, <1>2, <1>3

LEMMA ConnTypes ==
    /\ FreeConn \in Conn
    /\ \A k \in Conn : Pushed(k) \in Conn /\ Finished(k) \in Conn /\ Ended(k) \in Conn
<1>1. FreeConn \in Conn
    BY Members, ZenonT(60) DEF FreeConn, Conn
<1>2. ASSUME NEW k \in Conn PROVE Pushed(k) \in Conn
    BY ZenonT(60) DEF Pushed, Conn
<1>3. ASSUME NEW k \in Conn PROVE Finished(k) \in Conn
    <2>1. (IF k.dirty THEN "check" ELSE "idle") \in {"idle", "check", "query", "write"}
        BY Zenon
    <2>2. QED
        BY Members, <2>1, ZenonT(60) DEF Finished, Conn
<1>4. ASSUME NEW k \in Conn PROVE Ended(k) \in Conn
    <2>1. /\ k.owner \in Riders /\ k.session \in Nat
          /\ k.frames \in Seq(Versions) /\ k.dead \in BOOLEAN
        BY DEF Conn
    <2>2. QED
        BY <1>1, <2>1, ZenonT(60) DEF Ended, Conn
<1>5. QED
    BY <1>1, <1>2, <1>3, <1>4

(* A step of one connection leaves everything typed.                        *)
LEMMA ConnStepType ==
    ASSUME StreamTypeOK, NEW c \in Conns, NEW k \in Conn, ConnStep(c, k), faults' \in Nat
    PROVE  StreamTypeOK'
<1>1. conns' \in [Conns -> Conn]
    BY DEF StreamTypeOK, ConnStep
<1>2. QED
    BY <1>1 DEF StreamTypeOK, ConnStep, serverVars

LEMMA FaultType ==
    ASSUME StreamTypeOK, Fault
    PROVE  faults' \in Nat
BY DEF StreamTypeOK, Fault

(* The server's side keeps the types.                                       *)
LEMMA ServerTypes ==
    ASSUME StreamTypeOK, NEW a \in Accounts, Change(a) \/ Emit(a) \/ SetUserBlocked(a)
    PROVE  StreamTypeOK'
<1>1. a \in Riders
    BY Members
<1>2. CASE Change(a)
    BY <1>1, <1>2, SMTT(60) DEF Change, StreamTypeOK
<1>3. CASE Emit(a)
    <2>1. unsaid' \in [Riders -> Nat]
        BY <1>1, <1>3 DEF Emit, StreamTypeOK
    <2>2. conns' \in [Conns -> Conn]
        BY <1>3, ConnTypes DEF Emit, StreamTypeOK
    <2>3. QED
        BY <1>3, <2>1, <2>2 DEF Emit, StreamTypeOK
<1>4. CASE SetUserBlocked(a)
    BY <1>4 DEF SetUserBlocked, StreamTypeOK, Fault
<1>5. QED
    BY <1>2, <1>3, <1>4

(* The stream's steps keep the types.                                       *)
LEMMA ConnectionTypes ==
    ASSUME StreamTypeOK, NEW c \in Conns,
           \/ CheckSession(c) \/ CheckFails(c) \/ ReadRides(c) \/ ReadFails(c)
           \/ WriteFrame(c) \/ Heartbeat(c) \/ Cleanup(c) \/ Die(c)
    PROVE  StreamTypeOK'
<1> DEFINE k == conns[c]
<1>1. k \in Conn
    BY DEF StreamTypeOK
<1>2. truth[k.owner] \in Versions
    BY <1>1 DEF StreamTypeOK, Conn
<1>3. UNCHANGED faults => faults' \in Nat
    BY DEF StreamTypeOK
<1>4. CASE CheckSession(c)
    <2>1. [k EXCEPT !.push = "query"] \in Conn
        BY <1>1, ZenonT(60) DEF Conn
    <2>2. QED
        BY <1>1, <1>3, <1>4, <2>1, ConnStepType, ConnTypes DEF CheckSession
<1>5. CASE CheckFails(c)
    BY <1>1, <1>5, ConnStepType, ConnTypes, FaultType DEF CheckFails
<1>6. CASE ReadRides(c)
    <2>1. [k EXCEPT !.push = "write", !.read = truth[k.owner]] \in Conn
        BY <1>1, <1>2, ZenonT(60) DEF Conn
    <2>2. QED
        BY <1>3, <1>6, <2>1, ConnStepType DEF ReadRides
<1>7. CASE ReadFails(c)
    <2>1. [k EXCEPT !.failed = TRUE] \in Conn
        BY <1>1, ZenonT(60) DEF Conn
    <2>2. QED
        BY <1>7, <2>1, ConnStepType, ConnTypes, FaultType DEF ReadFails
<1>8. CASE WriteFrame(c)
    <2> DEFINE sent == [k EXCEPT !.written = k.read, !.failed = FALSE,
                                 !.frames = IF k.dead THEN @ ELSE Append(@, k.read)]
    <2>1. sent \in Conn
        <3>1. (IF k.dead THEN k.frames ELSE Append(k.frames, k.read)) \in Seq(Versions)
            BY <1>1 DEF Conn
        <3>2. QED
            BY <1>1, <3>1, ZenonT(60) DEF Conn
    <2>2. \/ ConnStep(c, Finished(sent)) /\ UNCHANGED faults
          \/ ConnStep(c, Ended(sent)) /\ Fault
        BY <1>8 DEF WriteFrame
    <2> HIDE DEF sent
    <2>3. QED
        BY <1>3, <2>1, <2>2, ConnStepType, ConnTypes, FaultType
<1>9. CASE Heartbeat(c)
    BY <1>1, <1>3, <1>9, ConnStepType, ConnTypes DEF Heartbeat
<1>10. CASE Cleanup(c)
    BY <1>3, <1>10, ConnStepType, ConnTypes DEF Cleanup
<1>11. CASE Die(c)
    <2>1. [k EXCEPT !.dead = TRUE, !.frames = <<>>] \in Conn
        BY <1>1, Members, ZenonT(60) DEF Conn
    <2>2. QED
        BY <1>11, <2>1, ConnStepType, FaultType DEF Die
<1>12. QED
    BY <1>4, <1>5, <1>6, <1>7, <1>8, <1>9, <1>10, <1>11

(* The tab's steps on its stream keep the types.                            *)
LEMMA TabStreamTypes ==
    ASSUME StreamTypeOK, NEW c \in Conns,
           Connect(c) \/ Frame(c) \/ StreamErrors(c) \/ Watchdog(c) \/ Reconnect(c)
    PROVE  StreamTypeOK'
<1>1. CASE Connect(c)
    <2> DEFINE opened == [FreeConn EXCEPT !.state = "open", !.owner = session.user,
                                          !.session = session.id]
    <2>1. opened \in Conn
        <3>1. session.user \in Riders /\ session.id \in Nat
            BY DEF StreamTypeOK
        <3>2. QED
            BY <3>1, ConnTypes, ZenonT(60) DEF Conn
    <2>2. Pushed(opened) \in Conn
        BY <2>1, ConnTypes
    <2>3. conns' \in [Conns -> Conn]
        BY <1>1, <2>2 DEF Connect, StreamTypeOK
    <2>4. tab' \in Tab
        BY <1>1, ZenonT(60) DEF Connect, StreamTypeOK, Tab
    <2>5. QED
        BY <1>1, <2>3, <2>4 DEF Connect, StreamTypeOK, TabStep, serverVars
<1>2. CASE Frame(c)
    <2>1. conns[c] \in Conn
        BY DEF StreamTypeOK
    <2>2. /\ Tail(conns[c].frames) \in Seq(Versions)
          /\ Head(conns[c].frames) \in Versions
          /\ conns[c].owner \in Riders
        BY <1>2, <2>1 DEF Frame, Conn
    <2>3. [conns[c] EXCEPT !.frames = Tail(@)] \in Conn
        BY <2>1, <2>2, ZenonT(60) DEF Conn
    <2>4. conns' \in [Conns -> Conn]
        BY <1>2, <2>3 DEF Frame, StreamTypeOK
    <2>5. tab' \in Tab
        BY <1>2, <2>2, ZenonT(60) DEF Frame, StreamTypeOK, Tab
    <2>6. poll' \in Request
        BY <1>2, Members DEF Frame, StreamTypeOK
    <2>7. QED
        BY <1>2, <2>4, <2>5, <2>6 DEF Frame, StreamTypeOK, TabStep, serverVars
<1>3. CASE StreamErrors(c) \/ Watchdog(c) \/ Reconnect(c)
    <2>1. tab' \in Tab
        BY <1>3, ZenonT(60) DEF StreamErrors, Watchdog, Reconnect, Loses, StreamTypeOK, Tab
    <2>2. faults' \in Nat
        BY <1>3, FaultType DEF StreamErrors, Watchdog, Reconnect, TabStep, StreamTypeOK
    <2>3. QED
        BY <1>3, <2>1, <2>2
        DEF StreamErrors, Watchdog, Reconnect, Loses, StreamTypeOK, TabStep, serverVars
<1>4. QED
    BY <1>1, <1>2, <1>3

(* The tab's other steps, and a restart, keep the types.                    *)
LEMMA TabTypes ==
    ASSUME StreamTypeOK,
           \/ Restart \/ Render
           \/ PollReads \/ PollReturns \/ WhoReads \/ WhoReturns \/ NoticeArrives
    PROVE  StreamTypeOK'
<1>1. CASE Restart
    <2>1. \A c \in Conns : [conns[c] EXCEPT !.frames = <<>>] \in Conn
        <3> SUFFICES ASSUME NEW k \in Conn PROVE [k EXCEPT !.frames = <<>>] \in Conn
            BY DEF StreamTypeOK
        <3>1. QED
            BY Members, ZenonT(60) DEF Conn
    <2>2. conns' \in [Conns -> Conn]
        BY <1>1, <2>1, ConnTypes DEF Restart, StreamTypeOK
    <2>3. QED
        BY <1>1, <2>2, Members, FaultType DEF Restart, StreamTypeOK
<1>2. CASE Render
    <2>1. tab' \in Tab
        BY <1>2, Members, ZenonT(60) DEF Render, StreamTypeOK, Tab, Showing
    <2>2. QED
        BY <1>2, <2>1 DEF Render, StreamTypeOK, TabStep, serverVars
<1>3. \A v \in Versions : Answer(v) \in Request
    BY ZenonT(60) DEF StreamTypeOK, Answer, Request
<1>4. \A t \in Tab : Forgotten(t) \in Tab
    BY Members, ZenonT(60) DEF Forgotten, Tab
<1>5. CASE PollReads
    <2>1. poll' \in Request
        BY <1>3, <1>5 DEF PollReads, StreamTypeOK
    <2>2. QED
        BY <1>5, <2>1 DEF PollReads, StreamTypeOK, TabStep, serverVars
<1>6. CASE PollReturns
    <2>1. tab' \in Tab
        BY <1>6, ZenonT(60) DEF PollReturns, StreamTypeOK, Tab, Request
    <2>2. QED
        BY <1>6, <2>1, Members DEF PollReturns, StreamTypeOK, TabStep, serverVars
<1>7. CASE WhoReads
    <2>1. who' \in Request
        BY <1>3, <1>7, Members DEF WhoReads, StreamTypeOK
    <2>2. QED
        BY <1>7, <2>1 DEF WhoReads, StreamTypeOK, TabStep, serverVars
<1>8. CASE WhoReturns
    <2> DEFINE told == [tab EXCEPT !.me = who.owner, !.checking = FALSE]
    <2>1. told \in Tab
        BY ZenonT(60) DEF StreamTypeOK, Tab, Request
    <2>2. tab' = told \/ tab' = Forgotten(told)
        BY <1>8 DEF WhoReturns
    <2>3. poll' \in Request /\ who' \in Request
        BY <1>8, Members DEF WhoReturns, StreamTypeOK
    <2> HIDE DEF told
    <2>4. tab' \in Tab
        BY <1>4, <2>1, <2>2
    <2>5. QED
        BY <1>8, <2>3, <2>4 DEF WhoReturns, StreamTypeOK, TabStep, serverVars
<1>9. CASE NoticeArrives
    <2>1. [tab EXCEPT !.checking = TRUE] \in Tab
        BY ZenonT(60) DEF StreamTypeOK, Tab
    <2>2. tab' \in Tab
        BY <1>4, <1>9, <2>1 DEF NoticeArrives
    <2>3. notices' \in Nat
        BY <1>9 DEF NoticeArrives, StreamTypeOK
    <2>4. QED
        BY <1>9, <2>2, <2>3, Members DEF NoticeArrives, StreamTypeOK, serverVars
<1>10. QED
    BY <1>1, <1>2, <1>5, <1>6, <1>7, <1>8, <1>9

LEMMA InitTypes == StreamInit => StreamTypeOK
<1> SUFFICES ASSUME StreamInit PROVE StreamTypeOK
    OBVIOUS
<1>1. PICK r \in Riders :
          /\ session = [user |-> r, id |-> 0]
          /\ tab = [me |-> r, checking |-> FALSE, mounted |-> Guest, conn |-> NoConn,
                    stale |-> FALSE, owner |-> Guest, version |-> Nothing]
    BY DEF StreamInit
<1>2. tab \in Tab
    BY <1>1, Members, ZenonT(60) DEF Tab
<1>3. session \in [user: Riders, id: Nat]
    BY <1>1, Members
<1>4. 1 \in Versions
    BY StreamAssumption DEF Versions
<1>5. QED
    BY <1>2, <1>3, <1>4, Members, ConnTypes DEF StreamInit, StreamTypeOK

LEMMA TypeStep == StreamTypeOK /\ [StreamNext]_vars => StreamTypeOK'
<1> SUFFICES ASSUME StreamTypeOK, [StreamNext]_vars PROVE StreamTypeOK'
    OBVIOUS
<1>1. Guest \in Riders
    BY Members
<1>2. CASE \E a \in Accounts : Change(a) \/ Emit(a) \/ SetUserBlocked(a)
    BY <1>1, <1>2, ServerTypes
<1>3. CASE \E r \in Riders : OtherTab(r)
    <2>1. PICK r \in Riders : OtherTab(r)
        BY <1>3
    <2>2. QED
        BY <2>1, SMTT(60) DEF OtherTab, StreamTypeOK
<1>4. CASE SessionEnds
    BY <1>1, <1>4, SMTT(60) DEF SessionEnds, StreamTypeOK
<1>5. CASE \E c \in Conns : \/ CheckSession(c) \/ CheckFails(c) \/ ReadRides(c) \/ ReadFails(c)
                             \/ WriteFrame(c) \/ Heartbeat(c) \/ Cleanup(c) \/ Die(c)
    BY <1>5, ConnectionTypes
<1>6. CASE \E c \in Conns : Connect(c) \/ Frame(c) \/ StreamErrors(c) \/ Watchdog(c) \/ Reconnect(c)
    BY <1>6, TabStreamTypes
<1>7. CASE \/ Restart \/ Render
           \/ PollReads \/ PollReturns \/ WhoReads \/ WhoReturns \/ NoticeArrives
    BY <1>7, TabTypes
<1>8. CASE UNCHANGED vars
    BY <1>8 DEF StreamTypeOK, vars, serverVars
<1>9. QED
    BY <1>2, <1>3, <1>4, <1>5, <1>6, <1>7, <1>8 DEF StreamNext

(* Accounts, sessions, connections, requests and the tab are well typed in  *)
(* every reachable state.                                                   *)
THEOREM StreamIsTyped == StreamSpec => []StreamTypeOK
BY InitTypes, TypeStep, PTL DEF StreamSpec

-----------------------------------------------------------------------------
(* The last state wins.                                                     *)

(* What a connection that is open and has no event coming has written, or   *)
(* is about to write, is the database's state; only an open one pushes.     *)
Current(k) ==
    /\ k.push # "idle" => k.state = "open"
    /\ (k.state = "open" /\ unsaid[k.owner] = 0) =>
          /\ (k.push = "write" /\ ~k.dirty) => k.read = truth[k.owner]
          /\ (k.push = "idle" /\ ~k.failed) => k.written = truth[k.owner]

PushesAreCurrent == \A c \in Conns : Current(conns[c])

StreamInv == StreamTypeOK /\ PushesAreCurrent

LEMMA IdleIsCurrent ==
    ASSUME NEW k \in Conn
    PROVE  Current(FreeConn) /\ Current(Ended(k))
BY DEF Current, FreeConn, Ended, Conn

LEMMA CurrentConnStep ==
    ASSUME StreamInv, NEW c \in Conns, NEW k, Current(k), ConnStep(c, k)
    PROVE  PushesAreCurrent'
<1> SUFFICES ASSUME NEW d \in Conns PROVE Current(conns[d])'
    BY DEF PushesAreCurrent
<1>1. truth' = truth /\ unsaid' = unsaid
    BY DEF ConnStep, serverVars
<1>2. conns'[d] = k \/ conns'[d] = conns[d]
    BY DEF ConnStep, StreamInv, StreamTypeOK
<1>3. QED
    BY <1>1, <1>2 DEF Current, StreamInv, PushesAreCurrent

(* Neither the tab's steps nor those of the session touch a push.           *)
LEMMA CurrentElsewhere ==
    ASSUME StreamInv, UNCHANGED <<truth, unsaid>>,
           \A c \in Conns : \E frames : conns'[c] = [conns[c] EXCEPT !.frames = frames]
    PROVE  PushesAreCurrent'
<1> SUFFICES ASSUME NEW c \in Conns PROVE Current(conns[c])'
    BY DEF PushesAreCurrent
<1>1. conns[c] \in Conn /\ Current(conns[c])
    BY DEF StreamInv, StreamTypeOK, PushesAreCurrent
<1>2. PICK frames : conns'[c] = [conns[c] EXCEPT !.frames = frames]
    OBVIOUS
<1>3. QED
    BY <1>1, <1>2 DEF Current, Conn

LEMMA CurrentConnection ==
    ASSUME StreamInv, NEW c \in Conns,
           \/ CheckSession(c) \/ CheckFails(c) \/ ReadRides(c) \/ ReadFails(c)
           \/ WriteFrame(c) \/ Heartbeat(c) \/ Cleanup(c) \/ Die(c)
    PROVE  PushesAreCurrent'
<1> DEFINE k == conns[c]
<1>1. k \in Conn /\ Current(k)
    BY DEF StreamInv, StreamTypeOK, PushesAreCurrent
<1>2. Current(FreeConn) /\ Current(Ended(k))
    BY <1>1, IdleIsCurrent
<1>3. CASE CheckSession(c)
    <2>1. Current([k EXCEPT !.push = "query"])
        BY <1>1, <1>3 DEF Current, Conn, CheckSession, Pushing
    <2>2. QED
        BY <1>2, <1>3, <2>1, CurrentConnStep DEF CheckSession
<1>4. CASE CheckFails(c)
    BY <1>2, <1>4, CurrentConnStep DEF CheckFails
<1>5. CASE ReadRides(c)
    <2>1. Current([k EXCEPT !.push = "write", !.read = truth[k.owner]])
        BY <1>1, <1>5 DEF Current, Conn, ReadRides, Pushing
    <2>2. QED
        BY <1>5, <2>1, CurrentConnStep DEF ReadRides
<1>6. CASE ReadFails(c)
    <2>1. Current(Finished([k EXCEPT !.failed = TRUE]))
        BY <1>1, <1>6 DEF Current, Conn, ReadFails, Pushing, Finished
    <2>2. QED
        BY <1>6, <2>1, CurrentConnStep DEF ReadFails
<1>7. CASE WriteFrame(c)
    <2> DEFINE sent == [k EXCEPT !.written = k.read, !.failed = FALSE,
                                 !.frames = IF k.dead THEN @ ELSE Append(@, k.read)]
    <2>1. Current(Finished(sent))
        BY <1>1, <1>7 DEF Current, Conn, WriteFrame, Pushing, Finished
    <2>2. Current(Ended(sent))
        BY DEF Current, Ended, FreeConn
    <2>3. ConnStep(c, Finished(sent)) \/ ConnStep(c, Ended(sent))
        BY <1>7 DEF WriteFrame
    <2> HIDE DEF sent
    <2>4. QED
        BY <2>1, <2>2, <2>3, CurrentConnStep
<1>8. CASE Heartbeat(c)
    <2>1. Current(Pushed(k))
        BY <1>1, <1>8 DEF Current, Conn, Heartbeat, Open, Pushing, Pushed
    <2>2. QED
        BY <1>8, <2>1, CurrentConnStep DEF Heartbeat
<1>9. CASE Cleanup(c)
    BY <1>2, <1>9, CurrentConnStep DEF Cleanup
<1>10. CASE Die(c)
    <2>1. Current([k EXCEPT !.dead = TRUE, !.frames = <<>>])
        BY <1>1 DEF Current, Conn
    <2>2. QED
        BY <1>10, <2>1, CurrentConnStep DEF Die
<1>11. QED
    BY <1>3, <1>4, <1>5, <1>6, <1>7, <1>8, <1>9, <1>10

(* A change is unsaid until its event makes every stream of its rider push. *)
LEMMA CurrentChange ==
    ASSUME StreamInv, NEW a \in Accounts, Change(a) \/ Emit(a)
    PROVE  PushesAreCurrent'
<1> SUFFICES ASSUME NEW c \in Conns PROVE Current(conns[c])'
    BY DEF PushesAreCurrent
<1>1. conns[c] \in Conn /\ Current(conns[c]) /\ conns[c].owner \in Riders
    BY DEF StreamInv, StreamTypeOK, PushesAreCurrent, Conn
<1>2. /\ truth \in [Riders -> Versions] /\ unsaid \in [Riders -> Nat]
      /\ conns \in [Conns -> Conn] /\ a \in Riders
    BY Members DEF StreamInv, StreamTypeOK
<1>3. CASE Change(a)
    <2>1. conns'[c] = conns[c]
        BY <1>3 DEF Change
    <2>2. CASE conns[c].owner = a
        <3>1. unsaid'[a] # 0
            BY <1>2, <1>3 DEF Change
        <3>2. QED
            BY <1>1, <2>1, <2>2, <3>1 DEF Current
    <2>3. CASE conns[c].owner # a
        <3>1. truth'[conns[c].owner] = truth[conns[c].owner]
              /\ unsaid'[conns[c].owner] = unsaid[conns[c].owner]
            BY <1>1, <1>2, <1>3, <2>3 DEF Change
        <3>2. QED
            BY <1>1, <2>1, <3>1 DEF Current
    <2>4. QED
        BY <2>2, <2>3
<1>4. CASE Emit(a)
    <2>1. truth' = truth
        BY <1>4 DEF Emit
    <2>2. CASE conns[c].state = "open" /\ conns[c].owner = a
        <3>1. conns'[c] = Pushed(conns[c])
            BY <1>4, <2>2 DEF Emit
        <3>2. QED
            BY <1>1, <2>1, <2>2, <3>1 DEF Current, Pushed, Conn
    <2>3. CASE ~(conns[c].state = "open" /\ conns[c].owner = a)
        <3>1. conns'[c] = conns[c]
            BY <1>4, <2>3 DEF Emit
        <3>2. conns[c].owner # a => unsaid'[conns[c].owner] = unsaid[conns[c].owner]
            BY <1>1, <1>2, <1>4 DEF Emit
        <3>3. QED
            BY <1>1, <2>1, <2>3, <3>1, <3>2 DEF Current
    <2>4. QED
        BY <2>2, <2>3
<1>5. QED
    BY <1>3, <1>4

LEMMA CurrentStep == StreamInv /\ [StreamNext]_vars => PushesAreCurrent'
<1> SUFFICES ASSUME StreamInv, [StreamNext]_vars PROVE PushesAreCurrent'
    OBVIOUS
<1>1. conns \in [Conns -> Conn]
    BY DEF StreamInv, StreamTypeOK
<1>2. \A c \in Conns : conns[c] = [conns[c] EXCEPT !.frames = conns[c].frames]
    BY <1>1 DEF Conn
<1>3. UNCHANGED <<truth, unsaid, conns>> => PushesAreCurrent'
    BY <1>2, CurrentElsewhere
<1>4. CASE \E a \in Accounts : Change(a) \/ Emit(a)
    BY <1>4, CurrentChange
<1>5. CASE (\E a \in Accounts : SetUserBlocked(a)) \/ (\E r \in Riders : OtherTab(r)) \/ SessionEnds
    BY <1>3, <1>5 DEF SetUserBlocked, OtherTab, SessionEnds
<1>6. CASE \E c \in Conns : \/ CheckSession(c) \/ CheckFails(c) \/ ReadRides(c) \/ ReadFails(c)
                             \/ WriteFrame(c) \/ Heartbeat(c) \/ Cleanup(c) \/ Die(c)
    BY <1>6, CurrentConnection
<1>7. CASE \E c \in Conns : Connect(c)
    <2>1. PICK c \in Conns : Connect(c)
        BY <1>7
    <2> DEFINE opened == Pushed([FreeConn EXCEPT !.state = "open", !.owner = session.user,
                                                 !.session = session.id])
    <2>2. opened.push = "check" /\ opened.state = "open"
        BY DEF Pushed, FreeConn
    <2>3. conns' = [conns EXCEPT ![c] = opened] /\ UNCHANGED <<truth, unsaid>>
        BY <2>1 DEF Connect, TabStep, serverVars
    <2> HIDE DEF opened
    <2>4. ASSUME NEW d \in Conns PROVE Current(conns[d])'
        <3>1. conns'[d] = opened \/ conns'[d] = conns[d]
            BY <1>1, <2>3
        <3>2. QED
            BY <2>2, <2>3, <3>1 DEF Current, StreamInv, PushesAreCurrent
    <2>5. QED
        BY <2>4 DEF PushesAreCurrent
<1>8. CASE \E c \in Conns : Frame(c)
    <2>1. PICK c \in Conns : Frame(c)
        BY <1>8
    <2>2. ASSUME NEW d \in Conns
          PROVE  \E frames : conns'[d] = [conns[d] EXCEPT !.frames = frames]
        <3>1. CASE d = c
            BY <1>1, <2>1, <3>1 DEF Frame
        <3>2. CASE d # c
            <4>1. conns'[d] = conns[d]
                BY <1>1, <2>1, <3>2 DEF Frame
            <4>2. QED
                BY <1>2, <4>1
        <3>3. QED
            BY <3>1, <3>2
    <2>3. QED
        BY <2>1, <2>2, CurrentElsewhere DEF Frame, TabStep, serverVars
<1>9. CASE \E c \in Conns : StreamErrors(c) \/ Watchdog(c) \/ Reconnect(c)
    BY <1>3, <1>9 DEF StreamErrors, Watchdog, Reconnect, Loses, TabStep, serverVars
<1>10. CASE Restart
    <2>1. ASSUME NEW c \in Conns PROVE Current(conns[c])'
        BY <1>10 DEF Restart, Current, Ended, FreeConn
    <2>2. QED
        BY <2>1 DEF PushesAreCurrent
<1>11. CASE Render \/ PollReads \/ PollReturns \/ WhoReads \/ WhoReturns \/ NoticeArrives
    BY <1>3, <1>11
    DEF Render, PollReads, PollReturns, WhoReads, WhoReturns, NoticeArrives, TabStep, serverVars
<1>12. CASE UNCHANGED vars
    BY <1>3, <1>12 DEF vars, serverVars
<1>13. QED
    BY <1>4, <1>5, <1>6, <1>7, <1>8, <1>9, <1>10, <1>11, <1>12 DEF StreamNext

(* However changes, events, pushes, heartbeats and failures overlap, the    *)
(* last frame of a stream at rest is the state of its rider's rides.        *)
THEOREM LastStateAlwaysWins == StreamSpec => []LastStateWins
<1>1. StreamInit => StreamInv
    <2> SUFFICES ASSUME StreamInit PROVE PushesAreCurrent
        BY InitTypes DEF StreamInv
    <2>1. QED
        BY DEF StreamInit, PushesAreCurrent, Current, FreeConn
<1>2. StreamInv /\ [StreamNext]_vars => StreamInv'
    BY TypeStep, CurrentStep DEF StreamInv
<1>3. StreamInv => LastStateWins
    BY DEF StreamInv, PushesAreCurrent, Current, LastStateWins, Open
<1>4. QED
    BY <1>1, <1>2, <1>3, PTL DEF StreamSpec

-----------------------------------------------------------------------------
(* A rider's tab shows nobody else's rides.                                 *)

(* Whoever the tab may have heard of, or is about to hear of: the session,  *)
(* what it shows, what is on its way to it.                                 *)
OnTheWay(request) == IF request.pending THEN {request.owner} ELSE {}
OnTheStream == IF tab.conn # NoConn /\ ~tab.stale THEN {conns[tab.conn].owner} ELSE {}
Heard == {session.user, tab.owner} \cup (IF tab.checking THEN {} ELSE {tab.me})
            \cup OnTheWay(poll) \cup OnTheWay(who) \cup OnTheStream

(* Once the notices have arrived, all that is of one account.               *)
OneRider == notices = 0 => \A r, s \in Heard \cap Accounts : r = s

IdentityInv == StreamTypeOK /\ OneRider

(* A step that tells of nobody new keeps it.                                *)
LEMMA NobodyNew ==
    ASSUME IdentityInv, notices' = notices, Heard' \subseteq Heard \cup {Guest}
    PROVE  OneRider'
BY StreamAssumption DEF IdentityInv, OneRider

(* The server's end of a connection stays that of its rider.                *)
LEMMA SameOwners ==
    ASSUME StreamTypeOK, UNCHANGED <<session, tab, poll, who, notices>>,
           \A c \in Conns : tab.conn = c => conns'[c].owner = conns[c].owner
    PROVE  Heard' \subseteq Heard
<1>1. OnTheWay(poll)' = OnTheWay(poll) /\ OnTheWay(who)' = OnTheWay(who)
    BY DEF OnTheWay
<1>2. tab.conn # NoConn => tab.conn \in Conns
    BY DEF StreamTypeOK, Tab
<1>3. OnTheStream' = OnTheStream
    BY <1>2 DEF OnTheStream
<1>4. QED
    BY <1>1, <1>3 DEF Heard

LEMMA IdentityServer ==
    ASSUME IdentityInv, NEW a \in Accounts, Change(a) \/ Emit(a) \/ SetUserBlocked(a)
    PROVE  OneRider'
<1>1. \A c \in Conns : conns'[c].owner = conns[c].owner
    <2> SUFFICES ASSUME NEW c \in Conns PROVE conns'[c].owner = conns[c].owner
        OBVIOUS
    <2>1. conns[c] \in Conn
        BY DEF IdentityInv, StreamTypeOK
    <2>2. Pushed(conns[c]).owner = conns[c].owner
        BY <2>1 DEF Pushed, Conn
    <2>3. conns'[c] = conns[c] \/ conns'[c] = Pushed(conns[c])
        BY DEF Change, Emit, SetUserBlocked
    <2>4. QED
        BY <2>2, <2>3
<1>2. UNCHANGED <<session, tab, poll, who, notices>>
    BY DEF Change, Emit, SetUserBlocked
<1>3. QED
    BY <1>1, <1>2, SameOwners, NobodyNew DEF IdentityInv

LEMMA IdentityConnection ==
    ASSUME IdentityInv, NEW c \in Conns,
           \/ CheckSession(c) \/ CheckFails(c) \/ ReadRides(c) \/ ReadFails(c)
           \/ WriteFrame(c) \/ Heartbeat(c) \/ Cleanup(c) \/ Die(c)
    PROVE  OneRider'
<1> DEFINE k == conns[c]
<1>1. k \in Conn /\ conns \in [Conns -> Conn]
    BY DEF IdentityInv, StreamTypeOK
<1>2. ASSUME NEW n, n \in Conn, n.owner = k.owner, ConnStep(c, n)
      PROVE  OneRider'
    <2>1. \A d \in Conns : conns'[d].owner = conns[d].owner
        BY <1>1, <1>2 DEF ConnStep
    <2>2. QED
        BY <1>2, <2>1, SameOwners, NobodyNew DEF ConnStep, IdentityInv, serverVars
<1>3. \A n \in Conn : /\ Pushed(n) \in Conn /\ Pushed(n).owner = n.owner
                     /\ Finished(n) \in Conn /\ Finished(n).owner = n.owner
                     /\ Ended(n) \in Conn /\ Ended(n).owner = n.owner
    <2> SUFFICES ASSUME NEW n \in Conn
                 PROVE  /\ Pushed(n).owner = n.owner /\ Finished(n).owner = n.owner
                        /\ Ended(n).owner = n.owner
        BY ConnTypes
    <2>1. Pushed(n).owner = n.owner
        BY DEF Pushed, Conn
    <2>2. Finished(n).owner = n.owner
        BY DEF Finished, Conn
    <2>3. Ended(n).owner = n.owner
        BY DEF Ended, FreeConn
    <2>4. QED
        BY <2>1, <2>2, <2>3
<1>4. CASE CheckSession(c)
    <2>1. [k EXCEPT !.push = "query"] \in Conn
        BY <1>1, ZenonT(60) DEF Conn
    <2>2. [k EXCEPT !.push = "query"].owner = k.owner
        BY <1>1 DEF Conn
    <2>3. QED
        BY <1>1, <1>2, <1>3, <1>4, <2>1, <2>2 DEF CheckSession
<1>5. CASE CheckFails(c)
    BY <1>1, <1>2, <1>3, <1>5 DEF CheckFails
<1>6. CASE ReadRides(c)
    <2>1. truth[k.owner] \in Versions
        BY <1>1 DEF IdentityInv, StreamTypeOK, Conn
    <2>2. [k EXCEPT !.push = "write", !.read = truth[k.owner]] \in Conn
        BY <1>1, <2>1, ZenonT(60) DEF Conn
    <2>3. [k EXCEPT !.push = "write", !.read = truth[k.owner]].owner = k.owner
        BY <1>1 DEF Conn
    <2>4. QED
        BY <1>2, <1>6, <2>2, <2>3 DEF ReadRides
<1>7. CASE ReadFails(c)
    <2>1. [k EXCEPT !.failed = TRUE] \in Conn
        BY <1>1, ZenonT(60) DEF Conn
    <2>2. [k EXCEPT !.failed = TRUE].owner = k.owner
        BY <1>1 DEF Conn
    <2>3. QED
        BY <1>2, <1>3, <1>7, <2>1, <2>2 DEF ReadFails
<1>8. CASE WriteFrame(c)
    <2> DEFINE sent == [k EXCEPT !.written = k.read, !.failed = FALSE,
                                 !.frames = IF k.dead THEN @ ELSE Append(@, k.read)]
    <2>1. (IF k.dead THEN k.frames ELSE Append(k.frames, k.read)) \in Seq(Versions)
        BY <1>1 DEF Conn
    <2>2. sent \in Conn
        BY <1>1, <2>1, ZenonT(60) DEF Conn
    <2>3. sent.owner = k.owner
        BY <1>1 DEF Conn
    <2>4. ConnStep(c, Finished(sent)) \/ ConnStep(c, Ended(sent))
        BY <1>8 DEF WriteFrame
    <2> HIDE DEF sent
    <2>5. QED
        BY <1>2, <1>3, <2>2, <2>3, <2>4
<1>9. CASE Heartbeat(c)
    BY <1>1, <1>2, <1>3, <1>9 DEF Heartbeat
<1>10. CASE Cleanup(c)
    <2>1. \A d \in Conns : tab.conn = d => conns'[d].owner = conns[d].owner
        BY <1>1, <1>10 DEF Cleanup, ConnStep
    <2>2. QED
        BY <1>10, <2>1, SameOwners, NobodyNew DEF Cleanup, ConnStep, IdentityInv, serverVars
<1>11. CASE Die(c)
    <2>1. [k EXCEPT !.dead = TRUE, !.frames = <<>>] \in Conn
        BY <1>1, Members, ZenonT(60) DEF Conn
    <2>2. [k EXCEPT !.dead = TRUE, !.frames = <<>>].owner = k.owner
        BY <1>1 DEF Conn
    <2>3. QED
        BY <1>2, <1>11, <2>1, <2>2 DEF Die
<1>12. QED
    BY <1>4, <1>5, <1>6, <1>7, <1>8, <1>9, <1>10, <1>11

LEMMA IdentityTab ==
    ASSUME IdentityInv, NEW c \in Conns,
           Connect(c) \/ Frame(c) \/ StreamErrors(c) \/ Watchdog(c) \/ Reconnect(c)
    PROVE  OneRider'
<1>1. /\ tab \in Tab /\ conns \in [Conns -> Conn] /\ conns[c] \in Conn
      /\ c # NoConn
    BY StreamAssumption DEF IdentityInv, StreamTypeOK
<1>2. CASE Connect(c)
    <2>1. tab' = [tab EXCEPT !.conn = c] /\ UNCHANGED <<session, poll, who, notices>>
        BY <1>2 DEF Connect, TabStep, serverVars
    <2>2. conns'[c].owner = session.user
        BY <1>1, <1>2 DEF Connect, Pushed, FreeConn
    <2>3. /\ tab'.owner = tab.owner /\ tab'.me = tab.me /\ tab'.checking = tab.checking
          /\ tab'.conn = c
        BY <1>1, <2>1 DEF Tab
    <2>4. Heard' \subseteq Heard
        BY <2>1, <2>2, <2>3 DEF Heard, OnTheWay, OnTheStream
    <2>5. QED
        BY <2>1, <2>4, NobodyNew
<1>3. CASE Frame(c)
    <2>1. tab.conn = c /\ UNCHANGED <<session, who, notices>>
        BY <1>3 DEF Frame, TabStep, serverVars
    <2>2. conns'[c].owner = conns[c].owner
        BY <1>1, <1>3 DEF Frame, Conn
    <2>3. poll' = poll \/ poll' = NoRequest
        BY <1>3 DEF Frame
    <2>4. OnTheWay(poll)' \subseteq OnTheWay(poll)
        BY <2>3 DEF OnTheWay, NoRequest
    <2>5. /\ tab'.me = tab.me /\ tab'.checking = tab.checking
          /\ tab'.conn = c /\ tab'.stale = tab.stale
          /\ tab'.owner = tab.owner \/ (tab'.owner = conns[c].owner /\ ~tab.stale)
        BY <1>1, <1>3, <2>1 DEF Frame, Takes, Tab
    <2>6. OnTheStream' = OnTheStream
        BY <2>1, <2>2, <2>5 DEF OnTheStream
    <2>7. (~tab.stale) => conns[c].owner \in OnTheStream
        BY <1>1, <2>1 DEF OnTheStream
    <2>8. Heard' \subseteq Heard
        BY <2>1, <2>4, <2>5, <2>6, <2>7 DEF Heard, OnTheWay
    <2>9. QED
        BY <2>1, <2>8, NobodyNew
<1>4. CASE StreamErrors(c) \/ Watchdog(c) \/ Reconnect(c)
    <2>1. tab' = [tab EXCEPT !.conn = NoConn] /\ UNCHANGED <<session, poll, who, notices>>
        BY <1>4 DEF StreamErrors, Watchdog, Reconnect, Loses, TabStep, serverVars
    <2>2. /\ tab'.owner = tab.owner /\ tab'.me = tab.me /\ tab'.checking = tab.checking
          /\ tab'.conn = NoConn
        BY <1>1, <2>1 DEF Tab
    <2>3. Heard' \subseteq Heard
        BY <2>1, <2>2 DEF Heard, OnTheWay, OnTheStream
    <2>4. QED
        BY <2>1, <2>3, NobodyNew
<1>5. QED
    BY <1>2, <1>3, <1>4

LEMMA IdentityRequests ==
    ASSUME IdentityInv, Restart \/ Render \/ PollReads \/ PollReturns \/ WhoReads \/ WhoReturns
    PROVE  OneRider'
<1>1. tab \in Tab /\ conns \in [Conns -> Conn]
    BY DEF IdentityInv, StreamTypeOK
<1>2. CASE Restart
    <2>1. UNCHANGED <<session, tab, notices>> /\ poll' = NoRequest /\ who' = NoRequest
        BY <1>2 DEF Restart
    <2>2. tab.conn # NoConn => tab.conn \in Conns
        BY <1>1 DEF Tab
    <2>3. \A c \in Conns : conns'[c].owner \in {conns[c].owner, Guest}
        BY <1>1, <1>2 DEF Restart, Ended, FreeConn, Conn
    <2>4. OnTheStream' \subseteq OnTheStream \cup {Guest}
        BY <2>1, <2>2, <2>3 DEF OnTheStream
    <2>5. Heard' \subseteq Heard \cup {Guest}
        BY <2>1, <2>4 DEF Heard, OnTheWay, NoRequest
    <2>6. QED
        BY <2>1, <2>5, NobodyNew
<1>3. CASE Render
    <2>1. UNCHANGED <<session, poll, who, notices>>
        BY <1>3 DEF Render, TabStep, serverVars
    <2>2. /\ tab'.owner = tab.owner /\ tab'.me = tab.me /\ tab'.checking = tab.checking
          /\ tab'.conn = NoConn
        BY <1>1, <1>3 DEF Render, Tab
    <2>3. Heard' \subseteq Heard
        BY <2>1, <2>2 DEF Heard, OnTheWay, OnTheStream
    <2>4. QED
        BY <2>1, <2>3, NobodyNew
<1>4. CASE PollReads
    <2>1. UNCHANGED <<session, tab, conns, who, notices>> /\ poll'.owner = session.user
        BY <1>4 DEF PollReads, TabStep, serverVars, Answer
    <2>2. Heard' \subseteq Heard
        BY <2>1 DEF Heard, OnTheWay, OnTheStream
    <2>3. QED
        BY <2>1, <2>2, NobodyNew
<1>5. CASE PollReturns
    <2>1. UNCHANGED <<session, conns, who, notices>> /\ poll.pending /\ poll' = NoRequest
        BY <1>5 DEF PollReturns, TabStep, serverVars
    <2>2. /\ tab'.owner = poll.owner /\ tab'.me = tab.me /\ tab'.checking = tab.checking
          /\ tab'.conn = tab.conn /\ tab'.stale = tab.stale
        BY <1>1, <1>5 DEF PollReturns, Tab
    <2>3. Heard' \subseteq Heard
        BY <2>1, <2>2 DEF Heard, OnTheWay, OnTheStream, NoRequest
    <2>4. QED
        BY <2>1, <2>3, NobodyNew
<1>6. CASE WhoReads
    <2>1. UNCHANGED <<session, tab, conns, poll, notices>> /\ who'.owner = session.user
        BY <1>6 DEF WhoReads, TabStep, serverVars, Answer
    <2>2. Heard' \subseteq Heard
        BY <2>1 DEF Heard, OnTheWay, OnTheStream
    <2>3. QED
        BY <2>1, <2>2, NobodyNew
<1>7. CASE WhoReturns
    <2>1. UNCHANGED <<session, conns, notices>> /\ who.pending /\ who' = NoRequest
        BY <1>7 DEF WhoReturns, TabStep, serverVars
    <2>2. poll' = poll \/ poll' = NoRequest
        BY <1>7 DEF WhoReturns
    <2>3. OnTheWay(poll)' \subseteq OnTheWay(poll)
        BY <2>2 DEF OnTheWay, NoRequest
    <2>4. tab'.me = who.owner /\ tab'.conn = tab.conn
          /\ \/ tab'.owner = tab.owner /\ tab'.stale = tab.stale
             \/ tab'.owner = Guest /\ tab'.stale = TRUE
        BY <1>1, <1>7 DEF WhoReturns, Forgotten, Tab
    <2>5. OnTheStream' \subseteq OnTheStream
        BY <2>1, <2>4 DEF OnTheStream
    <2>6. Heard' \subseteq Heard \cup {Guest}
        BY <2>1, <2>3, <2>4, <2>5 DEF Heard, OnTheWay, NoRequest
    <2>7. QED
        BY <2>1, <2>6, NobodyNew
<1>8. QED
    BY <1>2, <1>3, <1>4, <1>5, <1>6, <1>7

(* Only sessions and notices bring a new name: the one before its notice,   *)
(* the other when everything that was on its way has been dropped.          *)
LEMMA IdentitySession ==
    ASSUME IdentityInv, NEW r \in Riders, OtherTab(r) \/ SessionEnds \/ NoticeArrives
    PROVE  OneRider'
<1>1. CASE OtherTab(r)
    <2>1. notices' # 0
        BY <1>1 DEF OtherTab, IdentityInv, StreamTypeOK
    <2>2. QED
        BY <2>1 DEF OneRider
<1>2. CASE SessionEnds
    <2>1. UNCHANGED <<tab, conns, poll, who, notices>> /\ session'.user = Guest
        BY <1>2 DEF SessionEnds
    <2>2. Heard' \subseteq Heard \cup {Guest}
        BY <2>1 DEF Heard, OnTheWay, OnTheStream
    <2>3. QED
        BY <2>1, <2>2, NobodyNew
<1>3. CASE NoticeArrives
    <2>1. session' = session /\ poll' = NoRequest /\ who' = NoRequest
        BY <1>3 DEF NoticeArrives, serverVars
    <2>2. tab'.owner = Guest /\ tab'.checking = TRUE /\ tab'.stale = TRUE
        BY <1>3 DEF NoticeArrives, Forgotten, IdentityInv, StreamTypeOK, Tab
    <2>3. Heard' \subseteq {session.user, Guest}
        BY <2>1, <2>2 DEF Heard, OnTheWay, OnTheStream, NoRequest
    <2>4. QED
        BY <2>3, StreamAssumption DEF OneRider
<1>4. QED
    BY <1>1, <1>2, <1>3

LEMMA IdentityStep == IdentityInv /\ [StreamNext]_vars => OneRider'
<1> SUFFICES ASSUME IdentityInv, [StreamNext]_vars PROVE OneRider'
    OBVIOUS
<1>1. Guest \in Riders
    BY Members
<1>2. CASE UNCHANGED vars
    BY <1>2 DEF vars, serverVars, IdentityInv, OneRider, Heard, OnTheWay, OnTheStream
<1>3. CASE \E a \in Accounts : Change(a) \/ Emit(a) \/ SetUserBlocked(a)
    BY <1>3, IdentityServer
<1>4. CASE (\E r \in Riders : OtherTab(r)) \/ SessionEnds \/ NoticeArrives
    BY <1>1, <1>4, IdentitySession
<1>5. CASE \E c \in Conns : \/ CheckSession(c) \/ CheckFails(c) \/ ReadRides(c) \/ ReadFails(c)
                             \/ WriteFrame(c) \/ Heartbeat(c) \/ Cleanup(c) \/ Die(c)
    BY <1>5, IdentityConnection
<1>6. CASE \E c \in Conns : Connect(c) \/ Frame(c) \/ StreamErrors(c) \/ Watchdog(c) \/ Reconnect(c)
    BY <1>6, IdentityTab
<1>7. CASE Restart \/ Render \/ PollReads \/ PollReturns \/ WhoReads \/ WhoReturns
    BY <1>7, IdentityRequests
<1>8. QED
    BY <1>2, <1>3, <1>4, <1>5, <1>6, <1>7 DEF StreamNext

(* However the requests and frames of two sessions interleave with the      *)
(* notices between tabs, a rider's tab shows the rides of that rider.       *)
THEOREM OnlyOwnRides == StreamSpec => []OwnRidesOnly
<1>1. StreamInit => IdentityInv
    <2> SUFFICES ASSUME StreamInit PROVE OneRider
        BY InitTypes DEF IdentityInv
    <2>1. PICK r \in Riders :
              /\ session = [user |-> r, id |-> 0]
              /\ tab = [me |-> r, checking |-> FALSE, mounted |-> Guest, conn |-> NoConn,
                        stale |-> FALSE, owner |-> Guest, version |-> Nothing]
        BY DEF StreamInit
    <2>2. Heard \subseteq {r, Guest}
        BY <2>1 DEF StreamInit, Heard, OnTheWay, OnTheStream, NoRequest
    <2>3. QED
        BY <2>2, StreamAssumption DEF OneRider
<1>2. IdentityInv /\ [StreamNext]_vars => IdentityInv'
    BY TypeStep, IdentityStep DEF IdentityInv
<1>3. IdentityInv => OwnRidesOnly
    BY DEF IdentityInv, OneRider, OwnRidesOnly, Heard
<1>4. QED
    BY <1>1, <1>2, <1>3, PTL DEF StreamSpec

=============================================================================
