---------------------------- MODULE ServerProofs ----------------------------
(***************************************************************************)
(* Proofs about the composition of server and session, for every set of    *)
(* callers and of streams and for every timeout and capacity: the closing  *)
(* protocol of the session, and the routing of the server.                 *)
(***************************************************************************)
EXTENDS Server, SetLemmas, SequenceTheorems

-----------------------------------------------------------------------------
(* The closing protocol *)

\* A goroutine in closeImpl that has set closed and not yet sent the reason.
Closes(c) == callers[c] \in {"errors", "signal"}

Reasons == {"nil", "error", "idle", "reset"}

ClosingTypes ==
    /\ callers \in [Callers -> {"out", "errors", "signal", "wait", "returned"}]
    /\ streams \in [StreamIDs -> {"none", "open", "late"}]
    /\ closed \in BOOLEAN
    /\ closeChan = <<>> \/ \E r \in Reasons : closeChan = <<r>>
    /\ sentClose \in {<<>>, <<"PublicReset">>, <<"ConnectionClose">>}

\* Nothing has happened before closed is set.
NotClosed == ~closed => closeChan = <<>> /\ sentClose = <<>> /\ ~LoopLeft /\ \A c \in Callers : ~Closes(c)

\* The right to end the session is in one place: one goroutine in closeImpl,
\* the channel, or the loop that is being left.
OneCloser ==
    /\ \A c, d \in Callers : Closes(c) /\ Closes(d) => c = d
    /\ \A c \in Callers : Closes(c) => closeChan = <<>> /\ sentClose = <<>> /\ ~LoopLeft
    /\ closeChan # <<>> => ~LoopLeft /\ (sentClose # <<>> => closeChan = <<"reset">>)

\* Once a closer is past closeStreamsWithError, the streams have the error.
StreamsTold ==
    closed /\ (\A c \in Callers : callers[c] # "errors") =>
        \A id \in StreamIDs : streams[id] = "open" => id \in errored

CloseInv == ClosingTypes /\ NotClosed /\ OneCloser /\ StreamsTold

-----------------------------------------------------------------------------
(* Steps of the closing protocol *)

\* A step that leaves the closing protocol alone, and the loop inside.
LEMMA QuietStep ==
    ASSUME CloseInv, UNCHANGED <<closeVars, callers, streams>>, pc' = pc \/ ~LoopLeft'
    PROVE  CloseInv'
BY DEF CloseInv, ClosingTypes, NotClosed, OneCloser, StreamsTold, Closes, LoopLeft, closeVars

\* OpenStream, and a packet that opens a stream: a stream is open only if closed
\* was not set.
LEMMA OpenedStream ==
    ASSUME CloseInv, NEW id \in StreamIDs, streams' = Opened(id), UNCHANGED <<closeVars, callers>>,
           pc' = pc \/ ~LoopLeft'
    PROVE  CloseInv'
<1>1. ClosingTypes'
    BY DEF CloseInv, ClosingTypes, Opened, closeVars
<1>2. NotClosed' /\ OneCloser'
    BY DEF CloseInv, NotClosed, OneCloser, Closes, LoopLeft, closeVars
<1>3. StreamsTold'
    BY DEF CloseInv, ClosingTypes, StreamsTold, Opened, closeVars
<1> QED BY <1>1, <1>2, <1>3 DEF CloseInv

\* closeImpl on the loop.
LEMMA LoopCloses ==
    ASSUME CloseInv, NEW reason \in Reasons, CloseFromLoop(reason), UNCHANGED <<callers, streams>>, ~LoopLeft'
    PROVE  CloseInv'
<1>1. CASE closed
    BY <1>1, QuietStep DEF CloseFromLoop
<1>2. CASE ~closed
    <2>1. /\ closed' = TRUE /\ errored' = errored \cup OpenIDs
          /\ closeChan' = <<reason>>
          /\ sentClose' = IF reason = "reset" THEN Append(sentClose, "PublicReset") ELSE sentClose
        BY <1>2 DEF CloseFromLoop
    <2>2. closeChan = <<>> /\ sentClose = <<>> /\ \A c \in Callers : ~Closes(c)
        BY <1>2 DEF CloseInv, NotClosed
    <2>3. sentClose' = IF reason = "reset" THEN <<"PublicReset">> ELSE <<>>
        BY <2>1, <2>2
    <2>4. ClosingTypes'
        BY <2>1, <2>3 DEF CloseInv, ClosingTypes
    <2>5. NotClosed' /\ OneCloser'
        BY <2>1, <2>2, <2>3 DEF NotClosed, OneCloser, Closes
    <2>6. StreamsTold'
        BY <2>1 DEF StreamsTold, OpenIDs
    <2> QED BY <2>4, <2>5, <2>6 DEF CloseInv
<1> QED BY <1>1, <1>2

\* A caller of Session.Close enters closeImpl, or finds that others have.
LEMMA CallerEnters ==
    ASSUME CloseInv, NEW c \in Callers, CloseCall(c)
    PROVE  CloseInv'
<1>1. /\ callers' = [callers EXCEPT ![c] = IF closed THEN "returned" ELSE "errors"]
      /\ callers[c] = "out" /\ closed' = TRUE
      /\ UNCHANGED <<pc, closeChan, errored, sentClose, streams>>
    BY DEF CloseCall
<1>2. ClosingTypes'
    BY <1>1 DEF CloseInv, ClosingTypes
<1>3. \A d \in Callers : d # c => callers'[d] = callers[d]
    BY <1>1 DEF CloseInv, ClosingTypes
<1>4. callers'[c] = IF closed THEN "returned" ELSE "errors"
    BY <1>1 DEF CloseInv, ClosingTypes
<1>5. NotClosed' /\ OneCloser'
    BY <1>1, <1>3, <1>4 DEF CloseInv, NotClosed, OneCloser, Closes, LoopLeft
<1>6. StreamsTold'
    BY <1>1, <1>3, <1>4 DEF CloseInv, StreamsTold
<1> QED BY <1>2, <1>5, <1>6 DEF CloseInv

\* The steps of a caller in closeImpl, and its wait for the loop's end.
LEMMA CallerGoesOn ==
    ASSUME CloseInv, NEW c \in Callers, Closing(c)
    PROVE  CloseInv'
<1>1. CASE CloseStreams(c)
    <2>1. /\ callers[c] = "errors" /\ callers' = [callers EXCEPT ![c] = "signal"]
          /\ errored' = errored \cup OpenIDs
          /\ UNCHANGED <<pc, closed, closeChan, sentClose, streams>>
        BY <1>1 DEF CloseStreams
    <2>2. ClosingTypes'
        BY <2>1 DEF CloseInv, ClosingTypes
    <2>3. callers'[c] = "signal" /\ \A d \in Callers : d # c => callers'[d] = callers[d]
        BY <2>1 DEF CloseInv, ClosingTypes
    <2>4. NotClosed' /\ OneCloser'
        BY <2>1, <2>3 DEF CloseInv, NotClosed, OneCloser, Closes, LoopLeft
    <2>5. StreamsTold'
        BY <2>1 DEF StreamsTold, OpenIDs
    <2> QED BY <2>2, <2>4, <2>5 DEF CloseInv
<1>2. CASE CloseSignals(c)
    <2>1. /\ callers[c] = "signal" /\ callers' = [callers EXCEPT ![c] = "wait"]
          /\ closeChan' = <<"error">>
          /\ UNCHANGED <<pc, closed, errored, sentClose, streams>>
        BY <1>2 DEF CloseSignals
    <2>2. ClosingTypes'
        BY <2>1 DEF CloseInv, ClosingTypes, Reasons
    <2>3. callers'[c] = "wait" /\ \A d \in Callers : d # c => callers'[d] = callers[d]
        BY <2>1 DEF CloseInv, ClosingTypes
    <2>4. closed /\ sentClose = <<>> /\ ~LoopLeft /\ \A d \in Callers : Closes(d) => d = c
        BY <2>1 DEF CloseInv, ClosingTypes, NotClosed, OneCloser, Closes
    <2>5. NotClosed' /\ OneCloser'
        BY <2>1, <2>3, <2>4 DEF NotClosed, OneCloser, Closes, LoopLeft
    <2>6. StreamsTold'
        BY <2>1, <2>3 DEF CloseInv, StreamsTold
    <2> QED BY <2>2, <2>5, <2>6 DEF CloseInv
<1>3. CASE CloseReturns(c)
    <2>1. /\ callers[c] = "wait" /\ callers' = [callers EXCEPT ![c] = "returned"]
          /\ UNCHANGED <<pc, closed, closeChan, errored, sentClose, streams>>
        BY <1>3 DEF CloseReturns, closeVars
    <2>2. ClosingTypes'
        BY <2>1 DEF CloseInv, ClosingTypes
    <2>3. callers'[c] = "returned" /\ \A d \in Callers : d # c => callers'[d] = callers[d]
        BY <2>1 DEF CloseInv, ClosingTypes
    <2>4. NotClosed' /\ OneCloser' /\ StreamsTold'
        BY <2>1, <2>3 DEF CloseInv, NotClosed, OneCloser, StreamsTold, Closes, LoopLeft
    <2> QED BY <2>2, <2>4 DEF CloseInv
<1> QED BY <1>1, <1>2, <1>3 DEF Closing

\* The loop takes the reason from the channel and is left.
LEMMA LoopLeaves ==
    ASSUME CloseInv, LoopTakesClose
    PROVE  CloseInv'
<1>1. /\ closeChan # <<>> /\ closeChan' = <<>>
      /\ sentClose' = IF Head(closeChan) \in {"error", "idle"} THEN Append(sentClose, "ConnectionClose") ELSE sentClose
      /\ UNCHANGED <<closed, errored, callers, streams>>
    BY DEF LoopTakesClose
<1>2. closed /\ \A c \in Callers : ~Closes(c)
    BY <1>1 DEF CloseInv, NotClosed, OneCloser
<1>3. PICK r \in Reasons : closeChan = <<r>>
    BY <1>1 DEF CloseInv, ClosingTypes
<1>4. Head(closeChan) = r /\ (sentClose # <<>> => r = "reset")
    BY <1>1, <1>3 DEF CloseInv, OneCloser
<1>5. sentClose' = sentClose \/ sentClose' = <<"ConnectionClose">>
    <2>1. CASE r \in {"error", "idle"}
        <3>1. sentClose = <<>> /\ sentClose' = Append(sentClose, "ConnectionClose")
            BY <1>1, <1>4, <2>1
        <3> QED BY <3>1
    <2>2. CASE r \notin {"error", "idle"}
        BY <1>1, <1>4, <2>2
    <2> QED BY <2>1, <2>2
<1>6. ClosingTypes'
    BY <1>1, <1>5 DEF CloseInv, ClosingTypes
<1>7. NotClosed' /\ OneCloser' /\ StreamsTold'
    BY <1>1, <1>2 DEF CloseInv, NotClosed, OneCloser, StreamsTold, Closes
<1> QED BY <1>6, <1>7 DEF CloseInv

\* Every step of the loop, the tail of the select included.
LEMMA LoopKeeps ==
    ASSUME CloseInv, Running \/ CallsBack \/ LoopEnds
    PROVE  CloseInv'
<1>1. CASE LoopTakesClose
    BY <1>1, LoopLeaves
<1>2. CASE LoopTop \/ TakesTimer \/ TakesScheduled \/ TakesAeadChanged
    <2>1. UNCHANGED <<closeVars, callers, streams>> /\ ~LoopLeft'
        BY <1>2 DEF LoopTop, TakesTimer, TakesScheduled, TakesAeadChanged, LoopLeft
    <2> QED BY <2>1, QuietStep
<1>3. CASE QueuesUndecryptable
    <2>1. UNCHANGED <<callers, streams>> /\ ~LoopLeft' /\ (CloseFromLoop("reset") \/ UNCHANGED closeVars)
        BY <1>3 DEF QueuesUndecryptable, LoopLeft
    <2> QED BY <2>1, LoopCloses, QuietStep DEF Reasons
<1>4. CASE handlePacketImpl
    <2>1. UNCHANGED callers /\ ~LoopLeft'
        BY <1>4 DEF handlePacketImpl, LoopLeft
    <2> DEFINE kind == Head(receivedPackets).kind
    <2>2. CASE kind = "close" \/ kind = "bad"
        <3>1. streams' = streams /\ (CloseFromLoop("nil") \/ CloseFromLoop("error"))
            BY <1>4, <2>2 DEF handlePacketImpl
        <3> QED BY <2>1, <3>1, LoopCloses DEF Reasons
    <2>3. CASE ~(kind = "close" \/ kind = "bad")
        <3>1. UNCHANGED closeVars /\ (streams' = streams \/ \E id \in StreamIDs : streams' = Opened(id))
            BY <1>4, <2>3 DEF handlePacketImpl
        <3> QED BY <2>1, <3>1, OpenedStream, QuietStep
    <2> QED BY <2>2, <2>3
<1>5. CASE LoopTail
    <2>1. UNCHANGED <<callers, streams>> /\ ~LoopLeft'
        BY <1>5 DEF LoopTail, LoopLeft
    <2>2. CloseFromLoop("error") \/ CloseFromLoop("idle") \/ UNCHANGED closeVars
        BY <1>5 DEF LoopTail
    <2> QED BY <2>1, <2>2, LoopCloses, QuietStep DEF Reasons
<1>6. CASE CallsBack \/ LoopEnds
    <2>1. UNCHANGED <<closeVars, callers, streams>> /\ LoopLeft /\ LoopLeft'
        BY <1>6 DEF CallsBack, LoopEnds, LoopLeft
    <2> QED
        BY <2>1 DEF CloseInv, ClosingTypes, NotClosed, OneCloser, StreamsTold, Closes, closeVars
<1> QED BY <1>1, <1>2, <1>3, <1>4, <1>5, <1>6 DEF Running

\* The invariant of the closing protocol: whoever closes the session, and however
\* often, one of them alone brings the loop to its end.
THEOREM ClosingInvariant == ServerSpec => []CloseInv
<1>1. ServerInit => CloseInv
    BY DEF ServerInit, Init, CloseInv, ClosingTypes, NotClosed, OneCloser, StreamsTold, Closes, LoopLeft
<1>2. CloseInv /\ [ServerNext]_allVars => CloseInv'
    <2> SUFFICES ASSUME CloseInv, [ServerNext]_allVars PROVE CloseInv'
        OBVIOUS
    <2>1. CASE UNCHANGED vars
        <3>1. UNCHANGED <<closeVars, callers, streams>> /\ pc' = pc
            BY <2>1 DEF vars
        <3> QED BY <3>1, QuietStep
    <2>2. ASSUME NEW version, AnswersPacket(version) PROVE CloseInv'
        BY <2>1, <2>2 DEF AnswersPacket
    <2>3. CASE ServeStep
        <3>1. ASSUME NEW kind, DeliversPacket(kind) PROVE CloseInv'
            <4>1. Arrives(kind)
                BY <3>1 DEF DeliversPacket, PacketArrives
            <4>2. UNCHANGED <<closeVars, callers, streams>> /\ pc' = pc
                BY <4>1 DEF Arrives
            <4> QED BY <4>2, QuietStep
        <3>2. CASE InsertsSession \/ DeliversInVain
            BY <2>1, <3>2 DEF InsertsSession, DeliversInVain
        <3> QED BY <2>3, <3>1, <3>2 DEF ServeStep
    <2>4. CASE ClosesServer \/ SessionClosed \/ ClosesConn
        BY <2>1, <2>4 DEF ClosesServer, SessionClosed, ClosesConn
    <2>5. CASE ClosesSession
        BY <2>5, CallerEnters, ServerAssumption DEF ClosesSession
    <2>6. CASE LoopStep
        BY <2>6, LoopKeeps DEF LoopStep, closeCallback
    <2>7. ASSUME NEW c \in Callers, CallerStep(c) PROVE CloseInv'
        BY <2>7, CallerGoesOn DEF CallerStep
    <2>8. CASE OtherStep
        <3>1. CASE KeysDerived \/ Tick
            <4>1. UNCHANGED <<closeVars, callers, streams>> /\ pc' = pc
                BY <3>1 DEF KeysDerived, Tick
            <4> QED BY <4>1, QuietStep
        <3>2. ASSUME NEW id \in StreamIDs, OpenStream(id) PROVE CloseInv'
            <4>1. streams' = Opened(id) /\ UNCHANGED <<closeVars, callers>> /\ pc' = pc
                BY <3>2 DEF OpenStream
            <4> QED BY <4>1, OpenedStream
        <3>3. ASSUME NEW c \in OtherCallers, CloseCall(c) PROVE CloseInv'
            BY <3>3, CallerEnters DEF OtherCallers
        <3> QED BY <2>8, <3>1, <3>2, <3>3 DEF OtherStep
    <2>9. CASE UNCHANGED allVars
        BY <2>1, <2>9 DEF allVars
    <2> QED BY <2>2, <2>3, <2>4, <2>5, <2>6, <2>7, <2>8, <2>9 DEF ServerNext, ServerCloseStep
<1> QED BY <1>1, <1>2, PTL DEF ServerSpec

\* When the loop has ended, every stream opened before the session was closed has
\* the error, and the end was announced at most once, whatever the order of the
\* loop's own closing, of Session.Close and of Server.Close.
THEOREM ClosingTellsEveryone == ServerSpec => []EveryoneIsTold
<1>1. CloseInv => EveryoneIsTold
    <2> SUFFICES ASSUME CloseInv, pc = "ended"
                 PROVE  (\A id \in StreamIDs : streams[id] = "open" => id \in errored) /\ Len(sentClose) <= 1
        BY DEF EveryoneIsTold
    <2>1. LoopLeft
        BY DEF LoopLeft
    <2>2. closed /\ \A c \in Callers : callers[c] # "errors"
        BY <2>1 DEF CloseInv, ClosingTypes, NotClosed, OneCloser, Closes
    <2>3. \A id \in StreamIDs : streams[id] = "open" => id \in errored
        BY <2>2 DEF CloseInv, StreamsTold
    <2>4. Len(sentClose) <= 1
        <3>1. sentClose = <<>> \/ sentClose = <<"PublicReset">> \/ sentClose = <<"ConnectionClose">>
            BY DEF CloseInv, ClosingTypes
        <3>2. Len(<<>>) = 0 /\ Len(<<"PublicReset">>) = 1 /\ Len(<<"ConnectionClose">>) = 1
            OBVIOUS
        <3>3. Len(sentClose) = 0 \/ Len(sentClose) = 1
            BY <3>1, <3>2, Zenon
        <3>4. 0 <= 1 /\ 1 <= 1
            OBVIOUS
        <3> QED BY <3>3, <3>4, Zenon
    <2> QED BY <2>3, <2>4
<1> QED BY <1>1, ClosingInvariant, PTL

-----------------------------------------------------------------------------
(* The map of sessions *)

\* Once the session has been created it is being inserted, or has an entry.
EntryInv == (serve = "insert" => Started) /\ (Started /\ serve # "insert" => entry # "absent")

\* The entry stays while the session is dead: closeCallback leaves nil in it.
THEOREM EntryInvariant == ServerSpec => []EntryInv
<1>1. ServerInit => EntryInv
    BY DEF ServerInit, EntryInv, Started
<1>2. EntryInv /\ [ServerNext]_allVars => EntryInv'
    <2> SUFFICES ASSUME EntryInv, [ServerNext]_allVars PROVE EntryInv'
        OBVIOUS
    <2>1. CASE UNCHANGED serverVars
        BY <2>1 DEF serverVars, EntryInv, Started
    <2>2. ASSUME NEW version, AnswersPacket(version) PROVE EntryInv'
        BY <2>2 DEF AnswersPacket, EntryInv, Started
    <2>3. CASE ServeStep
        <3>1. ASSUME NEW kind, DeliversPacket(kind) PROVE EntryInv'
            BY <3>1 DEF DeliversPacket, Reads, EntryInv, Started
        <3>2. CASE InsertsSession \/ DeliversInVain
            BY <3>2 DEF InsertsSession, DeliversInVain, Reads, EntryInv, Started
        <3> QED BY <2>3, <3>1, <3>2 DEF ServeStep
    <2>4. CASE ClosesServer \/ SessionClosed \/ ClosesConn
        BY <2>4 DEF ClosesServer, SessionClosed, ClosesConn, EntryInv, Started
    <2>5. CASE LoopStep
        BY <2>1, <2>5 DEF LoopStep, closeCallback, EntryInv, Started
    <2>6. CASE ClosesSession \/ OtherStep \/ (\E c \in Callers : CallerStep(c)) \/ UNCHANGED allVars
        BY <2>1, <2>6 DEF ClosesSession, OtherStep, CallerStep, allVars
    <2> QED BY <2>2, <2>3, <2>4, <2>5, <2>6 DEF ServerNext, ServerCloseStep
<1> QED BY <1>1, <1>2, PTL DEF ServerSpec

\* No packet, however late, is answered or opens a second session once a
\* connection has had one.
THEOREM RoutesToOneSession == ServerSpec => OneSessionPerConnection
<1>1. EntryInv /\ [ServerNext]_allVars => [Started => answer' = answer /\ serve' # "insert"]_<<answer, serve>>
    <2> SUFFICES ASSUME EntryInv, [ServerNext]_allVars, Started, ~(UNCHANGED <<answer, serve>>)
                 PROVE  answer' = answer /\ serve' # "insert"
        OBVIOUS
    <2>1. ASSUME NEW version, AnswersPacket(version) PROVE FALSE
        BY <2>1 DEF AnswersPacket, EntryInv
    <2>2. CASE ServeStep
        <3>1. ASSUME NEW kind, DeliversPacket(kind) PROVE answer' = answer /\ serve' # "insert"
            BY <3>1 DEF DeliversPacket, Reads
        <3>2. CASE InsertsSession \/ DeliversInVain
            BY <3>2 DEF InsertsSession, DeliversInVain, Reads
        <3> QED BY <2>2, <3>1, <3>2 DEF ServeStep
    <2>3. CASE ClosesConn
        BY <2>3 DEF ClosesConn
    <2>4. CASE ClosesServer \/ SessionClosed \/ LoopStep \/ ClosesSession \/ OtherStep
               \/ (\E c \in Callers : CallerStep(c)) \/ UNCHANGED allVars
        <3>1. UNCHANGED <<answer, serve>>
            BY <2>4 DEF ClosesServer, SessionClosed, LoopStep, closeCallback, ClosesSession, OtherStep,
                        CallerStep, allVars, serverVars
        <3> QED BY <3>1
    <2> QED BY <2>1, <2>2, <2>3, <2>4 DEF ServerNext, ServerCloseStep
<1> QED BY <1>1, EntryInvariant, PTL DEF ServerSpec, OneSessionPerConnection

-----------------------------------------------------------------------------
(* The queues of the loop *)

\* What a step of the composition is to the session.
SessionStep ==
    \/ Running \/ CallsBack \/ LoopEnds
    \/ \E kind \in Kinds : Arrives(kind)
    \/ KeysDerived \/ Tick
    \/ \E id \in StreamIDs : OpenStream(id)
    \/ \E c \in Callers : CloseCall(c) \/ Closing(c)
    \/ UNCHANGED vars

LEMMA ServerTakesSessionStep == [ServerNext]_allVars => SessionStep
<1> SUFFICES ASSUME [ServerNext]_allVars PROVE SessionStep
    OBVIOUS
<1>1. CASE UNCHANGED vars
    BY <1>1 DEF SessionStep
<1>2. ASSUME NEW version, AnswersPacket(version) PROVE SessionStep
    BY <1>1, <1>2 DEF AnswersPacket
<1>3. CASE ServeStep
    <2>1. CASE InsertsSession \/ DeliversInVain
        BY <1>1, <2>1 DEF InsertsSession, DeliversInVain
    <2>2. ASSUME NEW kind \in Kinds, DeliversPacket(kind) PROVE SessionStep
        BY <2>2 DEF DeliversPacket, PacketArrives, SessionStep
    <2> QED BY <1>3, <2>1, <2>2 DEF ServeStep
<1>4. CASE ClosesServer \/ SessionClosed \/ ClosesConn
    BY <1>1, <1>4 DEF ClosesServer, SessionClosed, ClosesConn
<1>5. CASE ClosesSession
    BY <1>5, ServerAssumption DEF ClosesSession, SessionStep
<1>6. CASE LoopStep
    BY <1>6 DEF LoopStep, closeCallback, SessionStep
<1>7. ASSUME NEW c \in Callers, CallerStep(c) PROVE SessionStep
    BY <1>7 DEF CallerStep, SessionStep
<1>8. CASE OtherStep
    BY <1>8 DEF OtherStep, OtherCallers, SessionStep
<1>9. CASE UNCHANGED allVars
    BY <1>1, <1>9 DEF allVars
<1> QED BY <1>2, <1>3, <1>4, <1>5, <1>6, <1>7, <1>8, <1>9 DEF ServerNext, ServerCloseStep

Packet == [kind : Kinds, rcvTime : Nat \ {0}]

\* Packets that wait for the keys were queued before them, and once the keys are
\* there, the token in aeadChanged is on its way to the loop.
QueueInv ==
    /\ now \in Nat \ {0}
    /\ receivedPackets \in Seq(Packet) /\ undecryptablePackets \in Seq(Packet)
    /\ keys /\ aeadChanged = <<>> =>
        \A i \in 1..Len(undecryptablePackets) : undecryptablePackets[i].kind # "early"

LEMMA HandlePacketsType ==
    ASSUME NEW q \in Seq(Packet), NEW ps \in Seq(Packet)
    PROVE  handlePackets(q, ps) \in Seq(Packet)
<1> DEFINE room == MaxSessionUnprocessedPackets - Len(q)
           n == Min({Len(ps), room})
<1>1. Len(ps) \in Nat /\ room \in Int
    BY SessionAssumption
<1>2. n \in Int /\ n <= Len(ps)
    <2>1. \E x \in {Len(ps), room} : \A y \in {Len(ps), room} : x <= y
        BY <1>1
    <2> QED BY <1>1, <2>1 DEF Min
<1> HIDE DEF n, room
<1>3. SubSeq(ps, 1, n) \in Seq(Packet)
    <2>1. CASE n < 1
        BY <1>2, <2>1, SubSeqEmpty
    <2>2. CASE n >= 1
        BY <1>1, <1>2, <2>2, SubSeqProperties
    <2> QED BY <1>2, <2>1, <2>2
<1>4. handlePackets(q, ps) = q \o SubSeq(ps, 1, n)
    BY DEF handlePackets, n, room
<1> QED BY <1>3, <1>4, ConcatProperties

LEMMA QueueNext == QueueInv /\ SessionStep => QueueInv'
<1> SUFFICES ASSUME QueueInv, SessionStep PROVE QueueInv'
    OBVIOUS
<1>1. ASSUME UNCHANGED <<now, receivedPackets, undecryptablePackets, keys, aeadChanged>> PROVE QueueInv'
    BY <1>1 DEF QueueInv
<1>2. ASSUME NEW kind \in Kinds, Arrives(kind) PROVE QueueInv'
    <2> DEFINE p == [kind |-> kind, rcvTime |-> now]
    <2>1. p \in Packet
        BY DEF QueueInv, Packet
    <2> HIDE DEF p
    <2>2. receivedPackets' = Append(receivedPackets, p) \/ receivedPackets' = receivedPackets
        BY <1>2 DEF Arrives, handlePacket, p
    <2>3. receivedPackets' \in Seq(Packet)
        BY <2>1, <2>2 DEF QueueInv
    <2> QED BY <1>2, <2>3 DEF Arrives, QueueInv
<1>3. CASE KeysDerived
    BY <1>3 DEF KeysDerived, queueVars, QueueInv
<1>4. CASE Tick
    BY <1>4 DEF Tick, queueVars, QueueInv
<1>5. CASE QueuesUndecryptable
    <2> DEFINE p == Head(receivedPackets)
    <2>1. p \in Packet /\ receivedPackets' \in Seq(Packet)
        BY <1>5 DEF QueuesUndecryptable, QueueInv
    <2>2. UNCHANGED <<now, keys, aeadChanged>> /\ (keys => p.kind # "early")
        BY <1>5 DEF QueuesUndecryptable, Undecryptable
    <2>3. undecryptablePackets' = undecryptablePackets \/ undecryptablePackets' = Append(undecryptablePackets, p)
        BY <1>5 DEF QueuesUndecryptable
    <2> HIDE DEF p
    <2>4. CASE undecryptablePackets' = undecryptablePackets
        BY <2>1, <2>2, <2>4 DEF QueueInv
    <2>5. CASE undecryptablePackets' = Append(undecryptablePackets, p)
        <3>1. /\ undecryptablePackets' \in Seq(Packet) /\ Len(undecryptablePackets') = Len(undecryptablePackets) + 1
              /\ \A i \in 1..Len(undecryptablePackets) : undecryptablePackets'[i] = undecryptablePackets[i]
              /\ undecryptablePackets'[Len(undecryptablePackets) + 1] = p
            BY <2>1, <2>5, AppendProperties DEF QueueInv
        <3>2. Len(undecryptablePackets) \in Nat
            BY DEF QueueInv
        <3>3. ASSUME keys, aeadChanged = <<>>, NEW i \in 1..Len(undecryptablePackets')
              PROVE  undecryptablePackets'[i].kind # "early"
            <4>1. CASE i \in 1..Len(undecryptablePackets)
                BY <3>1, <3>3, <4>1 DEF QueueInv
            <4>2. CASE i = Len(undecryptablePackets) + 1
                BY <2>2, <3>1, <3>3, <4>2
            <4> QED BY <3>1, <3>2, <4>1, <4>2
        <3> QED BY <2>1, <2>2, <3>1, <3>3 DEF QueueInv
    <2> QED BY <2>3, <2>4, <2>5
<1>6. CASE handlePacketImpl
    <2>1. receivedPackets' \in Seq(Packet)
        BY <1>6 DEF handlePacketImpl, QueueInv
    <2> QED BY <1>6, <2>1 DEF handlePacketImpl, QueueInv
<1>7. CASE TakesAeadChanged
    <2>1. receivedPackets' \in Seq(Packet)
        BY <1>7, HandlePacketsType DEF TakesAeadChanged, QueueInv
    <2>2. undecryptablePackets' = <<>> /\ now' = now
        BY <1>7 DEF TakesAeadChanged
    <2>3. undecryptablePackets' \in Seq(Packet) /\ Len(undecryptablePackets') = 0
        BY <2>2, EmptySeq
    <2>4. 1..0 = {}
        OBVIOUS
    <2> QED BY <2>1, <2>2, <2>3, <2>4 DEF QueueInv
<1>8. CASE LoopTakesClose \/ LoopTop \/ TakesTimer \/ TakesScheduled \/ LoopTail \/ CallsBack \/ LoopEnds
    BY <1>1, <1>8 DEF LoopTakesClose, LoopTop, TakesTimer, TakesScheduled, LoopTail, CallsBack, LoopEnds, queueVars
<1>9. ASSUME NEW id, OpenStream(id) PROVE QueueInv'
    BY <1>1, <1>9 DEF OpenStream, queueVars
<1>10. ASSUME NEW c, CloseCall(c) \/ Closing(c) PROVE QueueInv'
    BY <1>1, <1>10 DEF CloseCall, Closing, CloseStreams, CloseSignals, CloseReturns, queueVars
<1>11. CASE UNCHANGED vars
    BY <1>1, <1>11 DEF vars, queueVars
<1> QED BY <1>2, <1>3, <1>4, <1>5, <1>6, <1>7, <1>8, <1>9, <1>10, <1>11 DEF SessionStep, Running

\* The queues of the loop hold packets, and early ones only wait for keys.
THEOREM QueueInvariant == ServerSpec => []QueueInv
<1>1. ServerInit => QueueInv
    BY DEF ServerInit, Init, QueueInv
<1> QED BY <1>1, QueueNext, ServerTakesSessionStep, PTL DEF ServerSpec

\* Whatever arrives around the moment at which the keys are derived, no packet
\* that could not be decrypted before is left behind.
THEOREM RetriesEarlyPackets == ServerSpec => []EarlyPacketsAreRetried
<1>1. QueueInv => EarlyPacketsAreRetried
    BY DEF QueueInv, EarlyPacketsAreRetried, Waits
<1> QED BY <1>1, QueueInvariant, PTL

-----------------------------------------------------------------------------
(* The timer of the loop *)

\* The timer is set to the deadline, or its value has been read, which was when
\* the deadline had passed.  If the deadline stays the same nevertheless, it is
\* that of an ACK that could not be sent.
TimerInv ==
    /\ pc \in {"top", "select", "tail", "ending", "reporting", "ended"}
    /\ timerAt \in Nat /\ currentDeadline \in Nat /\ delayedAckOriginTime \in Nat /\ rtoTime \in Nat
    /\ lastNetworkActivityTime \in Nat \ {0}
    /\ timerRead <=> timerAt = 0
    /\ currentDeadline = 0 => pc \notin {"select", "tail"}
    /\ currentDeadline # 0 => timerAt = 0 \/ timerAt = currentDeadline
    /\ timerAt = 0 => currentDeadline < now
    /\ pc = "select" => NextDeadline = currentDeadline
    /\ stateChanged => delayedAckOriginTime # 0
    /\ ~closed /\ timerAt = 0 /\ pc \in {"top", "select"} /\ NextDeadline = currentDeadline =>
        AckOverdue /\ (stateChanged => refused)

\* The deadline is the earliest of those that are set.
LEMMA NextDeadlineIsEarliest ==
    ASSUME TimerInv
    PROVE  /\ NextDeadline \in Nat \ {0}
           /\ NextDeadline <= lastNetworkActivityTime + idleTimeout
           /\ delayedAckOriginTime # 0 => NextDeadline <= delayedAckOriginTime + AckSendDelay
           /\ \/ NextDeadline = lastNetworkActivityTime + idleTimeout
              \/ delayedAckOriginTime # 0 /\ NextDeadline = delayedAckOriginTime + AckSendDelay
              \/ rtoTime # 0 /\ NextDeadline = rtoTime
              \/ ~handshakeComplete /\ NextDeadline = 1 + MaxTimeForCryptoHandshake
<1> DEFINE idle == lastNetworkActivityTime + idleTimeout
           ack == delayedAckOriginTime + AckSendDelay
           A == IF delayedAckOriginTime = 0 THEN {} ELSE {ack}
           R == IF rtoTime = 0 THEN {} ELSE {rtoTime}
           H == IF handshakeComplete THEN {} ELSE {1 + MaxTimeForCryptoHandshake}
           D == {idle} \cup A \cup R \cup H
<1>1. idleTimeout \in Nat
    BY SessionAssumption DEF idleTimeout
<1>2. idle \in Nat \ {0} /\ ack \in Nat /\ (delayedAckOriginTime # 0 => ack # 0) /\ rtoTime \in Nat
      /\ 1 + MaxTimeForCryptoHandshake \in Nat \ {0}
    BY <1>1, SessionAssumption DEF TimerInv
<1> HIDE DEF idle, ack
<1>3. D \in SUBSET (Nat \ {0}) /\ idle \in D /\ (delayedAckOriginTime # 0 => ack \in D)
    BY <1>2
<1>4. \A d \in D : \/ d = idle
                   \/ delayedAckOriginTime # 0 /\ d = ack
                   \/ rtoTime # 0 /\ d = rtoTime
                   \/ ~handshakeComplete /\ d = 1 + MaxTimeForCryptoHandshake
    OBVIOUS
<1>5. NextDeadline = Min(D)
    BY DEF NextDeadline, idle, ack
<1> HIDE DEF D
<1>6. Min(D) \in D /\ \A d \in D : Min(D) <= d
    BY <1>3, MinIsLeast
<1> QED BY <1>3, <1>4, <1>5, <1>6 DEF idle, ack

\* Steps that leave the timer and what its deadline depends on alone.
LEMMA TimerKept ==
    ASSUME TimerInv,
           UNCHANGED <<timeVars, lastNetworkActivityTime, ackVars, handshakeComplete>>,
           now' = now \/ (now \in Nat /\ now' = now + 1),
           closed => closed',
           pc' = pc \/ (pc = "select" /\ pc' = "tail") \/ LoopLeft'
    PROVE  TimerInv'
<1>1. UNCHANGED <<timerAt, timerRead, currentDeadline, delayedAckOriginTime, stateChanged, rtoTime, refused>>
    BY DEF timeVars, ackVars
<1>2. NextDeadline' = NextDeadline
    BY <1>1 DEF NextDeadline, idleTimeout
<1>3. pc' \in {"top", "select", "tail", "ending", "reporting", "ended"}
    BY DEF TimerInv, LoopLeft
<1>4. AckOverdue => AckOverdue'
    BY <1>1, SessionAssumption DEF TimerInv, AckOverdue
<1>5. currentDeadline < now => currentDeadline < now'
    BY DEF TimerInv
<1>6. (pc' = "select" => pc = "select") /\ (pc' = "top" => pc = "top") /\ (pc' = "tail" => pc \in {"select", "tail"})
    BY DEF LoopLeft
<1> QED BY <1>1, <1>2, <1>3, <1>4, <1>5, <1>6 DEF TimerInv

\* maybeResetTimer, and the drain in it.
LEMMA LoopTopKeepsTimer == TimerInv /\ LoopTop => TimerInv'
<1> SUFFICES ASSUME TimerInv, LoopTop PROVE TimerInv'
    OBVIOUS
<1>1. /\ UNCHANGED <<now, lastNetworkActivityTime, delayedAckOriginTime, stateChanged, rtoTime, refused,
                     handshakeComplete, closed>>
      /\ pc = "top"
    BY DEF LoopTop, ackVars, closeVars
<1>2. NextDeadline' = NextDeadline /\ (AckOverdue' <=> AckOverdue)
    BY <1>1 DEF NextDeadline, idleTimeout, AckOverdue
<1>3. pc' = "select"
    <2>1. MustDrain => TimerC
        BY DEF TimerInv, MustDrain, TimerC
    <2> QED BY <2>1 DEF LoopTop
<1>4. NextDeadline \in Nat \ {0}
    BY NextDeadlineIsEarliest
<1>5. CASE NextDeadline = currentDeadline
    <2>1. UNCHANGED <<timerAt, timerRead, currentDeadline>>
        BY <1>5 DEF LoopTop, maybeResetTimer, timeVars
    <2> QED BY <1>1, <1>2, <1>3, <1>4, <1>5, <2>1 DEF TimerInv
<1>6. CASE NextDeadline # currentDeadline
    <2>1. timerAt' = NextDeadline /\ ~timerRead' /\ currentDeadline' = NextDeadline
        BY <1>6 DEF LoopTop, maybeResetTimer
    <2> QED BY <1>1, <1>2, <1>3, <1>4, <2>1 DEF TimerInv
<1> QED BY <1>5, <1>6

\* sendPacket and the timeouts: whatever deadline has passed, it is put off or
\* the session is closed, except that of an ACK that could not be sent.
LEMMA LoopTailKeepsTimer == TimerInv /\ QueueInv /\ LoopTail => TimerInv'
<1> SUFFICES ASSUME TimerInv, QueueInv, LoopTail PROVE TimerInv'
    OBVIOUS
<1>1. PICK outcome \in {"refused", "nothing", "sent", "fails"} :
        /\ sendPacket(outcome)
        /\ CASE outcome = "fails" -> CloseFromLoop("error")
             [] outcome # "fails" /\ (IdleTooLong \/ HandshakeTooLong) -> CloseFromLoop("idle")
             [] OTHER -> UNCHANGED closeVars
    BY DEF LoopTail
<1>2. /\ pc = "tail" /\ pc' = "top"
      /\ UNCHANGED <<now, timerAt, timerRead, currentDeadline, lastNetworkActivityTime, handshakeComplete>>
    BY DEF LoopTail, timeVars
<1>3. now \in Nat \ {0} /\ lastNetworkActivityTime \in Nat /\ delayedAckOriginTime \in Nat
      /\ idleTimeout \in Nat /\ AckSendDelay \in Nat /\ RTO \in Nat /\ MaxTimeForCryptoHandshake \in Nat
    BY SessionAssumption DEF QueueInv, TimerInv, idleTimeout
<1>4. rtoTime' \in Nat /\ rtoTime' >= now
    BY <1>1, <1>3 DEF sendPacket, TimerInv
<1>5. stateChanged' => delayedAckOriginTime' # 0
    BY <1>1, <1>3 DEF sendPacket, TimerInv
<1>6. PICK origin \in Nat : delayedAckOriginTime' = origin
    BY <1>1, <1>3 DEF sendPacket
<1>7. ASSUME ~closed', timerAt = 0, NextDeadline' = currentDeadline
      PROVE  AckOverdue' /\ (stateChanged' => refused')
    <2>1. outcome # "fails" /\ ~IdleTooLong /\ ~HandshakeTooLong
        BY <1>1, <1>7 DEF CloseFromLoop, closeVars
    <2>2. currentDeadline < now
        BY <1>7 DEF TimerInv
    <2>3. /\ lastNetworkActivityTime + idleTimeout > now
          /\ ~handshakeComplete => 1 + MaxTimeForCryptoHandshake > now
        BY <1>3, <2>1 DEF IdleTooLong, HandshakeTooLong
    <2>4. origin # 0 /\ NextDeadline' = origin + AckSendDelay
        <3>1. idleTimeout' = idleTimeout
            BY <1>2 DEF idleTimeout
        <3> DEFINE idle == lastNetworkActivityTime + idleTimeout
                   A == IF origin = 0 THEN {} ELSE {origin + AckSendDelay}
                   R == IF rtoTime' = 0 THEN {} ELSE {rtoTime'}
                   H == IF handshakeComplete THEN {} ELSE {1 + MaxTimeForCryptoHandshake}
                   D == {idle} \cup A \cup R \cup H
        <3>2. NextDeadline' = Min(D)
            BY <1>2, <1>6, <3>1 DEF NextDeadline
        <3>3. D \in SUBSET Nat /\ D # {}
            <4>1. idle \in Nat /\ origin + AckSendDelay \in Nat /\ 1 + MaxTimeForCryptoHandshake \in Nat
                BY <1>3
            <4>2. {idle} \subseteq Nat /\ A \subseteq Nat /\ R \subseteq Nat /\ H \subseteq Nat
                BY <1>4, <4>1
            <4> HIDE DEF idle, A, R, H
            <4> QED BY <4>2
        <3>4. Min(D) \in D
            <4> HIDE DEF D
            <4> QED BY <3>3, MinIsLeast
        <3>5. Min(D) < now
            BY <1>7, <2>2, <3>2
        <3> QED BY <1>3, <1>4, <2>3, <3>2, <3>3, <3>4, <3>5
    <2>5. AckOverdue'
        BY <1>2, <1>6, <1>7, <2>2, <2>4 DEF AckOverdue
    <2>6. outcome # "sent" /\ delayedAckOriginTime' = delayedAckOriginTime
        BY <1>1, <1>6, <2>4 DEF sendPacket
    <2>7. maySendOnlyAck
        BY <1>2, <1>3, <2>5, <2>6 DEF maySendOnlyAck, AckOverdue
    <2>8. stateChanged' => refused'
        BY <1>1, <2>1, <2>6, <2>7 DEF sendPacket
    <2> QED BY <2>5, <2>8
<1> QED BY <1>2, <1>4, <1>5, <1>7, <1>6 DEF TimerInv

LEMMA TimerNext == TimerInv /\ QueueInv /\ SessionStep => TimerInv'
<1> SUFFICES ASSUME TimerInv, QueueInv, SessionStep PROVE TimerInv'
    OBVIOUS
<1>1. ASSUME NEW kind, Arrives(kind) PROVE TimerInv'
    BY <1>1, TimerKept DEF Arrives, closeVars
<1>2. CASE KeysDerived \/ Tick
    BY <1>2, TimerKept DEF KeysDerived, Tick, closeVars, QueueInv
<1>3. ASSUME NEW id, OpenStream(id) PROVE TimerInv'
    BY <1>3, TimerKept DEF OpenStream, closeVars
<1>4. ASSUME NEW c, CloseCall(c) \/ Closing(c) PROVE TimerInv'
    BY <1>4, TimerKept DEF CloseCall, Closing, CloseStreams, CloseSignals, CloseReturns, closeVars
<1>5. CASE LoopTakesClose \/ CallsBack \/ LoopEnds
    BY <1>5, TimerKept DEF LoopTakesClose, CallsBack, LoopEnds, closeVars, LoopLeft
<1>6. CASE TakesScheduled \/ TakesAeadChanged
    BY <1>6, TimerKept DEF TakesScheduled, TakesAeadChanged, closeVars
<1>7. CASE UNCHANGED vars
    BY <1>7, TimerKept DEF vars, closeVars
<1>8. CASE TakesTimer
    <2>1. /\ pc = "select" /\ pc' = "tail" /\ timerAt # 0 /\ timerAt < now /\ timerAt' = 0 /\ timerRead'
          /\ UNCHANGED <<now, currentDeadline, lastNetworkActivityTime, delayedAckOriginTime, stateChanged, rtoTime>>
        BY <1>8 DEF TakesTimer, TimerC, ackVars
    <2> QED BY <2>1 DEF TimerInv
<1>9. CASE QueuesUndecryptable
    <2>1. /\ pc = "select" /\ pc' = "top"
          /\ UNCHANGED <<now, timerAt, timerRead, currentDeadline, delayedAckOriginTime, stateChanged, rtoTime, refused>>
        BY <1>9 DEF QueuesUndecryptable, timeVars, ackVars
    <2>2. lastNetworkActivityTime' \in Nat \ {0}
        <3>1. Head(receivedPackets) \in Packet
            BY <1>9 DEF QueuesUndecryptable, QueueInv
        <3> QED BY <1>9, <3>1 DEF QueuesUndecryptable, Packet
    <2>3. closed => closed'
        BY <1>9 DEF QueuesUndecryptable, CloseFromLoop, closeVars
    <2>4. AckOverdue' <=> AckOverdue
        BY <2>1 DEF AckOverdue
    <2> QED BY <2>1, <2>2, <2>3, <2>4 DEF TimerInv
<1>10. CASE handlePacketImpl
    <2>1. /\ pc = "select" /\ pc' = "tail"
          /\ UNCHANGED <<now, timerAt, timerRead, currentDeadline, rtoTime>>
        BY <1>10 DEF handlePacketImpl, timeVars
    <2>2. Head(receivedPackets) \in Packet
        BY <1>10 DEF handlePacketImpl, QueueInv
    <2>3. lastNetworkActivityTime' \in Nat \ {0} /\ delayedAckOriginTime' \in Nat \ {0}
        BY <1>10, <2>2 DEF handlePacketImpl, Packet, TimerInv
    <2> QED BY <2>1, <2>3 DEF TimerInv
<1> QED BY <1>1, <1>2, <1>3, <1>4, <1>5, <1>6, <1>7, <1>8, <1>9, <1>10, LoopTopKeepsTimer, LoopTailKeepsTimer
        DEF SessionStep, Running

\* The timer follows the deadline.
THEOREM TimerInvariant == ServerSpec => [](TimerInv /\ QueueInv)
<1>1. ServerInit => TimerInv /\ QueueInv
    BY DEF ServerInit, Init, QueueInv, TimerInv
<1> QED BY <1>1, TimerNext, QueueNext, ServerTakesSessionStep, PTL DEF ServerSpec

\* While the loop waits no deadline has passed, but for an ACK that sendPacket
\* could not send; and draining the timer's channel never blocks the loop.
THEOREM LoopMeetsDeadlines == ServerSpec => []DeadlinesAreMet
<1>1. TimerInv /\ QueueInv => DeadlinesAreMet
    <2> SUFFICES ASSUME TimerInv, QueueInv PROVE DeadlinesAreMet
        OBVIOUS
    <2>1. pc # "blocked"
        BY DEF TimerInv
    <2>2. ASSUME Waits, ~closed
          PROVE  /\ NextDeadline >= now \/ AckOverdue
                 /\ stateChanged /\ ~refused => ~AckOverdue /\ delayedAckOriginTime # 0
        <3>1. pc = "select" /\ ~TimerC /\ NextDeadline = currentDeadline /\ currentDeadline # 0 /\ now \in Nat
              /\ NextDeadline \in Nat
            BY <2>2, NextDeadlineIsEarliest DEF Waits, TimerInv, QueueInv
        <3>2. CASE timerAt = 0
            BY <2>2, <3>1, <3>2 DEF TimerInv
        <3>3. CASE timerAt # 0
            <4>1. NextDeadline >= now
                BY <3>1, <3>3 DEF TimerInv, TimerC
            <4>2. ASSUME stateChanged PROVE ~AckOverdue /\ delayedAckOriginTime # 0
                BY <3>1, <4>1, <4>2, NextDeadlineIsEarliest, SessionAssumption DEF TimerInv, AckOverdue
            <4> QED BY <4>1, <4>2
        <3> QED BY <3>2, <3>3
    <2> QED BY <2>1, <2>2 DEF DeadlinesAreMet
<1> QED BY <1>1, TimerInvariant, PTL
=============================================================================
