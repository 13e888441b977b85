----------------------------- MODULE StreamSend -----------------------------
(***************************************************************************)
(* The sending side of streams: Write and Close of the application's       *)
(* goroutines, RegisterError, and the session's goroutine, which packs     *)
(* stream frames (sendPacket, composeNextPacket, streamFramer) within the  *)
(* send windows and sends frames of lost packets again.                    *)
(*                                                                         *)
(* A step of the session's goroutine ends where it releases the mutex of a *)
(* stream and another goroutine may come in.  Data is positions in what    *)
(* the application wrote; a frame header has HeaderLen bytes.  No stream   *)
(* is removed.  RoundRobinIterate visits the streams 1 and 3 (here the     *)
(* NonContributing ones) first and then the others in any order, as module *)
(* StreamsMap has that order.                                              *)
(***************************************************************************)
EXTENDS Integers, Sequences, FiniteSets, FiniteSetsExt, Functions

CONSTANTS
    Streams,              \* ids of the open streams
    NonContributing,      \* the streams newStream exempts (ids 1 and 3)
    DefaultWindow,        \* GetSend...FlowControlWindow, per controller
    Announced,            \* the offsets in the peer's WINDOW_UPDATEs, per controller
    Rooms,                \* maxFrameSize - payloadLength: room for stream frames
    HeaderLen,            \* MinLength of a stream frame with DataLenPresent
    DataLenBytes,         \* what the last frame saves by leaving out its DataLen
    MaxOffered,           \* bound of the model: bytes written, per stream
    MaxLosses,            \* bound of the model: frames lost
    MaxEnded              \* bound of the model: streams closed or with an error

Controllers == Streams \cup {0}

ASSUME SendAssumption ==
    /\ IsFiniteSet(Streams) /\ 0 \notin Streams /\ NonContributing \subseteq Streams
    /\ HeaderLen \in Nat /\ DataLenBytes \in 0 .. HeaderLen
    /\ DefaultWindow \in [Controllers -> Nat] /\ MaxOffered \in [Streams -> Nat]
    /\ \A c \in Controllers : Announced[c] \subseteq Nat
    /\ Rooms \subseteq Nat

VARIABLES
    offered,              \* bytes given to Write so far
    dataForWriting,       \* length of the part that no frame has yet; 0 is nil
    waiting,              \* the streams whose Write waits on doneWritingOrErrCond
    appClosed,            \* the application has called Close
    err,                  \* "none"; RegisterError has stored closed: "closing"; err is "set"
    writeOffset, finSent,
    bytesSent, sendFlowControlWindow,   \* per controller; a window of 0 is the default
    scheduled,            \* sendingScheduled holds a token
    pc,                   \* the session's goroutine
    todo,                 \* streams RoundRobinIterate has not come to
    cur,                  \* locals of the framer's closure fn
    room,                 \* bytes left for stream frames
    packet,               \* the packet being packed
    retransmissionQueue,  \* frames to send again
    inFlight, acked,      \* frames of packets in flight; frames acknowledged
    controlFrames,        \* controllers with a BLOCKED frame for the next packet
    losses

streamVars == <<offered, dataForWriting, waiting, appClosed, err, writeOffset, finSent>>
packVars == <<todo, cur, room, packet>>
netVars == <<retransmissionQueue, inFlight, acked, losses>>
sendVars == <<streamVars, bytesSent, sendFlowControlWindow, scheduled, pc, packVars, netVars, controlFrames>>

NoVisit == [stream |-> 0, offset |-> 0, maxLen |-> 0, sendWindowSize |-> 0, len |-> 0]
EmptyPacket == [control |-> {}, frames |-> {}, size |-> 0, room |-> 0]

SendInit ==
    /\ offered = [s \in Streams |-> 0] /\ dataForWriting = [s \in Streams |-> 0]
    /\ waiting = {} /\ appClosed = {} /\ err = [s \in Streams |-> "none"]
    /\ writeOffset = [s \in Streams |-> 0] /\ finSent = {}
    /\ bytesSent = [c \in Controllers |-> 0] /\ sendFlowControlWindow = [c \in Controllers |-> 0]
    /\ scheduled = FALSE /\ pc = "select"
    /\ todo = {} /\ cur = NoVisit /\ room = 0 /\ packet = EmptyPacket
    /\ retransmissionQueue = <<>> /\ inFlight = {} /\ acked = {} /\ losses = 0
    /\ controlFrames = {}

-----------------------------------------------------------------------------
(* The application *)

\* onData: a token for the run loop, unless it has one.
BugScheduleSending == UNCHANGED scheduled
scheduleSending == scheduled' = TRUE

\* Write up to Wait.  An application does not write after its own Close.
WriteCall(s, n) ==
    /\ s \notin waiting \cup appClosed /\ err[s] # "set"
    /\ offered[s] + n <= MaxOffered[s]
    /\ offered' = [offered EXCEPT ![s] = @ + n]
    /\ dataForWriting' = [dataForWriting EXCEPT ![s] = n]
    /\ waiting' = waiting \cup {s}
    /\ scheduleSending
    /\ UNCHANGED <<appClosed, err, writeOffset, finSent, bytesSent, sendFlowControlWindow, pc, packVars,
                   netVars, controlFrames>>

Ended == appClosed \cup {s \in Streams : err[s] # "none"}

Close(s) ==
    /\ s \notin appClosed
    /\ Cardinality(Ended \cup {s}) <= MaxEnded
    /\ appClosed' = appClosed \cup {s}
    /\ scheduleSending
    /\ UNCHANGED <<offered, dataForWriting, waiting, err, writeOffset, finSent, bytesSent,
                   sendFlowControlWindow, pc, packVars, netVars, controlFrames>>

\* Signal on doneWritingOrErrCond: Write finds no data left, or the error, and
\* returns; no other goroutine sees when.
Signal(s) == waiting' = waiting \ {s}

\* RegisterError stores closed, and then takes the mutex.
RegisterErrorStores(s) ==
    /\ err[s] = "none"
    /\ Cardinality(Ended \cup {s}) <= MaxEnded
    /\ err' = [err EXCEPT ![s] = "closing"]
    /\ UNCHANGED <<offered, dataForWriting, waiting, appClosed, writeOffset, finSent, bytesSent,
                   sendFlowControlWindow, scheduled, pc, packVars, netVars, controlFrames>>
RegisterErrorLocks(s) ==
    /\ err[s] = "closing"
    /\ err' = [err EXCEPT ![s] = "set"]
    /\ Signal(s)
    /\ UNCHANGED <<offered, dataForWriting, appClosed, writeOffset, finSent, bytesSent,
                   sendFlowControlWindow, scheduled, pc, packVars, netVars, controlFrames>>

closed(s) == s \in appClosed \/ err[s] # "none"

-----------------------------------------------------------------------------
(* Flow control *)

getSendFlowControlWindow(c) ==
    IF sendFlowControlWindow[c] = 0 THEN DefaultWindow[c] ELSE sendFlowControlWindow[c]

Remaining(c) == Max({0, getSendFlowControlWindow(c) - bytesSent[c]})

SendWindowSize(s) == IF s \in NonContributing THEN Remaining(s) ELSE Min({Remaining(s), Remaining(0)})

BugChargedTo(s) == {s, 0}
ChargedTo(s) == IF s \in NonContributing THEN {s} ELSE {s, 0}

-----------------------------------------------------------------------------
(* What wakes the session's goroutine *)

\* The run loop takes the token.
Scheduled ==
    /\ pc = "select" /\ scheduled
    /\ scheduled' = FALSE /\ pc' = "send"
    /\ UNCHANGED <<streamVars, bytesSent, sendFlowControlWindow, packVars, netVars, controlFrames>>

\* A WINDOW_UPDATE frame with news.
ReceivesWindowUpdate(c, newOffset) ==
    /\ pc = "select"
    /\ newOffset > sendFlowControlWindow[c]
    /\ sendFlowControlWindow' = [sendFlowControlWindow EXCEPT ![c] = newOffset]
    /\ pc' = "send"
    /\ UNCHANGED <<streamVars, bytesSent, scheduled, packVars, netVars, controlFrames>>

\* An ACK of all packets in flight, or a loss found by NACKs or a timeout.
ReceivesAck ==
    /\ pc = "select" /\ inFlight # {}
    /\ inFlight' = {} /\ acked' = acked \cup inFlight
    /\ pc' = "send"
    /\ UNCHANGED <<streamVars, bytesSent, sendFlowControlWindow, scheduled, packVars,
                   retransmissionQueue, losses, controlFrames>>
AddFrameForRetransmission(f) ==
    /\ pc = "select" /\ f \in inFlight
    /\ losses < MaxLosses /\ losses' = losses + 1
    /\ inFlight' = inFlight \ {f}
    /\ retransmissionQueue' = Append(retransmissionQueue, f)
    /\ pc' = "send"
    /\ UNCHANGED <<streamVars, bytesSent, sendFlowControlWindow, scheduled, packVars, acked, controlFrames>>

-----------------------------------------------------------------------------
(* sendPacket: one packet after the other until there is nothing to send *)

\* SendingAllowed may be false as long as there are packets in flight.
SendingRefused ==
    /\ pc = "send" /\ inFlight # {}
    /\ pc' = "select"
    /\ UNCHANGED <<streamVars, bytesSent, sendFlowControlWindow, scheduled, packVars, netVars, controlFrames>>

\* A packet with one frame more.
AddedTo(p, f) == [p EXCEPT !.frames = @ \cup {f}, !.size = @ + HeaderLen + f.len]

\* maybeSplitOffFrame: the first n bytes, and what stays in the queue.
SplitOff(f, n) == [f EXCEPT !.len = n, !.fin = FALSE]
BugSplitRest(f, n) == [f EXCEPT !.len = @ - n, !.data = @ + n]
SplitRest(f, n) == [f EXCEPT !.offset = @ + n, !.len = @ - n, !.data = @ + n]

\* maybePopFramesForRetransmission: one round of the loop, and its end;
\* there is at most one round for each frame of the queue.
PopFrame(res) ==
    LET f == Head(res.queue)
        n == res.room - HeaderLen
    IN  IF res.queue = <<>> \/ n <= 0 THEN res
        ELSE IF n < f.len THEN [queue |-> <<SplitRest(f, n)>> \o Tail(res.queue), room |-> 0,
                                packet |-> AddedTo(res.packet, SplitOff(f, n))]
        ELSE [queue |-> Tail(res.queue), room |-> n - f.len, packet |-> AddedTo(res.packet, f)]
Popped(start) ==
    LET rounds[k \in 0 .. Len(start.queue)] == IF k = 0 THEN start ELSE PopFrame(rounds[k - 1])
    IN  rounds[Len(start.queue)]

\* composeNextPacket up to the iteration over the streams; it takes all control
\* frames and allows DataLenBytes too much.
ComposeNextPacket(maxFrameSize) ==
    LET start == [queue |-> retransmissionQueue, room |-> maxFrameSize + DataLenBytes,
                  packet |-> [EmptyPacket EXCEPT !.control = controlFrames, !.room = maxFrameSize]]
        res   == Popped(start)
    IN  /\ pc = "send"
        /\ packet' = res.packet /\ room' = res.room /\ retransmissionQueue' = res.queue
        /\ controlFrames' = {}
        /\ pc' = "visit" /\ todo' = Streams
        /\ UNCHANGED <<streamVars, bytesSent, sendFlowControlWindow, scheduled, cur, inFlight, acked, losses>>

\* fn up to getDataForWriting.  The window is looked at only if there is data.
MaxLen(s) == IF dataForWriting[s] = 0 THEN room - HeaderLen ELSE Min({room - HeaderLen, SendWindowSize(s)})
VisitStream(s) ==
    /\ pc = "visit" /\ s \in todo
    /\ s \in NonContributing \/ todo \cap NonContributing = {}
    /\ IF room < HeaderLen
       THEN todo' = {} /\ UNCHANGED <<cur, pc>>
       ELSE /\ todo' = todo \ {s}
            /\ IF MaxLen(s) = 0 THEN UNCHANGED <<cur, pc>>
               ELSE /\ cur' = [stream |-> s, offset |-> writeOffset[s], maxLen |-> MaxLen(s), len |-> 0,
                               sendWindowSize |-> IF dataForWriting[s] = 0 THEN 0 ELSE SendWindowSize(s)]
                    /\ pc' = "take"
    /\ UNCHANGED <<streamVars, bytesSent, sendFlowControlWindow, scheduled, room, packet, netVars, controlFrames>>

getDataForWriting ==
    LET s == cur.stream
        n == Min({dataForWriting[s], cur.maxLen})
    IN  /\ pc = "take"
        /\ dataForWriting' = [dataForWriting EXCEPT ![s] = @ - n]
        /\ writeOffset' = [writeOffset EXCEPT ![s] = @ + n]
        /\ IF dataForWriting[s] # 0 /\ n = dataForWriting[s] THEN Signal(s) ELSE UNCHANGED waiting
        /\ cur' = [cur EXCEPT !.len = n]
        /\ pc' = "finish"
        /\ UNCHANGED <<offered, appClosed, err, finSent, bytesSent, sendFlowControlWindow, scheduled, todo, room,
                       packet, netVars, controlFrames>>

shouldSendFin(s) == closed(s) /\ s \notin finSent /\ err[s] # "set" /\ dataForWriting[s] = 0

\* The BLOCKED frames to queue after a frame, with the counters as they are then.
BlockedAfter(s, fin) ==
    IF Remaining(0)' = 0 THEN {0}
    ELSE IF ~fin /\ cur.sendWindowSize = cur.len THEN {s} ELSE {}

\* The rest of fn.  finSent is only read by this goroutine, so that sentFin
\* belongs to the same step as shouldSendFin.
FinishFrame ==
    LET s   == cur.stream
        fin == shouldSendFin(s)
        f   == [stream |-> s, offset |-> cur.offset, len |-> cur.len, fin |-> fin,
                data |-> writeOffset[s] - cur.len]
    IN  /\ pc = "finish"
        /\ pc' = "visit" /\ cur' = NoVisit
        /\ UNCHANGED <<offered, dataForWriting, waiting, appClosed, err, writeOffset, sendFlowControlWindow,
                       scheduled, netVars>>
        /\ IF cur.len = 0 /\ ~fin
           THEN UNCHANGED <<finSent, bytesSent, controlFrames, packet, room, todo>>
           ELSE /\ finSent' = IF fin THEN finSent \cup {s} ELSE finSent
                /\ bytesSent' = [c \in Controllers |->
                                    IF c \in ChargedTo(s) THEN bytesSent[c] + cur.len ELSE bytesSent[c]]
                /\ controlFrames' = controlFrames \cup BlockedAfter(s, fin)
                /\ packet' = AddedTo(packet, f)
                /\ room' = room - HeaderLen - cur.len
                /\ todo' = IF room' = 0 THEN {} ELSE todo

\* An empty packet ends sendPacket, any other is sent.
PackPacket ==
    /\ pc = "visit" /\ todo = {}
    /\ pc' = IF packet.control = {} /\ packet.frames = {} THEN "select" ELSE "send"
    /\ inFlight' = inFlight \cup packet.frames
    /\ packet' = EmptyPacket /\ room' = 0
    /\ UNCHANGED <<streamVars, bytesSent, sendFlowControlWindow, scheduled, todo, cur, retransmissionQueue,
                   acked, losses, controlFrames>>

-----------------------------------------------------------------------------
Application ==
    \E s \in Streams :
        \/ \E n \in 1 .. MaxOffered[s] : WriteCall(s, n)
        \/ Close(s) \/ RegisterErrorStores(s) \/ RegisterErrorLocks(s)
Events ==
    \/ \E c \in Controllers : \E newOffset \in Announced[c] : ReceivesWindowUpdate(c, newOffset)
    \/ \E f \in inFlight : AddFrameForRetransmission(f)
    \/ ReceivesAck
Session ==
    \/ Scheduled \/ SendingRefused \/ getDataForWriting \/ FinishFrame \/ PackPacket
    \/ \E maxFrameSize \in Rooms : ComposeNextPacket(maxFrameSize)
    \/ \E s \in Streams : VisitStream(s)

SendNext == Application \/ Events \/ Session

\* The goroutines run, the peer acknowledges what arrives and raises its
\* windows.
SendSpec ==
    /\ SendInit /\ [][SendNext]_sendVars
    /\ WF_sendVars(Session)
    /\ WF_sendVars(ReceivesAck)
    /\ \A c \in {d \in Controllers : Announced[d] # {}} :
          WF_sendVars(\E newOffset \in Announced[c] : ReceivesWindowUpdate(c, newOffset))
    /\ WF_sendVars(\E s \in Streams : RegisterErrorLocks(s))

-----------------------------------------------------------------------------
(* Properties *)

Frames == packet.frames \cup inFlight \cup acked \cup Range(retransmissionQueue)
FramesOf(s) == {f \in Frames : f.stream = s}
BytesOf(f) == f.offset .. f.offset + f.len - 1
\* What fn has taken and not yet put into a frame.
TakenFrom(s) == IF cur.stream = s THEN cur.len ELSE 0

\* The frames of a stream, wherever they are, are disjoint, carry the bytes the
\* application wrote at their offsets, and together cover exactly what was taken
\* from it, although frames are lost, split and sent again.  Unless an error
\* interferes there is at most one FIN, after everything that was written.  The
\* frames of a packet fit into it, although the framer is allowed DataLenBytes
\* too many, since the last of them leaves out its DataLen.
FramesTile ==
    /\ packet.frames # {} => packet.size - DataLenBytes <= packet.room
    /\ \A s \in Streams :
        /\ \A f \in FramesOf(s) : f.offset = f.data
        /\ \A f, g \in FramesOf(s) : f # g => BytesOf(f) \cap BytesOf(g) = {}
        /\ UNION {BytesOf(f) : f \in FramesOf(s)} = 0 .. writeOffset[s] - TakenFrom(s) - 1
        /\ writeOffset[s] + dataForWriting[s] = offered[s]
        /\ err[s] = "none" =>
              /\ s \in finSent => writeOffset[s] = offered[s] /\ Cardinality({f \in FramesOf(s) : f.fin}) = 1
              /\ \A f \in FramesOf(s) : f.fin => s \in finSent /\ f.offset + f.len = writeOffset[s]

\* The counters of the flow controllers count each byte once, however often it
\* is sent, and the connection's only those of contributing streams.
SendCountersExact ==
    /\ \A s \in Streams : bytesSent[s] = writeOffset[s] - TakenFrom(s)
    /\ bytesSent[0] = MapThenSumSet(LAMBDA s : bytesSent[s], Streams \ NonContributing)

\* Every Write returns, as its data is taken or it gets the error; and when the
\* application closes a stream, everything it wrote and the FIN are
\* acknowledged in the end, unless an error is registered.
WrittenIsDelivered ==
    \A s \in Streams :
        s \in waiting \cup appClosed ~>
            /\ s \notin waiting
            /\ \/ s \notin appClosed \/ err[s] # "none"
               \/ s \in finSent /\ writeOffset[s] = offered[s] /\ FramesOf(s) \subseteq acked
=============================================================================
