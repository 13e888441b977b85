# A verification project for quic-go

TLA+ modules that model the server side of this QUIC implementation, runs of the
model checker TLC on small instances, and proofs that the proof system TLAPS
checks for every value of the constants. `PROJECT.json` lists the components, the
runs, the source lines of every definition, and the hazards the properties are
about.

## 1. The system

A `Session` (session.go) is one connection. Its run loop, one goroutine, takes
packets from the server, a timer, tokens of writers and of the crypto handshake,
and then sends as much as it may. Everything that handles packets runs in this
goroutine; applications, which read, write and close streams, and the crypto
handshake run in goroutines of their own and meet the loop at mutexes and channels.

| part | state | operations | meets |
|---|---|---|---|
| receivedPacketHandler, receivedPacketHistory | map and interval list of received packets, cached ACK | ReceivedPacket, ReceivedStopWaiting, GetAckFrame | run loop |
| sentPacketHandler, stopWaitingManager | history, retransmission queue, bytes in flight, least unacked | SentPacket, ReceivedAck, MaybeQueueRTOs, DequeuePacketForRetransmission | sendPacket, the stream framer |
| streamFrameSorter | gaps, queued frames, read position | Push, Pop, Head | stream |
| stream, receiving | frame queue, position of the reader, error | Read, AddStreamFrame, RegisterError | application and run loop, under the stream's mutex and condition |
| stream, sending | data of the writer, offset, FIN, error | Write, Close, getDataForWriting, shouldSendFin | application and run loop |
| streamFramer, packetPacker | retransmission queue, BLOCKED frames, control frames | PopStreamFrames, AddFrameForRetransmission, PackPacket | streams, flow control, packets |
| flow control | per stream and connection: bytes read, received, sent, windows | UpdateHighestReceived, AddBytesRead, GetWindowUpdates, AddBytesSent, UpdateWindow | both goroutines, under the manager's mutex |
| streamsMap | map, slice of open streams, counters, round-robin index | GetOrOpenStream, OpenStream, Iterate, RoundRobinIterate, RemoveStream | run loop and application |
| Session | timer, queues, closing | run, handlePacket, sendPacket, Close | everything |
| CryptoSetup, ConnectionParametersManager | keys, levels seen, negotiated parameters | HandleCryptoStream, Open, Seal, DiversificationNonce, SetFromMap, GetSHLOMap | crypto goroutine and run loop, under one mutex |
| wire formats | none | Write, Parse, InferPacketNumber | packer and unpacker |
| server | sessions by connection id | handlePacket, Close, closeCallback | all sessions |
| congestion control | window, RTT, cubic's state | OnPacketSent, OnCongestionEvent, TimeUntilSend | sentPacketHandler |
| h2quic | header and data streams of requests | handleHeaderStream, Write | streams |

What is hard about it: packets and ACKs that are lost, reordered and repeated;
timers that race with late answers; a reader and a writer against the loop;
a slice that shifts under an iteration; windows of two levels; keys that change
while packets are packed; closing from three sides at once; numbers truncated on
the wire. Each such place is a hazard in `PROJECT.json`, with its line.

## 2. The modules

| module | models | state and steps |
|---|---|---|
| `ReceivedPackets` | received_packet_handler.go, received_packet_history.go | fields keep their names; one action per method and outcome |
| `SentPackets` | sent_packet_handler.go, stop_waiting_manager.go, and sendPacket's use of them | list and queue are sets of packets; frames are model values |
| `ReliableFrames` | abstract: the life cycle unsent, flying, lost, acked of a frame | `SentPackets` implements it (`FramesAreReliable`) |
| `LossRecovery` | `SentPackets` composed with a peer that acknowledges anything, or with a lossy network and a peer that acknowledges as `receivedPacketHandler` does | packets and ACKs in two sets |
| `StreamFrameSorter` | stream_frame_sorter.go | gaps as a set of intervals, frames as offset, length and FIN |
| `StreamReceive` | Read, AddStreamFrame, RegisterError of stream.go, on the sorter | the reader's steps are the stretches between Lock, Wait and Unlock |
| `FlowControl` | receiving half of flow_controller.go and flow_control_manager.go | one action per method of the manager |
| `FlowControlPeer` | `FlowControl` composed with a peer, honest or not, and a reading application | |
| `StreamsMap` | streams_map.go, garbageCollectStreams | the slice with its shifting backing array |
| `StreamSend` | sending half of stream.go, stream_framer.go, the sending half of flow control, and packing | the loop's steps end where it releases a stream's mutex |
| `Session` | run, maybeResetTimer, the queues, closeImpl of session.go | the loop by program counter, a discrete clock, channels of capacity 1 |
| `Server` | Serve, handlePacket, closeCallback and Close of server.go, composed with `Session` | the entry of one connection in the map, the mutex, where Serve and Close are |
| `Congestion` | cubic_sender.go, cubic.go, hybrid_slow_start.go, and the calls of sent_packet_handler.go | windows in packets, time in ticks, one step per packet of a congestion event |
| `Handshake` | crypto_setup.go, connection_parameters_manager.go, with the loop's Open, DiversificationNonce and Seal | two program counters, the mutex, two lossy directions, a client |
| `AckFrame` | ack_frame.go: Write, ParseAckFrame, MinLength, validateAckRanges | operators |
| `Frames` | the other frames: Write, MinLength, the parsers, and the loop of packet_unpacker.go | operators; a control frame is its type byte and the fields its two functions write and read |
| `Wire` | public header, packet number, STOP_WAITING, ACK and the other frames through one packet | write, then parse |
| `SetLemmas` | lemmas about least and greatest elements, induction over naturals and finite sets, sums | |
| `...Proofs` | theorems about the module they are named after, and about the module that composes it (`FlowControlPeer`, `LossRecovery`, `Session`); `StreamProofs` is about `StreamFrameSorter`, `StreamReceive` and `StreamsMap` | |
| `MC...` | constants for TLC where a cfg cannot express them | |

Operators whose names begin with `Bug` stand before the definition they would
replace. They are plausible mistakes in that code, used to see that a property
notices them; no specification uses them.

### Abstractions

* Contents of packets and messages are what the properties tell apart: packet
  numbers, frames as model values, bytes as their offsets, CHLOs as the set of
  what is right in them. That the source of randomness fails is left out.
* Time is a counter in `Session`; elsewhere a timer that may expire at any time
  (`SentPackets`), when nothing is on its way (`LossRecovery`), or a free choice
  (window auto-tuning in `FlowControl`).
* The congestion window is a free choice to refuse sending, but in `Congestion`. There
  the float32 factors of Cubic are fractions, the curve is scaled to ticks, a
  PacketNumber wraps at `Word`, and which packets an ACK acknowledges and how many of
  the others, oldest first, it makes lost is open. The cube of a time is exact, where
  cubic.go:187 overflows an int64 after some minutes (`CurveAssumption`).
* A stream that `StreamsMap` opens again at the boundary of the age limit is another id in
  `FlowControl`, as it gets a new controller.
* A critical section of the server's mutex is one step.
* A byte in `AckFrame`, `Frames` and `Wire` has `Base` = 4 values instead of 256, so that long
  gaps, truncated numbers and too many ranges occur with small numbers. Widths
  stay as they are, type bytes are the real ones; packet numbers wrap at `Base ^ 8`.
* Accesses to Go maps without a lock (flow_control_manager.go:136) are taken as
  atomic.
* Peer, client and network are not in this repository. They are modelled by what
  the code expects of them, and marked external.

## 3. The runs

TLC checks every passing run completely. Deadlock is not checked: in each model the
bounded environment may stop, a session may be closed, and then nothing happens.

**ReceivedPackets** (60,568 states). Any order of seven packet numbers, duplicates,
STOP_WAITING frames and ACKs. The interval list and the map agree
(`RangesMatchReceived`), an ACK frame, cached or new, acknowledges exactly what was
received and not given up (`AckFrameIsExact`), no packet is processed twice
(`AcceptedAtMostOnce`), and the ACKs sent never retreat (`AcksNeverRetreat`).
Seven numbers make four intervals, so that three, the limit, are exceeded, and
every kind of merge occurs; five tracked packets make the other limit occur.

**StreamReceive** (321,208 states). All frames within four bytes, with and without
FIN, in any order and overlap, two gaps at most, reads of one and three bytes, an
error at any time. Every byte is missing, read, or in exactly one queued frame
(`BytesPartitioned`); `Read` delivers bytes in order and once and pops the frame it
copied outside the mutex (`DeliveredInOrder`); it does not sleep while there is
something for it (`ReaderIsWoken`). Four bytes allow a frame to touch, split,
cover and straddle gaps. What Read returns after an error is not stated: it may
go on with the position of the frame before (stream.go:80).

**FlowControl** (24,600 states). Three streams, of which one does not count for the
connection, a peer that is honest or not, learns of updates late, and repeats
frames. The connection's counters are the sums of the streams' (`ConnectionIsSum`),
credit is bounded (`CreditBounded`), an honest peer is not accused
(`HonestPeerIsAccepted`), and everything flows (`EverythingFlows`). The windows
are smaller than the transfers, so updates are needed, and the increment
grows once, to its maximum.

**LossRecovery** (377,105 states). Two stream frames and a control frame. The peer is of
one of two kinds. The arbitrary one writes any three ACKs, also dishonest ones, for four
packets, with timeouts and refusals at any time; with it come the steps of the
handler that no honest peer provokes. The honest one is behind a network with two
losses of packets or ACKs and any reordering. Stream data is neither lost nor resent
once its acknowledgement was seen (`EachFrameInOnePlace`); a packet with resent data
carries a STOP_WAITING that covers the lost packets and can be written
(`ResentDataStopsWaiting`); bytes in flight are exact, honest ACKs are never refused and
nothing is taken for delivered that was not (`AcksAreUsedRight`); the handler implements
`ReliableFrames` (`FramesAreReliable`); with the honest peer everything, control
frames included, is delivered and known to be (`EverythingIsAcked`). A threshold of one
NACK instead of three makes fast retransmission, timeouts and late ACKs meet within
four packets. Fourteen packets are more than two losses with their retransmissions
need, so the bound is never what stops the honest peer.

**Congestion** (1,311,506 states). Five packets, four ticks, windows from 2 to 6, and
ACKs with any ranges, losses around them and timeouts in any order. The window stays in its bounds
(`WindowInBounds`), the losses of a flight cut it once (`SingleLossEvent`), and
Cubic's unsigned target does not leave its curve (`TargetOnCurve`), but for an epoch in
the future (cubic.go:157). Small windows let slow start, its exit by delay, congestion
avoidance, and cuts down to the minimum all occur within five packets.

**LossRecoveryLimit** (violation of `SendsUntilNoData`). Same, with two tracked
packets. See the findings.

**StreamsMap** (33,682 states). Streams 1, 3, 5 of the client and 2 of the server,
an age limit of 2. Map, slice and counters agree although the slice shifts under
`Iterate` (`BookkeepingExact`); a closed stream stays closed, but for the
id exactly at the age limit (`RecentlyClosedStaysClosed`, see the observations); no open stream starves while 1 and 3 are open
(`NoStarvation`); finished streams are removed (`FinishedAreRemoved`). Five openings
allow streams to be collected and opened again.

**StreamSend** (853,343 states). A stream that does not count for the connection
and one that does, a window of the connection smaller than what is written (those of
the streams suffice for it), packets with room for one or three bytes, a loss, an error. Frames, wherever they are, tile what was taken from
the writers, with the FIN at the end (`FramesTile`); flow control charges each byte
once (`SendCountersExact`); packets are not overfilled (also `FramesTile`); writers return
and what is written and closed is delivered (`WrittenIsDelivered`). That sending stays
within the window is not stated: Write may fill the data between the framer's
look at its length and the moment it takes it (stream_framer.go:93); the model
takes this step, too.

**Session** (798,900 states, module `Server`). The server, from a connection without a
session to the end of it, with its run loop. Two packets of any kind, one stream, two
callers of Close, of which one is Server.Close, three ticks. No deadline has
passed while the loop waits, but for an overdue ACK that could not be sent, and the
drain of the timer never blocks (`DeadlinesAreMet`); packets that came before the keys
are tried again (`EarlyPacketsAreRetried`); streams get the error and the peer is told
once (`EveryoneIsTold`); a closed session ends its loop and every Close returns
(`ClosingEnds`); a connection never gets a second session or a stray answer
(`OneSessionPerConnection`); Server.Close and Serve return (`ServerCloses`). A timer fires
one tick after its deadline, so within three ticks the timers of an ACK (1), of the RTO (1)
and of the handshake (1) fire. The idle timeout of a complete handshake (2) is noticed
when another event wakes the loop; its timer would need a fourth tick. That the loop
meets its deadlines is proved for all values (`LoopMeetsDeadlines`). `MaxEvents` bounds packets and calls of Session.Close together:
two are a packet that races with a close, or two packets.

**SessionTimer** (violation of `TimesOut`). `Session` alone, with later timeouts, so that an
overdue ACK hides the idle timeout. See the findings.

**Wire** (350,707 states). Packet numbers to 20, ACKs of any ranges among the numbers
1 to 8 and 14 to 18, which are a long gap apart, up to three blocks of a peer with
lengths and gaps that may wrap, and up to three other frames, control frames first,
with stream IDs and offsets of every length. A packet keeps its number and its
STOP_WAITING (`NumbersAreKept`); its ACK acknowledges no lost packet and drops only the
lowest ranges (`AckIsKept`); the other frames come out as they went in, and the packet
is as long as the packer counted (`FramesAreKept`); what is accepted from any peer has
valid ranges (`AcceptedRangesAreValid`). With a byte of four values, gaps of one byte
and more, and their multiples, occur. `FramesAreKept` has an exception, which the run
reaches: see the observations.

**Handshake** (525,810 states). Complete, inchoate and wrong CHLOs, three of
them, two losses, closing at any time. The client has the key of everything it is
sent, and nonce and key belong together, since packing keeps the mutex from
DiversificationNonce to Seal (`ClientCanOpen`); both sides use the same parameters,
and the loop opens no encrypted packet before all of them are set, since handleCHLO sets
them with the mutex it took to derive the keys (`ParametersAgreed`); the handshake completes although aeadChanged is signalled under
the mutex the loop needs (`HandshakeCompletes`); the crypto goroutine ends with the
session (`CryptoGoroutineEnds`). Three CHLOs are a client's
without anything, one with a token, which is rejected with the proof of the server's
configuration, and a complete one; a client that has all of it starts with the last. A
CHLO that is too small, or lacks a tag, fails at the same places as the wrong ones that
are tried: a missing SNI in handleMessage, a name without a certificate in
handleInchoateCHLO and handleCHLO, and a public key that is none before the mutex is taken.

### Fairness

Only weak fairness is assumed, and only of

* goroutines that can run: the loop, readers, writers, closers, Serve as far as it
  waits for no packet, and the crypto goroutine (Go's scheduler runs every goroutine that is ready);
* the loop sending and collecting again and again (`StreamsMap`: both are in its body),
  with streams 1 and 3 not filling every packet, as they carry only handshake and
  headers;
* a packet that is not lost arrives, the peer acknowledges it and raises its
  windows, the application reads; losses are finitely many (`MaxLosses`);
* the RTO timer (`LossRecovery`): a timer that is set expires.

No fairness is assumed of losses, errors, closing, or new data.

## 4. Findings

1. sent_packet_handler.go:279. With `MaxTrackedSentPackets` packets tracked sending
   is refused. A timeout moves packets to the retransmission queue, which still
   counts against the limit and which only sending empties. The session never sends
   again, although nothing is in flight (session.go:486, 493 say otherwise).
   `LossRecoveryLimit` shows it with a limit of two.
2. session.go:239. `maybeResetTimer` does not set the timer if the deadline is the
   same, also if the timer has fired. When an ACK's delay has passed and nothing was
   sent, the deadline stays, the timer stays off, and the idle timeout
   (session_test.go:761) passes unnoticed until another event wakes the loop.

Observations made while modelling, which the models contain and the properties are
stated around:

* stream_frame.go:67. A STREAM frame that has only a FIN says that its length is 0,
  which the parser takes for no length. If other frames follow in the packet, they
  become data of that stream. `FramesAreKept` states exactly this.
* streams_map.go:241. The garbage collection deletes the nil of a closed stream whose id
  is MaxNewStreamIDDelta or more below the highest one (`<=`), GetOrOpenStream refuses ids
  that are further below (`<`, line 74). The closed stream with the id in between can be
  opened again, which the nils are there to prevent (line 240). `RecentlyClosedStaysClosed`
  says that it is the only one.
* server.go:185. A session that ends before it is inserted stays in the map; its
  packets vanish. server.go:110: a session that is created while Close looks at the map
  is not closed by it.
* cubic.go:157. An epoch that starts keeps an appLimitedStartTime from before it, and is
  later shifted by all of it, into the future, where the target is off the curve. The
  window stays in its bounds nevertheless (`WindowInBounds`, proved).
* sent_packet_handler.go:296. A timeout calls queueRTO twice, so the threshold of slow
  start becomes half of the minimum window, and not half of the window as in
  cubic_sender_test.go:387, which calls OnRetransmissionTimeout once.
* sent_packet_handler.go:239. OnCongestionEvent gets the bytes in flight after the
  event; its comment (cubic_sender.go:129) says prior to it.

## 5. What is proved

| theorem | statement |
|---|---|
| `ReceivedPacketsInvariant` | `IInv` is an invariant of `ReceivedPackets` |
| `HistoryRepresentationsAgree`, `AckFramesAreExact`, `EachPacketProcessedOnce`, `ReceivedPacketsRemembered` | the invariants `RangesMatchReceived`, `AckFrameIsExact`, `AcceptedAtMostOnce`, `NothingForgottenEarly` |
| `SentAcksNeverRetreat` | the action property `AcksNeverRetreat` |
| `SorterInvariant` | `SorterInv` is an invariant of the sorter |
| `SorterPartitionsBytes`, `SorterGapEnds`, `SorterNeverStuck` | `BytesPartitioned`, `GapEndsAreQueued`, `NextByteIsReadable` |
| `ReaderInvariant` | `ReaderInv` is an invariant of `StreamReceive` |
| `ReadDeliversInOrder`, `ReaderPartitionsBytes`, `ReadHasNoBugs` | `DeliveredInOrder`, `BytesPartitioned` with a reader, and that Read takes none of its "BUG:" returns before an error |
| `CreditInvariant` | `CreditInv` is an invariant of `FlowControl` |
| `BufferingIsBounded`, `WindowsGrow`, `ConnectionCountsStreams` | `CreditBounded`, the action property `WindowsNeverShrink`, and `ConnectionIsSum` |
| `PeerRefinesFlowControl`, `HonestPeersPass` | `FlowControlPeer` implements `FlowControl`; `HonestPeerIsAccepted` |
| `StopWaitingInvariant`, `PlaceInvariant` | `StopInv` and `PlaceInv` are invariants of `SentPackets` |
| `ResentDataIsAnnounced`, `FramesHaveOnePlace`, `BytesInFlightIsExact` | `ResentDataStopsWaiting`, `EachFrameInOnePlace`, and that bytesInFlight is the size of the history |
| `LossRecoveryIsReliable` | `SentPackets` implements `ReliableFrames` |
| `NetRefinesHandler`, `AcksAreHandledRight` | `LossRecovery` implements `SentPackets`; `AcksAreUsedRight` |
| `CongestionInvariant` | `WindowInv` is an invariant of `Congestion` |
| `WindowStaysInBounds`, `OneCutPerLossEvent`, `TargetStaysOnCurve` | `WindowInBounds`, the action property `SingleLossEvent`, and `TargetOnCurve` |
| `ClosingInvariant`, `EntryInvariant` | `CloseInv` and `EntryInv` are invariants of `Server` |
| `ClosingTellsEveryone`, `RoutesToOneSession` | `EveryoneIsTold`, and the action property `OneSessionPerConnection` |
| `RetriesEarlyPackets`, `LoopMeetsDeadlines` | `EarlyPacketsAreRetried` and `DeadlinesAreMet`, from the invariants `QueueInv` and `TimerInv` |
| `SliceAgreesWithMap`, `ClosedStaysClosed` | `BookkeepingExact`, and the action property `RecentlyClosedStaysClosed` |
| `FramesTileStreams`, `CountersCountFrames` | `FramesTile` and `SendCountersExact` of `StreamSend`, from the invariant `SendInv` |

The assumptions are those named in the modules: bounds, delays, timeouts and capacities
are natural numbers (`BoundsAssumption`, `SentPacketsAssumption`, `SorterAssumption`,
`SessionAssumption`, `StreamsMapAssumption`), the largest offset is below MaxByteCount
(`SorterAssumption`), frames have offsets below it and a Read has a buffer of at least
one byte (`ReceiveAssumption`), stream and control frames differ and are finitely many
(`SentPacketsAssumption`), the arbitrary peer's bounds lie within the handler's
(`LossRecoveryAssumption`), there are finitely many streams, and initial windows, which
are also the first increments, are at least 2 and at most the maximum increment
(`WindowAssumption`), the peer has no more data than fits the offsets (`PeerAssumption`),
ids of the client are odd, those of the server even (`StreamsMapAssumption`), congestion
windows are natural numbers with 2 <= minimum <= initial <= maximum
(`CongestionAssumption`), a frame's header is at least as long as the DataLen in it,
and sizes, windows and offsets are natural numbers (`SendAssumption`), and Server.Close is one of the callers of Session.Close
(`ServerAssumption`). Only `TargetStaysOnCurve` uses `CurveAssumption`, a horizon: the
clock is in the range in which the cube of a time fits a word. An epoch in the code
leaves that range after some minutes without a loss; nothing is said of it then.

*ReceivedPackets.* That ACKs are exact is not inductive: the cache may be stale, but
only while it cannot be returned. `IInv` says that a cached frame that may be returned
(`stateChanged`) is exact, that the cache is empty while a packet is processed, so that
its STOP_WAITING cannot make it stale, and that whatever was accepted or acknowledged
is in the map or below the threshold. The main lemmas say what inserting, extending,
merging and cutting do to a sorted list of intervals and to the set it covers.

*StreamFrameSorter.* `BytesPartitioned` needs to know that Push does not queue a frame
without a gap for it. Its walk stops at a gap that ends where the frame starts, and
only the map of queued frames then tells that the frame is a duplicate. Hence
`GapEndsAreQueued`, and that a map has one frame per offset.

*StreamReceive.* Read looks at the head of the queue, copies from it without the mutex,
and pops the head later. `ReaderInv` says that, until an error is registered, the frame
Read holds still is the head, that `readOffset` is where `readPosInFrame` points to, and
that between two frames the position is the sorter's. Frames pushed in between cannot
change the head, since they fill gaps, and gaps lie behind it.

*FlowControl.* `CreditInv` bounds a window by what was read and the increment, and,
unless the peer was accused, what was received by the window. `SumInv` adds that the
connection's counters are sums over the contributing streams. `PeerInv` relates
the peer: what was received it has sent, the windows it knows were announced, and if it
is honest, it keeps to them, the connection's with a sum; so the controllers see no
violation. Sums are recursive functions over finite sets; `SetLemmas` proves that they
have a solution, that any element may be taken first, and what a change of one
summand does, by induction for a set of good subsets (`SetInduction`).

*SentPackets.* `StopInv` orders the numbers of the stopWaitingManager: what was given
up lies below nextLeastUnacked, which is at most the next packet number. `PlaceInv`
puts a frame into one of five places, once; each action moves frames between them.
The refinement follows from the moves. `FlightInv` is the sum of the lengths in the
history, in which packet numbers are unique.

*LossRecovery.* `NetInv` says of the network and the honest peer: what it received and
acknowledges are packets that were sent, and as long as the history holds such a packet,
the peer has processed its frames. It no longer says so when the history has let go of
it, which is what late and repeated ACKs need. An honest ACK is then never refused, and
the network's steps are steps of `SentPackets`, whose theorems carry over.

*Congestion.* Cubic's target may be anything after a wrap-around; what keeps the window
above its minimum is the estimate of a TCP window, the floor of what Cubic returns.
`WindowInv` says that this estimate is at least the minimum as soon as Cubic may
return it. `CurveInv` says that the cube of the time to the origin is at most the
distance of the origin's window from the minimum, as an epoch begins, so that the curve
starts at or above the minimum and then only rises; monotony of the cube is a lemma.

*Server.* That everyone is told says something of the loop's end only. `CloseInv`
follows the right to end the session through the protocol: it is with one goroutine
in closeImpl, then in closeChan, then with the loop that is being left, and
never in two of them; nothing is announced before the last of them, but for a public
reset, whose reason then forbids a second announcement; and the streams have the error
once no goroutine is before closeStreamsWithError. `EntryInv` says that the map has an
entry from the insertion on, since closeCallback leaves nil and never deletes.

*Session.* `QueueInv`: once the keys are there, a packet that waits for them has a token
in aeadChanged on its way to the loop. `TimerInv`: the timer is set to the deadline, or
its value was read, after the deadline had passed; if the deadline is the same
nevertheless, it is that of an ACK that could not be sent. From it follow that the drain
finds a value and that the loop sleeps past no other deadline. Both are proved in
`Server`, whose steps are steps of the session or leave it alone.

*StreamsMap.* A pass of Iterate is a recursion over the entries of a slice that shrinks.
`PassInv` says of its state that the front of the array holds each stream that
is open and not removed once, and what lies behind it was open at the start; it holds
after each entry by induction over their number. `SliceInv` is then kept by a whole
collection. A pass may skip an entry, so it is not said that all finished streams
go at once. `ClosedInv`: a client's stream that was ever opened is in the map, be it
as nil, or is at least MaxNewStreamIDDelta below the highest. GetOrOpenStream refuses
more than that, which leaves the one id of `RecentlyClosedStaysClosed`.

*StreamSend.* `SendInv` says where each byte is: still with the writer, in the hands of
the framer, between getDataForWriting and the new frame, or in exactly one frame, which
is in the packet, in flight, acknowledged or in the retransmission queue. That the
writer's offset counts a byte before a frame has it, and bytesSent only afterwards,
is what `FramerAt` keeps apart. The frames are a set, and the queue has none of them
twice; `TiledSplit` and `TiledAdd` say that splitting a frame and adding one at the end
keep a tiling. Popping from the retransmission queue is a recursion over its length,
and each round keeps the frames, the order and the room, by induction over the rounds.
Without an error a FIN is sent only when Close was called and nothing is left to take;
with one it may come early, and then nothing is said of where it is.

Only model-checked are: liveness, which the prover does not support; `Handshake`
(`ClientCanOpen`, `ParametersAgreed`), about which there are no proofs yet; and `Wire`,
whose operators recurse over sequences of bytes, so that what they compute for every
input would need an induction over data.

## 6. What is not modelled

* `RST_STREAM` in flow control: bytes of a reset stream are never counted as read
  (session.go:396), so `EverythingFlows` is stated for streams that are read.
* The duration of the RTO and its backoff (sent_packet_handler.go:328), RTT smoothing,
  and statistics.
* Of congestion control: Reno, the large reduction of slow start, proportional rate
  reduction (the server never asks it), bandwidth, connection migration.
* A call of Session.Close from the run loop itself, and data races on Go maps
  (flow_control_manager.go:136).
* Version field and truncated connection IDs of the public header, padding, and
  frames cut off in the middle; the formats of public reset, version negotiation and
  handshake messages.
* `h2quic`: its state is mostly that of the HTTP/2 library and of the handlers of the
  application.
* Cryptographic primitives, certificates, the buffer pool, logging, and generated lists,
  in whose place the models use sequences and sets.
