-------------------------- MODULE StreamSendProofs --------------------------
(***************************************************************************)
(* Proofs about StreamSend (SendSpec), for every set of streams, all       *)
(* windows, all sizes of packets and any number of losses: the frames of a *)
(* stream tile what was taken from it, and the counters of flow control    *)
(* count each byte once.                                                   *)
(*                                                                         *)
(* The invariant says where each byte is: still with the writer            *)
(* (WriterAt), in the hands of the framer (FramerAt), or in exactly one    *)
(* frame (FramesAt), which is in the packet, in flight, acknowledged or in *)
(* the retransmission queue.  Two lemmas about sets of frames carry the    *)
(* proof: splitting a frame keeps a tiling (TiledSplit), and so does a new *)
(* frame at its end (TiledAdd).                                            *)
(***************************************************************************)
EXTENDS StreamSend, SetLemmas

Frame == [stream : Streams, offset : Nat, len : Nat, fin : BOOLEAN, data : Nat]
Before(f, g) == f.offset + f.len <= g.offset
Holds(f, s, b) == f.stream = s /\ f.offset <= b /\ b < f.offset + f.len

\* The frames F hold the first covered[s] bytes of each stream s, each byte once
\* and where it belongs, and one FIN of each stream in fins.
Tiled(F, covered, fins) ==
    /\ F \subseteq Frame
    /\ \A f \in F : f.offset = f.data /\ (f.len > 0 \/ f.fin) /\ f.offset + f.len <= covered[f.stream]
    /\ \A f, g \in F : f.stream = g.stream /\ f # g => Before(f, g) \/ Before(g, f)
    /\ \A s \in Streams : \A b \in Nat : (\E f \in F : Holds(f, s, b)) <=> b < covered[s]
    /\ \A f, g \in F : f.stream = g.stream /\ f.fin /\ g.fin => f = g
    /\ \A s \in Streams : s \in fins <=> \E f \in F : f.stream = s /\ f.fin

\* A FIN comes after everything, unless there was an error.
FinsAtEnd(F, offsets, errs) ==
    \A f \in F : f.fin /\ errs[f.stream] = "none" => f.offset + f.len = offsets[f.stream]

\* The queue has no frame twice, and none that is in P.
QueueApart(queue, P) ==
    /\ queue \in Seq(Frame)
    /\ \A i \in 1 .. Len(queue) : queue[i] \notin P
    /\ \A i, j \in 1 .. Len(queue) : queue[i] = queue[j] => i = j

Packet == [control : SUBSET Controllers, frames : SUBSET Frame, size : Nat, room : Nat]
Visit == [stream : Controllers, offset : Nat, maxLen : Nat, sendWindowSize : Nat, len : Nat]

SendType ==
    /\ offered \in [Streams -> Nat] /\ dataForWriting \in [Streams -> Nat] /\ writeOffset \in [Streams -> Nat]
    /\ waiting \subseteq Streams /\ appClosed \subseteq Streams /\ finSent \subseteq Streams
    /\ err \in [Streams -> {"none", "closing", "set"}]
    /\ bytesSent \in [Controllers -> Nat] /\ sendFlowControlWindow \in [Controllers -> Nat]
    /\ pc \in {"select", "send", "visit", "take", "finish"} /\ todo \subseteq Streams
    /\ cur \in Visit /\ room \in Nat /\ packet \in Packet
    /\ controlFrames \subseteq Controllers

\* What a stream's writer, Close and the framer agree on.
WriterAt ==
    \A s \in Streams :
        /\ writeOffset[s] + dataForWriting[s] = offered[s]
        /\ err[s] # "set" /\ s \notin waiting => dataForWriting[s] = 0
        /\ err[s] = "none" /\ s \in finSent => s \in appClosed /\ dataForWriting[s] = 0

\* The locals of the framer.
FramerAt ==
    /\ pc \notin {"take", "finish"} => cur = NoVisit
    /\ pc \in {"take", "finish"} =>
        /\ cur.stream \in Streams /\ cur.offset + cur.len = writeOffset[cur.stream]
        /\ cur.len <= cur.maxLen /\ HeaderLen + cur.maxLen <= room
    /\ pc = "take" => cur.len = 0
    /\ pc \in {"select", "send"} => packet = EmptyPacket
    /\ pc \notin {"select", "send"} => packet.size + room = packet.room + DataLenBytes

SentBytes == [s \in Streams |-> writeOffset[s] - TakenFrom(s)]
Gone == inFlight \cup acked

FramesAt ==
    /\ packet.frames \cap Gone = {} /\ inFlight \cap acked = {}
    /\ QueueApart(retransmissionQueue, packet.frames \cup Gone)
    /\ Tiled(Frames, SentBytes, finSent)
    /\ FinsAtEnd(Frames, writeOffset, err)

CountersAt ==
    /\ \A s \in Streams : bytesSent[s] = SentBytes[s]
    /\ bytesSent[0] = Sum(bytesSent, Streams \ NonContributing)

SendInv == SendType /\ WriterAt /\ FramerAt /\ FramesAt /\ CountersAt

LEMMA SplitFields ==
    ASSUME NEW f \in Frame, NEW n \in Nat, n < f.len
    PROVE  /\ SplitOff(f, n) \in Frame
           /\ SplitOff(f, n).stream = f.stream /\ SplitOff(f, n).offset = f.offset /\ SplitOff(f, n).len = n
           /\ SplitOff(f, n).fin = FALSE /\ SplitOff(f, n).data = f.data
           /\ SplitRest(f, n) \in Frame
           /\ SplitRest(f, n).stream = f.stream /\ SplitRest(f, n).offset = f.offset + n
           /\ SplitRest(f, n).len = f.len - n /\ SplitRest(f, n).fin = f.fin
           /\ SplitRest(f, n).data = f.data + n
<1>1. /\ f.stream \in Streams /\ f.offset \in Nat /\ f.len \in Nat /\ f.fin \in BOOLEAN /\ f.data \in Nat
      /\ f.offset + n \in Nat /\ f.len - n \in Nat /\ f.data + n \in Nat
    BY DEF Frame
<1>2. SplitOff(f, n) \in Frame
    BY <1>1, Zenon DEF SplitOff, Frame
<1>3. SplitRest(f, n) \in Frame
    BY <1>1, Zenon DEF SplitRest, Frame
<1>4. /\ SplitOff(f, n).stream = f.stream /\ SplitOff(f, n).offset = f.offset /\ SplitOff(f, n).len = n
      /\ SplitOff(f, n).fin = FALSE /\ SplitOff(f, n).data = f.data
    BY DEF SplitOff, Frame
<1>5. /\ SplitRest(f, n).stream = f.stream /\ SplitRest(f, n).offset = f.offset + n
      /\ SplitRest(f, n).len = f.len - n /\ SplitRest(f, n).fin = f.fin
      /\ SplitRest(f, n).data = f.data + n
    BY DEF SplitRest, Frame
<1> QED BY <1>2, <1>3, <1>4, <1>5

\* Splitting a frame keeps the tiling; the two parts are new frames.
LEMMA TiledSplit ==
    ASSUME NEW F, NEW covered \in [Streams -> Nat], NEW fins, Tiled(F, covered, fins),
           NEW f \in F, NEW n \in Nat, 0 < n, n < f.len
    PROVE  LET a == SplitOff(f, n)
               b == SplitRest(f, n)
           IN  /\ Tiled((F \ {f}) \cup {a, b}, covered, fins)
               /\ a \in Frame /\ b \in Frame /\ a # b /\ a \notin F /\ b \notin F
<1> DEFINE a == SplitOff(f, n)
           b == SplitRest(f, n)
           G == (F \ {f}) \cup {a, b}
<1>1. F \subseteq Frame /\ f \in Frame
    BY DEF Tiled
<1>2. \A g \in Frame : g.offset \in Nat /\ g.len \in Nat /\ g.stream \in Streams /\ g.data \in Nat
    BY DEF Frame
<1>3. /\ a \in Frame /\ a.stream = f.stream /\ a.offset = f.offset /\ a.len = n /\ ~a.fin /\ a.data = f.data
      /\ b \in Frame /\ b.stream = f.stream /\ b.offset = f.offset + n /\ b.len = f.len - n
      /\ b.fin = f.fin /\ b.data = f.data + n
    BY <1>1, SplitFields, Zenon
<1> HIDE DEF a, b
<1>4. \A g \in F : g.stream = f.stream /\ g # f => Before(f, g) \/ Before(g, f)
    BY DEF Tiled
<1>5. a # b /\ a # f /\ b # f
    BY <1>1, <1>2, <1>3
<1>6. a \notin F /\ b \notin F
    BY <1>1, <1>2, <1>3, <1>4, <1>5 DEF Before
<1>7. \A g \in G : g.offset = g.data /\ (g.len > 0 \/ g.fin) /\ g.offset + g.len <= covered[g.stream]
    <2>1. f.offset = f.data /\ f.offset + f.len <= covered[f.stream] /\ covered[f.stream] \in Nat
        BY <1>1, <1>2 DEF Tiled
    <2>2. \A g \in F : g.offset = g.data /\ (g.len > 0 \/ g.fin) /\ g.offset + g.len <= covered[g.stream]
        BY DEF Tiled
    <2>3. a.offset = a.data /\ a.len > 0 /\ a.offset + a.len <= covered[a.stream]
        BY <1>1, <1>2, <1>3, <2>1
    <2>4. b.offset = b.data /\ b.len > 0 /\ b.offset + b.len <= covered[b.stream]
        BY <1>1, <1>2, <1>3, <2>1
    <2> QED BY <2>2, <2>3, <2>4
<1>8. \A g, h \in G : g.stream = h.stream /\ g # h => Before(g, h) \/ Before(h, g)
    <2>1. \A g, h \in F : g.stream = h.stream /\ g # h => Before(g, h) \/ Before(h, g)
        BY DEF Tiled
    <2>2. Before(a, b)
        BY <1>1, <1>2, <1>3 DEF Before
    <2>3. \A g \in F \ {f} : g.stream = f.stream =>
                (Before(a, g) \/ Before(g, a)) /\ (Before(b, g) \/ Before(g, b))
        BY <1>1, <1>2, <1>3, <1>4 DEF Before
    <2> QED BY <1>3, <2>1, <2>2, <2>3
<1>9. ASSUME NEW s \in Streams, NEW x \in Nat
      PROVE  (\E g \in G : Holds(g, s, x)) <=> x < covered[s]
    <2>1. (\E g \in F : Holds(g, s, x)) <=> x < covered[s]
        BY DEF Tiled
    <2>2. Holds(f, s, x) <=> Holds(a, s, x) \/ Holds(b, s, x)
        BY <1>1, <1>2, <1>3 DEF Holds
    <2> QED BY <2>1, <2>2
<1>10. \A g, h \in G : g.stream = h.stream /\ g.fin /\ h.fin => g = h
    <2>1. \A g, h \in F : g.stream = h.stream /\ g.fin /\ h.fin => g = h
        BY DEF Tiled
    <2>2. \A g \in F \ {f} : g.stream = f.stream /\ g.fin => ~f.fin
        BY <2>1
    <2> QED BY <1>3, <2>1, <2>2
<1>11. \A s \in Streams : s \in fins <=> \E g \in G : g.stream = s /\ g.fin
    <2>1. \A s \in Streams : s \in fins <=> \E g \in F : g.stream = s /\ g.fin
        BY DEF Tiled
    <2> QED BY <1>3, <2>1
<1>12. Tiled(G, covered, fins)
    <2> HIDE DEF G
    <2>1. G \subseteq Frame
        BY <1>1, <1>3 DEF G
    <2> QED BY <1>7, <1>8, <1>9, <1>10, <1>11, <2>1 DEF Tiled
<1> QED BY <1>3, <1>5, <1>6, <1>12 DEF a, b

\* A frame with what was taken from the stream last goes to the end.
LEMMA TiledAdd ==
    ASSUME NEW F, NEW covered \in [Streams -> Nat], NEW fins, Tiled(F, covered, fins),
           NEW f \in Frame, f.offset = covered[f.stream], f.data = f.offset, f.len > 0 \/ f.fin,
           f.fin => f.stream \notin fins,
           NEW more \in [Streams -> Nat],
           \A s \in Streams : more[s] = covered[s] + (IF s = f.stream THEN f.len ELSE 0),
           NEW ends, ends = IF f.fin THEN fins \cup {f.stream} ELSE fins
    PROVE  Tiled(F \cup {f}, more, ends) /\ f \notin F
<1> DEFINE G == F \cup {f}
<1>1. F \subseteq Frame
    BY DEF Tiled
<1>2. \A g \in Frame : g.offset \in Nat /\ g.len \in Nat /\ g.stream \in Streams /\ g.data \in Nat
    BY DEF Frame
<1>3. \A g \in F : g.offset = g.data /\ (g.len > 0 \/ g.fin) /\ g.offset + g.len <= covered[g.stream]
    BY DEF Tiled
<1>4. /\ more[f.stream] = covered[f.stream] + f.len /\ covered[f.stream] \in Nat
      /\ \A s \in Streams : s # f.stream => more[s] = covered[s]
      /\ \A s \in Streams : covered[s] <= more[s]
    BY <1>2
<1>5. \A g \in F : g.stream = f.stream => Before(g, f)
    BY <1>1, <1>2, <1>3 DEF Before
<1>6. \A s \in Streams : s \in fins <=> \E g \in F : g.stream = s /\ g.fin
    BY DEF Tiled
<1>7. f \notin F
    <2>1. CASE f.len > 0
        BY <1>2, <1>5, <2>1 DEF Before
    <2>2. CASE f.fin
        BY <1>2, <1>6, <2>2
    <2> QED BY <2>1, <2>2
<1>8. \A g \in G : g.offset = g.data /\ (g.len > 0 \/ g.fin) /\ g.offset + g.len <= more[g.stream]
    <2>1. \A g \in F : g.offset + g.len <= more[g.stream]
        BY <1>1, <1>2, <1>3, <1>4
    <2> QED BY <1>2, <1>3, <1>4, <2>1
<1>9. \A g, h \in G : g.stream = h.stream /\ g # h => Before(g, h) \/ Before(h, g)
    <2>1. \A g, h \in F : g.stream = h.stream /\ g # h => Before(g, h) \/ Before(h, g)
        BY DEF Tiled
    <2> QED BY <1>5, <2>1
<1>10. ASSUME NEW s \in Streams, NEW x \in Nat
       PROVE  (\E g \in G : Holds(g, s, x)) <=> x < more[s]
    <2>1. (\E g \in F : Holds(g, s, x)) <=> x < covered[s]
        BY DEF Tiled
    <2>2. Holds(f, s, x) <=> s = f.stream /\ covered[s] <= x /\ x < more[s]
        BY <1>2, <1>4 DEF Holds
    <2>3. covered[s] \in Nat /\ more[s] \in Nat /\ covered[s] <= more[s] /\ (s # f.stream => more[s] = covered[s])
        BY <1>4
    <2> QED BY <2>1, <2>2, <2>3
<1>11. \A g, h \in G : g.stream = h.stream /\ g.fin /\ h.fin => g = h
    <2>1. \A g, h \in F : g.stream = h.stream /\ g.fin /\ h.fin => g = h
        BY DEF Tiled
    <2>2. \A g \in F : g.stream = f.stream /\ g.fin => ~f.fin
        BY <1>2, <1>6
    <2> QED BY <2>1, <2>2
<1>12. \A s \in Streams : s \in ends <=> \E g \in G : g.stream = s /\ g.fin
    BY <1>2, <1>6
<1>13. Tiled(G, more, ends)
    <2> HIDE DEF G
    <2>1. G \subseteq Frame
        BY <1>1 DEF G
    <2> QED BY <1>8, <1>9, <1>10, <1>11, <1>12, <2>1 DEF Tiled
<1> QED BY <1>7, <1>13

LEMMA AddedToFields ==
    ASSUME NEW p \in Packet, NEW f \in Frame
    PROVE  /\ AddedTo(p, f) \in Packet /\ AddedTo(p, f).frames = p.frames \cup {f}
           /\ AddedTo(p, f).size = p.size + HeaderLen + f.len /\ AddedTo(p, f).room = p.room
<1>1. /\ p.frames \in SUBSET Frame /\ p.size \in Nat /\ f.len \in Nat
      /\ p.size + HeaderLen + f.len \in Nat /\ p.frames \cup {f} \in SUBSET Frame
    BY SendAssumption DEF Packet, Frame
<1>2. AddedTo(p, f) \in Packet
    BY <1>1, Zenon DEF AddedTo, Packet
<1>3. /\ AddedTo(p, f).frames = p.frames \cup {f} /\ AddedTo(p, f).size = p.size + HeaderLen + f.len
      /\ AddedTo(p, f).room = p.room
    BY DEF AddedTo, Packet
<1> QED BY <1>2, <1>3

-----------------------------------------------------------------------------
(* maybePopFramesForRetransmission *)

Result == [queue : Seq(Frame), room : Nat, packet : Packet]
AllOf(P, queue) == P \cup Gone \cup Range(queue)

\* After any round of the loop the frames are tiled and in one place, and the
\* packet is within its room.
PopAt(res) ==
    /\ res \in Result
    /\ res.packet.frames \cap Gone = {}
    /\ QueueApart(res.queue, res.packet.frames \cup Gone)
    /\ Tiled(AllOf(res.packet.frames, res.queue), SentBytes, finSent)
    /\ FinsAtEnd(AllOf(res.packet.frames, res.queue), writeOffset, err)
    /\ res.packet.size + res.room = res.packet.room + DataLenBytes

\* The first frame of the queue moves to the packet.
LEMMA HeadToPacket ==
    ASSUME NEW queue, NEW P, QueueApart(queue, P \cup Gone), queue # <<>>
    PROVE  /\ Head(queue) \in Frame /\ Head(queue) \in Range(queue) /\ Head(queue) \notin P \cup Gone
           /\ Head(queue) \notin Range(Tail(queue))
           /\ Range(queue) = {Head(queue)} \cup Range(Tail(queue))
           /\ QueueApart(Tail(queue), (P \cup {Head(queue)}) \cup Gone)
<1> DEFINE n == Len(queue)
           t == Tail(queue)
<1>1. queue \in Seq(Frame) /\ n \in Nat /\ n >= 1 /\ DOMAIN queue = 1 .. n
    BY DEF QueueApart
<1>2. Head(queue) = queue[1] /\ queue[1] \in Frame /\ 1 \in 1 .. n
    BY <1>1
<1>3. t \in Seq(Frame) /\ Len(t) = n - 1 /\ \A i \in 1 .. (n - 1) : t[i] = queue[i + 1]
    BY <1>1
<1>4. DOMAIN t = 1 .. (n - 1)
    BY <1>3
<1> HIDE DEF t
<1>5. \A i \in 1 .. (n - 1) : i + 1 \in 1 .. n /\ i + 1 # 1
    BY <1>1
<1>6. \A i \in 1 .. n : queue[i] \notin P \cup Gone
    BY DEF QueueApart
<1>7. \A i, j \in 1 .. n : queue[i] = queue[j] => i = j
    BY DEF QueueApart
<1>8. Range(queue) = {queue[i] : i \in 1 .. n} /\ Range(t) = {t[i] : i \in 1 .. (n - 1)}
    BY <1>1, <1>4 DEF Range
<1>9. \A x \in Range(queue) : x = queue[1] \/ x \in Range(t)
    <2> TAKE x \in Range(queue)
    <2>1. PICK i \in 1 .. n : x = queue[i]
        BY <1>8
    <2>2. CASE i # 1
        <3>1. i - 1 \in 1 .. (n - 1) /\ (i - 1) + 1 = i
            BY <1>1, <2>2
        <3> QED BY <1>3, <1>8, <2>1, <3>1, Zenon
    <2> QED BY <2>1, <2>2
<1>10. \A x \in Range(t) : x \in Range(queue) /\ x # queue[1]
    <2> TAKE x \in Range(t)
    <2>1. PICK i \in 1 .. (n - 1) : x = t[i]
        BY <1>8
    <2> QED BY <1>2, <1>3, <1>5, <1>7, <1>8, <2>1
<1>11. QueueApart(t, (P \cup {queue[1]}) \cup Gone)
    <2>1. \A i \in 1 .. (n - 1) : t[i] \notin (P \cup {queue[1]}) \cup Gone
        BY <1>2, <1>3, <1>5, <1>6, <1>7
    <2>2. \A i, j \in 1 .. (n - 1) : t[i] = t[j] => i = j
        <3> TAKE i, j \in 1 .. (n - 1)
        <3>1. t[i] = t[j] => i + 1 = j + 1
            BY <1>3, <1>5, <1>7
        <3> QED BY <3>1
    <2> QED BY <1>3, <2>1, <2>2 DEF QueueApart
<1> QED BY <1>2, <1>6, <1>8, <1>9, <1>10, <1>11 DEF t

\* The rest of a frame that was split comes first.
LEMMA RestToQueue ==
    ASSUME NEW queue, NEW P, QueueApart(queue, P), NEW b \in Frame, b \notin P, b \notin Range(queue)
    PROVE  QueueApart(<<b>> \o queue, P) /\ Range(<<b>> \o queue) = {b} \cup Range(queue)
<1> DEFINE n == Len(queue)
           q == <<b>> \o queue
<1>1. queue \in Seq(Frame) /\ n \in Nat /\ DOMAIN queue = 1 .. n
    BY DEF QueueApart
<1>2. q \in Seq(Frame) /\ Len(q) = n + 1 /\ q[1] = b /\ \A i \in 1 .. n : q[i + 1] = queue[i]
    BY <1>1
<1>3. DOMAIN q = 1 .. (n + 1)
    BY <1>2
<1> HIDE DEF q
<1>4. Range(queue) = {queue[i] : i \in 1 .. n} /\ Range(q) = {q[i] : i \in 1 .. (n + 1)}
    BY <1>1, <1>3 DEF Range
<1>5. \A i \in 1 .. (n + 1) : i = 1 \/ (i - 1 \in 1 .. n /\ q[i] = queue[i - 1])
    <2> TAKE i \in 1 .. (n + 1)
    <2>1. i = 1 \/ (i - 1 \in 1 .. n /\ (i - 1) + 1 = i)
        BY <1>1
    <2> QED BY <1>2, <2>1
<1>6. \A i \in 1 .. n : i + 1 \in 1 .. (n + 1)
    BY <1>1
<1>7. Range(q) = {b} \cup Range(queue)
    <2>1. 1 \in 1 .. (n + 1)
        BY <1>1
    <2> QED BY <1>2, <1>4, <1>5, <1>6, <2>1
<1>8. QueueApart(q, P)
    <2>1. \A i \in 1 .. (n + 1) : q[i] \notin P
        BY <1>2, <1>5 DEF QueueApart
    <2>2. \A i, j \in 1 .. n : queue[i] = queue[j] => i = j
        BY DEF QueueApart
    <2>3. \A i, j \in 1 .. (n + 1) : q[i] = q[j] => i = j
        <3> TAKE i, j \in 1 .. (n + 1)
        <3>1. CASE i = 1 \/ j = 1
            BY <1>2, <1>4, <1>5, <3>1
        <3>2. CASE i # 1 /\ j # 1
            <4>1. q[i] = q[j] => i - 1 = j - 1
                BY <1>5, <2>2, <3>2
            <4> QED BY <4>1
        <3> QED BY <3>1, <3>2
    <2> QED BY <1>2, <2>1, <2>3 DEF QueueApart
<1> QED BY <1>7, <1>8 DEF q

LEMMA PopFrameKeeps ==
    ASSUME SentBytes \in [Streams -> Nat], NEW res, PopAt(res)
    PROVE  PopAt(PopFrame(res))
<1> DEFINE q == res.queue
           P == res.packet.frames
           f == Head(q)
           n == res.room - HeaderLen
           F == AllOf(P, q)
<1>1. /\ q \in Seq(Frame) /\ res.room \in Nat /\ res.packet \in Packet /\ n \in Int /\ HeaderLen \in Nat
      /\ DataLenBytes \in Nat /\ n + HeaderLen = res.room
      /\ res.packet.size \in Nat /\ res.packet.room \in Nat /\ P \subseteq Frame
    BY SendAssumption DEF PopAt, Result, Packet
<1>2. P \cap Gone = {} /\ QueueApart(q, P \cup Gone) /\ Tiled(F, SentBytes, finSent)
      /\ FinsAtEnd(F, writeOffset, err) /\ res.packet.size + res.room = res.packet.room + DataLenBytes
    BY DEF PopAt
<1>3. CASE q = <<>> \/ n <= 0
    BY <1>3 DEF PopFrame
<1>4. CASE q # <<>> /\ n > 0 /\ ~(n < f.len)
    <2> DEFINE next == [queue |-> Tail(q), room |-> n - f.len, packet |-> AddedTo(res.packet, f)]
    <2>1. PopFrame(res) = next
        BY <1>1, <1>4 DEF PopFrame
    <2>2. /\ f \in Frame /\ f \in Range(q) /\ f \notin P \cup Gone /\ Range(q) = {f} \cup Range(Tail(q))
          /\ QueueApart(Tail(q), (P \cup {f}) \cup Gone)
        BY <1>2, <1>4, HeadToPacket, Zenon
    <2> HIDE DEF f
    <2>3. f.len \in Nat /\ n - f.len \in Nat
        <3> HIDE DEF n
        <3>1. f.len \in Nat
            BY <2>2 DEF Frame
        <3> QED BY <1>1, <1>4, <3>1
    <2>4. /\ AddedTo(res.packet, f) \in Packet /\ AddedTo(res.packet, f).frames = P \cup {f}
          /\ AddedTo(res.packet, f).size = res.packet.size + HeaderLen + f.len
          /\ AddedTo(res.packet, f).room = res.packet.room
        BY <1>1, <2>2, AddedToFields
    <2>5. AllOf(P \cup {f}, Tail(q)) = F
        BY <2>2 DEF AllOf
    <2>6. Tail(q) \in Seq(Frame)
        BY <2>2 DEF QueueApart
    <2>7. next \in Result /\ next.queue = Tail(q) /\ next.room = n - f.len /\ next.packet = AddedTo(res.packet, f)
        BY <2>3, <2>4, <2>6 DEF Result
    <2>8. (res.packet.size + HeaderLen + f.len) + (n - f.len) = res.packet.room + DataLenBytes
        <3> HIDE DEF n
        <3> QED BY <1>1, <1>2, <2>3
    <2>9. (P \cup {f}) \cap Gone = {}
        BY <1>2, <2>2
    <2> HIDE DEF next, n, q, F, P
    <2>10. PopAt(next)
        BY <1>2, <2>2, <2>4, <2>5, <2>7, <2>8, <2>9, Zenon DEF PopAt
    <2> QED BY <2>1, <2>10
<1>5. CASE q # <<>> /\ n > 0 /\ n < f.len
    <2> DEFINE a == SplitOff(f, n)
               b == SplitRest(f, n)
               next == [queue |-> <<b>> \o Tail(q), room |-> 0, packet |-> AddedTo(res.packet, a)]
    <2>1. PopFrame(res) = next
        BY <1>1, <1>5 DEF PopFrame
    <2>2. /\ f \in Frame /\ f \in Range(q) /\ f \notin P \cup Gone /\ Range(q) = {f} \cup Range(Tail(q))
          /\ f \notin Range(Tail(q)) /\ QueueApart(Tail(q), (P \cup {f}) \cup Gone)
        BY <1>2, <1>5, HeadToPacket, Zenon
    <2> HIDE DEF f
    <2>3. f \in F /\ n \in Nat /\ 0 < n
        BY <1>1, <1>5, <2>2 DEF AllOf
    <2>4. /\ Tiled((F \ {f}) \cup {a, b}, SentBytes, finSent)
          /\ a \in Frame /\ b \in Frame /\ a # b /\ a \notin F /\ b \notin F
        <3> HIDE DEF n, F
        <3> QED BY <1>2, <1>5, <2>3, TiledSplit, Zenon
    <2>5. a.len = n /\ a.fin = FALSE /\ b.stream = f.stream /\ b.fin = f.fin /\ b.offset = f.offset + n
          /\ b.len = f.len - n /\ f.offset \in Nat /\ f.len \in Nat
        <3>1. f.offset \in Nat /\ f.len \in Nat
            BY <2>2 DEF Frame
        <3> QED BY <1>5, <2>2, <2>3, <3>1, SplitFields, Zenon
    <2> HIDE DEF a, b
    <2>6. QueueApart(Tail(q), (P \cup {a}) \cup Gone)
        <3>1. a \notin Range(q)
            BY <2>4 DEF AllOf
        <3>2. \A i \in 1 .. Len(Tail(q)) : Tail(q)[i] \in Range(Tail(q)) /\ Tail(q)[i] \notin P \cup Gone
            <4> DEFINE t == Tail(q)
            <4>1. QueueApart(t, (P \cup {f}) \cup Gone)
                BY <2>2
            <4> HIDE DEF t
            <4>2. t \in Seq(Frame) /\ DOMAIN t = 1 .. Len(t)
                BY <4>1 DEF QueueApart
            <4>3. \A i \in 1 .. Len(t) : t[i] \in Range(t) /\ t[i] \notin P \cup Gone
                BY <4>1, <4>2 DEF QueueApart, Range
            <4> QED BY <4>3 DEF t
        <3>3. \A i \in 1 .. Len(Tail(q)) : Tail(q)[i] \notin (P \cup {a}) \cup Gone
            BY <2>2, <3>1, <3>2
        <3> QED BY <2>2, <3>3, Zenon DEF QueueApart
    <2>7. QueueApart(<<b>> \o Tail(q), (P \cup {a}) \cup Gone) /\ Range(<<b>> \o Tail(q)) = {b} \cup Range(Tail(q))
        <3>1. b \notin (P \cup {a}) \cup Gone /\ b \notin Range(Tail(q))
            BY <2>2, <2>4 DEF AllOf
        <3> QED BY <2>4, <2>6, <3>1, RestToQueue
    <2>8. AllOf(P \cup {a}, <<b>> \o Tail(q)) = (F \ {f}) \cup {a, b}
        BY <2>2, <2>7 DEF AllOf
    <2>9. /\ AddedTo(res.packet, a) \in Packet /\ AddedTo(res.packet, a).frames = P \cup {a}
          /\ AddedTo(res.packet, a).size = res.packet.size + HeaderLen + a.len
          /\ AddedTo(res.packet, a).room = res.packet.room
        BY <1>1, <2>4, AddedToFields
    <2>10. FinsAtEnd((F \ {f}) \cup {a, b}, writeOffset, err)
        <3>1. \A g \in F : g.fin /\ err[g.stream] = "none" => g.offset + g.len = writeOffset[g.stream]
            BY <1>2 DEF FinsAtEnd
        <3>2. b.offset + b.len = f.offset + f.len
            BY <2>3, <2>5
        <3> QED BY <2>3, <2>5, <3>1, <3>2 DEF FinsAtEnd
    <2>11. <<b>> \o Tail(q) \in Seq(Frame)
        BY <2>7 DEF QueueApart
    <2>12. next \in Result /\ next.queue = <<b>> \o Tail(q) /\ next.room = 0 /\ next.packet = AddedTo(res.packet, a)
        BY <2>9, <2>11 DEF Result
    <2>13. (res.packet.size + HeaderLen + a.len) + 0 = res.packet.room + DataLenBytes
        <3> HIDE DEF n
        <3> QED BY <1>1, <1>2, <2>3, <2>5
    <2>14. (P \cup {a}) \cap Gone = {}
        BY <1>2, <2>4 DEF AllOf
    <2> HIDE DEF next, n, q, F, P
    <2>15. PopAt(next)
        BY <1>2, <2>4, <2>7, <2>8, <2>9, <2>10, <2>12, <2>13, <2>14, Zenon DEF PopAt
    <2> QED BY <2>1, <2>15
<1>6. f.len \in Int \/ q = <<>>
    <2>1. q # <<>> => f \in Frame
        BY <1>2, HeadToPacket, Zenon
    <2> QED BY <2>1 DEF Frame
<1> QED BY <1>1, <1>3, <1>4, <1>5, <1>6

\* The rounds of the loop, as the recursion in Popped has them.
Rounds(g, start, m) == g = [k \in 0 .. m |-> IF k = 0 THEN start ELSE PopFrame(g[k - 1])]

LEMMA RoundsExist == \A start : \A m \in Nat : \E g : Rounds(g, start, m)
<1> TAKE start
<1> DEFINE Good == {m \in Nat : \E g : Rounds(g, start, m)}
           step(f, k) == IF k = 0 THEN start ELSE PopFrame(f[k - 1])
<1>1. 0 \in Good
    <2> DEFINE g == [k \in 0 .. 0 |-> start]
    <2>1. g = [k \in 0 .. 0 |-> step(g, k)]
        OBVIOUS
    <2>2. Rounds(g, start, 0)
        BY <2>1, Zenon DEF Rounds
    <2> QED BY <2>2
<1>2. ASSUME NEW m \in Nat, m \in Good PROVE m + 1 \in Good
    <2>1. PICK g : Rounds(g, start, m)
        BY <1>2
    <2> DEFINE h == [k \in 0 .. (m + 1) |-> IF k = m + 1 THEN step(g, m + 1) ELSE g[k]]
    <2>2. \A k \in 0 .. m : g[k] = step(g, k)
        BY <2>1 DEF Rounds
    <2>3. \A k \in 0 .. m : h[k] = g[k]
        OBVIOUS
    <2>4. ASSUME NEW k \in 0 .. (m + 1) PROVE h[k] = step(h, k)
        <3>1. CASE k = 0
            <4>1. 0 \in 0 .. m
                OBVIOUS
            <4> QED BY <2>2, <2>3, <3>1, <4>1
        <3>2. CASE k # 0
            <4>1. k - 1 \in 0 .. m /\ k \in Int
                BY <3>2
            <4>2. h[k - 1] = g[k - 1]
                BY <2>3, <4>1
            <4>3. step(h, k) = step(g, k)
                <5> HIDE DEF h
                <5> QED BY <4>2
            <4>4. h[k] = step(g, k)
                <5>1. CASE k = m + 1
                    BY <5>1
                <5>2. CASE k # m + 1
                    <6>1. k \in 0 .. m
                        BY <5>2
                    <6> QED BY <2>2, <2>3, <6>1
                <5> QED BY <5>1, <5>2
            <4> QED BY <4>3, <4>4
        <3> QED BY <3>1, <3>2
    <2>5. h = [k \in 0 .. (m + 1) |-> step(h, k)]
        <3>1. h = [k \in 0 .. (m + 1) |-> h[k]]
            OBVIOUS
        <3> HIDE DEF h, step
        <3> QED BY <2>4, <3>1
    <2>6. Rounds(h, start, m + 1)
        <3> HIDE DEF h
        <3> QED BY <2>5, Zenon DEF Rounds
    <2> HIDE DEF h
    <2> QED BY <2>6
<1>3. \A m \in Nat : m \in Good
    <2> HIDE DEF Good
    <2> QED BY <1>1, <1>2, NatSetInduction
<1> QED BY <1>3

LEMMA PoppedKeeps ==
    ASSUME SentBytes \in [Streams -> Nat], NEW start, PopAt(start)
    PROVE  PopAt(Popped(start))
<1> DEFINE n == Len(start.queue)
<1>1. n \in Nat
    BY DEF PopAt, Result
<1>2. \E g : Rounds(g, start, n)
    BY <1>1, RoundsExist, Zenon
<1>3. PICK g : Rounds(g, start, n) /\ Popped(start) = g[n]
    BY <1>2, Zenon DEF Rounds, Popped
<1> HIDE DEF n
<1>4. \A k \in 0 .. n : g[k] = IF k = 0 THEN start ELSE PopFrame(g[k - 1])
    BY <1>3, Zenon DEF Rounds
<1> DEFINE Good == {k \in Nat : k <= n => PopAt(g[k])}
<1>5. 0 \in Good
    <2>1. 0 \in 0 .. n
        BY <1>1
    <2>2. g[0] = start
        BY <1>4, <2>1
    <2> QED BY <2>2
<1>6. ASSUME NEW k \in Nat, k \in Good PROVE k + 1 \in Good
    <2> SUFFICES ASSUME k + 1 <= n PROVE PopAt(g[k + 1])
        OBVIOUS
    <2>1. PopAt(g[k]) /\ k + 1 \in 0 .. n /\ k + 1 # 0 /\ (k + 1) - 1 = k
        BY <1>1, <1>6
    <2>2. g[k + 1] = PopFrame(g[k])
        BY <1>4, <2>1
    <2> QED BY <2>1, <2>2, PopFrameKeeps
<1>7. \A k \in Nat : k \in Good
    <2> HIDE DEF Good
    <2> QED BY <1>5, <1>6, NatSetInduction
<1> QED BY <1>1, <1>3, <1>7

-----------------------------------------------------------------------------
(* The actions *)

LEMMA MinOfTwo ==
    ASSUME NEW a \in Nat, NEW b \in Nat
    PROVE  Min({a, b}) \in Nat /\ Min({a, b}) <= a /\ Min({a, b}) <= b
BY MinIsLeast, {a, b} \in SUBSET Nat

LEMMA MaxOfZeroAnd ==
    ASSUME NEW a \in Int
    PROVE  Max({0, a}) \in Nat
<1>1. \E x \in {0, a} : \A y \in {0, a} : x >= y
    <2>1. CASE a >= 0
        BY <2>1
    <2>2. CASE ~(a >= 0)
        BY <2>2
    <2> QED BY <2>1, <2>2
<1>2. Max({0, a}) \in {0, a} /\ \A y \in {0, a} : Max({0, a}) >= y
    BY <1>1 DEF Max
<1> QED BY <1>2

LEMMA SendWindowSizeType ==
    ASSUME SendType, NEW s \in Streams
    PROVE  SendWindowSize(s) \in Nat
<1>1. ASSUME NEW c \in Controllers PROVE Remaining(c) \in Nat
    <2>1. getSendFlowControlWindow(c) - bytesSent[c] \in Int
        BY SendAssumption DEF SendType, getSendFlowControlWindow
    <2> HIDE DEF getSendFlowControlWindow
    <2> QED BY <2>1, MaxOfZeroAnd DEF Remaining
<1>2. s \in Controllers /\ 0 \in Controllers
    BY DEF Controllers
<1> QED BY <1>1, <1>2, MinOfTwo DEF SendWindowSize

\* What is covered is what was taken, less what the framer has at hand.
LEMMA SentBytesType ==
    ASSUME SendInv
    PROVE  /\ SentBytes \in [Streams -> Nat]
           /\ \A s \in Streams : SentBytes[s] = writeOffset[s] - TakenFrom(s) /\ TakenFrom(s) \in Nat
           /\ pc \notin {"take", "finish"} => \A s \in Streams : TakenFrom(s) = 0
<1>1. ASSUME NEW s \in Streams PROVE TakenFrom(s) \in Nat /\ writeOffset[s] - TakenFrom(s) \in Nat
    <2>1. cur.len \in Nat /\ writeOffset[s] \in Nat /\ cur.offset \in Nat
        BY DEF SendInv, SendType, Visit
    <2>2. CASE pc \notin {"take", "finish"}
        <3>1. cur.len = 0
            BY <2>2 DEF SendInv, FramerAt, NoVisit
        <3> QED BY <2>1, <3>1 DEF TakenFrom
    <2>3. CASE pc \in {"take", "finish"}
        <3>1. cur.stream \in Streams /\ cur.offset + cur.len = writeOffset[cur.stream]
            BY <2>3 DEF SendInv, FramerAt
        <3> QED BY <2>1, <3>1 DEF TakenFrom
    <2> QED BY <2>2, <2>3
<1>2. pc \notin {"take", "finish"} => \A s \in Streams : TakenFrom(s) = 0
    BY DEF SendInv, FramerAt, NoVisit, TakenFrom
<1> HIDE DEF TakenFrom
<1> QED BY <1>1, <1>2 DEF SentBytes

\* A step that makes no frame, and takes no data.
LEMMA TilingKept ==
    ASSUME SendInv, Frames' = Frames, UNCHANGED <<finSent, writeOffset>>,
           SentBytes' = SentBytes, \A s \in Streams : err'[s] = "none" => err[s] = "none"
    PROVE  Tiled(Frames, SentBytes, finSent)' /\ FinsAtEnd(Frames, writeOffset, err)'
<1>1. Frames \subseteq Frame
    BY DEF SendInv, FramesAt, Tiled
<1>2. FinsAtEnd(Frames, writeOffset, err')
    <2>1. FinsAtEnd(Frames, writeOffset, err)
        BY DEF SendInv, FramesAt
    <2>2. \A f \in Frames : f.stream \in Streams
        BY <1>1 DEF Frame
    <2> QED BY <2>1, <2>2 DEF FinsAtEnd
<1>3. FinsAtEnd(Frames, writeOffset, err)'
    BY <1>2
<1>4. Tiled(Frames, SentBytes, finSent)'
    BY DEF SendInv, FramesAt
<1> QED BY <1>3, <1>4

\* A step that does not even move one.
LEMMA FramesKept ==
    ASSUME SendInv, UNCHANGED <<packet, inFlight, acked, retransmissionQueue, finSent, writeOffset>>,
           SentBytes' = SentBytes, \A s \in Streams : err'[s] = "none" => err[s] = "none"
    PROVE  FramesAt'
<1>1. Frames' = Frames /\ Gone' = Gone
    BY DEF Frames, Gone
<1>2. /\ packet'.frames \cap Gone' = {} /\ inFlight' \cap acked' = {}
      /\ QueueApart(retransmissionQueue, packet.frames \cup Gone)'
    BY <1>1 DEF SendInv, FramesAt
<1> QED BY <1>1, <1>2, TilingKept DEF FramesAt

LEMMA CountersKept ==
    ASSUME SendInv, SentBytes' = SentBytes, bytesSent' = bytesSent
    PROVE  CountersAt'
BY DEF SendInv, CountersAt

LEMMA ApplicationKeeps ==
    ASSUME SendInv, Application
    PROVE  SendInv'
<1>1. SendType /\ WriterAt /\ FramerAt
    BY DEF SendInv
<1>2. UNCHANGED <<packet, inFlight, acked, retransmissionQueue, finSent, writeOffset, cur, room, pc, bytesSent,
                  sendFlowControlWindow, todo, controlFrames>>
    BY DEF Application, WriteCall, Close, RegisterErrorStores, RegisterErrorLocks, packVars, netVars
<1>3. SentBytes' = SentBytes
    BY <1>2 DEF SentBytes, TakenFrom
<1>4. FramerAt'
    BY <1>1, <1>2 DEF FramerAt
<1>5. CountersAt'
    BY <1>2, <1>3, CountersKept
<1>6. ASSUME NEW s \in Streams, NEW n \in 1 .. MaxOffered[s], WriteCall(s, n) PROVE SendInv'
    <2>1. /\ s \notin waiting \cup appClosed /\ err[s] # "set"
          /\ offered' = [offered EXCEPT ![s] = @ + n] /\ dataForWriting' = [dataForWriting EXCEPT ![s] = n]
          /\ waiting' = waiting \cup {s} /\ UNCHANGED <<appClosed, err>>
        BY <1>6 DEF WriteCall
    <2>2. n \in Nat /\ offered[s] + n \in Nat
        BY SendAssumption, <1>1 DEF SendType
    <2>3. SendType'
        BY <1>1, <1>2, <2>1, <2>2 DEF SendType
    <2>4. WriterAt'
        <3>1. dataForWriting[s] = 0 /\ writeOffset[s] + dataForWriting[s] = offered[s] /\ writeOffset[s] \in Nat
            BY <1>1, <2>1 DEF WriterAt, SendType
        <3>2. writeOffset[s] + n = offered[s] + n
            BY <2>2, <3>1
        <3>3. err[s] = "none" => s \notin finSent
            BY <1>1, <2>1 DEF WriterAt
        <3>4. ASSUME NEW r \in Streams
              PROVE  /\ writeOffset'[r] + dataForWriting'[r] = offered'[r]
                     /\ err'[r] # "set" /\ r \notin waiting' => dataForWriting'[r] = 0
                     /\ err'[r] = "none" /\ r \in finSent' => r \in appClosed' /\ dataForWriting'[r] = 0
            BY <1>1, <1>2, <2>1, <3>2, <3>3 DEF WriterAt, SendType
        <3> QED BY <3>4 DEF WriterAt
    <2>5. FramesAt'
        BY <1>2, <1>3, <2>1, FramesKept
    <2> QED BY <1>4, <1>5, <2>3, <2>4, <2>5 DEF SendInv
<1>7. ASSUME NEW s \in Streams, Close(s) PROVE SendInv'
    <2>1. appClosed' = appClosed \cup {s} /\ UNCHANGED <<offered, dataForWriting, waiting, err>>
        BY <1>7 DEF Close
    <2>2. SendType' /\ WriterAt'
        BY <1>1, <1>2, <2>1 DEF SendType, WriterAt
    <2>3. FramesAt'
        BY <1>2, <1>3, <2>1, FramesKept
    <2> QED BY <1>4, <1>5, <2>2, <2>3 DEF SendInv
<1>8. ASSUME NEW s \in Streams, RegisterErrorStores(s) \/ RegisterErrorLocks(s) PROVE SendInv'
    <2>1. \/ err' = [err EXCEPT ![s] = "closing"] /\ waiting' = waiting
          \/ err' = [err EXCEPT ![s] = "set"] /\ waiting' = waiting \ {s}
        BY <1>8 DEF RegisterErrorStores, RegisterErrorLocks, Signal
    <2>2. UNCHANGED <<offered, dataForWriting, appClosed>> /\ err[s] \in {"none", "closing"}
        BY <1>8 DEF RegisterErrorStores, RegisterErrorLocks
    <2>3. err' \in [Streams -> {"none", "closing", "set"}] /\ \A r \in Streams \ {s} : err'[r] = err[r]
        BY <1>1, <2>1 DEF SendType
    <2>4. err'[s] # "none" /\ (err'[s] # "set" => waiting' = waiting) /\ waiting' \subseteq waiting
          /\ waiting \ {s} \subseteq waiting'
        BY <1>1, <2>1 DEF SendType
    <2>5. SendType'
        BY <1>1, <1>2, <2>2, <2>3, <2>4 DEF SendType
    <2>6. WriterAt'
        BY <1>1, <1>2, <2>2, <2>3, <2>4 DEF WriterAt
    <2>7. FramesAt'
        BY <1>2, <1>3, <2>3, <2>4, FramesKept
    <2> QED BY <1>4, <1>5, <2>5, <2>6, <2>7 DEF SendInv
<1> QED BY <1>6, <1>7, <1>8 DEF Application

\* A frame goes to the end of the queue.
LEMMA FrameToQueue ==
    ASSUME NEW queue, NEW P, NEW Q, QueueApart(queue, P), NEW f \in Frame, f \notin Q, Q \subseteq P, f \in P
    PROVE  QueueApart(Append(queue, f), Q) /\ Range(Append(queue, f)) = Range(queue) \cup {f}
<1> DEFINE n == Len(queue)
           q == Append(queue, f)
<1>1. queue \in Seq(Frame) /\ n \in Nat /\ DOMAIN queue = 1 .. n
    BY DEF QueueApart
<1>2. q \in Seq(Frame) /\ Len(q) = n + 1 /\ q[n + 1] = f /\ \A i \in 1 .. n : q[i] = queue[i]
    BY <1>1
<1>3. DOMAIN q = 1 .. (n + 1)
    BY <1>2
<1> HIDE DEF q
<1>4. Range(queue) = {queue[i] : i \in 1 .. n} /\ Range(q) = {q[i] : i \in 1 .. (n + 1)}
    BY <1>1, <1>3 DEF Range
<1>5. \A i \in 1 .. (n + 1) : i = n + 1 \/ i \in 1 .. n
    BY <1>1
<1>6. n + 1 \in 1 .. (n + 1) /\ \A i \in 1 .. n : i \in 1 .. (n + 1)
    BY <1>1
<1>7. Range(q) = Range(queue) \cup {f}
    BY <1>2, <1>4, <1>5, <1>6
<1>8. \A i \in 1 .. n : queue[i] \notin P /\ queue[i] # f
    BY DEF QueueApart
<1>9. \A i \in 1 .. (n + 1) : q[i] \notin Q
    BY <1>2, <1>5, <1>8
<1>10. \A i, j \in 1 .. (n + 1) : q[i] = q[j] => i = j
    <2>1. \A i, j \in 1 .. n : queue[i] = queue[j] => i = j
        BY DEF QueueApart
    <2> QED BY <1>2, <1>5, <1>8, <2>1
<1>11. QueueApart(q, Q)
    BY <1>2, <1>9, <1>10 DEF QueueApart
<1> QED BY <1>7, <1>11 DEF q

LEMMA EventsKeep ==
    ASSUME SendInv, Events
    PROVE  SendInv'
<1>1. SendType /\ WriterAt /\ FramerAt /\ FramesAt
    BY DEF SendInv
<1>2. UNCHANGED <<packet, finSent, writeOffset, cur, room, bytesSent, todo, controlFrames, offered, dataForWriting,
                  waiting, appClosed, err>> /\ pc = "select" /\ pc' = "send"
    BY DEF Events, ReceivesWindowUpdate, AddFrameForRetransmission, ReceivesAck, streamVars, packVars
<1>3. SentBytes' = SentBytes
    BY <1>2 DEF SentBytes, TakenFrom
<1>4. WriterAt' /\ FramerAt'
    BY <1>1, <1>2 DEF WriterAt, FramerAt
<1>5. CountersAt'
    BY <1>2, <1>3, CountersKept
<1>6. ASSUME NEW c \in Controllers, NEW newOffset \in Announced[c], ReceivesWindowUpdate(c, newOffset)
      PROVE  SendInv'
    <2>1. /\ sendFlowControlWindow' = [sendFlowControlWindow EXCEPT ![c] = newOffset]
          /\ UNCHANGED <<inFlight, acked, retransmissionQueue>>
        BY <1>6 DEF ReceivesWindowUpdate, netVars
    <2>2. newOffset \in Nat
        BY SendAssumption
    <2>3. SendType'
        BY <1>1, <1>2, <2>1, <2>2 DEF SendType
    <2>4. FramesAt'
        BY <1>2, <1>3, <2>1, FramesKept
    <2> QED BY <1>4, <1>5, <2>3, <2>4 DEF SendInv
<1>7. ASSUME NEW f \in inFlight, AddFrameForRetransmission(f) PROVE SendInv'
    <2>1. /\ inFlight' = inFlight \ {f} /\ retransmissionQueue' = Append(retransmissionQueue, f)
          /\ UNCHANGED <<acked, sendFlowControlWindow>>
        BY <1>7 DEF AddFrameForRetransmission
    <2>2. SendType'
        BY <1>1, <1>2, <2>1 DEF SendType
    <2>3. f \in Frame
        BY <1>1 DEF FramesAt, Tiled, Frames
    <2>4. Gone' \subseteq Gone /\ f \notin packet.frames \cup Gone' /\ f \in Gone /\ Gone' \cup {f} = Gone
        BY <1>1, <2>1 DEF FramesAt, Gone
    <2>5. /\ QueueApart(Append(retransmissionQueue, f), packet.frames \cup Gone')
          /\ Range(Append(retransmissionQueue, f)) = Range(retransmissionQueue) \cup {f}
        <3>1. QueueApart(retransmissionQueue, packet.frames \cup Gone)
            BY <1>1 DEF FramesAt
        <3> QED BY <2>3, <2>4, <3>1, FrameToQueue
    <2>6. Range(retransmissionQueue)' = Range(retransmissionQueue) \cup {f}
        BY <2>1, <2>5 DEF Range
    <2>7. Frames' = Frames
        <3>1. Frames = packet.frames \cup Gone \cup Range(retransmissionQueue)
            BY DEF Frames, Gone
        <3>2. Frames' = packet'.frames \cup Gone' \cup Range(retransmissionQueue)'
            BY DEF Frames, Gone
        <3> QED BY <1>2, <2>4, <2>6, <3>1, <3>2
    <2>8. QueueApart(retransmissionQueue, packet.frames \cup Gone)'
        BY <1>2, <2>1, <2>5
    <2>9. packet'.frames \cap Gone' = {} /\ inFlight' \cap acked' = {}
        BY <1>1, <1>2, <2>1, <2>4 DEF FramesAt
    <2>10. FramesAt'
        BY <1>2, <1>3, <2>7, <2>8, <2>9, TilingKept DEF FramesAt
    <2> QED BY <1>4, <1>5, <2>2, <2>10 DEF SendInv
<1>8. ASSUME ReceivesAck PROVE SendInv'
    <2>1. /\ inFlight' = {} /\ acked' = acked \cup inFlight
          /\ UNCHANGED <<retransmissionQueue, sendFlowControlWindow>>
        BY <1>8 DEF ReceivesAck
    <2>2. SendType'
        BY <1>1, <1>2, <2>1 DEF SendType
    <2>3. Gone' = Gone /\ Frames' = Frames
        BY <1>2, <2>1 DEF Gone, Frames
    <2>4. /\ packet'.frames \cap Gone' = {} /\ inFlight' \cap acked' = {}
          /\ QueueApart(retransmissionQueue, packet.frames \cup Gone)'
        BY <1>1, <1>2, <2>1, <2>3 DEF FramesAt
    <2>5. FramesAt'
        BY <1>2, <1>3, <2>3, <2>4, TilingKept DEF FramesAt
    <2> QED BY <1>4, <1>5, <2>2, <2>5 DEF SendInv
<1> QED BY <1>6, <1>7, <1>8 DEF Events

\* The run loop and the start of a packet.
LEMMA SendPacketKeeps ==
    ASSUME SendInv, Scheduled \/ SendingRefused
    PROVE  SendInv'
<1>1. UNCHANGED <<packet, finSent, writeOffset, cur, room, bytesSent, sendFlowControlWindow, todo, controlFrames,
                  offered, dataForWriting, waiting, appClosed, err, inFlight, acked, retransmissionQueue>>
      /\ pc \in {"select", "send"} /\ pc' \in {"select", "send"}
    BY DEF Scheduled, SendingRefused, streamVars, packVars, netVars
<1>2. SentBytes' = SentBytes
    BY <1>1 DEF SentBytes, TakenFrom
<1>3. SendType' /\ WriterAt' /\ FramerAt'
    BY <1>1 DEF SendInv, SendType, WriterAt, FramerAt
<1> QED BY <1>1, <1>2, <1>3, FramesKept, CountersKept DEF SendInv

LEMMA ComposeKeeps ==
    ASSUME SendInv, NEW maxFrameSize \in Rooms, ComposeNextPacket(maxFrameSize)
    PROVE  SendInv'
<1> DEFINE first == [EmptyPacket EXCEPT !.control = controlFrames, !.room = maxFrameSize]
           start == [queue |-> retransmissionQueue, room |-> maxFrameSize + DataLenBytes, packet |-> first]
           res == Popped(start)
<1>1. /\ pc = "send" /\ pc' = "visit" /\ todo' = Streams /\ controlFrames' = {}
      /\ packet' = res.packet /\ room' = res.room /\ retransmissionQueue' = res.queue
      /\ UNCHANGED <<finSent, writeOffset, cur, bytesSent, sendFlowControlWindow, offered, dataForWriting,
                     waiting, appClosed, err, inFlight, acked>>
    BY DEF ComposeNextPacket, streamVars
<1>2. SendType /\ WriterAt /\ FramerAt /\ FramesAt
    BY DEF SendInv
<1>3. maxFrameSize \in Nat /\ DataLenBytes \in Nat /\ HeaderLen \in Nat
    BY SendAssumption
<1>4. /\ first \in Packet /\ first.frames = {} /\ first.size = 0 /\ first.room = maxFrameSize
    BY <1>2, <1>3, Zenon DEF SendType, EmptyPacket, Packet
<1> HIDE DEF first
<1>5. /\ start \in Result /\ start.queue = retransmissionQueue /\ start.packet = first
      /\ start.room = maxFrameSize + DataLenBytes
    <2>1. retransmissionQueue \in Seq(Frame)
        BY <1>2 DEF FramesAt, QueueApart
    <2>2. maxFrameSize + DataLenBytes \in Nat
        BY <1>3
    <2> QED BY <1>4, <2>1, <2>2 DEF Result
<1> HIDE DEF start
<1>6. packet.frames = {}
    BY <1>1, <1>2 DEF FramerAt, EmptyPacket
<1>7. Frames = AllOf({}, retransmissionQueue)
    BY <1>6 DEF Frames, AllOf, Gone
<1>8. PopAt(start)
    <2>1. QueueApart(retransmissionQueue, {} \cup Gone) /\ {} \cap Gone = {}
        BY <1>2, <1>6 DEF FramesAt
    <2>2. /\ Tiled(AllOf({}, retransmissionQueue), SentBytes, finSent)
          /\ FinsAtEnd(AllOf({}, retransmissionQueue), writeOffset, err)
        BY <1>2, <1>7 DEF FramesAt
    <2>3. 0 + (maxFrameSize + DataLenBytes) = maxFrameSize + DataLenBytes
        BY <1>3
    <2> QED BY <1>4, <1>5, <2>1, <2>2, <2>3 DEF PopAt
<1>9. PopAt(res)
    BY <1>8, SentBytesType, PoppedKeeps
<1> HIDE DEF res
<1>10. SentBytes' = SentBytes /\ Gone' = Gone
    BY <1>1 DEF SentBytes, TakenFrom, Gone
<1>11. res.packet \in Packet /\ res.room \in Nat /\ res.queue \in Seq(Frame)
    BY <1>9 DEF PopAt, Result
<1>12. SendType' /\ WriterAt'
    BY <1>1, <1>2, <1>11 DEF SendType, WriterAt
<1>13. FramerAt'
    BY <1>1, <1>2, <1>9 DEF FramerAt, PopAt
<1>14. FramesAt'
    <2>1. Frames' = AllOf(res.packet.frames, res.queue)
        BY <1>1 DEF Frames, AllOf, Gone, Range
    <2>2. /\ packet'.frames \cap Gone' = {} /\ inFlight' \cap acked' = {}
          /\ QueueApart(retransmissionQueue, packet.frames \cup Gone)'
        BY <1>1, <1>2, <1>9, <1>10 DEF FramesAt, PopAt
    <2>3. Tiled(Frames, SentBytes, finSent)' /\ FinsAtEnd(Frames, writeOffset, err)'
        BY <1>1, <1>9, <1>10, <2>1 DEF PopAt
    <2> QED BY <2>2, <2>3 DEF FramesAt
<1> QED BY <1>1, <1>10, <1>12, <1>13, <1>14, CountersKept DEF SendInv

LEMMA VisitKeeps ==
    ASSUME SendInv, NEW s \in Streams, VisitStream(s)
    PROVE  SendInv'
<1>1. /\ pc = "visit" /\ todo' \subseteq todo
      /\ UNCHANGED <<packet, finSent, writeOffset, room, bytesSent, sendFlowControlWindow, controlFrames,
                     offered, dataForWriting, waiting, appClosed, err, inFlight, acked, retransmissionQueue>>
    BY DEF VisitStream, streamVars, netVars
<1>2. SendType /\ WriterAt /\ FramerAt
    BY DEF SendInv
<1>3. cur = NoVisit /\ packet.size + room = packet.room + DataLenBytes
    BY <1>1, <1>2 DEF FramerAt
<1>4. CASE UNCHANGED <<cur, pc>>
    <2>1. SentBytes' = SentBytes
        BY <1>1, <1>4 DEF SentBytes, TakenFrom
    <2>2. SendType' /\ WriterAt' /\ FramerAt'
        BY <1>1, <1>2, <1>4 DEF SendType, WriterAt, FramerAt
    <2> QED BY <1>1, <2>1, <2>2, FramesKept, CountersKept DEF SendInv
<1>5. CASE ~UNCHANGED <<cur, pc>>
    <2> DEFINE size == IF dataForWriting[s] = 0 THEN 0 ELSE SendWindowSize(s)
    <2>1. /\ ~(room < HeaderLen) /\ pc' = "take"
          /\ cur' = [stream |-> s, offset |-> writeOffset[s], maxLen |-> MaxLen(s), len |-> 0, sendWindowSize |-> size]
        BY <1>5 DEF VisitStream
    <2>2. HeaderLen \in Nat /\ room \in Nat /\ room - HeaderLen \in Nat
        BY <1>2, <2>1, SendAssumption DEF SendType
    <2>3. SendWindowSize(s) \in Nat /\ size \in Nat
        BY <1>2, SendWindowSizeType
    <2>4. MaxLen(s) \in Nat /\ MaxLen(s) <= room - HeaderLen
        BY <2>2, <2>3, MinOfTwo DEF MaxLen
    <2> HIDE DEF size
    <2>5. writeOffset[s] \in Nat /\ s \in Controllers
        BY <1>2 DEF SendType, Controllers
    <2>6. /\ cur' \in Visit /\ cur'.stream = s /\ cur'.offset = writeOffset[s] /\ cur'.len = 0
          /\ cur'.maxLen = MaxLen(s)
        BY <2>1, <2>3, <2>4, <2>5 DEF Visit
    <2>7. SentBytes' = SentBytes
        <3>1. \A r : TakenFrom(r) = 0 /\ TakenFrom(r)' = 0
            BY <1>3, <2>6 DEF TakenFrom, NoVisit
        <3> QED BY <1>1, <3>1 DEF SentBytes
    <2>8. SendType' /\ WriterAt'
        BY <1>1, <1>2, <2>1, <2>6 DEF SendType, WriterAt
    <2>9. FramerAt'
        <3>1. cur'.offset + cur'.len = writeOffset'[cur'.stream] /\ cur'.len <= cur'.maxLen
            <4>1. writeOffset[s] + 0 = writeOffset[s] /\ 0 <= MaxLen(s)
                BY <2>4, <2>5
            <4>2. writeOffset' = writeOffset
                BY <1>1
            <4> QED BY <2>6, <4>1, <4>2
        <3>2. HeaderLen + cur'.maxLen <= room'
            <4>1. HeaderLen + MaxLen(s) <= room
                BY <2>2, <2>4
            <4> QED BY <1>1, <2>6, <4>1
        <3> QED BY <1>1, <1>3, <2>1, <2>6, <3>1, <3>2 DEF FramerAt
    <2> QED BY <1>1, <2>7, <2>8, <2>9, FramesKept, CountersKept DEF SendInv
<1> QED BY <1>4, <1>5

LEMMA PackPacketKeeps ==
    ASSUME SendInv, PackPacket
    PROVE  SendInv'
<1>1. /\ pc = "visit" /\ pc' \in {"select", "send"} /\ inFlight' = inFlight \cup packet.frames
      /\ packet' = EmptyPacket /\ room' = 0
      /\ UNCHANGED <<finSent, writeOffset, bytesSent, sendFlowControlWindow, controlFrames, offered, dataForWriting,
                     waiting, appClosed, err, acked, retransmissionQueue, todo, cur>>
    BY Zenon DEF PackPacket, streamVars
<1>2. SendType /\ WriterAt /\ FramerAt /\ FramesAt
    BY DEF SendInv
<1>3. SentBytes' = SentBytes
    BY <1>1, Zenon DEF SentBytes, TakenFrom
<1>4. EmptyPacket \in Packet /\ EmptyPacket.frames = {}
    BY Zenon DEF EmptyPacket, Packet
<1>5. SendType' /\ WriterAt' /\ FramerAt'
    BY <1>1, <1>2, <1>4, Zenon DEF SendType, WriterAt, FramerAt
<1>6. Frames' = Frames /\ Gone' = Gone \cup packet.frames
    BY <1>1, <1>4, Zenon DEF Frames, Gone
<1>7. /\ packet'.frames \cap Gone' = {} /\ inFlight' \cap acked' = {}
      /\ QueueApart(retransmissionQueue, packet.frames \cup Gone)'
    <2>1. packet'.frames \cup Gone' = packet.frames \cup Gone
        BY <1>1, <1>4, <1>6
    <2>2. inFlight' \cap acked' = {}
        BY <1>1, <1>2 DEF FramesAt, Gone
    <2> QED BY <1>1, <1>2, <1>4, <2>1, <2>2 DEF FramesAt
<1>8. FramesAt'
    BY <1>1, <1>3, <1>6, <1>7, TilingKept, Zenon DEF FramesAt
<1> QED BY <1>1, <1>3, <1>5, <1>8, CountersKept, Zenon DEF SendInv

LEMMA GetDataKeeps ==
    ASSUME SendInv, getDataForWriting
    PROVE  SendInv'
<1> DEFINE s == cur.stream
           n == Min({dataForWriting[s], cur.maxLen})
<1>1. /\ pc = "take" /\ pc' = "finish"
      /\ dataForWriting' = [dataForWriting EXCEPT ![s] = @ - n]
      /\ writeOffset' = [writeOffset EXCEPT ![s] = @ + n]
      /\ waiting' = IF dataForWriting[s] # 0 /\ n = dataForWriting[s] THEN waiting \ {s} ELSE waiting
      /\ cur' = [cur EXCEPT !.len = n]
      /\ UNCHANGED <<packet, finSent, room, bytesSent, sendFlowControlWindow, controlFrames, offered, appClosed, err,
                     inFlight, acked, retransmissionQueue, todo>>
    BY DEF getDataForWriting, Signal, netVars
<1>2. SendType /\ WriterAt /\ FramerAt /\ FramesAt
    BY DEF SendInv
<1>3. /\ s \in Streams /\ cur.offset + cur.len = writeOffset[s] /\ cur.len = 0 /\ HeaderLen + cur.maxLen <= room
      /\ packet.size + room = packet.room + DataLenBytes
    BY <1>1, <1>2 DEF FramerAt
<1>4. cur \in Visit /\ cur.maxLen \in Nat /\ cur.offset \in Nat /\ dataForWriting[s] \in Nat /\ writeOffset[s] \in Nat
    BY <1>2, <1>3 DEF SendType, Visit
<1>5. n \in Nat /\ n <= dataForWriting[s] /\ n <= cur.maxLen
    BY <1>4, MinOfTwo
<1>6. dataForWriting[s] = 0 => n = 0
    BY <1>4, <1>5
<1> HIDE DEF n
<1>7. /\ cur' \in Visit /\ cur'.stream = s /\ cur'.offset = cur.offset /\ cur'.len = n /\ cur'.maxLen = cur.maxLen
    BY <1>1, <1>4, <1>5 DEF Visit
<1>8. SendType'
    <2>1. dataForWriting' \in [Streams -> Nat] /\ writeOffset' \in [Streams -> Nat]
        <3> HIDE DEF s
        <3>1. dataForWriting[s] - n \in Nat /\ writeOffset[s] + n \in Nat
            BY <1>4, <1>5
        <3> QED BY <1>1, <1>2, <3>1, Zenon DEF SendType
    <2>2. waiting' \subseteq Streams
        BY <1>1, <1>2 DEF SendType
    <2> QED BY <1>1, <1>2, <1>7, <2>1, <2>2 DEF SendType
<1> HIDE DEF s
<1>9. /\ dataForWriting'[s] = dataForWriting[s] - n /\ writeOffset'[s] = writeOffset[s] + n
      /\ \A r \in Streams \ {s} : dataForWriting'[r] = dataForWriting[r] /\ writeOffset'[r] = writeOffset[r]
      /\ \A r \in Streams \ {s} : r \in waiting' <=> r \in waiting
    BY <1>1, <1>2, <1>3 DEF SendType
<1>10. WriterAt'
    <2>1. ASSUME NEW r \in Streams
          PROVE  /\ writeOffset'[r] + dataForWriting'[r] = offered'[r]
                 /\ err'[r] # "set" /\ r \notin waiting' => dataForWriting'[r] = 0
                 /\ err'[r] = "none" /\ r \in finSent' => r \in appClosed' /\ dataForWriting'[r] = 0
        <3>1. /\ writeOffset[r] + dataForWriting[r] = offered[r]
              /\ err[r] # "set" /\ r \notin waiting => dataForWriting[r] = 0
              /\ err[r] = "none" /\ r \in finSent => r \in appClosed /\ dataForWriting[r] = 0
            BY <1>2 DEF WriterAt
        <3>2. CASE r # s
            BY <1>1, <1>9, <3>1, <3>2
        <3>3. CASE r = s
            <4>1. writeOffset'[s] + dataForWriting'[s] = offered[s]
                BY <1>4, <1>5, <1>9, <3>1, <3>3
            <4>2. dataForWriting[s] = 0 => dataForWriting'[s] = 0
                BY <1>6, <1>9
            <4>3. s \notin waiting' => s \notin waiting \/ dataForWriting'[s] = 0
                BY <1>1, <1>4, <1>9
            <4> QED BY <1>1, <3>1, <3>3, <4>1, <4>2, <4>3
        <3> QED BY <3>2, <3>3
    <2> QED BY <2>1 DEF WriterAt
<1>11. FramerAt'
    <2>1. cur'.offset + cur'.len = writeOffset'[cur'.stream]
        BY <1>3, <1>4, <1>5, <1>7, <1>9 DEF s
    <2> QED BY <1>1, <1>3, <1>5, <1>7, <2>1 DEF FramerAt
<1>12. SentBytes' = SentBytes
    <2>1. ASSUME NEW r \in Streams PROVE (writeOffset[r] - TakenFrom(r))' = writeOffset[r] - TakenFrom(r)
        <3>1. CASE r = s
            <4>1. TakenFrom(r)' = n /\ TakenFrom(r) = 0
                BY <1>3, <1>7, <3>1 DEF TakenFrom, s
            <4>2. (writeOffset[s] + n) - n = writeOffset[s] - 0
                BY <1>4, <1>5
            <4> QED BY <1>9, <3>1, <4>1, <4>2
        <3>2. CASE r # s
            <4>1. TakenFrom(r)' = 0 /\ TakenFrom(r) = 0
                BY <1>3, <1>7, <3>2 DEF TakenFrom, s
            <4> QED BY <1>9, <3>2, <4>1
        <3> QED BY <3>1, <3>2
    <2> QED BY <2>1 DEF SentBytes
<1>13. FramesAt'
    <2>1. Frames' = Frames /\ Gone' = Gone
        BY <1>1 DEF Frames, Gone
    <2>2. /\ packet'.frames \cap Gone' = {} /\ inFlight' \cap acked' = {}
          /\ QueueApart(retransmissionQueue, packet.frames \cup Gone)'
        BY <1>1, <1>2, <2>1 DEF FramesAt
    <2>3. Tiled(Frames, SentBytes, finSent)'
        BY <1>1, <1>2, <1>12, <2>1 DEF FramesAt
    <2>4. ASSUME NEW f \in Frames, f.fin, err[f.stream] = "none" PROVE f.offset + f.len = writeOffset'[f.stream]
        <3>1. f.stream \in Streams /\ f.stream \in finSent
            BY <1>2, <2>4 DEF FramesAt, Tiled, Frame
        <3>2. dataForWriting[f.stream] = 0
            BY <1>2, <2>4, <3>1 DEF WriterAt
        <3>3. writeOffset'[f.stream] = writeOffset[f.stream]
            BY <1>4, <1>6, <1>9, <3>1, <3>2
        <3> QED BY <1>2, <2>4, <3>3 DEF FramesAt, FinsAtEnd
    <2>5. FinsAtEnd(Frames, writeOffset', err)
        BY <2>4 DEF FinsAtEnd
    <2>6. FinsAtEnd(Frames, writeOffset, err)'
        BY <1>1, <2>1, <2>5
    <2> QED BY <2>2, <2>3, <2>6 DEF FramesAt
<1> QED BY <1>1, <1>8, <1>10, <1>11, <1>12, <1>13, CountersKept DEF SendInv

\* Charging the bytes of a frame keeps the connection's counter the sum.
LEMMA ChargeKeepsSum ==
    ASSUME NEW f \in [Controllers -> Nat], NEW g, NEW s \in Streams, NEW d \in Nat,
           g = [c \in Controllers |-> IF c \in ChargedTo(s) THEN f[c] + d ELSE f[c]],
           f[0] = Sum(f, Streams \ NonContributing)
    PROVE  g[0] = Sum(g, Streams \ NonContributing)
<1> DEFINE S == Streams \ NonContributing
<1>1. IsFiniteSet(S) /\ 0 \notin S /\ S \subseteq Controllers /\ 0 \in Controllers /\ 0 \notin Streams
    BY SendAssumption, FS_Subset DEF Controllers
<1>2. 0 \in ChargedTo(s) <=> s \in S
    BY SendAssumption DEF ChargedTo
<1>3. /\ \A x \in S : f[x] \in Int /\ g[x] \in Int
      /\ \A x \in S \ {s} : g[x] = f[x]
      /\ g[s] - f[s] = d /\ f[0] \in Nat
    BY <1>1 DEF ChargedTo, Controllers
<1> HIDE DEF S
<1>4. CASE s \in S
    <2>1. Sum(g, S) = Sum(f, S) + (g[s] - f[s])
        BY <1>1, <1>3, <1>4, SumIncreased
    <2>2. g[0] = f[0] + d
        BY <1>1, <1>2, <1>4
    <2> QED BY <1>3, <2>1, <2>2 DEF S
<1>5. CASE s \notin S
    <2>1. \A x \in S : f[x] \in Int /\ f[x] = g[x]
        BY <1>3, <1>5
    <2>2. Sum(f, S) = Sum(g, S)
        BY <1>1, <2>1, SumOfEqual
    <2>3. g[0] = f[0]
        BY <1>1, <1>2, <1>5
    <2> QED BY <2>2, <2>3 DEF S
<1> QED BY <1>4, <1>5

LEMMA FinishFrameKeeps ==
    ASSUME SendInv, FinishFrame
    PROVE  SendInv'
<1> DEFINE s == cur.stream
           fin == shouldSendFin(s)
           f == [stream |-> s, offset |-> cur.offset, len |-> cur.len, fin |-> fin, data |-> writeOffset[s] - cur.len]
<1>1. /\ pc = "finish" /\ pc' = "visit" /\ cur' = NoVisit
      /\ UNCHANGED <<sendFlowControlWindow, offered, dataForWriting, waiting, appClosed, err, writeOffset,
                     inFlight, acked, retransmissionQueue>>
    BY Zenon DEF FinishFrame, netVars
<1>2. SendType /\ WriterAt /\ FramerAt /\ FramesAt /\ CountersAt
    BY DEF SendInv
<1>3. /\ s \in Streams /\ cur.offset + cur.len = writeOffset[s] /\ cur.len <= cur.maxLen
      /\ HeaderLen + cur.maxLen <= room /\ packet.size + room = packet.room + DataLenBytes
    BY <1>1, <1>2 DEF FramerAt
<1>4. /\ cur.maxLen \in Nat /\ cur.offset \in Nat /\ cur.len \in Nat /\ writeOffset[s] \in Nat /\ room \in Nat
      /\ HeaderLen \in Nat /\ DataLenBytes \in Nat /\ packet \in Packet /\ packet.size \in Nat /\ packet.room \in Nat
    BY <1>2, <1>3, SendAssumption DEF SendType, Visit, Packet
<1>5. /\ fin \in BOOLEAN /\ (fin => s \notin finSent /\ dataForWriting[s] = 0)
      /\ (fin /\ err[s] = "none" => s \in appClosed)
    BY Zenon DEF shouldSendFin, closed
<1>6. NoVisit \in Visit /\ NoVisit.len = 0
    BY DEF NoVisit, Visit, Controllers
<1> HIDE DEF fin
<1>7. /\ SentBytes \in [Streams -> Nat] /\ SentBytes' = writeOffset /\ writeOffset \in [Streams -> Nat]
      /\ \A r \in Streams : writeOffset[r] = SentBytes[r] + (IF r = s THEN cur.len ELSE 0)
      /\ SentBytes[s] = cur.offset
    <2>1. SentBytes \in [Streams -> Nat] /\ writeOffset \in [Streams -> Nat]
        BY <1>2, SentBytesType DEF SendType
    <2>2. \A r \in Streams : SentBytes[r] = writeOffset[r] - (IF r = s THEN cur.len ELSE 0)
        BY DEF SentBytes, TakenFrom
    <2> HIDE DEF s
    <2>3. \A r \in Streams : writeOffset[r] = SentBytes[r] + (IF r = s THEN cur.len ELSE 0)
        BY <1>4, <2>1, <2>2
    <2>4. SentBytes[s] = cur.offset
        BY <1>3, <1>4, <2>2
    <2>5. SentBytes' = writeOffset
        <3>1. \A r : TakenFrom(r)' = 0
            BY <1>1, <1>6 DEF TakenFrom
        <3>2. \A r \in Streams : (writeOffset[r] - TakenFrom(r))' = writeOffset[r]
            BY <1>1, <2>1, <3>1
        <3> QED BY <2>1, <3>2 DEF SentBytes
    <2> QED BY <2>1, <2>3, <2>4, <2>5
<1> HIDE DEF s
<1>8. CASE cur.len = 0 /\ ~fin
    <2>1. UNCHANGED <<finSent, bytesSent, controlFrames, packet, room, todo>>
        BY <1>8, Zenon DEF FinishFrame, fin, s
    <2>2. SentBytes' = SentBytes
        <3>1. \A r \in Streams : writeOffset[r] = SentBytes[r]
            BY <1>7, <1>8
        <3> QED BY <1>7, <3>1
    <2>3. SendType' /\ WriterAt' /\ FramerAt'
        BY <1>1, <1>2, <1>3, <1>6, <2>1 DEF SendType, WriterAt, FramerAt
    <2> QED BY <1>1, <2>1, <2>2, <2>3, FramesKept, CountersKept DEF SendInv
<1>9. CASE ~(cur.len = 0 /\ ~fin)
    <2>1. /\ finSent' = IF fin THEN finSent \cup {s} ELSE finSent
          /\ bytesSent' = [c \in Controllers |-> IF c \in ChargedTo(s) THEN bytesSent[c] + cur.len ELSE bytesSent[c]]
          /\ controlFrames' = controlFrames \cup BlockedAfter(s, fin)
          /\ packet' = AddedTo(packet, f) /\ room' = room - HeaderLen - cur.len
          /\ todo' = IF room' = 0 THEN {} ELSE todo
        BY <1>9, Zenon DEF FinishFrame, fin, s
    <2>2. writeOffset[s] - cur.len = cur.offset
        <3>1. \A a, b \in Nat : (a + b) - b = a
            OBVIOUS
        <3> QED BY <1>3, <1>4, <3>1
    <2>3. /\ f \in Frame /\ f.stream = s /\ f.offset = cur.offset /\ f.len = cur.len /\ f.fin = fin
          /\ f.data = cur.offset
        BY <1>3, <1>4, <1>5, <2>2 DEF Frame
    <2> HIDE DEF f
    <2>4. f.len > 0 \/ f.fin
        <3>1. fin \/ cur.len # 0
            BY <1>9
        <3>2. cur.len # 0 => cur.len > 0
            BY <1>4
        <3> QED BY <2>3, <3>1, <3>2
    <2>5. /\ packet' \in Packet /\ packet'.frames = packet.frames \cup {f}
          /\ packet'.size = packet.size + HeaderLen + cur.len /\ packet'.room = packet.room
        BY <1>4, <2>1, <2>3, AddedToFields
    <2>6. room - HeaderLen - cur.len \in Nat
        BY <1>3, <1>4
    <2>7. bytesSent' \in [Controllers -> Nat]
        <3>1. bytesSent \in [Controllers -> Nat]
            BY <1>2 DEF SendType
        <3>2. \A c \in Controllers : bytesSent[c] + cur.len \in Nat
            BY <1>4, <3>1
        <3> QED BY <2>1, <3>1, <3>2
    <2>8. controlFrames' \subseteq Controllers /\ finSent' \subseteq Streams /\ todo' \subseteq Streams
        <3>1. BlockedAfter(s, fin) \subseteq Controllers
            BY <1>3 DEF BlockedAfter, Controllers
        <3> QED BY <1>2, <1>3, <2>1, <3>1 DEF SendType
    <2>9. SendType'
        BY <1>1, <1>2, <1>6, <2>1, <2>5, <2>6, <2>7, <2>8, Zenon DEF SendType
    <2>10. WriterAt'
        BY <1>1, <1>2, <1>5, <2>1, Zenon DEF WriterAt
    <2>11. FramerAt'
        <3>1. (packet.size + HeaderLen + cur.len) + (room - HeaderLen - cur.len) = packet.room + DataLenBytes
            BY <1>3, <1>4
        <3> QED BY <1>1, <2>1, <2>5, <3>1 DEF FramerAt
    <2>12. Frames' = Frames \cup {f} /\ Gone' = Gone
        BY <1>1, <2>5 DEF Frames, Gone
    <2>13. Tiled(Frames \cup {f}, writeOffset, finSent') /\ f \notin Frames
        <3>1. Tiled(Frames, SentBytes, finSent)
            BY <1>2 DEF FramesAt
        <3>2. f.fin => f.stream \notin finSent
            BY <1>5, <2>3
        <3>3. finSent' = IF f.fin THEN finSent \cup {f.stream} ELSE finSent
            BY <2>1, <2>3
        <3>4. \A r \in Streams : writeOffset[r] = SentBytes[r] + (IF r = f.stream THEN f.len ELSE 0)
            BY <1>7, <2>3
        <3>5. f.offset = SentBytes[f.stream] /\ f.data = f.offset
            BY <1>7, <2>3
        <3>6. PICK F, covered, fins, more, ends :
                  /\ F = Frames /\ covered = SentBytes /\ fins = finSent /\ more = writeOffset /\ ends = finSent'
            OBVIOUS
        <3>7. /\ Tiled(F, covered, fins) /\ covered \in [Streams -> Nat] /\ more \in [Streams -> Nat]
              /\ f.offset = covered[f.stream] /\ f.data = f.offset /\ f \in Frame
              /\ f.fin => f.stream \notin fins
              /\ \A r \in Streams : more[r] = covered[r] + (IF r = f.stream THEN f.len ELSE 0)
              /\ ends = IF f.fin THEN fins \cup {f.stream} ELSE fins
            BY <1>7, <2>3, <3>1, <3>2, <3>3, <3>4, <3>5, <3>6
        <3>8. Tiled(F \cup {f}, more, ends) /\ f \notin F
            BY <2>4, <3>7, TiledAdd
        <3> QED BY <3>6, <3>8
    <2>14. Tiled(Frames, SentBytes, finSent)'
        BY <1>7, <2>12, <2>13
    <2>15. FinsAtEnd(Frames, writeOffset, err)'
        <3>1. FinsAtEnd(Frames \cup {f}, writeOffset, err)
            BY <1>2, <1>3, <2>3 DEF FramesAt, FinsAtEnd
        <3> QED BY <1>1, <2>12, <3>1
    <2>16. packet'.frames \cap Gone' = {} /\ inFlight' \cap acked' = {}
        BY <1>1, <1>2, <2>5, <2>12, <2>13, Zenon DEF FramesAt, Frames, Gone
    <2>17. QueueApart(retransmissionQueue, packet.frames \cup Gone)'
        <3> DEFINE q == retransmissionQueue
        <3>1. QueueApart(q, packet.frames \cup Gone)
            BY <1>2 DEF FramesAt
        <3>2. DOMAIN q = 1 .. Len(q)
            BY <3>1 DEF QueueApart
        <3>3. \A i \in 1 .. Len(q) : q[i] # f
            BY <2>13, <3>2 DEF Frames, Range
        <3>4. QueueApart(q, (packet.frames \cup {f}) \cup Gone)
            BY <3>1, <3>3 DEF QueueApart
        <3> QED BY <1>1, <2>5, <2>12, <3>4
    <2>18. FramesAt'
        BY <2>14, <2>15, <2>16, <2>17 DEF FramesAt
    <2>19. CountersAt'
        <3>1. bytesSent \in [Controllers -> Nat] /\ bytesSent[0] = Sum(bytesSent, Streams \ NonContributing)
            BY <1>2 DEF SendType, CountersAt
        <3>2. bytesSent'[0] = Sum(bytesSent', Streams \ NonContributing)
            BY <1>3, <1>4, <2>1, <3>1, ChargeKeepsSum, Zenon
        <3>3. ASSUME NEW r \in Streams PROVE bytesSent'[r] = writeOffset[r]
            <4>1. bytesSent[r] = SentBytes[r] /\ r \in Controllers /\ SentBytes[r] \in Nat
                BY <1>2, <1>7 DEF CountersAt, Controllers
            <4>2. r \in ChargedTo(s) <=> r = s
                <5>1. r # 0
                    BY SendAssumption
                <5> QED BY <5>1, Zenon DEF ChargedTo
            <4> QED BY <1>7, <2>1, <4>1, <4>2
        <3>4. Sum(bytesSent, Streams \ NonContributing)' = Sum(bytesSent', Streams \ NonContributing)
            OBVIOUS
        <3> QED BY <1>7, <3>2, <3>3, <3>4 DEF CountersAt
    <2> QED BY <2>9, <2>10, <2>11, <2>18, <2>19 DEF SendInv
<1> QED BY <1>8, <1>9

LEMMA SendInvNext == SendInv /\ [SendNext]_sendVars => SendInv'
<1> SUFFICES ASSUME SendInv, [SendNext]_sendVars PROVE SendInv'
    OBVIOUS
<1>1. CASE UNCHANGED sendVars
    <2>1. UNCHANGED <<packet, finSent, writeOffset, cur, room, bytesSent, sendFlowControlWindow, todo, controlFrames,
                      offered, dataForWriting, waiting, appClosed, err, inFlight, acked, retransmissionQueue, pc>>
        BY <1>1 DEF sendVars, streamVars, packVars, netVars
    <2>2. SentBytes' = SentBytes
        BY <2>1 DEF SentBytes, TakenFrom
    <2>3. SendType' /\ WriterAt' /\ FramerAt'
        BY <2>1 DEF SendInv, SendType, WriterAt, FramerAt
    <2> QED BY <2>1, <2>2, <2>3, FramesKept, CountersKept DEF SendInv
<1>2. CASE Session
    BY <1>2, SendPacketKeeps, ComposeKeeps, VisitKeeps, GetDataKeeps, FinishFrameKeeps, PackPacketKeeps DEF Session
<1> QED BY <1>1, <1>2, ApplicationKeeps, EventsKeep DEF SendNext

LEMMA SendInvInit == SendInit => SendInv
<1> SUFFICES ASSUME SendInit PROVE SendInv
    OBVIOUS
<1>1. /\ NoVisit \in Visit /\ NoVisit.len = 0 /\ EmptyPacket \in Packet /\ EmptyPacket.frames = {}
    BY DEF NoVisit, Visit, EmptyPacket, Packet, Controllers
<1>2. SendType
    BY <1>1 DEF SendInit, SendType
<1>3. WriterAt /\ FramerAt
    BY <1>1 DEF SendInit, WriterAt, FramerAt
<1>4. SentBytes = [s \in Streams |-> 0]
    <2>1. \A s : TakenFrom(s) = 0
        BY <1>1 DEF SendInit, TakenFrom
    <2> QED BY <2>1 DEF SentBytes, SendInit
<1>5. Range(retransmissionQueue) = {} /\ Frames = {} /\ Gone = {}
    <2>1. Range(retransmissionQueue) = {}
        BY DEF SendInit, Range
    <2> QED BY <1>1, <2>1 DEF SendInit, Frames, Gone
<1>6. FramesAt
    <2>1. QueueApart(retransmissionQueue, packet.frames \cup Gone)
        BY DEF SendInit, QueueApart
    <2>2. Tiled({}, SentBytes, finSent)
        BY <1>4 DEF SendInit, Tiled
    <2>3. FinsAtEnd({}, writeOffset, err)
        BY DEF FinsAtEnd
    <2> QED BY <1>1, <1>5, <2>1, <2>2, <2>3 DEF FramesAt, SendInit
<1>7. CountersAt
    <2> DEFINE S == Streams \ NonContributing
    <2>1. IsFiniteSet(S) /\ S \subseteq Streams
        BY SendAssumption, FS_Subset
    <2>2. Sum(bytesSent, S) = 0
        <3>1. \A x \in S : bytesSent[x] = 0
            BY <2>1 DEF SendInit, Controllers
        <3> HIDE DEF S
        <3> QED BY <2>1, <3>1, SumOfZeros
    <2>3. \A s \in Streams : bytesSent[s] = SentBytes[s]
        BY <1>4 DEF SendInit, Controllers
    <2>4. bytesSent[0] = 0
        BY DEF SendInit, Controllers
    <2> QED BY <2>2, <2>3, <2>4 DEF CountersAt
<1> QED BY <1>2, <1>3, <1>6, <1>7 DEF SendInv

LEMMA SendInvTiles == SendInv => FramesTile
<1> SUFFICES ASSUME SendInv PROVE FramesTile
    OBVIOUS
<1>1. SendType /\ WriterAt /\ FramerAt /\ FramesAt
    BY DEF SendInv
<1>2. packet.frames # {} => packet.size - DataLenBytes <= packet.room
    <2> SUFFICES ASSUME packet.frames # {} PROVE packet.size - DataLenBytes <= packet.room
        OBVIOUS
    <2>1. packet.size + room = packet.room + DataLenBytes
        <3>1. EmptyPacket.frames = {}
            BY DEF EmptyPacket
        <3>2. packet # EmptyPacket
            BY <3>1
        <3> QED BY <1>1, <3>2 DEF FramerAt
    <2>2. packet.size \in Nat /\ packet.room \in Nat /\ room \in Nat /\ DataLenBytes \in Nat
        <3>1. packet \in Packet /\ room \in Nat
            BY <1>1 DEF SendType
        <3> QED BY <3>1, SendAssumption DEF Packet
    <2> QED BY <2>1, <2>2
<1>3. /\ Frames \subseteq Frame
      /\ \A f \in Frames : f.offset = f.data
      /\ \A f, g \in Frames : f.stream = g.stream /\ f # g => Before(f, g) \/ Before(g, f)
      /\ \A s \in Streams : \A b \in Nat : (\E f \in Frames : Holds(f, s, b)) <=> b < SentBytes[s]
      /\ \A f, g \in Frames : f.stream = g.stream /\ f.fin /\ g.fin => f = g
      /\ \A s \in Streams : s \in finSent <=> \E f \in Frames : f.stream = s /\ f.fin
    BY <1>1, Zenon DEF FramesAt, Tiled
<1>4. \A f \in Frames : f.offset \in Nat /\ f.len \in Nat /\ f.stream \in Streams
    BY <1>3 DEF Frame
<1>5. ASSUME NEW s \in Streams, NEW f \in FramesOf(s), NEW g \in FramesOf(s), f # g
      PROVE  BytesOf(f) \cap BytesOf(g) = {}
    <2>1. Before(f, g) \/ Before(g, f)
        BY <1>3, <1>5 DEF FramesOf
    <2>2. f.offset \in Nat /\ f.len \in Nat /\ g.offset \in Nat /\ g.len \in Nat
        BY <1>4 DEF FramesOf
    <2> QED BY <2>1, <2>2 DEF Before, BytesOf
<1>6. ASSUME NEW s \in Streams
      PROVE  UNION {BytesOf(f) : f \in FramesOf(s)} = 0 .. writeOffset[s] - TakenFrom(s) - 1
    <2> DEFINE n == writeOffset[s] - TakenFrom(s)
    <2>1. n \in Nat /\ SentBytes[s] = n
        BY SentBytesType
    <2> HIDE DEF n
    <2>2. \A f \in FramesOf(s) : f \in Frames /\ f.stream = s /\ f.offset \in Nat /\ f.len \in Nat
        BY <1>4 DEF FramesOf
    <2>3. \A b : b \in 0 .. n - 1 <=> b \in Nat /\ b < n
        BY <2>1
    <2>4. \A f \in FramesOf(s) : \A b : b \in BytesOf(f) <=> b \in Nat /\ Holds(f, s, b)
        BY <2>2 DEF BytesOf, Holds
    <2>5. ASSUME NEW b \in Nat, NEW f \in Frames, Holds(f, s, b) PROVE f \in FramesOf(s)
        BY <2>5 DEF Holds, FramesOf
    <2>6. \A b : b \in UNION {BytesOf(f) : f \in FramesOf(s)} <=> b \in Nat /\ \E f \in Frames : Holds(f, s, b)
        BY <2>2, <2>4, <2>5
    <2>7. UNION {BytesOf(f) : f \in FramesOf(s)} = 0 .. n - 1
        BY <1>3, <2>1, <2>3, <2>6
    <2> QED BY <2>7 DEF n
<1>7. ASSUME NEW s \in Streams, err[s] = "none", s \in finSent
      PROVE  writeOffset[s] = offered[s] /\ Cardinality({f \in FramesOf(s) : f.fin}) = 1
    <2>1. writeOffset[s] + 0 = offered[s] /\ writeOffset[s] \in Nat
        BY <1>1, <1>7 DEF WriterAt, SendType
    <2>2. PICK f \in Frames : f.stream = s /\ f.fin
        BY <1>3, <1>7
    <2>3. {g \in FramesOf(s) : g.fin} = {f}
        BY <1>3, <2>2 DEF FramesOf
    <2>4. Cardinality({f}) = 1
        BY FS_Singleton
    <2>5. Cardinality({g \in FramesOf(s) : g.fin}) = 1
        BY <2>3, <2>4, Zenon
    <2> QED BY <2>1, <2>5
<1>8. ASSUME NEW s \in Streams, err[s] = "none", NEW f \in FramesOf(s), f.fin
      PROVE  s \in finSent /\ f.offset + f.len = writeOffset[s]
    BY <1>1, <1>3, <1>8 DEF FramesOf, FramesAt, FinsAtEnd
<1>9. \A s \in Streams : \A f \in FramesOf(s) : f.offset = f.data
    BY <1>3 DEF FramesOf
<1>10. \A s \in Streams : writeOffset[s] + dataForWriting[s] = offered[s]
    BY <1>1 DEF WriterAt
<1> QED BY <1>2, <1>5, <1>6, <1>7, <1>8, <1>9, <1>10, Zenon DEF FramesTile

\* However the application's goroutines, lost packets and the framer interleave,
\* the frames of a stream tile what it sent: each byte is in exactly one frame,
\* packed, in flight, acknowledged or queued for retransmission, at its offset,
\* with one FIN at the end; and the packet being packed does not overflow.
THEOREM FramesTileStreams == SendSpec => []FramesTile
BY SendInvInit, SendInvNext, SendInvTiles, PTL DEF SendSpec

\* What AddBytesSent has counted is what is in frames, per stream, and the
\* connection's counter is the sum over the contributing streams.
THEOREM CountersCountFrames == SendSpec => []SendCountersExact
<1>1. SendInv => SendCountersExact
    <2> SUFFICES ASSUME SendInv PROVE SendCountersExact
        OBVIOUS
    <2>1. \A s \in Streams : bytesSent[s] = writeOffset[s] - TakenFrom(s)
        BY SentBytesType DEF SendInv, CountersAt
    <2>2. bytesSent[0] = MapThenSumSet(LAMBDA s : bytesSent[s], Streams \ NonContributing)
        BY Zenon DEF SendInv, CountersAt, Sum
    <2> QED BY <2>1, <2>2 DEF SendCountersExact
<1> QED BY <1>1, SendInvInit, SendInvNext, PTL DEF SendSpec
=============================================================================
