---------------------------- MODULE StreamProofs ----------------------------
(***************************************************************************)
(* Proofs about the streams of a session.  First StreamFrameSorter         *)
(* (SorterSpec), for every bound on the offsets and on the number of gaps, *)
(* and StreamReceive (Spec), which reads from it, for every set of frames  *)
(* and of buffer lengths.                                                  *)
(*                                                                         *)
(* Then StreamsMap, for every set of ids, every limit and every            *)
(* MaxNewStreamIDDelta (MapSpec): the slice openStreams and the counters   *)
(* always agree with the map, although Iterate removes streams from the    *)
(* slice it runs over, and a stream that was closed recently stays closed. *)
(* The two parts share no variable.                                        *)
(***************************************************************************)
EXTENDS StreamReceive, StreamsMap, SetLemmas, SequenceTheorems

\* A map has one frame per offset.
OneFramePerOffset == \A f, h \in queuedFrames : f.Offset = h.Offset => f = h

SorterInv ==
    /\ SorterType
    /\ BytesPartitioned
    /\ GapEndsAreQueued
    /\ OneFramePerOffset

\* The fields of a frame and of a gap are numbers.
LEMMA SorterNumbers ==
    ASSUME SorterType
    PROVE  /\ \A f \in queuedFrames : /\ f.Offset \in Nat /\ f.DataLen \in Nat
                                      /\ EndOf(f) <= MaxOffset /\ EndOf(f) = f.Offset + f.DataLen
           /\ \A g \in gaps : /\ g.Start \in Nat /\ g.End \in Nat /\ g.Start < g.End
                              /\ g.End <= MaxByteCount
           /\ readPosition \in Nat /\ readPosition <= MaxOffset
           /\ MaxOffset \in Nat /\ MaxByteCount \in Nat /\ MaxOffset < MaxByteCount
BY SorterAssumption DEF SorterType, StreamFrame, ByteInterval, Offsets, EndOf

\* The walk over the gaps stops at exactly one gap: a frame that only touches
\* the end of a gap is a duplicate.
LEMMA WalkStops ==
    ASSUME SorterInv, ~failed, NEW sf \in StreamFrame, EndOf(sf) <= MaxOffset,
           ~IsQueued(sf), Touched(sf) # {}
    PROVE  \E g \in gaps : FirstStops(sf) = {g} /\ sf.Offset < g.End
<1>1. sf.Offset \in Nat /\ sf.DataLen \in Nat /\ EndOf(sf) = sf.Offset + sf.DataLen
    BY SorterAssumption DEF StreamFrame, Offsets, EndOf
<1>2. SorterType
    BY DEF SorterInv
<1>3. /\ \A g \in gaps : /\ g.Start \in Nat /\ g.End \in Nat /\ g.Start < g.End
                         /\ g.End <= MaxByteCount
      /\ MaxOffset \in Nat /\ MaxByteCount \in Nat /\ MaxOffset < MaxByteCount
    BY <1>2, SorterNumbers
<1>4. \A g \in Touched(sf) : g \in gaps /\ sf.Offset < g.End
    <2> SUFFICES ASSUME NEW g \in Touched(sf) PROVE g \in gaps /\ sf.Offset < g.End
        OBVIOUS
    <2>1. g \in gaps /\ ~(sf.Offset > g.End)
        BY DEF Touched
    <2>2. sf.Offset # g.End
        <3> SUFFICES ASSUME sf.Offset = g.End PROVE FALSE
            OBVIOUS
        <3>1. g.End # MaxByteCount
            BY <1>1, <1>3
        <3>2. \E f \in queuedFrames : f.Offset = g.End
            BY <2>1, <3>1 DEF SorterInv, GapEndsAreQueued
        <3> QED BY <3>2 DEF IsQueued
    <2> QED BY <1>1, <1>3, <2>1, <2>2
<1>5. Stops(sf) = Touched(sf)
    BY <1>1, <1>3, <1>4 DEF Stops
<1> DEFINE S == {g.Start : g \in Stops(sf)}
<1>6. S \subseteq Nat /\ S # {}
    BY <1>3, <1>4, <1>5
<1>7. PICK m \in S : \A x \in S : m <= x
    <2> HIDE DEF S
    <2> QED BY <1>6, MinOfNaturals
<1>8. PICK g \in Stops(sf) : g.Start = m
    BY <1>7
<1>9. g \in FirstStops(sf)
    BY <1>7, <1>8 DEF FirstStops
<1>10. \A h \in FirstStops(sf) : h = g
    <2> SUFFICES ASSUME NEW h \in FirstStops(sf), h # g PROVE FALSE
        OBVIOUS
    <2>1. h \in gaps /\ g \in gaps /\ h.Start <= g.Start /\ g.Start <= h.Start
        BY <1>4, <1>5, <1>8, <1>9 DEF FirstStops
    <2>2. g.End < h.Start \/ h.End < g.Start
        BY <2>1 DEF SorterInv, BytesPartitioned
    <2> QED BY <1>3, <2>1, <2>2
<1>11. FirstStops(sf) = {g}
    BY <1>9, <1>10
<1> QED BY <1>4, <1>5, <1>8, <1>11

\* Cutting a frame out of the gap it lies in.
LEMMA CutGap ==
    ASSUME SorterInv, ~failed, NEW sf \in StreamFrame, EndOf(sf) <= MaxOffset,
           sf.DataLen > 0, NEW g \in gaps, Inside(sf, g),
           NEW cut, cut = (gaps \ {g}) \cup LeftOf(sf, g)
    PROVE  /\ cut \subseteq {h \in ByteInterval : h.Start < h.End}
           /\ \A h, k \in cut : h # k => h.End < k.Start \/ k.End < h.Start
           /\ \A b \in 0 .. MaxByteCount - 1 :
                 (\E h \in cut : h.Start <= b /\ b < h.End) <=> InGap(b) /\ b \notin Bytes(sf)
           /\ \A h \in cut : h \in gaps \/ h.End = g.End \/ h.End = sf.Offset
           /\ \A b \in Bytes(sf) : InGap(b)
<1> DEFINE lo == [Start |-> g.Start, End |-> sf.Offset]
           hi == [Start |-> EndOf(sf), End |-> g.End]
           s == sf.Offset
           e == EndOf(sf)
<1>1. s \in Nat /\ e \in Nat /\ s < e /\ e <= MaxOffset /\ sf.DataLen \in Nat
    BY SorterAssumption DEF StreamFrame, Offsets, EndOf
<1>2. SorterType
    BY DEF SorterInv
<1>3. /\ \A h \in gaps : /\ h.Start \in Nat /\ h.End \in Nat /\ h.Start < h.End
                         /\ h.End <= MaxByteCount
      /\ MaxOffset \in Nat /\ MaxByteCount \in Nat /\ MaxOffset < MaxByteCount
    BY <1>2, SorterNumbers
<1>4. g.Start <= s /\ e <= g.End
    BY DEF Inside
<1>5. \A h, k \in gaps : h # k => h.End < k.Start \/ k.End < h.Start
    BY DEF SorterInv, BytesPartitioned
<1>6. /\ lo \in ByteInterval /\ hi \in ByteInterval
      /\ lo.Start = g.Start /\ lo.End = s /\ hi.Start = e /\ hi.End = g.End
    BY <1>1, <1>3, <1>4 DEF ByteInterval
<1>7. \A h : h \in cut <=> \/ h \in gaps /\ h # g
                           \/ h = lo /\ g.Start < s
                           \/ h = hi /\ e < g.End
    BY <1>6 DEF LeftOf
<1>8. \A b \in Int : b \in Bytes(sf) <=> s <= b /\ b < e
    BY <1>1 DEF Bytes
<1>9. cut \subseteq {h \in ByteInterval : h.Start < h.End}
    BY <1>2, <1>3, <1>6, <1>7 DEF SorterType
<1> HIDE DEF lo, hi, s, e
<1>10. \A h, k \in cut : h # k => h.End < k.Start \/ k.End < h.Start
    <2> SUFFICES ASSUME NEW h \in cut, NEW k \in cut, h # k
                 PROVE  h.End < k.Start \/ k.End < h.Start
        OBVIOUS
    <2> QED BY <1>1, <1>3, <1>4, <1>5, <1>6, <1>7
<1>11. ASSUME NEW b \in 0 .. MaxByteCount - 1
       PROVE  (\E h \in cut : h.Start <= b /\ b < h.End) <=> InGap(b) /\ b \notin Bytes(sf)
    <2>1. b \in Nat /\ (b \in Bytes(sf) <=> s <= b /\ b < e)
        BY <1>3, <1>8
    <2>2. ASSUME NEW h \in cut, h.Start <= b, b < h.End
          PROVE  InGap(b) /\ ~(s <= b /\ b < e)
        <3>1. CASE h \in gaps /\ h # g
            <4>1. h.End < g.Start \/ g.End < h.Start
                BY <1>5, <3>1
            <4> QED BY <1>1, <1>3, <1>4, <2>1, <2>2, <3>1, <4>1 DEF InGap
        <3>2. CASE h = lo
            BY <1>1, <1>3, <1>4, <1>6, <2>1, <2>2, <3>2 DEF InGap
        <3>3. CASE h = hi
            BY <1>1, <1>3, <1>4, <1>6, <2>1, <2>2, <3>3 DEF InGap
        <3> QED BY <1>7, <3>1, <3>2, <3>3
    <2>3. ASSUME InGap(b), ~(s <= b /\ b < e)
          PROVE  \E h \in cut : h.Start <= b /\ b < h.End
        <3>1. PICK h \in gaps : h.Start <= b /\ b < h.End
            BY <2>3 DEF InGap
        <3>2. CASE h # g
            BY <1>7, <3>1, <3>2
        <3>3. CASE h = g /\ b < s
            <4>1. g.Start < s
                BY <1>1, <1>3, <2>1, <3>1, <3>3
            <4>2. lo \in cut
                BY <1>7, <4>1
            <4> QED BY <1>6, <3>1, <3>3, <4>2
        <3>4. CASE h = g /\ e <= b
            <4>1. e < g.End
                BY <1>1, <1>3, <2>1, <3>1, <3>4
            <4>2. hi \in cut
                BY <1>7, <4>1
            <4> QED BY <1>6, <3>1, <3>4, <4>2
        <3> QED BY <1>1, <2>1, <2>3, <3>2, <3>3, <3>4
    <2> QED BY <2>1, <2>2, <2>3
<1>12. \A h \in cut : h \in gaps \/ h.End = g.End \/ h.End = s
    BY <1>6, <1>7
<1>13. \A b \in Bytes(sf) : InGap(b)
    <2> SUFFICES ASSUME NEW b \in Bytes(sf) PROVE g.Start <= b /\ b < g.End
        BY DEF InGap
    <2>1. b \in Int
        BY <1>1 DEF Bytes, s, e
    <2> QED BY <1>1, <1>3, <1>4, <1>8, <2>1
<1> QED BY <1>9, <1>10, <1>11, <1>12, <1>13 DEF s

LEMMA SorterInit == newStreamFrameSorter => SorterInv
<1> SUFFICES ASSUME newStreamFrameSorter PROVE SorterInv
    OBVIOUS
<1>1. SorterType
    <2>1. [Start |-> 0, End |-> MaxByteCount] \in ByteInterval
        BY SorterAssumption DEF ByteInterval
    <2>2. gaps \subseteq {g \in ByteInterval : g.Start < g.End}
        BY <2>1, SorterAssumption DEF newStreamFrameSorter
    <2>3. readPosition \in Offsets
        BY SorterAssumption DEF newStreamFrameSorter, Offsets
    <2>4. queuedFrames = {} /\ failed \in BOOLEAN
        BY Zenon DEF newStreamFrameSorter
    <2> QED BY <2>2, <2>3, <2>4, Zenon DEF SorterType
<1>2. BytesPartitioned
    BY SorterAssumption DEF newStreamFrameSorter, BytesPartitioned, InGap
<1> QED BY <1>1, <1>2 DEF newStreamFrameSorter, SorterInv, GapEndsAreQueued, OneFramePerOffset

\* A failed step leaves a sorter that is well typed, with one frame per offset.
LEMMA FailedIsFine ==
    ASSUME SorterType', failed', OneFramePerOffset, queuedFrames' = queuedFrames
    PROVE  SorterInv'
BY DEF SorterInv, BytesPartitioned, GapEndsAreQueued, OneFramePerOffset

\* Push, when it queues or refuses a frame without data.
LEMMA PushEmptyPreserves ==
    ASSUME SorterInv, ~failed, NEW sf \in StreamFrame, EndOf(sf) <= MaxOffset, PushEmpty(sf)
    PROVE  SorterInv'
<1>1. SorterType'
    BY Zenon DEF PushEmpty, SorterInv, SorterType
<1>2. CASE ~sf.FinBit
    BY <1>1, <1>2, FailedIsFine DEF PushEmpty, SorterInv
<1>3. CASE sf.FinBit
    <2>1. /\ queuedFrames' = queuedFrames \cup {sf} /\ failed' = failed
          /\ readPosition' = readPosition /\ gaps' = gaps /\ sf.DataLen = 0 /\ ~IsQueued(sf)
        BY <1>3 DEF PushEmpty
    <2>2. Bytes(sf) = {}
        <3>1. sf.Offset \in Nat
            BY SorterAssumption DEF StreamFrame, Offsets
        <3> QED BY <2>1, <3>1 DEF Bytes, EndOf
    <2>3. OneFramePerOffset'
        BY <2>1 DEF SorterInv, OneFramePerOffset, IsQueued
    <2>4. GapEndsAreQueued'
        BY <2>1 DEF SorterInv, GapEndsAreQueued
    <2>5. \A b : InGap(b)' <=> InGap(b)
        BY <2>1 DEF InGap
    <2>6. BytesPartitioned'
        BY <2>1, <2>2, <2>5 DEF SorterInv, BytesPartitioned
    <2> QED BY <1>1, <2>3, <2>4, <2>6 DEF SorterInv
<1> QED BY <1>2, <1>3

\* Push, when the frame fills part of a gap.
LEMMA PushDataPreserves ==
    ASSUME SorterInv, ~failed, NEW sf \in StreamFrame, EndOf(sf) <= MaxOffset, PushData(sf)
    PROVE  SorterInv'
<1>1. /\ ~IsQueued(sf) /\ sf.DataLen > 0 /\ Touched(sf) # {}
      /\ \A g \in FirstStops(sf) : Inside(sf, g)
      /\ gaps' = (gaps \ FirstStops(sf)) \cup UNION {LeftOf(sf, g) : g \in FirstStops(sf)}
      /\ readPosition' = readPosition
      /\ \/ failed' = TRUE /\ queuedFrames' = queuedFrames
         \/ queuedFrames' = queuedFrames \cup {sf} /\ failed' = failed
    BY DEF PushData
<1>2. PICK g \in gaps : FirstStops(sf) = {g} /\ sf.Offset < g.End
    BY <1>1, WalkStops
<1>3. Inside(sf, g) /\ gaps' = (gaps \ {g}) \cup LeftOf(sf, g)
    BY <1>1, <1>2
<1>4. /\ gaps' \subseteq {h \in ByteInterval : h.Start < h.End}
      /\ \A h, k \in gaps' : h # k => h.End < k.Start \/ k.End < h.Start
      /\ \A b \in 0 .. MaxByteCount - 1 :
            (\E h \in gaps' : h.Start <= b /\ b < h.End) <=> InGap(b) /\ b \notin Bytes(sf)
      /\ \A h \in gaps' : h \in gaps \/ h.End = g.End \/ h.End = sf.Offset
      /\ \A b \in Bytes(sf) : InGap(b)
    BY <1>1, <1>3, CutGap, Zenon
<1>5. SorterType'
    BY <1>1, <1>4, Zenon DEF SorterInv, SorterType
<1>6. CASE failed' = TRUE /\ queuedFrames' = queuedFrames
    BY <1>5, <1>6, FailedIsFine DEF SorterInv
<1>7. CASE queuedFrames' = queuedFrames \cup {sf} /\ failed' = failed
    <2>1. OneFramePerOffset'
        BY <1>1, <1>7 DEF SorterInv, OneFramePerOffset, IsQueued
    <2>2. GapEndsAreQueued'
        BY <1>1, <1>4, <1>7 DEF SorterInv, GapEndsAreQueued
    <2>3. /\ sf.Offset \in Nat /\ EndOf(sf) \in Nat /\ sf.Offset < EndOf(sf)
          /\ EndOf(sf) <= MaxOffset /\ MaxOffset < MaxByteCount /\ MaxOffset \in Nat
          /\ MaxByteCount \in Nat
        BY <1>1, SorterAssumption DEF StreamFrame, Offsets, EndOf
    <2>4. \A b \in Bytes(sf) : b \in 0 .. MaxByteCount - 1
        BY <2>3 DEF Bytes
    <2>5. /\ \A b \in 0 .. MaxByteCount - 1 :
                InGap(b) <=> ~(b < readPosition \/ \E f \in queuedFrames : b \in Bytes(f))
          /\ \A f, h \in queuedFrames : f # h => Bytes(f) \cap Bytes(h) = {}
          /\ \A f \in queuedFrames : f.DataLen > 0 => f.Offset >= readPosition
        BY DEF SorterInv, BytesPartitioned
    <2>6. \A f \in queuedFrames : Bytes(f) \cap Bytes(sf) = {}
        BY <1>4, <2>4, <2>5
    <2>7. sf.Offset >= readPosition
        <3>1. sf.Offset \in Bytes(sf)
            BY <2>3 DEF Bytes
        <3>2. ~(sf.Offset < readPosition)
            BY <1>4, <2>4, <2>5, <3>1
        <3>3. readPosition \in Nat
            BY SorterAssumption DEF SorterInv, SorterType, Offsets
        <3> QED BY <2>3, <3>2, <3>3
    <2>8. \A b \in 0 .. MaxByteCount - 1 :
              InGap(b)' <=> ~(b < readPosition' \/ \E f \in queuedFrames' : b \in Bytes(f))
        <3> SUFFICES ASSUME NEW b \in 0 .. MaxByteCount - 1
                     PROVE  InGap(b)' <=> ~(b < readPosition' \/ \E f \in queuedFrames' : b \in Bytes(f))
            OBVIOUS
        <3>1. InGap(b)' <=> InGap(b) /\ b \notin Bytes(sf)
            BY <1>4 DEF InGap
        <3>2. InGap(b) <=> ~(b < readPosition \/ \E f \in queuedFrames : b \in Bytes(f))
            BY <2>5
        <3> QED BY <1>1, <1>7, <3>1, <3>2
    <2>9. \A f, h \in queuedFrames' : f # h => Bytes(f) \cap Bytes(h) = {}
        BY <1>7, <2>5, <2>6
    <2>10. \A f \in queuedFrames' : f.DataLen > 0 => f.Offset >= readPosition'
        BY <1>1, <1>7, <2>5, <2>7
    <2>11. BytesPartitioned'
        BY <1>4, <2>8, <2>9, <2>10 DEF BytesPartitioned, Bytes, EndOf
    <2> QED BY <1>5, <2>1, <2>2, <2>11 DEF SorterInv
<1> QED BY <1>1, <1>6, <1>7, Zenon

\* Pop takes the frame at the read position; nothing else starts before its end.
LEMMA PopPreserves ==
    ASSUME SorterInv, ~failed, Pop
    PROVE  SorterInv'
<1>1. PICK f \in queuedFrames : /\ f.Offset = readPosition
                               /\ readPosition' = readPosition + f.DataLen
                               /\ queuedFrames' = queuedFrames \ {f}
                               /\ gaps' = gaps /\ failed' = failed
    BY DEF Pop, Heads
<1>2. SorterType
    BY DEF SorterInv
<1>3. /\ \A h \in queuedFrames : /\ h.Offset \in Nat /\ h.DataLen \in Nat
                                  /\ EndOf(h) <= MaxOffset /\ EndOf(h) = h.Offset + h.DataLen
      /\ \A g \in gaps : g.Start \in Nat /\ g.End \in Nat /\ g.Start < g.End /\ g.End <= MaxByteCount
      /\ readPosition \in Nat /\ MaxOffset \in Nat /\ MaxByteCount \in Nat /\ MaxOffset < MaxByteCount
    BY <1>2, SorterNumbers
<1>4. /\ \A b \in 0 .. MaxByteCount - 1 :
            InGap(b) <=> ~(b < readPosition \/ \E h \in queuedFrames : b \in Bytes(h))
      /\ \A h, k \in queuedFrames : h # k => Bytes(h) \cap Bytes(k) = {}
      /\ \A h \in queuedFrames : h.DataLen > 0 => h.Offset >= readPosition
      /\ \A g, h \in gaps : g # h => g.End < h.Start \/ h.End < g.Start
    BY DEF SorterInv, BytesPartitioned
<1>5. \A h \in queuedFrames : \A b \in Int : b \in Bytes(h) <=> h.Offset <= b /\ b < h.Offset + h.DataLen
    BY <1>3 DEF Bytes
<1>6. SorterType'
    <2>1. readPosition' = EndOf(f) /\ EndOf(f) \in Offsets
        BY <1>1, <1>3 DEF Offsets
    <2> QED BY <1>1, <1>2, <2>1 DEF SorterType
<1>7. OneFramePerOffset'
    BY <1>1 DEF SorterInv, OneFramePerOffset
<1>8. GapEndsAreQueued'
    <2> SUFFICES ASSUME NEW g \in gaps, g.End # MaxByteCount
                 PROVE  \E h \in queuedFrames' : h.Offset = g.End /\ h.DataLen > 0
        BY <1>1 DEF GapEndsAreQueued
    <2>1. PICK h \in queuedFrames : h.Offset = g.End /\ h.DataLen > 0
        BY DEF SorterInv, GapEndsAreQueued
    <2>2. h # f
        <3> SUFFICES ASSUME g.End = readPosition PROVE FALSE
            BY <1>1, <2>1
        <3> DEFINE b == g.End - 1
        <3>1. b \in 0 .. MaxByteCount - 1 /\ g.Start <= b /\ b < g.End /\ b < readPosition
            BY <1>3
        <3>2. InGap(b)
            BY <3>1 DEF InGap
        <3> HIDE DEF b
        <3> QED BY <1>4, <3>1, <3>2
    <2> QED BY <1>1, <2>1, <2>2
<1>9. \A h \in queuedFrames' : h.DataLen > 0 => h.Offset >= readPosition'
    <2> SUFFICES ASSUME NEW h \in queuedFrames, h # f, h.DataLen > 0
                 PROVE  h.Offset >= readPosition + f.DataLen
        BY <1>1
    <2>1. h.Offset >= readPosition /\ h.Offset \in Bytes(h) /\ Bytes(h) \cap Bytes(f) = {}
        BY <1>3, <1>4, <1>5
    <2>2. ~(f.Offset <= h.Offset /\ h.Offset < f.Offset + f.DataLen)
        <3>1. h.Offset \notin Bytes(f) /\ h.Offset \in Int
            BY <1>3, <2>1
        <3> QED BY <1>5, <3>1
    <2> QED BY <1>1, <1>3, <2>1, <2>2
<1>10. \A b \in 0 .. MaxByteCount - 1 :
          InGap(b)' <=> ~(b < readPosition' \/ \E h \in queuedFrames' : b \in Bytes(h))
    <2> SUFFICES ASSUME NEW b \in 0 .. MaxByteCount - 1
                 PROVE  InGap(b) <=> ~(b < readPosition' \/ \E h \in queuedFrames' : b \in Bytes(h))
        BY <1>1 DEF InGap
    <2>1. b \in Int
        BY <1>3
    <2>2. b < readPosition' <=> b < readPosition \/ b \in Bytes(f)
        BY <1>1, <1>3, <1>5, <2>1
    <2> QED BY <1>1, <1>4, <2>2
<1>11. \A h, k \in queuedFrames' : h # k => Bytes(h) \cap Bytes(k) = {}
    BY <1>1, <1>4
<1>12. BytesPartitioned'
    BY <1>1, <1>4, <1>9, <1>10, <1>11 DEF BytesPartitioned, Bytes, EndOf
<1> QED BY <1>6, <1>7, <1>8, <1>12 DEF SorterInv

LEMMA SorterNext == SorterInv /\ [SorterStep]_sorterVars => SorterInv'
<1> SUFFICES ASSUME SorterInv, [SorterStep]_sorterVars PROVE SorterInv'
    OBVIOUS
<1>1. CASE UNCHANGED sorterVars
    BY <1>1 DEF sorterVars, SorterInv, SorterType, BytesPartitioned, GapEndsAreQueued,
                OneFramePerOffset, InGap
<1>2. ASSUME NEW sf \in StreamFrame, Received(sf) PROVE SorterInv'
    <2>1. ~failed /\ EndOf(sf) <= MaxOffset
        BY <1>2 DEF Received, Push
    <2>2. CASE PushDuplicate(sf)
        BY <1>1, <2>2 DEF PushDuplicate, sorterVars
    <2>3. CASE PushEmpty(sf)
        BY <2>1, <2>3, PushEmptyPreserves
    <2>4. CASE PushOverlapping(sf)
        <3>1. SorterType'
            BY <2>4 DEF PushOverlapping, SorterInv, SorterType
        <3> QED BY <2>4, <3>1, FailedIsFine DEF PushOverlapping, SorterInv
    <2>5. CASE PushData(sf)
        BY <2>1, <2>5, PushDataPreserves
    <2> QED BY <1>2, <2>2, <2>3, <2>4, <2>5 DEF Received, Push
<1>3. CASE ~failed /\ Pop
    BY <1>3, PopPreserves
<1> QED BY <1>1, <1>2, <1>3 DEF SorterStep

\* The inductive invariant of the sorter.
THEOREM SorterInvariant == SorterSpec => []SorterInv
BY SorterInit, SorterNext, PTL DEF SorterSpec

\* The fields keep their types.
THEOREM SorterTypeOK == SorterSpec => []SorterType
<1>1. SorterInv => SorterType
    BY DEF SorterInv
<1> QED BY <1>1, SorterInvariant, PTL

\* No byte is lost or duplicated, whatever frames arrive in whatever order.
THEOREM SorterPartitionsBytes == SorterSpec => []BytesPartitioned
<1>1. SorterInv => BytesPartitioned
    BY DEF SorterInv
<1> QED BY <1>1, SorterInvariant, PTL

\* Where a gap ends a queued frame starts, so that the walk never queues a
\* frame without a gap for it.
THEOREM SorterGapEnds == SorterSpec => []GapEndsAreQueued
<1>1. SorterInv => GapEndsAreQueued
    BY DEF SorterInv
<1> QED BY <1>1, SorterInvariant, PTL

\* Received data at the read position is always found by Head.
THEOREM SorterNeverStuck == SorterSpec => []NextByteIsReadable
<1>1. SorterInv => NextByteIsReadable
    <2> SUFFICES ASSUME SorterInv, ~failed PROVE NextByteIsReadable
        BY DEF NextByteIsReadable
    <2>1. \A f, h \in Heads : f = h
        BY DEF SorterInv, OneFramePerOffset, Heads
    <2>2. ASSUME ~InGap(readPosition) PROVE Heads # {}
        <3>1. SorterType
            BY DEF SorterInv
        <3>2. readPosition \in 0 .. MaxByteCount - 1 /\ readPosition \in Nat
            BY <3>1, SorterNumbers
        <3>3. PICK f \in queuedFrames : readPosition \in Bytes(f)
            BY <2>2, <3>2 DEF SorterInv, BytesPartitioned
        <3>4. f.Offset \in Nat /\ f.DataLen \in Nat
            BY <3>1, SorterNumbers
        <3>5. f.Offset <= readPosition /\ f.DataLen > 0
            BY <3>2, <3>3, <3>4 DEF Bytes, EndOf
        <3>6. f.Offset >= readPosition
            BY <3>5 DEF SorterInv, BytesPartitioned
        <3> QED BY <3>2, <3>4, <3>5, <3>6 DEF Heads
    <2> QED BY <2>1, <2>2 DEF NextByteIsReadable
<1> QED BY <1>1, SorterInvariant, PTL

-----------------------------------------------------------------------------
(* The reader *)

\* Between two frames the reader is at the read position, and within a frame
\* that frame is the head of the queue.
BetweenSteps ==
    \/ readOffset = readPosition
    \/ \E f \in Heads : f.Offset <= readOffset /\ readOffset < EndOf(f)

\* The frame Read holds outside the mutex is the head of the queue.
InFrame(f) ==
    /\ frame = Heads /\ f \in frame
    /\ readPosInFrame = readOffset - f.Offset
    /\ f.Offset <= readOffset /\ readOffset <= EndOf(f)

ReaderType ==
    /\ reader \in {"idle", "loop", "wait", "have", "pop"}
    /\ lenP \in Nat /\ bytesRead \in Nat /\ bytesRead <= lenP
    /\ reader \in {"loop", "wait", "have"} => bytesRead < lenP
    /\ readPosInFrame \in Int /\ readOffset \in Int /\ frame \subseteq StreamFrame
    /\ err \in BOOLEAN /\ eof \in BOOLEAN /\ bugError \in BOOLEAN

ReaderAt ==
    /\ readOffset \in Nat
    /\ delivered = [i \in 1 .. readOffset |-> i - 1]
    /\ reader \in {"idle", "loop", "wait"} /\ ~eof => BetweenSteps
    /\ reader = "have" => \E f \in Heads : InFrame(f)
    /\ reader = "pop" => \E f \in Heads : InFrame(f) /\ readOffset = EndOf(f)
    /\ eof => reader = "idle" /\ \E f \in frame : f.FinBit /\ readOffset = EndOf(f)
    /\ ~bugError

ReaderInv == SorterInv /\ ReaderType /\ (~err => ReaderAt)

\* Pop also keeps the sorter's invariant after an error of Push, which closes
\* the session while a Read may be under way.
LEMMA PopKeeps == SorterInv /\ Pop => SorterInv'
<1> SUFFICES ASSUME SorterInv, Pop, failed PROVE SorterInv'
    BY PopPreserves
<1>1. PICK f \in queuedFrames : /\ f.Offset = readPosition
                               /\ readPosition' = readPosition + f.DataLen
                               /\ queuedFrames' = queuedFrames \ {f}
                               /\ gaps' = gaps /\ failed' = failed
    BY DEF Pop, Heads
<1>2. SorterType
    BY DEF SorterInv
<1>3. SorterType'
    <2>1. /\ EndOf(f) <= MaxOffset /\ EndOf(f) = f.Offset + f.DataLen
          /\ f.Offset \in Nat /\ f.DataLen \in Nat /\ MaxOffset \in Nat
        BY <1>2, SorterNumbers
    <2>2. readPosition' \in Offsets
        BY <1>1, <2>1 DEF Offsets
    <2> QED BY <1>1, <1>2, <2>2 DEF SorterType
<1>4. OneFramePerOffset'
    BY <1>1 DEF SorterInv, OneFramePerOffset
<1> QED BY <1>1, <1>3, <1>4 DEF SorterInv, BytesPartitioned, GapEndsAreQueued

\* A frame that arrives never replaces the head of the queue.
LEMMA HeadsStay ==
    ASSUME NEW sf \in StreamFrame, Received(sf)
    PROVE  /\ readPosition' = readPosition
           /\ Heads # {} => Heads' = Heads
<1>1. readPosition' = readPosition
    BY DEF Received, Push, PushDuplicate, PushEmpty, PushOverlapping, PushData
<1>2. queuedFrames' = queuedFrames \/ (queuedFrames' = queuedFrames \cup {sf} /\ ~IsQueued(sf))
    BY DEF Received, Push, PushDuplicate, PushEmpty, PushOverlapping, PushData
<1> QED BY <1>1, <1>2 DEF Heads, IsQueued

\* The sorter's part of every step of the stream.
LEMMA ReaderKeepsSorter == SorterInv /\ [Next]_vars => SorterInv'
<1> SUFFICES ASSUME SorterInv, [Next]_vars PROVE SorterInv'
    OBVIOUS
<1>1. CASE UNCHANGED sorterVars
    BY <1>1, SorterNext
<1>2. ASSUME NEW sf \in PeerFrames, Received(sf) PROVE SorterInv'
    BY <1>2, SorterNext, ReceiveAssumption DEF SorterStep
<1>3. CASE Pop
    BY <1>3, PopKeeps
<1> QED BY <1>1, <1>2, <1>3 DEF Next, vars, frameQueue, ReadCall, Reading, ReadLoop, Look, ReadWakes, ReadFails,
           ReadCopies, ReadPops, AddStreamFrame, RegisterError

LEMMA ReaderInit == Init => ReaderInv
<1> SUFFICES ASSUME Init PROVE ReaderInv
    OBVIOUS
<1>1. SorterInv
    BY SorterInit DEF Init
<1>2. ReaderType
    <2>1. err \in BOOLEAN /\ eof \in BOOLEAN /\ bugError \in BOOLEAN
        BY Zenon DEF Init
    <2> QED BY <2>1 DEF Init, ReaderType
<1>3. ReaderAt
    <2>1. delivered = [i \in 1 .. readOffset |-> i - 1]
        BY DEF Init
    <2> QED BY <2>1 DEF Init, ReaderAt, BetweenSteps, newStreamFrameSorter
<1> QED BY <1>1, <1>2, <1>3 DEF ReaderInv

\* A step that leaves the queue and the reader's own variables alone.
LEMMA ReaderAtStays ==
    ASSUME ReaderInv, ~err, readPosition' = readPosition, Heads # {} => Heads' = Heads,
           UNCHANGED <<readerVars, reader>>
    PROVE  ReaderAt'
<1>1. ReaderAt /\ UNCHANGED <<readPosInFrame, readOffset, eof, lenP, bytesRead, frame, delivered, bugError, reader>>
    BY DEF ReaderInv, readerVars
<1>2. ASSUME NEW f \in Heads PROVE /\ f \in Heads' /\ Heads' = Heads
                                   /\ InFrame(f) => InFrame(f)'
    BY <1>1 DEF InFrame
<1>3. BetweenSteps => BetweenSteps'
    BY <1>1, <1>2 DEF BetweenSteps
<1>4. (\E f \in Heads : InFrame(f)) => (\E f \in Heads : InFrame(f))'
    BY <1>2
<1>5. (\E f \in Heads : InFrame(f) /\ readOffset = EndOf(f))
          => (\E f \in Heads : InFrame(f) /\ readOffset = EndOf(f))'
    BY <1>1, <1>2
<1> QED BY <1>1, <1>3, <1>4, <1>5 DEF ReaderAt

LEMMA SessionKeepsReader ==
    ASSUME ReaderInv, (\E f \in PeerFrames : AddStreamFrame(f)) \/ RegisterError
    PROVE  ReaderType' /\ (~err' => ReaderAt')
<1>1. CASE \E f \in PeerFrames : AddStreamFrame(f)
    <2>1. PICK f \in PeerFrames : AddStreamFrame(f)
        BY <1>1
    <2>2. Received(f) /\ UNCHANGED <<readerVars, err, reader>>
        BY <2>1 DEF AddStreamFrame
    <2>3. readPosition' = readPosition /\ (Heads # {} => Heads' = Heads)
        BY <2>2, HeadsStay, ReceiveAssumption
    <2>4. ReaderType'
        BY <2>2 DEF ReaderInv, ReaderType, readerVars
    <2>5. ~err => ReaderAt'
        BY <2>2, <2>3, ReaderAtStays
    <2> QED BY <2>2, <2>4, <2>5
<1>2. CASE RegisterError
    <2>1. err' /\ err' \in BOOLEAN /\ UNCHANGED <<readerVars, reader>>
        BY <1>2, Zenon DEF RegisterError
    <2> QED BY <2>1 DEF ReaderInv, ReaderType, readerVars
<1> QED BY <1>1, <1>2

\* What Read delivers next continues what it has delivered.
LEMMA DeliveredContinues ==
    ASSUME NEW n \in Nat, NEW m \in Nat, NEW s, NEW t,
           s = [i \in 1 .. n |-> i - 1], t = [i \in 1 .. m |-> n + i - 1]
    PROVE  s \o t = [i \in 1 .. n + m |-> i - 1]
<1>1. s \in Seq(Int) /\ Len(s) = n /\ t \in Seq(Int) /\ Len(t) = m
    OBVIOUS
<1>2. s \o t \in Seq(Int) /\ Len(s \o t) = n + m
    BY <1>1
<1>3. ASSUME NEW i \in 1 .. n + m PROVE (s \o t)[i] = i - 1
    <2>1. (s \o t)[i] = IF i <= n THEN s[i] ELSE t[i - n]
        BY <1>1
    <2> QED BY <2>1
<1> QED BY <1>2, <1>3

LEMMA ReadCallKeeps ==
    ASSUME ReaderInv, NEW n \in ReadSizes, ReadCall(n)
    PROVE  ReaderType' /\ (~err' => ReaderAt')
<1>1. n \in Nat /\ 0 < n
    BY ReceiveAssumption
<1>2. /\ reader = "idle" /\ ~eof /\ reader' = "loop" /\ lenP' = n /\ bytesRead' = 0
      /\ UNCHANGED <<readPosInFrame, readOffset, eof, frame, delivered, bugError, err>>
      /\ UNCHANGED <<queuedFrames, readPosition>>
    BY DEF ReadCall, frameQueue, sorterVars
<1>3. ReaderType'
    BY <1>1, <1>2 DEF ReaderInv, ReaderType
<1>4. BetweenSteps => BetweenSteps'
    BY <1>2 DEF BetweenSteps, Heads
<1> QED BY <1>2, <1>3, <1>4 DEF ReaderInv, ReaderAt

LEMMA LookKeeps ==
    ASSUME ReaderInv, reader \in {"loop", "wait"}, Look
    PROVE  ReaderType' /\ (~err' => ReaderAt')
<1>1. /\ UNCHANGED <<readOffset, eof, lenP, bytesRead, delivered, bugError, err>>
      /\ UNCHANGED <<queuedFrames, readPosition>> /\ Heads' = Heads
    BY DEF Look, frameQueue, sorterVars, Heads
<1>2. reader' \in {"have", "wait"} /\ frame' \subseteq Heads
      /\ (readPosInFrame' = readPosInFrame \/ \E f \in Heads : readPosInFrame' = PosInFrame(f))
    BY DEF Look
<1>3. ReaderType'
    <2>1. Heads \subseteq StreamFrame /\ \A f \in Heads : f.Offset \in Nat
        BY SorterNumbers DEF ReaderInv, SorterInv, SorterType, Heads
    <2> QED BY <1>1, <1>2, <2>1 DEF ReaderInv, ReaderType, PosInFrame
<1>4. ASSUME ~err PROVE ReaderAt'
    <2>1. ReaderAt /\ BetweenSteps /\ ~eof
        BY <1>4 DEF ReaderInv, ReaderAt
    <2>2. CASE Heads = {}
        <3>1. reader' = "wait"
            BY <1>4, <2>2 DEF Look
        <3>2. BetweenSteps'
            BY <1>1, <2>1 DEF BetweenSteps
        <3> QED BY <1>1, <2>1, <3>1, <3>2 DEF ReaderAt
    <2>3. CASE Heads # {}
        <3>1. PICK f \in Heads : readPosInFrame' = PosInFrame(f) /\ reader' = "have" /\ frame' = Heads
            BY <1>4, <2>3 DEF Look
        <3>2. \A h \in Heads : h = f
            BY DEF ReaderInv, SorterInv, OneFramePerOffset, Heads
        <3>3. f.Offset = readPosition /\ f.DataLen \in Nat /\ f.Offset \in Nat /\ EndOf(f) = f.Offset + f.DataLen
            BY SorterNumbers DEF ReaderInv, SorterInv, Heads
        <3>4. f.Offset <= readOffset /\ readOffset <= EndOf(f)
            BY <2>1, <3>2, <3>3 DEF BetweenSteps, ReaderAt
        <3>5. InFrame(f)'
            BY <1>1, <3>1, <3>4 DEF InFrame, PosInFrame
        <3> QED BY <1>1, <2>1, <3>1, <3>5 DEF ReaderAt
    <2> QED BY <2>2, <2>3
<1> QED BY <1>1, <1>3, <1>4

LEMMA ReadFailsKeeps ==
    ASSUME ReaderInv, ReadFails
    PROVE  ReaderType' /\ (~err' => ReaderAt')
<1>1. /\ reader = "have" /\ frame = {} /\ eof' /\ eof' \in BOOLEAN /\ reader' = "idle"
      /\ UNCHANGED <<lenP, bytesRead, bugError, err, readPosInFrame, readOffset, frame>>
    BY Zenon DEF ReadFails
<1>2. err
    BY <1>1 DEF ReaderInv, ReaderAt, InFrame
<1>3. ReaderType'
    BY <1>1 DEF ReaderInv, ReaderType
<1> QED BY <1>1, <1>2, <1>3

LEMMA ReadCopiesKeeps ==
    ASSUME ReaderInv, ReadCopies
    PROVE  ReaderType' /\ (~err' => ReaderAt')
<1>1. PICK f \in frame :
        LET m == CopyLen(f)
        IN  IF readPosInFrame > f.DataLen
            THEN /\ bugError' = TRUE
                 /\ reader' = "idle"
                 /\ UNCHANGED <<readPosInFrame, bytesRead, readOffset, delivered>>
            ELSE /\ delivered' = delivered \o [i \in 1 .. m |-> f.Offset + readPosInFrame + i - 1]
                 /\ readPosInFrame' = readPosInFrame + m
                 /\ bytesRead' = bytesRead + m
                 /\ readOffset' = readOffset + m
                 /\ reader' = IF readPosInFrame' >= f.DataLen THEN "pop" ELSE After(bytesRead')
                 /\ UNCHANGED bugError
    BY Zenon DEF ReadCopies
<1>2. /\ reader = "have"
      /\ UNCHANGED <<queuedFrames, readPosition, eof, lenP, frame, err>> /\ Heads' = Heads
    BY DEF ReadCopies, frameQueue, sorterVars, Heads
<1>3. /\ f.Offset \in Nat /\ f.DataLen \in Nat /\ EndOf(f) = f.Offset + f.DataLen
      /\ lenP \in Nat /\ bytesRead \in Nat /\ bytesRead < lenP
      /\ readPosInFrame \in Int /\ readOffset \in Int /\ eof \in BOOLEAN /\ err \in BOOLEAN
    BY <1>2, SorterAssumption DEF ReaderInv, ReaderType, StreamFrame, Offsets, EndOf
<1>4. CASE readPosInFrame > f.DataLen
    <2>1. bugError' /\ bugError' \in BOOLEAN /\ reader' = "idle"
          /\ UNCHANGED <<readPosInFrame, bytesRead, readOffset>>
        BY <1>1, <1>4, Zenon
    <2>2. ReaderType'
        BY <1>2, <1>3, <2>1 DEF ReaderInv, ReaderType
    <2>3. ASSUME ~err PROVE FALSE
        <3>1. PICK h \in Heads : InFrame(h)
            BY <1>2, <2>3 DEF ReaderInv, ReaderAt
        <3>2. h = f
            BY <3>1 DEF InFrame, ReaderInv, SorterInv, OneFramePerOffset, Heads
        <3> QED BY <1>3, <1>4, <3>1, <3>2 DEF InFrame
    <2> QED BY <1>2, <2>2, <2>3
<1>5. CASE ~(readPosInFrame > f.DataLen)
    <2> DEFINE m == CopyLen(f)
    <2>1. m \in Nat /\ m <= lenP - bytesRead /\ m <= f.DataLen - readPosInFrame
        <3>1. \E x \in {lenP - bytesRead, f.DataLen - readPosInFrame} :
                 \A y \in {lenP - bytesRead, f.DataLen - readPosInFrame} : x <= y
            BY <1>3
        <3> QED BY <1>3, <1>5, <3>1 DEF CopyLen, Min
    <2>2. /\ delivered' = delivered \o [i \in 1 .. m |-> f.Offset + readPosInFrame + i - 1]
          /\ readPosInFrame' = readPosInFrame + m
          /\ bytesRead' = bytesRead + m
          /\ readOffset' = readOffset + m
          /\ reader' = IF readPosInFrame' >= f.DataLen THEN "pop" ELSE After(bytesRead')
          /\ bugError' = bugError
        BY <1>1, <1>5, Zenon
    <2> HIDE DEF m
    <2>3. /\ reader' \in {"pop", "loop", "idle"}
          /\ reader' = "loop" => bytesRead' < lenP
          /\ reader' = "pop" <=> readPosInFrame' >= f.DataLen
        BY <2>2 DEF After
    <2>4. ReaderType'
        BY <1>2, <1>3, <2>1, <2>2, <2>3 DEF ReaderInv, ReaderType
    <2>5. ASSUME ~err PROVE ReaderAt'
        <3>1. PICK h \in Heads : InFrame(h)
            BY <1>2, <2>5 DEF ReaderInv, ReaderAt
        <3>2. h = f
            BY <3>1 DEF InFrame, ReaderInv, SorterInv, OneFramePerOffset, Heads
        <3>3. /\ frame = Heads /\ f \in Heads /\ readPosInFrame = readOffset - f.Offset
              /\ f.Offset <= readOffset /\ readOffset <= EndOf(f) /\ readOffset \in Nat
              /\ delivered = [i \in 1 .. readOffset |-> i - 1] /\ ~eof /\ ~bugError
            BY <1>2, <2>5, <3>1, <3>2 DEF InFrame, ReaderInv, ReaderAt
        <3>4. delivered' = [i \in 1 .. readOffset' |-> i - 1]
            <4>1. f.Offset + readPosInFrame = readOffset
                BY <1>3, <3>3
            <4>2. [i \in 1 .. m |-> f.Offset + readPosInFrame + i - 1] = [i \in 1 .. m |-> readOffset + i - 1]
                BY <4>1
            <4> DEFINE t == [i \in 1 .. m |-> readOffset + i - 1]
            <4>3. delivered' = delivered \o t /\ readOffset' = readOffset + m
                BY <2>2, <4>2, Zenon
            <4>4. delivered \o t = [i \in 1 .. readOffset + m |-> i - 1]
                <5>1. t = [i \in 1 .. m |-> readOffset + i - 1]
                    OBVIOUS
                <5> HIDE DEF t
                <5> QED BY <2>1, <3>3, <5>1, DeliveredContinues
            <4> QED BY <4>3, <4>4, Zenon
        <3>5. InFrame(f)'
            BY <1>2, <1>3, <2>1, <2>2, <3>3 DEF InFrame
        <3>6. reader' = "pop" => readOffset' = EndOf(f)
            BY <1>3, <2>1, <2>2, <2>3, <3>3
        <3>7. reader' # "pop" => BetweenSteps'
            <4>1. reader' # "pop" => readOffset' < EndOf(f)
                BY <1>3, <2>1, <2>2, <2>3, <3>3
            <4> QED BY <1>2, <1>3, <2>1, <2>2, <3>3, <4>1 DEF BetweenSteps
        <3>8. readOffset' \in Nat
            BY <2>1, <2>2, <3>3
        <3> QED BY <1>2, <2>2, <2>3, <3>3, <3>4, <3>5, <3>6, <3>7, <3>8, Zenon DEF ReaderAt
    <2> QED BY <1>2, <2>4, <2>5
<1> QED BY <1>4, <1>5

LEMMA ReadPopsKeeps ==
    ASSUME ReaderInv, ReadPops
    PROVE  ReaderType' /\ (~err' => ReaderAt')
<1>1. PICK f \in frame : /\ eof' = (eof \/ f.FinBit)
                         /\ reader' = IF f.FinBit THEN "idle" ELSE After(bytesRead)
    BY DEF ReadPops
<1>2. /\ reader = "pop" /\ (Heads # {} => Pop)
      /\ UNCHANGED <<readPosInFrame, readOffset, lenP, bytesRead, frame, delivered, bugError, err>>
    BY DEF ReadPops
<1>3. f.FinBit \in BOOLEAN /\ eof' \in BOOLEAN
    BY <1>1, Zenon DEF ReaderInv, ReaderType, StreamFrame
<1>4. ReaderType'
    BY <1>1, <1>2, <1>3 DEF ReaderInv, ReaderType, After
<1>5. ASSUME ~err PROVE ReaderAt'
    <2>1. PICK h \in Heads : InFrame(h) /\ readOffset = EndOf(h)
        BY <1>2, <1>5 DEF ReaderInv, ReaderAt
    <2>2. h = f /\ \A g \in Heads : g = f
        BY <2>1 DEF InFrame, ReaderInv, SorterInv, OneFramePerOffset, Heads
    <2>3. /\ f \in Heads /\ readOffset = EndOf(f) /\ readOffset \in Nat /\ ~eof /\ ~bugError
          /\ delivered = [i \in 1 .. readOffset |-> i - 1]
        BY <1>2, <1>5, <2>1, <2>2 DEF ReaderInv, ReaderAt
    <2>4. readPosition' = readPosition + f.DataLen
        BY <1>2, <2>2, <2>3 DEF Pop
    <2>5. readOffset = readPosition'
        BY <2>3, <2>4 DEF EndOf, Heads
    <2>6. BetweenSteps'
        BY <1>2, <2>5 DEF BetweenSteps
    <2>7. eof' => f.FinBit /\ reader' = "idle"
        BY <1>1, <2>3, Zenon
    <2>8. reader' \in {"idle", "loop"}
        BY <1>1 DEF After
    <2> QED BY <1>1, <1>2, <2>3, <2>6, <2>7, <2>8 DEF ReaderAt
<1> QED BY <1>2, <1>4, <1>5

LEMMA ReaderNext == ReaderInv /\ [Next]_vars => ReaderInv'
<1> SUFFICES ASSUME ReaderInv, [Next]_vars PROVE ReaderType' /\ (~err' => ReaderAt')
    BY ReaderKeepsSorter DEF ReaderInv
<1>1. CASE UNCHANGED <<queuedFrames, readPosition, readerVars, err, reader>>
    <2>1. Heads' = Heads
        BY <1>1 DEF Heads
    <2>2. ~err => ReaderAt'
        BY <1>1, <2>1, ReaderAtStays
    <2> QED BY <1>1, <2>2 DEF ReaderInv, ReaderType, readerVars
<1>2. CASE ReadLoop
    <2>1. CASE Heads = {} /\ bytesRead > 0
        <3>1. reader = "loop" /\ reader' = "idle" /\ UNCHANGED <<frameQueue, readerVars, err>>
            BY <1>2, <2>1 DEF ReadLoop
        <3>2. /\ UNCHANGED <<readPosInFrame, readOffset, eof, lenP, bytesRead, frame, delivered, bugError>>
              /\ UNCHANGED <<queuedFrames, readPosition>> /\ Heads' = Heads
            BY <3>1 DEF frameQueue, sorterVars, readerVars, Heads
        <3>3. BetweenSteps => BetweenSteps'
            BY <3>2 DEF BetweenSteps
        <3> QED BY <3>1, <3>2, <3>3 DEF ReaderInv, ReaderType, ReaderAt
    <2>2. CASE ~(Heads = {} /\ bytesRead > 0)
        BY <1>2, <2>2, LookKeeps DEF ReadLoop
    <2> QED BY <2>1, <2>2
<1>3. CASE ReadWakes
    BY <1>3, LookKeeps DEF ReadWakes
<1>4. CASE UNCHANGED vars
    BY <1>1, <1>4 DEF vars, frameQueue, sorterVars
<1> QED BY <1>2, <1>3, <1>4, SessionKeepsReader, ReadCallKeeps, ReadFailsKeeps, ReadCopiesKeeps, ReadPopsKeeps
       DEF Next, Reading

\* The inductive invariant of the reader and the sorter.
THEOREM ReaderInvariant == Spec => []ReaderInv
BY ReaderInit, ReaderNext, PTL DEF Spec

\* The application gets the bytes of the stream in order, each once, and the
\* end of the stream after the last of them, however frames arrive between the
\* steps of Read.
THEOREM ReadDeliversInOrder == Spec => []DeliveredInOrder
<1>1. ReaderInv => DeliveredInOrder
    <2> SUFFICES ASSUME ReaderInv, ~err PROVE DeliveredInOrder
        BY DEF DeliveredInOrder
    <2>1. ReaderAt
        BY DEF ReaderInv
    <2>2. reader \in {"have", "pop"} => frame = Heads
        BY <2>1 DEF ReaderAt, InFrame
    <2> QED BY <2>1, <2>2 DEF DeliveredInOrder, ReaderAt
<1> QED BY <1>1, ReaderInvariant, PTL

\* Until an error is registered Read never takes one of its "BUG:" returns: its
\* position never leaves the frame, nor the application's buffer.
THEOREM ReadHasNoBugs == Spec => [](bytesRead <= lenP /\ (~err => ~bugError))
<1>1. ReaderInv => bytesRead <= lenP /\ (~err => ~bugError)
    BY DEF ReaderInv, ReaderType, ReaderAt
<1> QED BY <1>1, ReaderInvariant, PTL

\* With a reader that pops outside of the session's steps the sorter still
\* loses and duplicates no byte.
THEOREM ReaderPartitionsBytes == Spec => []BytesPartitioned
<1>1. ReaderInv => BytesPartitioned
    BY DEF ReaderInv, SorterInv
<1> QED BY <1>1, ReaderInvariant, PTL

-----------------------------------------------------------------------------
(* A pass of Iterate over openStreams *)

\* g gives the states of a pass after its first 0, ..., m entries.
Follows(g, m) ==
    g = [k \in 0 .. m |-> IF k = 0 THEN {PassStart} ELSE {PassStep(pass, k) : pass \in g[k - 1]}]

LEMMA PassesExist == \A m \in Nat : \E g : Follows(g, m)
<1> DEFINE Good == {m \in Nat : \E g : Follows(g, m)}
<1>1. 0 \in Good
    <2> DEFINE g == [k \in 0 .. 0 |-> {PassStart}]
    <2>1. g = [k \in 0 .. 0 |-> IF k = 0 THEN {PassStart} ELSE {PassStep(pass, k) : pass \in g[k - 1]}]
        OBVIOUS
    <2>2. Follows(g, 0)
        BY <2>1, Zenon DEF Follows
    <2> QED BY <2>2
<1>2. ASSUME NEW m \in Nat, m \in Good PROVE m + 1 \in Good
    <2>1. PICK g : Follows(g, m)
        BY <1>2
    <2> DEFINE step(f, k) == IF k = 0 THEN {PassStart} ELSE {PassStep(pass, k) : pass \in f[k - 1]}
               h == [k \in 0 .. (m + 1) |-> IF k = m + 1 THEN step(g, m + 1) ELSE g[k]]
    <2>2. \A k \in 0 .. m : g[k] = step(g, k)
        BY <2>1, Zenon DEF Follows
    <2>3. \A k \in 0 .. m : h[k] = g[k]
        OBVIOUS
    <2>4. ASSUME NEW k \in 0 .. (m + 1) PROVE h[k] = step(h, k)
        <3>1. CASE k = 0
            <4>1. 0 \in 0 .. m
                OBVIOUS
            <4> QED BY <2>2, <2>3, <3>1, <4>1, Zenon
        <3>2. CASE k # 0
            <4>1. k - 1 \in 0 .. m /\ k \in Int
                BY <3>2
            <4>2. h[k - 1] = g[k - 1]
                BY <2>3, <4>1
            <4>3. step(h, k) = step(g, k)
                <5> HIDE DEF h
                <5> QED BY <4>2
            <4>4. h[k] = step(g, k)
                <5>1. CASE k = m + 1
                    BY <5>1
                <5>2. CASE k # m + 1
                    <6>1. k \in 0 .. m
                        BY <5>2
                    <6> QED BY <2>2, <2>3, <6>1, Zenon
                <5> QED BY <5>1, <5>2
            <4> QED BY <4>3, <4>4
        <3> QED BY <3>1, <3>2
    <2>5. h = [k \in 0 .. (m + 1) |-> step(h, k)]
        <3>1. h = [k \in 0 .. (m + 1) |-> h[k]]
            OBVIOUS
        <3> HIDE DEF h, step
        <3> QED BY <2>4, <3>1
    <2>6. Follows(h, m + 1)
        BY <2>5, Zenon DEF Follows
    <2> QED BY <2>6
<1> HIDE DEF Good
<1>3. \A m \in Nat : m \in Good
    BY <1>1, <1>2, NatSetInduction
<1> QED BY <1>3 DEF Good

\* The recursion of Passes.
LEMMA PassesUnfold ==
    ASSUME Len(openStreams) \in Nat
    PROVE  /\ Passes[0] = {PassStart}
           /\ \A k \in 1 .. Len(openStreams) : Passes[k] = {PassStep(pass, k) : pass \in Passes[k - 1]}
<1> DEFINE n == Len(openStreams)
<1>1. \E g : Follows(g, n)
    BY PassesExist
<1>2. Follows(Passes, n)
    BY <1>1, Zenon DEF Follows, Passes
<1>3. Passes = [k \in 0 .. n |-> IF k = 0 THEN {PassStart} ELSE {PassStep(pass, k) : pass \in Passes[k - 1]}]
    BY <1>2, Zenon DEF Follows
<1> HIDE DEF n
<1>4. n \in Nat
    BY DEF n
<1>5. \A k \in 0 .. n : Passes[k] = IF k = 0 THEN {PassStart} ELSE {PassStep(pass, k) : pass \in Passes[k - 1]}
    BY <1>3, Zenon
<1>6. 0 \in 0 .. n /\ \A k \in 1 .. n : k \in 0 .. n /\ k # 0
    BY <1>4
<1>7. Passes[0] = {PassStart}
    BY <1>5, <1>6, Zenon
<1>8. ASSUME NEW k \in 1 .. n PROVE Passes[k] = {PassStep(pass, k) : pass \in Passes[k - 1]}
    <2>1. k \in 0 .. n /\ k # 0
        BY <1>6
    <2> QED BY <1>5, <2>1, Zenon
<1> QED BY <1>7, <1>8 DEF n

\* The streams, and the slice of the open ones.
SliceInv ==
    /\ streams \in [StreamIDs -> {"absent", "open", "nil"}]
    /\ openStreams \in Seq(StreamIDs)
    /\ \A i, j \in 1 .. Len(openStreams) : openStreams[i] = openStreams[j] => i = j
    /\ IsFiniteSet(OpenIDs)
    /\ BookkeepingExact

State(array, len, index, removed, stop) ==
    [array |-> array, len |-> len, index |-> index, removed |-> removed, stop |-> stop]

States(I) ==
    [array : [1 .. Len(openStreams) -> OpenIDs], len : 0 .. Len(openStreams), index : I,
     removed : SUBSET finished, stop : BOOLEAN]

\* In the middle of a pass, the first len entries of the array are the streams
\* that are still open, each once; behind them there are only open streams or
\* streams removed by this pass.
PassInv(pass) ==
    /\ pass \in States({pass.index})
    /\ \A i, j \in 1 .. pass.len : pass.array[i] = pass.array[j] => i = j
    /\ \A id \in OpenIDs \ pass.removed : \E i \in 1 .. pass.len : pass.array[i] = id
    /\ \A i \in 1 .. pass.len : pass.array[i] \notin pass.removed
    /\ pass.len + Cardinality(pass.removed) = Len(openStreams)

Updated(pass, array, len, index, removed) ==
    [pass EXCEPT !.array = array, !.len = len, !.index = index, !.removed = removed]
Stopped(pass) == [pass EXCEPT !.stop = TRUE]

LEMMA PassStarts ==
    ASSUME SliceInv
    PROVE  PassInv(PassStart)
<1> DEFINE n == Len(openStreams)
<1>1. n \in Nat /\ openStreams \in [1 .. n -> StreamIDs] /\ Range(openStreams) = OpenIDs
    BY DEF SliceInv, BookkeepingExact
<1>2. openStreams \in [1 .. n -> OpenIDs] /\ \A id \in OpenIDs : \E i \in 1 .. n : openStreams[i] = id
    BY <1>1 DEF Range
<1>3. Cardinality({}) = 0
    BY FS_EmptySet
<1>4. /\ PassStart.array = openStreams /\ PassStart.len = n /\ PassStart.removed = {}
      /\ PassStart \in States({PassStart.index})
    BY <1>1, <1>2 DEF States, PassStart
<1>5. \A i, j \in 1 .. n : openStreams[i] = openStreams[j] => i = j
    BY DEF SliceInv
<1>6. n + 0 = n
    BY <1>1
<1> HIDE DEF n
<1> QED BY <1>2, <1>3, <1>4, <1>5, <1>6 DEF PassInv, n

\* What RemoveStream does to the array: the entry of id is gone, the others are
\* where they were or one further to the front.
LEMMA RemoveStreamKeepsPass ==
    ASSUME SliceInv, NEW pass, PassInv(pass), NEW id \in finished, id \notin pass.removed
    PROVE  PassInv(RemoveStream(pass, id))
<1> DEFINE n == Len(openStreams)
           a == pass.array
           l == pass.len
           i == CHOOSE j \in 1 .. l : a[j] = id
           b == Shifted(pass, i)
           r == pass.removed \cup {id}
           next == RemoveStream(pass, id)
<1>1. /\ n \in Nat /\ l \in 0 .. n /\ a \in [1 .. n -> OpenIDs] /\ id \in OpenIDs
      /\ \A j, k \in 1 .. l : a[j] = a[k] => j = k
    BY DEF PassInv, States, SliceInv, BookkeepingExact
<1>2. i \in 1 .. l /\ a[i] = id
    <2>1. \E j \in 1 .. l : a[j] = id
        BY <1>1 DEF PassInv
    <2> QED BY <2>1
<1>3. b = [j \in 1 .. n |-> IF j >= i /\ j < l THEN a[j + 1] ELSE a[j]]
    BY <1>1 DEF Shifted
<1> HIDE DEF i, b, r, a, l
<1>4. b \in [1 .. n -> OpenIDs]
    BY <1>1, <1>2, <1>3
<1>5. \A j \in 1 .. (l - 1) : b[j] = IF j >= i THEN a[j + 1] ELSE a[j]
    BY <1>1, <1>3
<1>6. \A j, k \in 1 .. (l - 1) : b[j] = b[k] => j = k
    BY <1>1, <1>2, <1>5
<1>7. \A x \in OpenIDs \ r : \E j \in 1 .. (l - 1) : b[j] = x
    <2> SUFFICES ASSUME NEW x \in OpenIDs, x \notin r PROVE \E j \in 1 .. (l - 1) : b[j] = x
        OBVIOUS
    <2>1. x \notin pass.removed /\ x # id
        BY DEF r
    <2>2. PICK j \in 1 .. l : a[j] = x
        BY <2>1 DEF PassInv, a, l
    <2>3. CASE j < i
        BY <1>1, <1>2, <1>5, <2>2, <2>3
    <2>4. CASE j > i
        <3>1. j - 1 \in 1 .. (l - 1) /\ j - 1 >= i /\ (j - 1) + 1 = j
            BY <1>1, <1>2, <2>4
        <3> QED BY <1>5, <2>2, <3>1
    <2> QED BY <1>1, <1>2, <2>1, <2>2, <2>3, <2>4
<1>8. \A j \in 1 .. (l - 1) : b[j] \notin r
    <2>1. \A j \in 1 .. l : a[j] \notin pass.removed /\ (a[j] = id => j = i)
        BY <1>1, <1>2 DEF PassInv, a, l
    <2> QED BY <1>1, <1>2, <1>5, <2>1 DEF r
<1>9. r \subseteq finished /\ (l - 1) + Cardinality(r) = n /\ l - 1 \in 0 .. n
    <2>1. IsFiniteSet(pass.removed)
        BY FS_Subset DEF PassInv, States, SliceInv, BookkeepingExact
    <2>2. Cardinality(r) = Cardinality(pass.removed) + 1 /\ Cardinality(pass.removed) \in Nat
        BY <2>1, FS_AddElement, FS_CardinalityType, Zenon DEF r
    <2>3. l + Cardinality(pass.removed) = n
        BY DEF PassInv, l
    <2>4. pass.removed \subseteq finished
        BY DEF PassInv, States
    <2> QED BY <1>1, <1>2, <2>2, <2>3, <2>4 DEF r
<1> DEFINE x == IndexAfter(pass, i)
           I == {pass.index, x}
           m == l - 1
<1>10. pass \in States(I) /\ State(b, m, x, r, TRUE) \in States(I)
    <2>1. pass \in States({pass.index})
        BY DEF PassInv
    <2> HIDE DEF x
    <2> QED BY <1>4, <1>9, <2>1 DEF State, States
<1>11. next = Updated(pass, b, m, x, r)
    BY DEF RemoveStream, Updated, i, a, b, l, r
<1> HIDE DEF next, I, x, m
<1>12. next \in States(I) /\ next.array = b /\ next.len = m /\ next.index = x /\ next.removed = r
    <2> DEFINE u == Updated(pass, b, m, x, r)
    <2>1. u \in States(I) /\ u.array = b /\ u.len = m /\ u.index = x /\ u.removed = r
        BY <1>10, Zenon DEF State, States, Updated
    <2> QED BY <1>11, <2>1
<1>13. next \in States({next.index})
    BY <1>12 DEF States
<1> QED BY <1>6, <1>7, <1>8, <1>9, <1>12, <1>13 DEF PassInv, next, m

\* One entry of the pass, whichever way iterateFunc and the lambda go.
LEMMA PassStepKeepsPass ==
    ASSUME SliceInv, NEW pass, PassInv(pass), NEW k \in 1 .. Len(openStreams)
    PROVE  PassInv(PassStep(pass, k))
<1> DEFINE id == pass.array[k]
           stopped == Stopped(pass)
<1>1. CASE pass.stop
    BY <1>1 DEF PassStep
<1>2. CASE ~pass.stop /\ id \in pass.removed
    <2>1. pass \in States({pass.index})
        BY DEF PassInv
    <2>2. /\ stopped \in States({pass.index})
          /\ stopped.array = pass.array /\ stopped.len = pass.len /\ stopped.index = pass.index
          /\ stopped.removed = pass.removed
        BY <2>1, Zenon DEF States, Stopped
    <2>3. PassStep(pass, k) = stopped
        BY <1>2 DEF PassStep, Stopped
    <2> HIDE DEF stopped
    <2>4. PassInv(stopped)
        BY <2>2 DEF PassInv
    <2> QED BY <2>3, <2>4
<1>3. CASE ~pass.stop /\ id \notin pass.removed /\ id \in finished
    <2>1. PassInv(RemoveStream(pass, id))
        BY <1>3, RemoveStreamKeepsPass
    <2> QED BY <1>3, <2>1 DEF PassStep
<1>4. CASE ~pass.stop /\ id \notin pass.removed /\ id \notin finished
    BY <1>4 DEF PassStep
<1> QED BY <1>1, <1>2, <1>3, <1>4

\* A whole pass.
LEMMA PassKeepsInv ==
    ASSUME SliceInv, NEW pass \in Passes[Len(openStreams)]
    PROVE  PassInv(pass)
<1> DEFINE n == Len(openStreams)
           Good == {k \in Nat : k <= n => \A p \in Passes[k] : PassInv(p)}
<1>1. n \in Nat
    BY DEF SliceInv
<1>2. /\ Passes[0] = {PassStart}
      /\ \A k \in 1 .. n : Passes[k] = {PassStep(p, k) : p \in Passes[k - 1]}
    BY <1>1, PassesUnfold
<1>3. 0 \in Good
    BY <1>2, PassStarts
<1>4. ASSUME NEW k \in Nat, k \in Good PROVE k + 1 \in Good
    <2>1. SUFFICES ASSUME k + 1 <= n, NEW p \in Passes[k + 1] PROVE PassInv(p)
        OBVIOUS
    <2>2. k + 1 \in 1 .. n /\ (k + 1) - 1 = k /\ k <= n
        BY <1>1, <2>1
    <2>3. PICK q \in Passes[k] : p = PassStep(q, k + 1)
        BY <1>2, <2>1, <2>2
    <2>4. PassInv(q)
        BY <1>4, <2>2
    <2>5. PassInv(PassStep(q, k + 1))
        BY <2>2, <2>4, PassStepKeepsPass
    <2> QED BY <2>3, <2>5
<1> HIDE DEF Good
<1>5. \A k \in Nat : k \in Good
    BY <1>3, <1>4, NatSetInduction
<1>6. n <= n /\ n \in Good
    BY <1>1, <1>5
<1> QED BY <1>6 DEF Good

-----------------------------------------------------------------------------
(* The operations *)

\* The parity of an id says who opened the stream.
LEMMA IDsApart == ClientIDs \cap ServerIDs = {} /\ StreamIDs \subseteq Nat
BY StreamsMapAssumption DEF StreamIDs

\* putStream, with the counter of the side that opens the stream.
LEMMA PutStreamKeepsSlice ==
    ASSUME SliceInv, NEW id \in StreamIDs, streams[id] = "absent",
           NEW map \in [StreamIDs -> {"absent", "open", "nil"}],
           \A x \in StreamIDs : map[x] = "open" <=> streams[x] = "open",
           putStream(id, map), finished' = finished,
           numIncomingStreams' = numIncomingStreams + (IF id \in ClientIDs THEN 1 ELSE 0),
           numOutgoingStreams' = numOutgoingStreams + (IF id \in ServerIDs THEN 1 ELSE 0)
    PROVE  SliceInv'
<1> DEFINE n == Len(openStreams)
<1>1. /\ streams' = [map EXCEPT ![id] = "open"] /\ openStreams' = Append(openStreams, id)
      /\ streams' \in [StreamIDs -> {"absent", "open", "nil"}]
    BY Zenon DEF putStream
<1>2. OpenIDs' = OpenIDs \cup {id} /\ id \notin OpenIDs /\ OpenIDs \subseteq StreamIDs
    BY <1>1 DEF OpenIDs
<1>3. /\ n \in Nat /\ openStreams' \in Seq(StreamIDs) /\ Len(openStreams') = n + 1
      /\ \A i \in 1 .. n : openStreams'[i] = openStreams[i] /\ openStreams[i] \in OpenIDs
      /\ openStreams'[n + 1] = id
    BY <1>1 DEF SliceInv, BookkeepingExact, Range
<1>4. \A i, j \in 1 .. (n + 1) : openStreams'[i] = openStreams'[j] => i = j
    <2>1. \A i \in 1 .. (n + 1) : i \in 1 .. n \/ i = n + 1
        BY <1>3
    <2>2. \A i, j \in 1 .. n : openStreams[i] = openStreams[j] => i = j
        BY DEF SliceInv
    <2> QED BY <1>2, <1>3, <2>1, <2>2
<1>5. Range(openStreams') = OpenIDs'
    <2>1. Range(openStreams) = {openStreams[i] : i \in 1 .. n} /\ Range(openStreams) = OpenIDs
        BY <1>3 DEF SliceInv, BookkeepingExact, Range
    <2>2. Range(openStreams') = {openStreams'[i] : i \in 1 .. (n + 1)}
        BY <1>3 DEF Range
    <2>3. ASSUME NEW x \in Range(openStreams) PROVE x \in Range(openStreams')
        <3>1. PICK i \in 1 .. n : openStreams[i] = x
            BY <2>1
        <3>2. i \in 1 .. (n + 1) /\ openStreams'[i] = x
            BY <1>3, <3>1
        <3> QED BY <2>2, <3>2
    <2>4. id \in Range(openStreams')
        <3>1. n + 1 \in 1 .. (n + 1)
            BY <1>3
        <3> QED BY <1>3, <2>2, <3>1
    <2>5. ASSUME NEW x \in Range(openStreams') PROVE x \in Range(openStreams) \/ x = id
        <3>1. PICK i \in 1 .. (n + 1) : openStreams'[i] = x
            BY <2>2
        <3>2. i \in 1 .. n \/ i = n + 1
            BY <1>3
        <3> QED BY <1>3, <2>1, <3>1, <3>2
    <2> QED BY <1>2, <2>1, <2>3, <2>4, <2>5
<1>6. IsFiniteSet(OpenIDs') /\ Cardinality(OpenIDs') = Cardinality(OpenIDs) + 1
    BY <1>2, FS_AddElement DEF SliceInv
<1>7. /\ id \in ClientIDs => OpenIDs' \cap ClientIDs = (OpenIDs \cap ClientIDs) \cup {id}
      /\ id \notin ClientIDs => OpenIDs' \cap ClientIDs = OpenIDs \cap ClientIDs
      /\ id \in ServerIDs => OpenIDs' \cap ServerIDs = (OpenIDs \cap ServerIDs) \cup {id}
      /\ id \notin ServerIDs => OpenIDs' \cap ServerIDs = OpenIDs \cap ServerIDs
    BY <1>2
<1>8. /\ IsFiniteSet(OpenIDs \cap ClientIDs) /\ IsFiniteSet(OpenIDs \cap ServerIDs)
      /\ Cardinality(OpenIDs \cap ClientIDs) \in Nat /\ Cardinality(OpenIDs \cap ServerIDs) \in Nat
    <2>1. OpenIDs \cap ClientIDs \subseteq OpenIDs /\ OpenIDs \cap ServerIDs \subseteq OpenIDs
        OBVIOUS
    <2> QED BY <2>1, FS_Subset, FS_CardinalityType DEF SliceInv
<1>9. numIncomingStreams' = Cardinality(OpenIDs' \cap ClientIDs)
    <2>1. numIncomingStreams = Cardinality(OpenIDs \cap ClientIDs)
        BY DEF SliceInv, BookkeepingExact
    <2>2. Cardinality((OpenIDs \cap ClientIDs) \cup {id}) = Cardinality(OpenIDs \cap ClientIDs) + 1
        BY <1>2, <1>8, FS_AddElement, Zenon
    <2>3. CASE id \in ClientIDs
        <3>1. numIncomingStreams' = numIncomingStreams + 1
            BY <2>3
        <3> QED BY <1>7, <2>1, <2>2, <2>3, <3>1, Zenon
    <2>4. CASE id \notin ClientIDs
        <3>1. numIncomingStreams' = numIncomingStreams
            BY <1>8, <2>1, <2>4
        <3> QED BY <1>7, <2>1, <2>4, <3>1
    <2> QED BY <2>3, <2>4
<1>10. numOutgoingStreams' = Cardinality(OpenIDs' \cap ServerIDs)
    <2>1. numOutgoingStreams = Cardinality(OpenIDs \cap ServerIDs)
        BY DEF SliceInv, BookkeepingExact
    <2>2. Cardinality((OpenIDs \cap ServerIDs) \cup {id}) = Cardinality(OpenIDs \cap ServerIDs) + 1
        BY <1>2, <1>8, FS_AddElement, Zenon
    <2>3. CASE id \in ServerIDs
        <3>1. numOutgoingStreams' = numOutgoingStreams + 1
            BY <2>3
        <3> QED BY <1>7, <2>1, <2>2, <2>3, <3>1
    <2>4. CASE id \notin ServerIDs
        <3>1. numOutgoingStreams' = numOutgoingStreams
            BY <1>8, <2>1, <2>4
        <3> QED BY <1>7, <2>1, <2>4, <3>1
    <2> QED BY <2>3, <2>4
<1>11. BookkeepingExact'
    <2>1. n = Cardinality(OpenIDs) /\ finished' \subseteq OpenIDs
        BY DEF SliceInv, BookkeepingExact
    <2> QED BY <1>2, <1>3, <1>5, <1>6, <1>9, <1>10, <2>1 DEF BookkeepingExact
<1> QED BY <1>1, <1>3, <1>4, <1>6, <1>11 DEF SliceInv

LEMMA GetOrOpenStreamKeepsSlice ==
    ASSUME SliceInv, NEW id \in StreamIDs, GetOrOpenStream(id)
    PROVE  SliceInv' /\ id \in ClientIDs
<1>1. streams[id] = "absent" /\ id \notin ServerIDs
    BY DEF GetOrOpenStream, Refuses
<1>2. id \in ClientIDs
    BY <1>1 DEF StreamIDs
<1>3. ASSUME NEW highest PROVE
          /\ garbageCollectClosedStreams(highest) \in [StreamIDs -> {"absent", "open", "nil"}]
          /\ \A x \in StreamIDs : garbageCollectClosedStreams(highest)[x] = "open" <=> streams[x] = "open"
    BY DEF garbageCollectClosedStreams, SliceInv
<1>4. PICK map \in [StreamIDs -> {"absent", "open", "nil"}] :
          putStream(id, map) /\ \A x \in StreamIDs : map[x] = "open" <=> streams[x] = "open"
    <2> DEFINE highest == IF id > highestStreamOpenedByClient THEN id ELSE highestStreamOpenedByClient
               collect == (streamsOpenedAfterLastGarbageCollect + 1) % MaxNewStreamIDDelta = 0
    <2>1. putStream(id, IF collect THEN garbageCollectClosedStreams(highest) ELSE streams)
        BY DEF GetOrOpenStream
    <2> HIDE DEF highest, collect
    <2>2. CASE collect
        BY <1>3, <2>1, <2>2
    <2>3. CASE ~collect
        BY <2>1, <2>3 DEF SliceInv
    <2> QED BY <2>2, <2>3
<1>5. /\ finished' = finished
      /\ numIncomingStreams' = numIncomingStreams + 1 /\ numOutgoingStreams' = numOutgoingStreams
    BY DEF GetOrOpenStream
<1>6. numOutgoingStreams = numOutgoingStreams + 0
    BY FS_Subset, FS_CardinalityType DEF SliceInv, BookkeepingExact
<1> QED BY <1>1, <1>2, <1>4, <1>5, <1>6, PutStreamKeepsSlice

LEMMA OpenStreamKeepsSlice ==
    ASSUME SliceInv, NEW id \in StreamIDs, OpenStream(id)
    PROVE  SliceInv' /\ id \notin ClientIDs
<1>1. id \in ServerIDs /\ id \notin ClientIDs
    BY IDsApart DEF OpenStream
<1>2. streams[id] = "absent" /\ putStream(id, streams) /\ finished' = finished
    BY DEF OpenStream
<1>3. numIncomingStreams' = numIncomingStreams /\ numOutgoingStreams' = numOutgoingStreams + 1
    BY DEF OpenStream
<1>4. numIncomingStreams = numIncomingStreams + 0
    BY FS_Subset, FS_CardinalityType DEF SliceInv, BookkeepingExact
<1>5. streams \in [StreamIDs -> {"absent", "open", "nil"}]
    BY DEF SliceInv
<1> QED BY <1>1, <1>2, <1>3, <1>4, <1>5, PutStreamKeepsSlice

LEMMA GarbageCollectKeepsSlice ==
    ASSUME SliceInv, garbageCollectStreams
    PROVE  SliceInv' /\ \A id \in StreamIDs : streams'[id] = "absent" => streams[id] = "absent"
<1> DEFINE n == Len(openStreams)
<1>1. PICK pass \in Passes[n] :
          /\ streams' = [id \in StreamIDs |-> IF id \in pass.removed THEN "nil" ELSE streams[id]]
          /\ openStreams' = SubSeq(pass.array, 1, pass.len)
          /\ numIncomingStreams' = numIncomingStreams - Cardinality(pass.removed \cap ClientIDs)
          /\ numOutgoingStreams' = numOutgoingStreams - Cardinality(pass.removed \cap ServerIDs)
          /\ finished' = finished \ pass.removed
    BY Zenon DEF garbageCollectStreams
<1>2. PassInv(pass)
    BY PassKeepsInv
<1> DEFINE a == pass.array
           l == pass.len
           r == pass.removed
<1>3. /\ n \in Nat /\ a \in [1 .. n -> OpenIDs] /\ l \in 0 .. n /\ r \subseteq finished
      /\ OpenIDs \subseteq StreamIDs /\ finished \subseteq OpenIDs
    BY <1>2 DEF PassInv, States, SliceInv, BookkeepingExact, OpenIDs
<1>4. /\ \A i, j \in 1 .. l : a[i] = a[j] => i = j
      /\ \A id \in OpenIDs \ r : \E i \in 1 .. l : a[i] = id
      /\ \A i \in 1 .. l : a[i] \notin r
      /\ l + Cardinality(r) = n
    BY <1>2 DEF PassInv
<1> HIDE DEF a, l, r
<1>5. /\ streams' \in [StreamIDs -> {"absent", "open", "nil"}]
      /\ OpenIDs' = OpenIDs \ r
      /\ \A id \in StreamIDs : streams'[id] = "absent" => streams[id] = "absent"
    BY <1>1 DEF OpenIDs, SliceInv, r
<1>6. /\ openStreams' \in Seq(StreamIDs) /\ Len(openStreams') = l
      /\ \A i \in 1 .. l : openStreams'[i] = a[i]
    <2>1. a \in Seq(StreamIDs) /\ Len(a) = n
        BY <1>3, SeqDef
    <2>2. openStreams' = SubSeq(a, 1, l)
        BY <1>1 DEF a, l
    <2> QED BY <1>3, <2>1, <2>2, SubSeqProperties
<1>7. Range(openStreams') = OpenIDs'
    <2>1. Range(openStreams') = {openStreams'[i] : i \in 1 .. l}
        BY <1>3, <1>6 DEF Range
    <2>2. \A i \in 1 .. l : i \in 1 .. n
        BY <1>3
    <2> QED BY <1>3, <1>4, <1>5, <1>6, <2>1, <2>2
<1>8. ASSUME NEW S PROVE
          /\ IsFiniteSet(OpenIDs \cap S)
          /\ Cardinality(OpenIDs' \cap S) = Cardinality(OpenIDs \cap S) - Cardinality(r \cap S)
    <2>1. IsFiniteSet(OpenIDs \cap S)
        <3>1. OpenIDs \cap S \subseteq OpenIDs
            OBVIOUS
        <3> QED BY <3>1, FS_Subset DEF SliceInv
    <2>2. OpenIDs' \cap S = (OpenIDs \cap S) \ r /\ (OpenIDs \cap S) \cap r = r \cap S
        BY <1>3, <1>5
    <2>3. Cardinality((OpenIDs \cap S) \ r) = Cardinality(OpenIDs \cap S) - Cardinality((OpenIDs \cap S) \cap r)
        BY <2>1, FS_Difference, Zenon
    <2> QED BY <2>1, <2>2, <2>3, Zenon
<1>9. IsFiniteSet(OpenIDs') /\ Cardinality(OpenIDs') = l
    <2>1. IsFiniteSet(OpenIDs') /\ OpenIDs' \cap OpenIDs = OpenIDs' /\ OpenIDs \cap OpenIDs = OpenIDs
          /\ r \cap OpenIDs = r /\ IsFiniteSet(r)
        BY <1>3, <1>5, FS_Subset DEF SliceInv
    <2>2. Cardinality(OpenIDs') = Cardinality(OpenIDs) - Cardinality(r)
        BY <1>8, <2>1, Zenon
    <2>3. Cardinality(OpenIDs) = n /\ Cardinality(r) \in Nat
        BY <2>1, FS_CardinalityType DEF SliceInv, BookkeepingExact
    <2> QED BY <1>3, <1>4, <2>1, <2>2, <2>3
<1>10. BookkeepingExact'
    <2>1. numIncomingStreams' = Cardinality(OpenIDs' \cap ClientIDs)
        BY <1>1, <1>8, Zenon DEF r, SliceInv, BookkeepingExact
    <2>2. numOutgoingStreams' = Cardinality(OpenIDs' \cap ServerIDs)
        BY <1>1, <1>8, Zenon DEF r, SliceInv, BookkeepingExact
    <2>3. finished' \subseteq OpenIDs'
        BY <1>1, <1>3, <1>5 DEF r
    <2> QED BY <1>6, <1>7, <1>9, <2>1, <2>2, <2>3 DEF BookkeepingExact
<1> QED BY <1>4, <1>5, <1>6, <1>9, <1>10 DEF SliceInv

\* Nothing else touches the slice, the map or the counters.
LEMMA SliceKept ==
    ASSUME SliceInv, finished' \subseteq OpenIDs,
           UNCHANGED <<streams, openStreams, numIncomingStreams, numOutgoingStreams>>
    PROVE  SliceInv'
BY Zenon DEF SliceInv, BookkeepingExact, OpenIDs

LEMMA SliceNext == SliceInv /\ [MapNext]_allMapVars => SliceInv'
<1> SUFFICES ASSUME SliceInv, [MapNext]_allMapVars PROVE SliceInv'
    OBVIOUS
<1>1. finished \subseteq OpenIDs
    BY DEF SliceInv, BookkeepingExact
<1>2. ASSUME NEW id \in StreamIDs, GetOrOpenStream(id) PROVE SliceInv'
    BY <1>2, GetOrOpenStreamKeepsSlice
<1>3. ASSUME NEW id \in StreamIDs, OpenStream(id) PROVE SliceInv'
    BY <1>3, OpenStreamKeepsSlice
<1>4. ASSUME NEW id \in StreamIDs, Finish(id) PROVE SliceInv'
    BY <1>1, <1>4, SliceKept DEF Finish, mapVars, OpenIDs
<1>5. CASE garbageCollectStreams
    BY <1>5, GarbageCollectKeepsSlice
<1>6. ASSUME NEW stopAt, RoundRobinIterate(stopAt) PROVE SliceInv'
    BY <1>1, <1>6, SliceKept DEF RoundRobinIterate
<1>7. CASE UNCHANGED allMapVars
    BY <1>1, <1>7, SliceKept DEF allMapVars, mapVars
<1> QED BY <1>2, <1>3, <1>4, <1>5, <1>6, <1>7 DEF MapNext

LEMMA SliceInit == MapInit => SliceInv
<1> SUFFICES ASSUME MapInit PROVE SliceInv
    OBVIOUS
<1>1. OpenIDs = {} /\ streams \in [StreamIDs -> {"absent", "open", "nil"}]
    BY DEF MapInit, OpenIDs
<1>2. openStreams \in Seq(StreamIDs) /\ Len(openStreams) = 0 /\ Range(openStreams) = {}
    BY DEF MapInit, Range
<1>3. IsFiniteSet({}) /\ Cardinality({}) = 0
    BY FS_EmptySet
<1>4. BookkeepingExact
    <2>1. OpenIDs \cap ClientIDs = {} /\ OpenIDs \cap ServerIDs = {} /\ finished = {}
        BY <1>1 DEF MapInit
    <2>2. numIncomingStreams = 0 /\ numOutgoingStreams = 0
        BY DEF MapInit
    <2> QED BY <1>1, <1>2, <1>3, <2>1, <2>2 DEF BookkeepingExact
<1> QED BY <1>1, <1>2, <1>3, <1>4 DEF SliceInv

\* For every set of ids and all limits: the slice openStreams and the counters
\* agree with the map after every operation, also after a pass of Iterate that
\* removed streams from the slice it was running over.
THEOREM SliceAgreesWithMap == MapSpec => []BookkeepingExact
<1>1. SliceInv => BookkeepingExact
    BY DEF SliceInv
<1> QED BY <1>1, SliceInit, SliceNext, PTL DEF MapSpec

-----------------------------------------------------------------------------
(* Closed streams *)

\* A client's stream that was ever opened is in the map, as nil once it is
\* closed, until its id is MaxNewStreamIDDelta below the highest one.
ClosedInv ==
    /\ opened \in [StreamIDs -> Nat]
    /\ highestStreamOpenedByClient \in Nat
    /\ \A id \in ClientIDs :
        opened[id] > 0 => streams[id] # "absent" \/ id + MaxNewStreamIDDelta <= highestStreamOpenedByClient

LEMMA ClosedKept ==
    ASSUME ClosedInv, opened' = opened, highestStreamOpenedByClient' = highestStreamOpenedByClient,
           \A id \in StreamIDs : streams'[id] = "absent" => streams[id] = "absent"
    PROVE  ClosedInv'
BY DEF ClosedInv, StreamIDs

LEMMA GetOrOpenStreamKeepsClosed ==
    ASSUME SliceInv, ClosedInv, NEW id \in StreamIDs, GetOrOpenStream(id)
    PROVE  ClosedInv'
<1> DEFINE highest == IF id > highestStreamOpenedByClient THEN id ELSE highestStreamOpenedByClient
           collect == (streamsOpenedAfterLastGarbageCollect + 1) % MaxNewStreamIDDelta = 0
           map == IF collect THEN garbageCollectClosedStreams(highest) ELSE streams
<1>1. /\ highestStreamOpenedByClient' = highest
      /\ streams' = [map EXCEPT ![id] = "open"] /\ opened' = [opened EXCEPT ![id] = @ + 1]
    BY Zenon DEF GetOrOpenStream, putStream
<1>2. highest \in Nat /\ highest >= highestStreamOpenedByClient
    BY IDsApart DEF ClosedInv
<1>3. opened' \in [StreamIDs -> Nat] /\ \A x \in StreamIDs : x # id => opened'[x] = opened[x]
    BY <1>1 DEF ClosedInv
<1> HIDE DEF highest, collect
<1>4. DOMAIN map = StreamIDs
    BY DEF garbageCollectClosedStreams, SliceInv
<1>5. ASSUME NEW x \in ClientIDs, x # id, map[x] = "absent", opened[x] > 0
      PROVE  x + MaxNewStreamIDDelta <= highest
    <2>1. x \in StreamIDs /\ x \notin ServerIDs /\ x \in Nat /\ MaxNewStreamIDDelta \in Nat
        BY IDsApart, StreamsMapAssumption DEF StreamIDs
    <2>2. CASE streams[x] = "absent"
        BY <1>2, <1>5, <2>1, <2>2 DEF ClosedInv
    <2>3. CASE streams[x] # "absent"
        <3>1. map = garbageCollectClosedStreams(highest)
            BY <1>5, <2>3
        <3>2. Collectable(x, highest)
            BY <1>5, <2>1, <2>3, <3>1 DEF garbageCollectClosedStreams
        <3> QED BY <2>1, <3>2 DEF Collectable
    <2> QED BY <2>2, <2>3
<1> HIDE DEF map
<1>6. streams'[id] = "open" /\ \A x \in StreamIDs : x # id => streams'[x] = map[x]
    BY <1>1, <1>4
<1>7. ASSUME NEW x \in ClientIDs, opened'[x] > 0
      PROVE  streams'[x] # "absent" \/ x + MaxNewStreamIDDelta <= highestStreamOpenedByClient'
    <2>1. x \in StreamIDs
        BY DEF StreamIDs
    <2> QED BY <1>1, <1>3, <1>5, <1>6, <1>7, <2>1
<1> QED BY <1>1, <1>2, <1>3, <1>7 DEF ClosedInv

LEMMA OpenStreamKeepsClosed ==
    ASSUME SliceInv, ClosedInv, NEW id \in StreamIDs, OpenStream(id)
    PROVE  ClosedInv'
<1>1. /\ highestStreamOpenedByClient' = highestStreamOpenedByClient
      /\ streams' = [streams EXCEPT ![id] = "open"] /\ opened' = [opened EXCEPT ![id] = @ + 1]
      /\ id \notin ClientIDs
    BY IDsApart, Zenon DEF OpenStream, putStream
<1>2. opened' \in [StreamIDs -> Nat]
    BY <1>1 DEF ClosedInv
<1>3. \A x \in ClientIDs : opened'[x] = opened[x] /\ streams'[x] = streams[x]
    BY <1>1 DEF ClosedInv, SliceInv, StreamIDs
<1> QED BY <1>1, <1>2, <1>3 DEF ClosedInv

LEMMA ClosedNext == SliceInv /\ ClosedInv /\ [MapNext]_allMapVars => ClosedInv'
<1> SUFFICES ASSUME SliceInv, ClosedInv, [MapNext]_allMapVars PROVE ClosedInv'
    OBVIOUS
<1>1. ASSUME NEW id \in StreamIDs, GetOrOpenStream(id) PROVE ClosedInv'
    BY <1>1, GetOrOpenStreamKeepsClosed
<1>2. ASSUME NEW id \in StreamIDs, OpenStream(id) PROVE ClosedInv'
    BY <1>2, OpenStreamKeepsClosed
<1>3. ASSUME NEW id \in StreamIDs, Finish(id) PROVE ClosedInv'
    BY <1>3, ClosedKept DEF Finish, mapVars
<1>4. CASE garbageCollectStreams
    BY <1>4, GarbageCollectKeepsSlice, ClosedKept DEF garbageCollectStreams
<1>5. ASSUME NEW stopAt, RoundRobinIterate(stopAt) PROVE ClosedInv'
    BY <1>5, ClosedKept DEF RoundRobinIterate
<1>6. CASE UNCHANGED allMapVars
    BY <1>6, ClosedKept DEF allMapVars, mapVars
<1> QED BY <1>1, <1>2, <1>3, <1>4, <1>5, <1>6 DEF MapNext

\* A step that opens a stream of the client a second time finds its id exactly
\* MaxNewStreamIDDelta below the highest one: not above, where the map has its nil,
\* and not below, where the id is too old.
ReopensOnlyOld ==
    \A id \in ClientIDs :
        opened'[id] > 1 /\ opened'[id] # opened[id] => id + MaxNewStreamIDDelta = highestStreamOpenedByClient

LEMMA ReopenStep == SliceInv /\ ClosedInv /\ [MapNext]_allMapVars => [ReopensOnlyOld]_allMapVars
<1> SUFFICES ASSUME SliceInv, ClosedInv, [MapNext]_allMapVars, NEW id \in ClientIDs,
                    opened'[id] > 1, opened'[id] # opened[id]
             PROVE  id + MaxNewStreamIDDelta = highestStreamOpenedByClient
    BY DEF ReopensOnlyOld
<1>1. opened' # opened
    OBVIOUS
<1>2. PICK x \in StreamIDs : GetOrOpenStream(x) \/ OpenStream(x)
    BY <1>1 DEF MapNext, Finish, garbageCollectStreams, RoundRobinIterate, allMapVars
<1>3. streams[x] = "absent" /\ opened' = [opened EXCEPT ![x] = @ + 1]
    BY <1>2, Zenon DEF GetOrOpenStream, OpenStream, putStream
<1>4. x = id /\ opened[id] \in Nat /\ opened'[id] = opened[id] + 1
    BY <1>3 DEF ClosedInv, StreamIDs
<1>5. id + MaxNewStreamIDDelta <= highestStreamOpenedByClient
    BY <1>3, <1>4 DEF ClosedInv
<1>6. ~(id + MaxNewStreamIDDelta < highestStreamOpenedByClient)
    <2>1. id \notin ServerIDs
        BY IDsApart
    <2> QED BY <1>2, <1>3, <1>4, <2>1, Zenon DEF GetOrOpenStream, OpenStream, Refuses, TooOld
<1>7. id + MaxNewStreamIDDelta \in Nat /\ highestStreamOpenedByClient \in Nat
    BY StreamsMapAssumption DEF ClosedInv
<1> QED BY <1>5, <1>6, <1>7

\* For every set of ids and every MaxNewStreamIDDelta: a client cannot reopen a
\* stream that was closed, neither before nor after the nil entries are
\* collected, unless its id is exactly MaxNewStreamIDDelta below the highest one.
THEOREM ClosedStaysClosed == MapSpec => RecentlyClosedStaysClosed
<1>1. MapInit => SliceInv /\ ClosedInv
    <2>1. MapInit => ClosedInv
        BY DEF MapInit, ClosedInv, StreamIDs
    <2> QED BY <2>1, SliceInit
<1>2. MapSpec => [][ReopensOnlyOld]_allMapVars
    BY <1>1, SliceNext, ClosedNext, ReopenStep, PTL DEF MapSpec
<1> QED BY <1>2 DEF RecentlyClosedStaysClosed, ReopensOnlyOld
=============================================================================
