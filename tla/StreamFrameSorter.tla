------------------------- MODULE StreamFrameSorter -------------------------
(***************************************************************************)
(* streamFrameSorter: reassembles the STREAM frames of one stream.  The    *)
(* gaps list says which bytes have not been received, queuedFrames holds   *)
(* the frames received and not read, by offset.                            *)
(*                                                                         *)
(* The linked list of gaps is a set here: Push walks it in ascending order *)
(* and InsertAfter keeps it ascending, so "the first gap the walk stops    *)
(* at" is the lowest one.  queuedFrames is the set of its values; Push     *)
(* never overwrites an entry.  A frame's data is its length.               *)
(*                                                                         *)
(* Push leaves an error other than errDuplicateStreamData to               *)
(* stream.AddStreamFrame, which returns it and makes the session close:    *)
(* the stream is not used again (failed).                                  *)
(***************************************************************************)
EXTENDS Integers, FiniteSets

CONSTANTS
    MaxByteCount,             \* protocol.MaxByteCount, the end of the last gap
    MaxOffset,                \* bound of the model: frames end at or below it
    MaxStreamFrameSorterGaps  \* protocol.MaxStreamFrameSorterGaps

\* Flow control, checked before Push, keeps frames far below MaxByteCount.
ASSUME SorterAssumption ==
    /\ MaxByteCount \in Nat /\ MaxOffset \in Nat /\ MaxStreamFrameSorterGaps \in Nat
    /\ MaxOffset < MaxByteCount

VARIABLES
    queuedFrames, \* the frames received and not popped
    readPosition, \* offset of the first byte not popped
    gaps,         \* the intervals of bytes not received
    failed        \* Push returned an error that closes the session

sorterVars == <<queuedFrames, readPosition, gaps, failed>>

Offsets == 0 .. MaxOffset
StreamFrame == [Offset : Offsets, DataLen : Offsets, FinBit : BOOLEAN]
ByteInterval == [Start : 0 .. MaxByteCount, End : 0 .. MaxByteCount]

EndOf(frame) == frame.Offset + frame.DataLen

newStreamFrameSorter ==
    /\ queuedFrames = {}
    /\ readPosition = 0
    /\ gaps = {[Start |-> 0, End |-> MaxByteCount]}
    /\ failed = FALSE

-----------------------------------------------------------------------------
(* Push *)

IsQueued(frame) == \E f \in queuedFrames : f.Offset = frame.Offset

\* The gaps the walk does not skip.
Touched(frame) ==
    {g \in gaps : ~(EndOf(frame) <= g.Start \/ frame.Offset > g.End)}

\* The walk goes on after a gap that ends where the frame starts, and stops
\* at every other gap it does not skip.
Stops(frame) == {g \in Touched(frame) : frame.Offset # g.End}
FirstStops(frame) == {g \in Stops(frame) : \A h \in Stops(frame) : g.Start <= h.Start}

Inside(frame, g) == frame.Offset >= g.Start /\ EndOf(frame) <= g.End

\* What is left of gap g: nothing, one part or two.
BugLeftOf(frame, g) ==
    IF frame.Offset = g.Start
    THEN {h \in {[Start |-> EndOf(frame), End |-> g.End]} : h.Start < h.End}
    ELSE {[Start |-> g.Start, End |-> frame.Offset]}
LeftOf(frame, g) ==
    {h \in {[Start |-> g.Start, End |-> frame.Offset], [Start |-> EndOf(frame), End |-> g.End]} :
        h.Start < h.End}

\* errDuplicateStreamData: AddStreamFrame carries on as if nothing happened.
PushDuplicate(frame) ==
    /\ \/ IsQueued(frame)
       \/ frame.DataLen > 0 /\ Touched(frame) = {}
    /\ UNCHANGED <<queuedFrames, readPosition, gaps, failed>>

\* A frame without data is only good for its FIN.
PushEmpty(frame) ==
    /\ ~IsQueued(frame)
    /\ frame.DataLen = 0
    /\ IF frame.FinBit
       THEN queuedFrames' = queuedFrames \cup {frame} /\ UNCHANGED failed
       ELSE failed' = TRUE /\ UNCHANGED queuedFrames
    /\ UNCHANGED <<readPosition, gaps>>

\* OverlappingStreamData: the frame sticks out of the gap at either end.
PushOverlapping(frame) ==
    /\ ~IsQueued(frame)
    /\ frame.DataLen > 0
    /\ \E g \in FirstStops(frame) : ~Inside(frame, g)
    /\ failed' = TRUE
    /\ UNCHANGED <<queuedFrames, readPosition, gaps>>

\* With too many gaps the gaps are changed but the frame is not queued.  A
\* frame that only touched the end of a gap would be queued with no gap cut.
PushData(frame) ==
    /\ ~IsQueued(frame)
    /\ frame.DataLen > 0
    /\ Touched(frame) # {}
    /\ \A g \in FirstStops(frame) : Inside(frame, g)
    /\ gaps' = (gaps \ FirstStops(frame)) \cup UNION {LeftOf(frame, g) : g \in FirstStops(frame)}
    /\ IF Cardinality(gaps') > MaxStreamFrameSorterGaps
       THEN failed' = TRUE /\ UNCHANGED queuedFrames
       ELSE queuedFrames' = queuedFrames \cup {frame} /\ UNCHANGED failed
    /\ UNCHANGED readPosition

Push(frame) ==
    /\ ~failed
    /\ \/ PushDuplicate(frame)
       \/ PushEmpty(frame)
       \/ PushOverlapping(frame)
       \/ PushData(frame)

-----------------------------------------------------------------------------
(* Head and Pop *)

Heads == {f \in queuedFrames : f.Offset = readPosition}

Pop ==
    \E f \in Heads :
        /\ readPosition' = readPosition + f.DataLen
        /\ queuedFrames' = queuedFrames \ {f}
        /\ UNCHANGED <<gaps, failed>>

\* The frames a peer may send, in any order, any number of times.
Received(frame) == EndOf(frame) <= MaxOffset /\ Push(frame)

SorterStep == (\E frame \in StreamFrame : Received(frame)) \/ (~failed /\ Pop)

SorterSpec == newStreamFrameSorter /\ [][SorterStep]_sorterVars

-----------------------------------------------------------------------------
(* Properties *)

\* The fields keep their types, and gaps are nonempty intervals.
SorterType ==
    /\ queuedFrames \subseteq {f \in StreamFrame : EndOf(f) <= MaxOffset}
    /\ readPosition \in Offsets
    /\ gaps \subseteq {g \in ByteInterval : g.Start < g.End}
    /\ failed \in BOOLEAN

Bytes(frame) == frame.Offset .. EndOf(frame) - 1
InGap(b) == \E g \in gaps : g.Start <= b /\ b < g.End

\* Every byte of the stream is either missing (in exactly one gap), or already
\* read, or in exactly one queued frame: the edits Push makes to the gap list
\* and Pop's deletions never lose or duplicate a byte, for any order,
\* duplication and overlap of the frames received.
BytesPartitioned ==
    ~failed =>
        /\ \A g, h \in gaps : g # h => g.End < h.Start \/ h.End < g.Start
        /\ \A f, h \in queuedFrames : f # h => Bytes(f) \cap Bytes(h) = {}
        /\ \A b \in 0 .. MaxByteCount - 1 :
              InGap(b) <=> ~(b < readPosition \/ \E f \in queuedFrames : b \in Bytes(f))
        /\ \A f \in queuedFrames : f.DataLen > 0 => f.Offset >= readPosition

\* Where a gap ends a queued frame starts.  Push does not skip a gap that ends
\* where the frame starts (it tests start > gap.End), so it would queue such a
\* frame without any gap for its bytes, were it not a duplicate.
GapEndsAreQueued ==
    ~failed =>
        \A g \in gaps : g.End = MaxByteCount \/ \E f \in queuedFrames : f.Offset = g.End /\ f.DataLen > 0

\* No data is stuck: when the byte at readPosition has arrived, Head finds the
\* frame that starts with it, and at most one frame has that offset.
NextByteIsReadable ==
    ~failed =>
        /\ ~InGap(readPosition) => Heads # {}
        /\ \A f, h \in Heads : f = h
=============================================================================
