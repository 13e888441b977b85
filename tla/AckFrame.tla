------------------------------ MODULE AckFrame ------------------------------
(***************************************************************************)
(* The encoding of ACK frames: AckFrame.Write, ParseAckFrame and what they *)
(* use.  A byte holds 0 .. Base - 1 (256 values in the code), so that a    *)
(* gap of more than Base - 1 packets is written as several blocks and at   *)
(* most Base - 1 ranges are written.  The delay and the timestamps are     *)
(* left out.                                                               *)
(***************************************************************************)
EXTENDS Integers, Sequences, FiniteSets, FiniteSetsExt, SequencesExt

CONSTANTS
    Base,      \* values of a byte
    WordSize   \* values of a packet number

ASSUME AckFrameAssumption == Base \in 3 .. 256 /\ WordSize \in Nat /\ WordSize >= Base * Base

MaxByte == Base - 1
Wrap(n) == n % WordSize

\* GetPacketNumberLength: the bytes that a number needs.
Width(n) == Min({w \in {1, 2, 4} : n < Base ^ w} \cup {6})
Truncated(n, width) == n % (Base ^ width)

HasMissingRanges(f) == f.AckRanges # <<>>
RangeLength(r) == r.last - r.first + 1

\* Lost packets between range i and the one before, and the blocks they take.
Gap(f, i) == f.AckRanges[i - 1].first - f.AckRanges[i].last - 1
BlocksFor(gap) == IF gap % MaxByte = 0 THEN gap \div MaxByte ELSE gap \div MaxByte + 1
BlocksUpTo(f, k) == MapThenSumSet(LAMBDA i : BlocksFor(Gap(f, i)), 2 .. k)

\* The ranges are counted as long as the blocks fit.
numWritableNackRanges(f) ==
    1 + BlocksUpTo(f, Max({k \in 1 .. Len(f.AckRanges) : BlocksUpTo(f, k) < MaxByte}))

getMissingSequenceNumberDeltaLen(f) ==
    IF HasMissingRanges(f) THEN Width(Max({RangeLength(r) : r \in ToSet(f.AckRanges)}))
    ELSE Width(f.LargestAcked - f.LowestAcked + 1)

-----------------------------------------------------------------------------
(* Write *)

\* The last range that the loop writes: it ends when all blocks counted are
\* written, but not before it has written the second range.
LastWritten(f) ==
    Min({k \in 2 .. Len(f.AckRanges) : BlocksUpTo(f, k) + 1 >= numWritableNackRanges(f)} \cup {Len(f.AckRanges)})

\* The blocks of range i: those of a long gap have length 0, except the last.
BugLastGap(gap) == gap % MaxByte
LastGap(gap) == 1 + ((gap - 1) % MaxByte)
BlocksOf(f, i) ==
    [j \in 1 .. BlocksFor(Gap(f, i)) |->
        IF j < BlocksFor(Gap(f, i)) THEN [gap |-> MaxByte, length |-> 0]
        ELSE [gap |-> LastGap(Gap(f, i)), length |-> RangeLength(f.AckRanges[i])]]

\* The error "BUG: Inconsistent number of ACK ranges written".
WriteFails(f) == HasMissingRanges(f) /\ BlocksUpTo(f, LastWritten(f)) + 1 # numWritableNackRanges(f)

Write(f) ==
    LET lengths == getMissingSequenceNumberDeltaLen(f)
        blocks  == FlattenSeq([i \in 1 .. LastWritten(f) - 1 |-> BlocksOf(f, i + 1)])
        first   == IF HasMissingRanges(f) THEN RangeLength(f.AckRanges[1]) ELSE f.LargestAcked - f.LowestAcked + 1
    IN  [hasMissingRanges |-> HasMissingRanges(f),
         largestAckedLen  |-> Width(f.LargestAcked),
         deltaLen         |-> lengths,
         largestAcked     |-> Truncated(f.LargestAcked, Width(f.LargestAcked)),
         numAckBlocks     |-> IF HasMissingRanges(f) THEN Truncated(numWritableNackRanges(f) - 1, 1) ELSE 0,
         firstBlock       |-> Truncated(first, lengths),
         blocks           |-> IF ~HasMissingRanges(f) THEN <<>>
                              ELSE [j \in DOMAIN blocks |-> [gap    |-> Truncated(blocks[j].gap, 1),
                                                             length |-> Truncated(blocks[j].length, lengths)]]]

\* The bytes written: type, delay, number of timestamps, the largest packet
\* number, the number of blocks, and the blocks.
BytesWritten(w) ==
    4 + w.largestAckedLen + w.deltaLen + (IF w.hasMissingRanges THEN 1 ELSE 0) + Len(w.blocks) * (1 + w.deltaLen)

MinLength(f) ==
    4 + Width(f.LargestAcked)
    + (IF HasMissingRanges(f) THEN (1 + getMissingSequenceNumberDeltaLen(f)) * numWritableNackRanges(f)
       ELSE getMissingSequenceNumberDeltaLen(f))

-----------------------------------------------------------------------------
(* ParseAckFrame *)

\* One block: it moves the range of a long gap on or starts a range.
ParseBlock(acc, b) ==
    LET n     == Len(acc.ranges)
        open  == acc.ranges[n]
        last  == Wrap(open.first - b.gap - 1)
        range == IF acc.inLongBlock
                 THEN [first |-> Wrap(open.first - (b.gap + b.length)), last |-> Wrap(open.last - b.gap)]
                 ELSE [first |-> Wrap(last - b.length + 1), last |-> last]
    IN  [ranges      |-> IF acc.inLongBlock THEN [acc.ranges EXCEPT ![n] = range] ELSE Append(acc.ranges, range),
         complete    |-> b.length > 0 \/ (acc.inLongBlock /\ acc.complete),
         inLongBlock |-> b.length = 0]

\* A range without a length at the end is removed.
ParsedRanges(w) ==
    LET start == [ranges      |-> <<[first |-> w.largestAcked - w.firstBlock + 1, last |-> w.largestAcked]>>,
                  complete    |-> FALSE,
                  inLongBlock |-> FALSE]
        end   == FoldLeft(ParseBlock, start, w.blocks)
    IN  IF end.complete THEN end.ranges ELSE Front(end.ranges)

Parsed(w) ==
    IF w.hasMissingRanges
    THEN [LargestAcked |-> w.largestAcked, LowestAcked |-> Last(ParsedRanges(w)).first, AckRanges |-> ParsedRanges(w)]
    ELSE [LargestAcked |-> w.largestAcked, AckRanges |-> <<>>,
          LowestAcked  |-> IF w.largestAcked = 0 THEN 0 ELSE w.largestAcked + 1 - w.firstBlock]

BugValidateAckRanges(f) == Len(f.AckRanges) # 1
validateAckRanges(f) ==
    \/ f.AckRanges = <<>>
    \/ /\ Len(f.AckRanges) > 1
       /\ f.AckRanges[1].last = f.LargestAcked
       /\ \A r \in ToSet(f.AckRanges) : r.first <= r.last
       /\ \A i \in 2 .. Len(f.AckRanges) :
             /\ f.AckRanges[i - 1].first > f.AckRanges[i].first
             /\ f.AckRanges[i - 1].first > Wrap(f.AckRanges[i].last + 1)

ParseFails(w) ==
    \/ w.hasMissingRanges /\ w.numAckBlocks = 0
    \/ w.largestAcked > 0 /\ w.firstBlock < 1
    \/ w.firstBlock > w.largestAcked
    \/ ~validateAckRanges(Parsed(w))

AcksPacket(f, p) ==
    /\ f.LowestAcked <= p /\ p <= f.LargestAcked
    /\ HasMissingRanges(f) => \E r \in ToSet(f.AckRanges) : r.first <= p /\ p <= r.last
AckedPackets(f) == {p \in 0 .. f.LargestAcked : AcksPacket(f, p)}
=============================================================================
