------------------------------- MODULE Frames -------------------------------
(***************************************************************************)
(* The encoding of the frames of a payload other than ACK and              *)
(* STOP_WAITING, and the loop of packetUnpacker that reads them.  A frame  *)
(* is written as a type byte, fields of some width, and data; data, and a  *)
(* reason phrase, are their length.  A field holds Base values per byte;   *)
(* the type byte is the real one, whose bits tell how to read what follows.*)
(***************************************************************************)
EXTENDS AckFrame

\* The control frames: the type byte, the fields with their widths in the order
\* in which Write writes and the parser reads them, and MinLength without the
\* reason phrase.
RstStreamFrame ==
    [type |-> 1, length |-> 1 + 4 + 8 + 4,
     writes |-> <<<<"StreamID", 4>>, <<"ByteOffset", 8>>, <<"ErrorCode", 4>>>>,
     reads  |-> <<<<"StreamID", 4>>, <<"ByteOffset", 8>>, <<"ErrorCode", 4>>>>]
ConnectionCloseFrame ==
    [type |-> 2, length |-> 1 + 4 + 2,
     writes |-> <<<<"ErrorCode", 4>>, <<"ReasonPhraseLen", 2>>>>,
     reads  |-> <<<<"ErrorCode", 4>>, <<"ReasonPhraseLen", 2>>>>]
GoawayFrame ==
    [type |-> 3, length |-> 1 + 4 + 4 + 2,
     writes |-> <<<<"ErrorCode", 4>>, <<"LastGoodStream", 4>>, <<"ReasonPhraseLen", 2>>>>,
     reads  |-> <<<<"ErrorCode", 4>>, <<"LastGoodStream", 4>>, <<"ReasonPhraseLen", 2>>>>]
WindowUpdateFrame ==
    [type |-> 4, length |-> 1 + 4 + 8,
     writes |-> <<<<"StreamID", 4>>, <<"ByteOffset", 8>>>>,
     reads  |-> <<<<"StreamID", 4>>, <<"ByteOffset", 8>>>>]
BlockedFrame == [type |-> 5, length |-> 1 + 4, writes |-> <<<<"StreamID", 4>>>>, reads |-> <<<<"StreamID", 4>>>>]
PingFrame == [type |-> 7, length |-> 1, writes |-> <<>>, reads |-> <<>>]

Format ==
    [RST_STREAM |-> RstStreamFrame, CONNECTION_CLOSE |-> ConnectionCloseFrame, GOAWAY |-> GoawayFrame,
     WINDOW_UPDATE |-> WindowUpdateFrame, BLOCKED |-> BlockedFrame, PING |-> PingFrame]

\* The parser that Unpack calls for a type byte below 128.
Parser ==
    [RST_STREAM |-> 1, CONNECTION_CLOSE |-> 2, GOAWAY |-> 3, WINDOW_UPDATE |-> 4, BLOCKED |-> 5, PING |-> 7]
HasReason == {"CONNECTION_CLOSE", "GOAWAY"}

IsStream(f) == f.kind = "STREAM"
Bit(condition, value) == IF condition THEN value ELSE 0
Sum(widths) == FoldLeft(+, 0, widths)

-----------------------------------------------------------------------------
(* Write *)

calculateStreamIDLength(StreamID) == Min({w \in 1 .. 3 : StreamID < Base ^ w} \cup {4})

\* Offset 0 is not written, and no offset is written in one byte.
BugGetOffsetLength(Offset) ==
    IF Offset = 0 THEN 0 ELSE Min({w \in 2 .. 7 : Offset <= Base ^ w} \cup {8})
getOffsetLength(Offset) ==
    IF Offset = 0 THEN 0 ELSE Min({w \in 2 .. 7 : Offset < Base ^ w} \cup {8})

\* StreamFrame.Write: 1 FIN DataLen ooo ss.
StreamType(f, DataLenPresent) ==
    128 + Bit(f.FinBit, 64) + Bit(DataLenPresent, 32)
        + 4 * Bit(f.Offset # 0, getOffsetLength(f.Offset) - 1) + calculateStreamIDLength(f.StreamID) - 1

WriteFields(values, widths) ==
    [i \in DOMAIN values |-> [width |-> widths[i], value |-> Truncated(values[i], widths[i])]]

WriteStreamFrame(f, DataLenPresent) ==
    [type   |-> StreamType(f, DataLenPresent),
     fields |-> WriteFields(<<f.StreamID, f.Offset>> \o IF DataLenPresent THEN <<f.Data>> ELSE <<>>,
                            <<calculateStreamIDLength(f.StreamID), getOffsetLength(f.Offset), 2>>),
     data   |-> f.Data]

WriteControlFrame(f) ==
    LET names == Format[f.kind].writes
    IN  [type   |-> Format[f.kind].type,
         fields |-> WriteFields([i \in DOMAIN names |-> f.fields[names[i][1]]], [i \in DOMAIN names |-> names[i][2]]),
         data   |-> f.Data]

\* composeNextPacket leaves out the length of the last STREAM frame.
WriteFrames(fs) ==
    [i \in DOMAIN fs |-> IF IsStream(fs[i]) THEN WriteStreamFrame(fs[i], i < Len(fs)) ELSE WriteControlFrame(fs[i])]

FrameBytes(w) == 1 + Sum([i \in DOMAIN w.fields |-> w.fields[i].width]) + w.data

\* MinLength and DataLen, as composeNextPacket and the framer add them up: with
\* the length of the data, for which the last STREAM frame gets 2 bytes back.
FrameMinLength(f) ==
    IF IsStream(f) THEN 1 + calculateStreamIDLength(f.StreamID) + getOffsetLength(f.Offset) + 2 + f.Data
    ELSE Format[f.kind].length + f.Data
PayloadLength(fs) ==
    Sum([i \in DOMAIN fs |-> FrameMinLength(fs[i])]) - Bit(fs # <<>> /\ IsStream(Last(fs)), 2)

-----------------------------------------------------------------------------
(* Unpack *)

StreamWidths(type) ==
    LET offsetLen == (type \div 4) % 8
    IN  <<(type % 4) + 1, IF offsetLen = 0 THEN 0 ELSE offsetLen + 1>>
        \o IF (type \div 32) % 2 = 1 THEN <<2>> ELSE <<>>

\* The parser that the type byte selects, and the widths it reads.
ControlKind(type) == CHOOSE k \in DOMAIN Parser : Parser[k] = type
WidthsRead(w) ==
    IF w.type >= 128 THEN StreamWidths(w.type)
    ELSE LET names == Format[ControlKind(w.type)].reads IN [i \in DOMAIN names |-> names[i][2]]

\* A STREAM frame with no length, or with length 0, has the rest of the packet
\* as its data.
TakesRest(w) == w.type >= 128 /\ (Len(w.fields) = 2 \/ w.fields[3].value = 0)

RestOf(ws, i) == Sum([j \in 1 .. Len(ws) - i |-> FrameBytes(ws[i + j])])

ParseFrame(ws, i) ==
    LET w == ws[i]
    IN  IF w.type >= 128
        THEN [kind |-> "STREAM", StreamID |-> w.fields[1].value, Offset |-> w.fields[2].value,
              FinBit |-> (w.type \div 64) % 2 = 1,
              Data |-> IF TakesRest(w) THEN w.data + RestOf(ws, i) ELSE w.fields[3].value]
        ELSE LET kind == ControlKind(w.type)
                 names == Format[kind].reads
                 read(name) == w.fields[CHOOSE k \in DOMAIN names : names[k][1] = name].value
             IN  [kind |-> kind, fields |-> [name \in {names[k][1] : k \in DOMAIN names} |-> read(name)],
                  Data |-> IF kind \in HasReason THEN read("ReasonPhraseLen") ELSE 0]

LastFrame(ws) == Min({i \in DOMAIN ws : TakesRest(ws[i])} \cup {Len(ws)})
ParsedFrames(ws) == [i \in 1 .. LastFrame(ws) |-> ParseFrame(ws, i)]

\* A frame of no known type, an empty STREAM frame without FIN, or fields that
\* are not read as they were written, after which nothing is read right.
UnpackFails(ws) ==
    \E i \in 1 .. LastFrame(ws) :
        \/ ws[i].type < 128 /\ \A k \in DOMAIN Parser : Parser[k] # ws[i].type
        \/ WidthsRead(ws[i]) # [k \in DOMAIN ws[i].fields |-> ws[i].fields[k].width]
        \/ ws[i].type >= 128 /\ ~ParseFrame(ws, i).FinBit /\ ParseFrame(ws, i).Data = 0
=============================================================================
