------------------------------- MODULE MCWire -------------------------------
EXTENDS Wire
Numbers == 1 .. 8 \cup 14 .. 18
Largest == {0, 1, 2, 5, 8}
Lengths == {0, 1, 2, 5}
Gaps == 0 .. 3
Words == Base ^ 8
Control ==
    {[kind |-> "PING", fields |-> [n \in {} |-> 0], Data |-> 0],
     [kind |-> "BLOCKED", fields |-> [StreamID |-> 5], Data |-> 0],
     [kind |-> "WINDOW_UPDATE", fields |-> [StreamID |-> 0, ByteOffset |-> 300], Data |-> 0],
     [kind |-> "RST_STREAM", fields |-> [StreamID |-> 17, ByteOffset |-> 300, ErrorCode |-> 3], Data |-> 0],
     [kind |-> "CONNECTION_CLOSE", fields |-> [ErrorCode |-> 80, ReasonPhraseLen |-> 2], Data |-> 2],
     [kind |-> "GOAWAY", fields |-> [ErrorCode |-> 80, LastGoodStream |-> 5, ReasonPhraseLen |-> 0], Data |-> 0]}
\* A stream ID and an offset of every length, at and below the limits.
Streams ==
    {f \in {[kind |-> "STREAM", StreamID |-> p[1], Offset |-> p[2], FinBit |-> fin, Data |-> d] :
               p \in {<<1, 0>>, <<3, 15>>, <<4, 16>>, <<15, 64>>, <<16, 256>>, <<63, 1024>>, <<64, 4096>>,
                     <<255, 16384>>, <<255, 65535>>}, fin \in BOOLEAN, d \in {0, 3}} : f.FinBit \/ f.Data > 0}
=============================================================================
