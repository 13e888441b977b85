--------------------------- MODULE StreamReceive ---------------------------
(***************************************************************************)
(* The receiving half of a stream: the application's Read against the      *)
(* session's AddStreamFrame and RegisterError, with the frame sorter.      *)
(*                                                                         *)
(* Read holds the mutex only while it looks for a frame and while it pops  *)
(* one; the steps of the reader are the stretches between its Lock, Wait   *)
(* and Unlock calls.  readPosInFrame and readOffset are the reader's own.  *)
(* Bytes are named by their offset in the stream, so that the data handed  *)
(* to the application is a sequence of offsets.                            *)
(***************************************************************************)
EXTENDS StreamFrameSorter, Sequences, FiniteSetsExt

CONSTANTS
    PeerFrames,   \* the STREAM frames that may arrive, any number of times
    ReadSizes     \* the lengths of the buffers the application reads into

\* A Read into an empty buffer returns at once.
ASSUME ReceiveAssumption ==
    /\ PeerFrames \subseteq StreamFrame
    /\ ReadSizes \subseteq Nat \ {0}

VARIABLES
    readPosInFrame, readOffset,
    err,        \* s.err is set
    eof,        \* s.eof
    reader,     \* where Read is: "idle", "loop", "wait", "have" or "pop"
    woken,      \* newFrameOrErrCond was signalled while the reader waits
    lenP, bytesRead, frame, \* Read's p, bytesRead and frame (a set with at most one element)
    delivered,  \* the offsets of the bytes copied to the application, in order
    bugError    \* Read returned one of its "BUG:" errors

frameQueue == sorterVars
readerVars == <<readPosInFrame, readOffset, eof, lenP, bytesRead, frame, delivered, bugError>>
vars == <<frameQueue, readerVars, err, reader, woken>>

Init ==
    /\ newStreamFrameSorter
    /\ readPosInFrame = 0 /\ readOffset = 0
    /\ err = FALSE /\ eof = FALSE
    /\ reader = "idle" /\ woken = FALSE
    /\ lenP = 0 /\ bytesRead = 0 /\ frame = {}
    /\ delivered = <<>> /\ bugError = FALSE

-----------------------------------------------------------------------------
(* Read *)

\* Read is called.  After the end of the stream it returns at once.
ReadCall(n) ==
    /\ reader = "idle"
    /\ ~eof
    /\ reader' = "loop"
    /\ lenP' = n
    /\ bytesRead' = 0
    /\ UNCHANGED <<frameQueue, readPosInFrame, readOffset, eof, frame, delivered, bugError, err, woken>>

BugPosInFrame(f) == readPosInFrame
PosInFrame(f) == readOffset - f.Offset

\* The inner loop: leave with an error, with a frame, or wait.  An error wins,
\* and leaves the frame set and readPosInFrame as it was.
Look ==
    /\ \/ /\ err
          /\ reader' = "have"
          /\ frame' = Heads
          /\ UNCHANGED <<readPosInFrame, woken>>
       \/ /\ ~err
          /\ Heads # {}
          /\ reader' = "have"
          /\ frame' = Heads
          /\ \E f \in Heads : readPosInFrame' = PosInFrame(f)
          /\ UNCHANGED woken
       \/ /\ ~err
          /\ Heads = {}
          /\ reader' = "wait"
          /\ frame' = {}
          /\ woken' = FALSE
          /\ UNCHANGED readPosInFrame
    /\ UNCHANGED <<frameQueue, readOffset, eof, lenP, bytesRead, delivered, bugError, err>>

ReadLoop ==
    /\ reader = "loop"
    /\ IF Heads = {} /\ bytesRead > 0
       THEN reader' = "idle" /\ UNCHANGED <<frameQueue, readerVars, err, woken>>
       ELSE Look

ReadWakes ==
    /\ reader = "wait"
    /\ woken
    /\ Look

\* Without a frame there is an error.
ReadFails ==
    /\ reader = "have"
    /\ frame = {}
    /\ eof' = TRUE
    /\ reader' = "idle"
    /\ UNCHANGED <<frameQueue, readPosInFrame, readOffset, lenP, bytesRead, frame,
                   delivered, bugError, err, woken>>

After(read) == IF read < lenP THEN "loop" ELSE "idle"

CopyLen(f) == Min({lenP - bytesRead, f.DataLen - readPosInFrame})

\* The copy, outside the mutex.
ReadCopies ==
    /\ reader = "have"
    /\ \E f \in frame :
        LET m == CopyLen(f)
        IN  IF readPosInFrame > f.DataLen
            THEN /\ bugError' = TRUE
                 /\ reader' = "idle"
                 /\ UNCHANGED <<readPosInFrame, bytesRead, readOffset, delivered>>
            ELSE /\ delivered' = delivered \o [i \in 1 .. m |-> f.Offset + readPosInFrame + i - 1]
                 /\ readPosInFrame' = readPosInFrame + m
                 /\ bytesRead' = bytesRead + m
                 /\ readOffset' = readOffset + m
                 /\ reader' = IF readPosInFrame' >= f.DataLen THEN "pop" ELSE After(bytesRead')
                 /\ UNCHANGED bugError
    /\ UNCHANGED <<frameQueue, eof, lenP, frame, err, woken>>

\* The frame is read to its end.
ReadPops ==
    /\ reader = "pop"
    /\ IF Heads = {} THEN UNCHANGED frameQueue ELSE Pop
    /\ \E f \in frame :
        /\ eof' = (eof \/ f.FinBit)
        /\ reader' = IF f.FinBit THEN "idle" ELSE After(bytesRead)
    /\ UNCHANGED <<readPosInFrame, readOffset, lenP, bytesRead, frame, delivered, bugError, err, woken>>

-----------------------------------------------------------------------------
(* The session *)

Signal == woken' = (woken \/ reader = "wait")

\* The flow controller has checked the frame.  An error other than a duplicate
\* is returned to the session, which closes.
BugAddStreamFrame(f) ==
    /\ Received(f)
    /\ IF queuedFrames = {} THEN Signal ELSE UNCHANGED woken
    /\ UNCHANGED <<readerVars, err, reader>>
AddStreamFrame(f) ==
    /\ Received(f)
    /\ IF failed' THEN UNCHANGED woken ELSE Signal
    /\ UNCHANGED <<readerVars, err, reader>>

\* An RST_STREAM arrived, or the session closes; only the first error counts.
RegisterError ==
    /\ ~err
    /\ err' = TRUE
    /\ Signal
    /\ UNCHANGED <<frameQueue, readerVars, reader>>

Reading == ReadLoop \/ ReadWakes \/ ReadFails \/ ReadCopies \/ ReadPops

Next ==
    \/ \E n \in ReadSizes : ReadCall(n)
    \/ Reading
    \/ \E f \in PeerFrames : AddStreamFrame(f)
    \/ RegisterError

\* Once the reader is scheduled it goes on until it waits, and the
\* application reads again when a Read has returned.
Spec == Init /\ [][Next]_vars /\ WF_vars(Reading) /\ WF_vars(\E n \in ReadSizes : ReadCall(n))

-----------------------------------------------------------------------------
(* Properties *)

\* Until an error is registered, the application gets the bytes of the stream
\* in order, each once, and the end of the stream only after the last byte
\* before a FIN, however frames arrive between the steps of Read: a frame that
\* Read holds outside the mutex is still the head of the queue when Read comes
\* back to pop it.
DeliveredInOrder ==
    ~err =>
        /\ delivered = [i \in 1 .. readOffset |-> i - 1]
        /\ eof => \E f \in frame : f.FinBit /\ readOffset = EndOf(f)
        /\ reader \in {"have", "pop"} /\ frame # {} => frame = Heads

\* No wake-up is lost: data that has arrived is read, whenever its frame came,
\* until the stream ends, and after an error every Read returns.
ReaderIsWoken ==
    /\ err ~> reader = "idle"
    /\ \A n \in 0 .. MaxOffset - 1 :
        (readPosition = n /\ ~InGap(n)) ~> (readPosition > n \/ err \/ eof \/ failed)
=============================================================================
