---------------------------- MODULE FlowControl ----------------------------
(***************************************************************************)
(* The receiving side of the flow controllers and the flow control         *)
(* manager: one controller per stream and one for the connection (id 0).   *)
(* Every operation runs under the manager's mutex, so each is one action.  *)
(* UpdateHighestReceived and GetWindowUpdates are called by the session's  *)
(* goroutine, AddBytesRead by the application's.                           *)
(*                                                                         *)
(* Time is abstracted: whether a window update comes less than two RTTs    *)
(* after the one before is a free choice.  The functions keep the values   *)
(* of a removed stream, which only the properties look at.                 *)
(***************************************************************************)
EXTENDS Integers, FiniteSets, FiniteSetsExt

CONSTANTS
    Streams,                 \* stream ids
    NonContributing,         \* the streams newStream exempts (ids 1 and 3)
    InitialWindow,           \* GetReceive...FlowControlWindow, per controller
    MaxIncrement,            \* maxReceiveFlowControlWindowIncrement, per controller
    MaxBytes                 \* bound of the model: offsets received

Controllers == Streams \cup {0}

\* With an increment of 1 the threshold increment/2 is 0 and no update is sent.
ASSUME WindowAssumption ==
    /\ IsFiniteSet(Streams) /\ 0 \notin Streams
    /\ NonContributing \subseteq Streams
    /\ InitialWindow \in [Controllers -> Nat]
    /\ MaxIncrement \in [Controllers -> Nat]
    /\ \A id \in Controllers : 2 <= InitialWindow[id] /\ InitialWindow[id] <= MaxIncrement[id]
    /\ MaxBytes \in Nat

VARIABLES
    live,            \* the streams that have a controller
    removed,         \* the streams whose controller was deleted
    bytesRead, highestReceived, receiveFlowControlWindow, receiveFlowControlWindowIncrement,
    updated,         \* lastWindowUpdateTime is set
    violation        \* UpdateHighestReceived reported a violation: the session closes

vars == <<live, removed, bytesRead, highestReceived, receiveFlowControlWindow,
          receiveFlowControlWindowIncrement, updated, violation>>

window == receiveFlowControlWindow
increment == receiveFlowControlWindowIncrement

Init ==
    /\ live = {} /\ removed = {}
    /\ bytesRead = [id \in Controllers |-> 0]
    /\ highestReceived = [id \in Controllers |-> 0]
    /\ receiveFlowControlWindow = InitialWindow
    /\ receiveFlowControlWindowIncrement = InitialWindow
    /\ updated = {}
    /\ violation = FALSE

\* For a controller that exists the call returns early.  An id that the streams
\* map opens again gets a new controller; the model has another id for it.
NewStream(id) ==
    /\ ~violation
    /\ id \notin live \cup removed
    /\ live' = live \cup {id}
    /\ UNCHANGED <<removed, bytesRead, highestReceived, receiveFlowControlWindow,
                   receiveFlowControlWindowIncrement, updated, violation>>

RemoveStream(id) ==
    /\ ~violation
    /\ id \in live
    /\ live' = live \ {id}
    /\ removed' = removed \cup {id}
    /\ UNCHANGED <<bytesRead, highestReceived, receiveFlowControlWindow,
                   receiveFlowControlWindowIncrement, updated, violation>>

\* The controllers an operation on a stream changes.
BugCharged(id) == {id, 0}
Charged(id) == IF id \in NonContributing THEN {id} ELSE {id, 0}

BugIncrementOf(id, byteOffset) == byteOffset
IncrementOf(id, byteOffset) ==
    IF byteOffset > highestReceived[id] THEN byteOffset - highestReceived[id] ELSE 0

\* A violation at stream level is reported before the connection is charged.
UpdateHighestReceived(id, byteOffset) ==
    /\ ~violation
    /\ id \in live
    /\ LET inc     == IncrementOf(id, byteOffset)
           tooMuch == highestReceived[id] + inc > window[id]
           charged == IF tooMuch THEN {id} ELSE Charged(id)
       IN  /\ highestReceived' = [c \in Controllers |->
                  IF c \in charged THEN highestReceived[c] + inc ELSE highestReceived[c]]
           /\ violation' = (tooMuch \/ \E c \in charged : highestReceived'[c] > window[c])
    /\ UNCHANGED <<live, removed, bytesRead, receiveFlowControlWindow,
                   receiveFlowControlWindowIncrement, updated>>

\* stream.Read has copied n of the bytes received.
AddBytesRead(id, n) ==
    /\ id \in live
    /\ bytesRead[id] + n <= highestReceived[id]
    /\ bytesRead' = [c \in Controllers |-> IF c \in Charged(id) THEN bytesRead[c] + n ELSE bytesRead[c]]
    /\ UNCHANGED <<live, removed, highestReceived, receiveFlowControlWindow,
                   receiveFlowControlWindowIncrement, updated, violation>>

\* MaybeTriggerWindowUpdate for one controller.
BugNeedsUpdate(c) == window[c] - bytesRead[c] < 0
NeedsUpdate(c) == window[c] - bytesRead[c] < increment[c] \div 2

\* maybeAdjustWindowIncrement: doubled up to the maximum when updates come fast.
Adjusted(c, fast) ==
    IF fast /\ c \in updated THEN Min({2 * increment[c], MaxIncrement[c]}) ELSE increment[c]

BugNewWindow(c, inc) == window[c] + inc
NewWindow(c, inc) == bytesRead[c] + inc

\* The session asks for the updates to send; fast are the controllers whose
\* last update was less than two RTTs ago.
GetWindowUpdates(fast) ==
    LET due == {c \in live \cup {0} : NeedsUpdate(c)}
    IN  /\ ~violation
        /\ due # {}
        /\ receiveFlowControlWindowIncrement' =
              [c \in Controllers |-> IF c \in due THEN Adjusted(c, c \in fast) ELSE increment[c]]
        /\ receiveFlowControlWindow' =
              [c \in Controllers |-> IF c \in due THEN NewWindow(c, increment'[c]) ELSE window[c]]
        /\ updated' = updated \cup due
        /\ UNCHANGED <<live, removed, bytesRead, highestReceived, violation>>

Next ==
    \/ \E id \in Streams :
          \/ NewStream(id)
          \/ RemoveStream(id)
          \/ \E byteOffset \in 0 .. MaxBytes : UpdateHighestReceived(id, byteOffset)
          \/ \E n \in 1 .. MaxBytes : AddBytesRead(id, n)
    \/ \E fast \in SUBSET updated : GetWindowUpdates(fast)

Spec == Init /\ [][Next]_vars

-----------------------------------------------------------------------------
(* Properties *)

\* Counters are natural numbers; increments stay between 2 and their maximum.
TypeOK ==
    /\ live \subseteq Streams /\ removed \subseteq Streams
    /\ bytesRead \in [Controllers -> Nat]
    /\ highestReceived \in [Controllers -> Nat]
    /\ receiveFlowControlWindow \in [Controllers -> Nat]
    /\ receiveFlowControlWindowIncrement \in [Controllers -> Nat]
    /\ \A c \in Controllers : 2 <= increment[c] /\ increment[c] <= MaxIncrement[c]
    /\ updated \subseteq Controllers
    /\ violation \in BOOLEAN

SumOver(f) == MapThenSumSet(LAMBDA id : f[id], Streams \ NonContributing)

\* The connection's counters are the sums over all contributing streams ever
\* opened, however the frames of the streams interleave, overlap or repeat.
ConnectionIsSum ==
    ~violation =>
        /\ highestReceived[0] = SumOver(highestReceived)
        /\ bytesRead[0] = SumOver(bytesRead)

\* A window never promises more than the increment beyond what was read, so a
\* peer can never make a stream, or the connection, buffer more than
\* maxReceiveFlowControlWindowIncrement bytes.
CreditBounded ==
    ~violation =>
        \A c \in Controllers :
            /\ window[c] <= bytesRead[c] + increment[c]
            /\ highestReceived[c] - bytesRead[c] <= MaxIncrement[c]

\* No controller ever takes back a window it has announced.
WindowsNeverShrink ==
    [][\A c \in Controllers : window[c] <= window'[c] /\ increment[c] <= increment'[c]]_vars
=============================================================================
