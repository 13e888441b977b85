----------------------------- MODULE StreamsMap -----------------------------
(***************************************************************************)
(* streamsMap, and Session.garbageCollectStreams, which calls Iterate and  *)
(* removes streams on the way; the other caller, closeStreamsWithError,    *)
(* changes nothing in the map.  Every operation holds the mutex, so each   *)
(* is one action; GetOrOpenStream looks the stream up twice, under two     *)
(* locks, and only the second look decides.                                *)
(*                                                                         *)
(* A stream is an id.  Whether stream.finished() holds, and where the      *)
(* lambda given to RoundRobinIterate returns false, is up to the           *)
(* environment.                                                            *)
(***************************************************************************)
EXTENDS Integers, FiniteSets, Sequences, Functions

CONSTANTS
    ClientIDs,            \* ids of streams, odd: opened by the client
    ServerIDs,            \* ids of streams, even: opened by the server
    MaxNewStreamIDDelta,  \* protocol.MaxNewStreamIDDelta
    MaxIncomingStreams,   \* connectionParameters.GetMaxIncomingStreams()
    MaxOutgoingStreams,   \* connectionParameters.GetMaxOutgoingStreams()
    MaxOpened             \* bound of the model: streams opened in all

StreamIDs == ClientIDs \cup ServerIDs

ASSUME StreamsMapAssumption ==
    /\ {1, 3} \subseteq ClientIDs
    /\ \A id \in ClientIDs : id \in Nat /\ id % 2 = 1
    /\ \A id \in ServerIDs : id \in Nat \ {0} /\ id % 2 = 0
    /\ MaxNewStreamIDDelta \in Nat \ {0}
    /\ MaxIncomingStreams \in Nat /\ MaxOutgoingStreams \in Nat

VARIABLES
    streams,       \* id -> "absent", "open", or "nil" for the nil left by RemoveStream
    openStreams, highestStreamOpenedByClient, streamsOpenedAfterLastGarbageCollect,
    numIncomingStreams, numOutgoingStreams, roundRobinIndex,
    finished,      \* open streams for which stream.finished() holds
    opened,        \* how often each id was opened
    considered     \* the streams the last RoundRobinIterate called its lambda for

mapVars == <<streams, openStreams, highestStreamOpenedByClient, streamsOpenedAfterLastGarbageCollect,
             numIncomingStreams, numOutgoingStreams, roundRobinIndex>>
allMapVars == <<mapVars, finished, opened, considered>>

MapInit ==
    /\ streams = [id \in StreamIDs |-> "absent"]
    /\ openStreams = <<>> /\ highestStreamOpenedByClient = 0 /\ streamsOpenedAfterLastGarbageCollect = 0
    /\ numIncomingStreams = 0 /\ numOutgoingStreams = 0 /\ roundRobinIndex = 0
    /\ finished = {} /\ opened = [id \in StreamIDs |-> 0] /\ considered = {}

OpenIDs == {id \in StreamIDs : streams[id] = "open"}

-----------------------------------------------------------------------------
(* Opening *)

\* The entries that garbageCollectClosedStreams deletes.
BugCollectable(id, highest) == id \in ServerIDs \/ id <= highest
Collectable(id, highest) == id \in ServerIDs \/ id + MaxNewStreamIDDelta <= highest

garbageCollectClosedStreams(highest) ==
    [id \in StreamIDs |->
        IF streams[id] = "nil" /\ Collectable(id, highest) THEN "absent" ELSE streams[id]]

TooManyIncoming == numIncomingStreams >= MaxIncomingStreams

TooOld(id) == id + MaxNewStreamIDDelta < highestStreamOpenedByClient

\* GetOrOpenStream returns an error, which closes the session, and changes nothing.
Refuses(id) == streams[id] = "absent" /\ (TooManyIncoming \/ id \in ServerIDs \/ TooOld(id))

\* putStream, in the map left by the garbage collection if there was one.
putStream(id, map) ==
    /\ streams' = [map EXCEPT ![id] = "open"]
    /\ openStreams' = Append(openStreams, id)
    /\ FoldFunction(+, 0, opened) < MaxOpened
    /\ opened' = [opened EXCEPT ![id] = @ + 1]

GetOrOpenStream(id) ==
    LET highest == IF id > highestStreamOpenedByClient THEN id ELSE highestStreamOpenedByClient
        collect == (streamsOpenedAfterLastGarbageCollect + 1) % MaxNewStreamIDDelta = 0
    IN  /\ streams[id] = "absent"
        /\ ~Refuses(id)
        /\ numIncomingStreams' = numIncomingStreams + 1
        /\ highestStreamOpenedByClient' = highest
        /\ streamsOpenedAfterLastGarbageCollect' =
              IF collect THEN 0 ELSE streamsOpenedAfterLastGarbageCollect + 1
        /\ putStream(id, IF collect THEN garbageCollectClosedStreams(highest) ELSE streams)
        /\ UNCHANGED <<numOutgoingStreams, roundRobinIndex, finished, considered>>

\* An id that is already in use, or one too many, is an error to the caller.
OpenStream(id) ==
    /\ id \in ServerIDs
    /\ streams[id] = "absent"
    /\ numOutgoingStreams < MaxOutgoingStreams
    /\ numOutgoingStreams' = numOutgoingStreams + 1
    /\ putStream(id, streams)
    /\ UNCHANGED <<highestStreamOpenedByClient, streamsOpenedAfterLastGarbageCollect, numIncomingStreams,
                   roundRobinIndex, finished, considered>>

-----------------------------------------------------------------------------
(* Closing *)

\* Environment: both directions of the stream end, or it has an error.
Finish(id) ==
    /\ streams[id] = "open" /\ id \notin finished
    /\ finished' = finished \cup {id}
    /\ UNCHANGED <<mapVars, opened, considered>>

\* The state of a pass over openStreams: array is the slice's backing array as
\* the range statement sees it, of which the first len entries are openStreams.
PassStart == [array |-> openStreams, len |-> Len(openStreams), index |-> roundRobinIndex,
              removed |-> {}, stop |-> FALSE]

\* RemoveStream copies the entries behind the removed one over it.
IndexAfter(pass, i) == IF i <= pass.index THEN pass.index - 1 ELSE pass.index
BugShifted(pass, i) == [j \in DOMAIN pass.array |-> IF j > i /\ j < pass.len THEN pass.array[j + 1] ELSE pass.array[j]]
Shifted(pass, i) == [j \in DOMAIN pass.array |-> IF j >= i /\ j < pass.len THEN pass.array[j + 1] ELSE pass.array[j]]
RemoveStream(pass, id) ==
    LET i == CHOOSE j \in 1 .. pass.len : pass.array[j] = id
    IN  [pass EXCEPT !.array = Shifted(pass, i), !.len = @ - 1, !.index = IndexAfter(pass, i), !.removed = @ \cup {id}]

\* Iterate with the lambda of garbageCollectStreams; iterateFunc finds a nil
\* for an entry that was removed before, and the pass ends with an error.
BugPassStep(pass, k) ==
    LET id == pass.array[k]
    IN  IF pass.stop THEN pass
        ELSE IF id \in pass.removed THEN [pass EXCEPT !.stop = TRUE]
        ELSE IF id \in finished THEN pass ELSE RemoveStream(pass, id)
PassStep(pass, k) ==
    LET id == pass.array[k]
    IN  IF pass.stop THEN pass
        ELSE IF id \in pass.removed THEN [pass EXCEPT !.stop = TRUE]
        ELSE IF id \in finished THEN RemoveStream(pass, id) ELSE pass

\* The states a pass may be in after the first k entries: exactly one.
Passes[k \in 0 .. Len(openStreams)] ==
    IF k = 0 THEN {PassStart} ELSE {PassStep(pass, k) : pass \in Passes[k - 1]}

garbageCollectStreams ==
    /\ finished # {}
    /\ UNCHANGED <<highestStreamOpenedByClient, streamsOpenedAfterLastGarbageCollect, opened, considered>>
    /\ \E pass \in Passes[Len(openStreams)] :
        /\ streams' = [id \in StreamIDs |-> IF id \in pass.removed THEN "nil" ELSE streams[id]]
        /\ openStreams' = SubSeq(pass.array, 1, pass.len)
        /\ roundRobinIndex' = pass.index
        /\ numIncomingStreams' = numIncomingStreams - Cardinality(pass.removed \cap ClientIDs)
        /\ numOutgoingStreams' = numOutgoingStreams - Cardinality(pass.removed \cap ServerIDs)
        /\ finished' = finished \ pass.removed

-----------------------------------------------------------------------------
(* RoundRobinIterate *)

Prioritized == {1, 3}

\* The other streams, from the round-robin index on.
BugTurns == SelectSeq(openStreams, LAMBDA id : id \notin Prioritized)
Turns ==
    LET n == Len(openStreams)
        order == [i \in 1 .. n |-> openStreams[((i - 1 + roundRobinIndex) % n) + 1]]
    IN  SelectSeq(order, LAMBDA id : id \notin Prioritized)

\* The lambda returns false for stopAt.
UpTo(seq, stopAt) ==
    IF stopAt \in Range(seq) THEN SubSeq(seq, 1, CHOOSE i \in DOMAIN seq : seq[i] = stopAt) ELSE seq

\* The streams the lambda is called for, in order: 1 and 3 come first, and the
\* nil of a closed one ends the iteration.
HeaderFails == \E id \in Prioritized : streams[id] = "nil"
First(stopAt) ==
    IF streams[1] = "nil" THEN <<>> ELSE UpTo(SelectSeq(<<1, 3>>, LAMBDA id : streams[id] = "open"), stopAt)
Others(stopAt) == IF HeaderFails \/ stopAt \in Prioritized THEN <<>> ELSE UpTo(Turns, stopAt)
Considered(stopAt) == First(stopAt) \o Others(stopAt)

RoundRobinIterate(stopAt) ==
    /\ openStreams # <<>>
    /\ UNCHANGED <<streams, openStreams, highestStreamOpenedByClient, streamsOpenedAfterLastGarbageCollect,
                   numIncomingStreams, numOutgoingStreams, finished, opened>>
    /\ considered' = Range(Considered(stopAt))
    /\ roundRobinIndex' = IF HeaderFails \/ stopAt \in Prioritized THEN roundRobinIndex
                          ELSE (roundRobinIndex + Len(Others(stopAt))) % Len(openStreams)

-----------------------------------------------------------------------------
MapNext ==
    \/ \E id \in StreamIDs : GetOrOpenStream(id) \/ OpenStream(id) \/ Finish(id)
    \/ garbageCollectStreams
    \/ \E stopAt \in StreamIDs \cup {0} : RoundRobinIterate(stopAt)

\* The session's loop both sends and collects again and again, and streams 1 and
\* 3 do not fill every packet.
Iteration == \E stopAt \in StreamIDs \ Prioritized : RoundRobinIterate(stopAt)
MapSpec == MapInit /\ [][MapNext]_allMapVars /\ WF_allMapVars(garbageCollectStreams) /\ WF_allMapVars(Iteration)

-----------------------------------------------------------------------------
(* Properties *)

\* The slice openStreams and the counters say the same as the map, although
\* streams are removed from the slice while Iterate runs over it: neither
\* a stream that is never iterated nor a stale entry nor a leaked count.
BookkeepingExact ==
    /\ Range(openStreams) = OpenIDs
    /\ Len(openStreams) = Cardinality(OpenIDs)
    /\ numIncomingStreams = Cardinality(OpenIDs \cap ClientIDs)
    /\ numOutgoingStreams = Cardinality(OpenIDs \cap ServerIDs)
    /\ finished \subseteq OpenIDs

\* A client cannot reopen a stream that was closed.  Above the ids that are too
\* old for GetOrOpenStream the map keeps their nils, and the two ranges leave out
\* a single id, exactly MaxNewStreamIDDelta below the highest one: <= in
\* garbageCollectClosedStreams, < in GetOrOpenStream.
RecentlyClosedStaysClosed ==
    [][\A id \in ClientIDs :
          opened'[id] > 1 /\ opened'[id] # opened[id] =>
              id + MaxNewStreamIDDelta = highestStreamOpenedByClient]_allMapVars

\* As long as streams 1 and 3 are not closed no open stream starves, whichever
\* streams open and close meanwhile and wherever the iteration stops: the
\* round-robin index reaches it.
NoStarvation ==
    \A id \in StreamIDs \ Prioritized :
        streams[id] = "open" ~> id \in considered \/ streams[id] # "open" \/ HeaderFails

\* Every finished stream is removed by some pass.
FinishedAreRemoved == \A id \in StreamIDs : id \in finished ~> id \notin finished
=============================================================================
