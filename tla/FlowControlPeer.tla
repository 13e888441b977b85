-------------------------- MODULE FlowControlPeer --------------------------
(***************************************************************************)
(* The receiving side of flow control against a peer that respects the     *)
(* windows it knows of, or one that ignores them.  The peer learns of      *)
(* window updates late or in part, its frames arrive in any order and any  *)
(* number of times, and the application reads whenever it likes.  The peer *)
(* is not part of this repository; it sends Total[id] bytes on each        *)
(* stream.                                                                 *)
(***************************************************************************)
EXTENDS FlowControl

CONSTANT Total

ASSUME PeerAssumption == Total \in [Streams -> 0 .. MaxBytes]

VARIABLES
    honest,     \* whether the peer respects the windows it knows of
    peerSent,   \* the highest offset the peer has sent, per stream
    peerWindow  \* the windows the peer knows of

peerVars == <<vars, honest, peerSent, peerWindow>>

PeerInit ==
    /\ Init
    /\ honest \in BOOLEAN
    /\ peerSent = [id \in Streams |-> 0]
    /\ peerWindow = InitialWindow

\* External: the peer sends one more byte, within both of its windows if it is honest.
PeerSends(id) ==
    /\ peerSent[id] < Total[id]
    /\ honest => /\ peerSent[id] < peerWindow[id]
                 /\ id \in NonContributing \/ SumOver(peerSent) < peerWindow[0]
    /\ peerSent' = [peerSent EXCEPT ![id] = @ + 1]
    /\ UNCHANGED <<vars, honest, peerWindow>>

\* External: a window update that was sent reaches the peer.
PeerLearns(c) ==
    /\ peerWindow[c] # window[c]
    /\ peerWindow' = [peerWindow EXCEPT ![c] = window[c]]
    /\ UNCHANGED <<vars, honest, peerSent>>

\* handleStreamFrame: the first frame opens the stream.
Opens(id) == peerSent[id] > 0 /\ NewStream(id) /\ UNCHANGED <<honest, peerSent, peerWindow>>
Arrives(id) ==
    /\ \E byteOffset \in 0 .. peerSent[id] : UpdateHighestReceived(id, byteOffset)
    /\ UNCHANGED <<honest, peerSent, peerWindow>>
Reads(id) == (\E n \in 1 .. MaxBytes : AddBytesRead(id, n)) /\ UNCHANGED <<honest, peerSent, peerWindow>>
Updates ==
    /\ \E fast \in SUBSET updated : GetWindowUpdates(fast)
    /\ UNCHANGED <<honest, peerSent, peerWindow>>

\* garbageCollectStreams, once the stream was read to its end.
Finishes(id) ==
    /\ bytesRead[id] = Total[id]
    /\ RemoveStream(id)
    /\ UNCHANGED <<honest, peerSent, peerWindow>>

PeerNext ==
    \/ \E id \in Streams : PeerSends(id) \/ Opens(id) \/ Arrives(id) \/ Reads(id) \/ Finishes(id)
    \/ \E c \in Controllers : PeerLearns(c)
    \/ Updates

\* The peer retransmits what is lost, the session's run loop keeps running
\* (every read schedules it), window updates are retransmitted until they
\* arrive, and the application keeps reading.
PeerSpec ==
    /\ PeerInit /\ [][PeerNext]_peerVars
    /\ WF_peerVars(Updates)
    /\ \A c \in Controllers : WF_peerVars(PeerLearns(c))
    /\ \A id \in Streams : /\ WF_peerVars(PeerSends(id)) /\ WF_peerVars(Opens(id))
                           /\ WF_peerVars(Arrives(id)) /\ WF_peerVars(Reads(id))

-----------------------------------------------------------------------------
(* Properties *)

\* A peer that keeps to the windows it was told of is never accused of a
\* violation, neither on a stream nor on the connection.
HonestPeerIsAccepted == honest => ~violation

\* Flow control never stalls: with at least 2 as increment, everything an honest
\* peer has to send is eventually received and read.
EverythingFlows == \A id \in Streams : honest ~> (bytesRead[id] = Total[id])
=============================================================================
