--------------------------- MODULE ReliableFrames ---------------------------
(***************************************************************************)
(* What loss recovery promises to the streams, without packets, numbers or *)
(* queues: a frame is in flight after it was sent, an acknowledgement ends *)
(* its life, a loss sends it again, and an acknowledged frame is never     *)
(* sent again.                                                             *)
(***************************************************************************)
CONSTANT StreamFrames

VARIABLE phase

Init == phase = [f \in StreamFrames |-> "unsent"]

In(p) == {f \in StreamFrames : phase[f] = p}

Send(sent) ==
    /\ sent \subseteq In("unsent") \cup In("lost")
    /\ phase' = [f \in StreamFrames |-> IF f \in sent THEN "flying" ELSE phase[f]]

\* One report may acknowledge some frames and declare others lost.
Report(acked, lost) ==
    /\ acked \subseteq In("flying") /\ lost \subseteq In("flying") \ acked
    /\ phase' = [f \in StreamFrames |->
                   IF f \in acked THEN "acked" ELSE IF f \in lost THEN "lost" ELSE phase[f]]

Next ==
    \/ \E sent \in SUBSET StreamFrames : Send(sent)
    \/ \E acked, lost \in SUBSET StreamFrames : Report(acked, lost)

Spec == Init /\ [][Next]_phase
=============================================================================
