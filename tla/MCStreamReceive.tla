-------------------------- MODULE MCStreamReceive --------------------------
(* Frames for the model checker. *)
EXTENDS StreamReceive

\* Every frame that fits: a peer that segments and overlaps as it likes.
AnyFrames == {f \in StreamFrame : EndOf(f) <= MaxOffset}
=============================================================================
