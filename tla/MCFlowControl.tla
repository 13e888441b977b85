--------------------------- MODULE MCFlowControl ---------------------------
(* Windows and transfers for the model checker. *)
EXTENDS FlowControlPeer

Windows == [id \in Controllers |-> 4]
Increments == [id \in Controllers |-> 5]
Transfers == [id \in Streams |-> IF id = 3 THEN 1 ELSE IF id = 5 THEN 5 ELSE 2]
=============================================================================
