---------------------------- MODULE MCStreamSend ----------------------------
(* Windows for the model checker: those of the streams are what is written, *)
(* that of the connection is smaller.                                      *)
EXTENDS StreamSend

FirstWindows == [c \in Controllers |-> IF c = 5 THEN 2 ELSE 1]
LastWindows == [c \in Controllers |-> IF c = 0 THEN {3} ELSE {}]
Offers == [s \in Streams |-> IF s = 3 THEN 1 ELSE 2]
=============================================================================
