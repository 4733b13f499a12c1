------------------------ MODULE MCConnectionManager ------------------------
(* Instances of ConnectionManager for TLC. *)
EXTENDS ConnectionManager

CONSTANTS c1, c2, w1

TwoConnections == {c1, c2}
OneWorker == {w1}

\* c1 sends requests whole or in two parts, c2 one with a body.
WholeOrSplit == [c \in Connections |-> IF c = c1 THEN {"request", "start"} ELSE {"post"}]
OneEach == [c \in Connections |-> 1]
=============================================================================
