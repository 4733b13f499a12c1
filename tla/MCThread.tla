------------------------------ MODULE MCThread ------------------------------
(* Instances of Thread for TLC. *)
EXTENDS Thread

CONSTANTS a, b

TwoClients == {a, b}
Nobody == {}
OnlyB == {b}

AllButStart == AllOps \ {"Start"}

\* a starts the thread, b does anything else.
EveryOp == [x \in Clients |-> IF x = a THEN AllOps \ {"Interrupt", "Join"} ELSE AllButStart]

\* a starts the thread while b aborts it and waits.
StartAndAbort == [x \in Clients |-> IF x = a THEN {"Start"} ELSE {"AbortAndWaitForDone"}]
=============================================================================
