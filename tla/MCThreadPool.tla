---------------------------- MODULE MCThreadPool ----------------------------
(* Instances of ThreadPool for TLC. *)
EXTENDS ThreadPool

CONSTANTS a, b, t1, t2

TwoClients == {a, b}
TwoTasks == {t1, t2}
OneOrTwo == {1, 2}
JustOne == {1}

\* a adds the tasks and waits, b does everything else.
EveryOp == [x \in Clients |-> IF x = a THEN {"AddTask", "WaitForTask", "WaitForTasksDone"}
                             ELSE {"AbortTask", "AbortTasks", "SetPoolSize", "Destroy"}]

ShrinkAndDestroy == [x \in Clients |-> IF x = a THEN {"AddTask"} ELSE {"SetPoolSize", "Destroy"}]

AddAndAbortTasks == [x \in Clients |-> IF x = a THEN {"AddTask"} ELSE {"AbortTasks"}]
=============================================================================
