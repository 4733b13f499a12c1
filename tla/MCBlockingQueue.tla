-------------------------- MODULE MCBlockingQueue --------------------------
(* Instances of BlockingQueue for TLC. *)
EXTENDS BlockingQueue

CONSTANTS p, c1, c2

ProducerAndConsumers == {p, c1, c2}

\* A consumer may also add, and clear the queue.
Mixed == [t \in Threads |-> CASE t = p -> {"AddTail", "EndOfInput"}
                              [] t = c1 -> {"RemoveHead", "AddTail"}
                              [] t = c2 -> {"RemoveHead", "RemoveHeadIfPossible", "clear"}]
=============================================================================
