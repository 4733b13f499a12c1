---------------------------- MODULE EndableQueue ----------------------------
(***************************************************************************)
(* What a BlockingQueue promises: the notes on AddTail, EndOfInput, QAtEOF *)
(* and RemoveHead in BlockingQueue.h.  Elements leave in the order they    *)
(* came, each once; after the end of input none comes.                     *)
(***************************************************************************)
EXTENDS Naturals, Sequences

VARIABLES
  items,  \* put and not got
  put,    \* how many were put: the elements are 1, 2, ...
  got,    \* the elements got, in the order they were
  ended

vars == <<items, put, got, ended>>

Init ==
  /\ items = <<>>
  /\ put = 0
  /\ got = <<>>
  /\ ended = FALSE

Put ==
  /\ ~ended
  /\ put' = put + 1
  /\ items' = Append(items, put + 1)
  /\ UNCHANGED <<got, ended>>

Get ==
  /\ items # <<>>
  /\ got' = Append(got, Head(items))
  /\ items' = Tail(items)
  /\ UNCHANGED <<put, ended>>

End ==
  /\ ended' = TRUE
  /\ UNCHANGED <<items, put, got>>

Clear ==
  /\ items' = <<>>
  /\ UNCHANGED <<put, got, ended>>

Next == Put \/ Get \/ End \/ Clear

Spec == Init /\ [][Next]_vars
=============================================================================
