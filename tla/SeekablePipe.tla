---------------------------- MODULE SeekablePipe ----------------------------
(***************************************************************************)
(* What a SharedMemoryStream promises, whoever calls it: contents with a   *)
(* read and a write position, written in place or at the end; a read gets  *)
(* the next elements, and gets none only when the end of input has been    *)
(* announced and the contents are used up.                                 *)
(***************************************************************************)
EXTENDS Naturals, Sequences

CONSTANTS Threads, Nothing

VARIABLES
  contents,
  readAt, writeAt,  \* how many elements are before each position
  written,          \* how many were written: they are 1, 2, ...
  ended,
  answer            \* what the last read of each thread got

vars == <<contents, readAt, writeAt, written, ended, answer>>

Init ==
  /\ contents = <<>> /\ readAt = 0 /\ writeAt = 0 /\ written = 0
  /\ ended = FALSE
  /\ answer = [t \in Threads |-> Nothing]

\* The elements take the place of those at the position, or lengthen the contents.
Put ==
  /\ ~ended
  /\ written' \in Nat
  /\ written' > written
  /\ writeAt' = writeAt + (written' - written)
  /\ contents' = [i \in 1 .. IF Len(contents) > writeAt' THEN Len(contents) ELSE writeAt' |->
                    IF i \in writeAt + 1 .. writeAt' THEN written + (i - writeAt) ELSE contents[i]]
  /\ UNCHANGED <<readAt, ended, answer>>

Get(t) ==
  /\ \E n \in 1 .. Len(contents) - readAt :
       /\ answer' = [answer EXCEPT ![t] = SubSeq(contents, readAt + 1, readAt + n)]
       /\ readAt' = readAt + n
  /\ UNCHANGED <<contents, writeAt, written, ended>>

GetEnd(t) ==
  /\ ended
  /\ readAt = Len(contents)
  /\ answer' = [answer EXCEPT ![t] = <<>>]
  /\ UNCHANGED <<contents, readAt, writeAt, written, ended>>

\* A call begins, or finds that there may be more to come.
Ask(t) ==
  /\ answer' = [answer EXCEPT ![t] = Nothing]
  /\ UNCHANGED <<contents, readAt, writeAt, written, ended>>

End ==
  /\ ended' = TRUE
  /\ UNCHANGED <<contents, readAt, writeAt, written, answer>>

Seek ==
  /\ readAt' \in 0 .. Len(contents)
  /\ writeAt' \in 0 .. Len(contents)
  /\ UNCHANGED <<contents, written, ended, answer>>

Next ==
  \/ Put \/ End \/ Seek
  \/ \E t \in Threads : Get(t) \/ GetEnd(t) \/ Ask(t)

Spec == Init /\ [][Next]_vars
=============================================================================
