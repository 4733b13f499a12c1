----------------------------- MODULE TaskQueue -----------------------------
(***************************************************************************)
(* What a ThreadPool promises of the tasks added to it: ThreadPool.h, the  *)
(* notes on AddTask, AbortTask and IsPresent.  Tasks begin in the order    *)
(* they were added, each of them once, and only an abort takes one out     *)
(* before.                                                                 *)
(***************************************************************************)
EXTENDS SequencesExt

CONSTANTS Tasks

VARIABLES
  pending,    \* added and not begun
  withdrawn,  \* taken out before they began
  running,
  ended

vars == <<pending, withdrawn, running, ended>>

Init ==
  /\ pending = <<>>
  /\ withdrawn = {}
  /\ running = {}
  /\ ended = {}

Submit(t) ==
  /\ t \notin withdrawn \cup running \cup ended
  /\ pending' = Append(pending, t)
  /\ UNCHANGED <<withdrawn, running, ended>>

Begin ==
  /\ pending # <<>>
  /\ running' = running \cup {Head(pending)}
  /\ pending' = Tail(pending)
  /\ UNCHANGED <<withdrawn, ended>>

\* By itself, or because it was aborted.
End(t) ==
  /\ t \in running
  /\ running' = running \ {t}
  /\ ended' = ended \cup {t}
  /\ UNCHANGED <<pending, withdrawn>>

\* An abort of tasks that have not begun.
Withdraw(t) ==
  /\ Contains(pending, t)
  /\ pending' = RemoveFirst(pending, t)
  /\ withdrawn' = withdrawn \cup {t}
  /\ UNCHANGED <<running, ended>>

WithdrawAll ==
  /\ pending' = <<>>
  /\ withdrawn' = withdrawn \cup ToSet(pending)
  /\ UNCHANGED <<running, ended>>

Next == Begin \/ WithdrawAll \/ \E t \in Tasks : Submit(t) \/ End(t) \/ Withdraw(t)

Spec == Init /\ [][Next]_vars
=============================================================================
