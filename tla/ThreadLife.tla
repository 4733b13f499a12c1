----------------------------- MODULE ThreadLife -----------------------------
(***************************************************************************)
(* What a Thread promises those who hold a pointer to it: Thread.h, the    *)
(* notes on GetStatus, Abort and on the function a thread calls once.      *)
(***************************************************************************)
VARIABLES
  status,   \* GetStatus ()
  running,  \* the function is being called
  done      \* WaitForDone would return

vars == <<status, running, done>>

Init ==
  /\ status = "eNotYetRunning"
  /\ running = FALSE
  /\ done = FALSE

\* The one call of the function begins.
Begin ==
  /\ status = "eNotYetRunning"
  /\ status' = "eRunning"
  /\ running' = TRUE
  /\ UNCHANGED done

\* Abort of a thread that is running.
RequestAbort ==
  /\ status = "eRunning"
  /\ status' = "eAborting"
  /\ UNCHANGED <<running, done>>

\* The function returns or throws.
End ==
  /\ running
  /\ running' = FALSE
  /\ UNCHANGED <<status, done>>

Complete ==
  /\ status \in {"eRunning", "eAborting"}
  /\ ~running
  /\ status' = "eCompleted"
  /\ UNCHANGED <<running, done>>

\* A thread that has not begun is completed without a call of its function, by
\* Abort or because it was interrupted first.
Cancel ==
  /\ status = "eNotYetRunning"
  /\ status' = "eCompleted"
  /\ UNCHANGED <<running, done>>

Announce ==
  /\ status = "eCompleted"
  /\ done' = TRUE
  /\ UNCHANGED <<status, running>>

Next == Begin \/ RequestAbort \/ End \/ Complete \/ Cancel \/ Announce

Spec == Init /\ [][Next]_vars
=============================================================================
