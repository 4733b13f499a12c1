---------------------------- MODULE BlockingQueue ----------------------------
(***************************************************************************)
(* Execution::BlockingQueue over its ConditionVariable.                    *)
(*                                                                         *)
(* A critical section of fCondtionVariable_.fMutex is one step.  The       *)
(* additions notify after they have unlocked, in a step of their own.      *)
(* RemoveHead unlocks and locks again between the end of a wait and its    *)
(* next test of the queue, so a thread that wakes has the whole loop       *)
(* before it.                                                              *)
(***************************************************************************)
EXTENDS Naturals, Sequences

CONSTANTS
  Threads,
  Ops,      \* Ops[t]: the calls thread t makes
  MaxItems  \* bound on the elements added

AllOps == {"AddTail", "EndOfInput", "clear", "RemoveHead", "RemoveHeadIfPossible"}

Removals == {"RemoveHead", "RemoveHeadIfPossible"}

Timeouts == {"finite", "infinite"}

ASSUME QueueAssumption ==
  /\ Ops \in [Threads -> SUBSET AllOps]
  /\ MaxItems \in Nat

VARIABLES
  fQueue_,
  fEndOfInput_,
  t_Interrupting_,  \* of each thread
  pc,               \* where each thread is
  op,               \* the call it is in
  timeout,          \* the timeout of that call
  added,            \* number of elements added: they are 1, 2, ...
  removed           \* the elements removed, in that order

data == <<fQueue_, fEndOfInput_, added, removed>>
thread == <<pc, op, timeout>>

vars == <<data, t_Interrupting_, thread>>

TypeOK ==
  /\ fQueue_ \in Seq(Nat)
  /\ fEndOfInput_ \in BOOLEAN
  /\ t_Interrupting_ \in [Threads -> BOOLEAN]
  /\ pc \in [Threads -> {"idle", "notify", "test", "asleep"}]
  /\ op \in [Threads -> AllOps \cup {"none"}]
  /\ timeout \in [Threads -> Timeouts]
  /\ added \in Nat
  /\ removed \in Seq(Nat)
  /\ \A t \in Threads :
       /\ pc[t] = "idle" <=> op[t] = "none"
       /\ pc[t] \in {"test", "asleep"} => op[t] \in Removals

Init ==
  /\ fQueue_ = <<>>
  /\ fEndOfInput_ = FALSE
  /\ t_Interrupting_ = [t \in Threads |-> FALSE]
  /\ pc = [t \in Threads |-> "idle"]
  /\ op = [t \in Threads |-> "none"]
  /\ timeout = [t \in Threads |-> "infinite"]
  /\ added = 0
  /\ removed = <<>>

Call(t, o, l) ==
  /\ o \in Ops[t]
  /\ pc[t] = "idle"
  /\ pc' = [pc EXCEPT ![t] = l]
  /\ op' = [op EXCEPT ![t] = o]

Return(t) ==
  /\ pc' = [pc EXCEPT ![t] = "idle"]
  /\ op' = [op EXCEPT ![t] = "none"]

---------------------------------------------------------------------------
(***************************************************************************)
(* Additions and the end of input                                          *)
(***************************************************************************)

\* Mutant: adds in front.
AddHead(t) ==
  /\ Call(t, "AddTail", "notify")
  /\ ~fEndOfInput_
  /\ added < MaxItems
  /\ added' = added + 1
  /\ fQueue_' = <<added'>> \o fQueue_
  /\ UNCHANGED <<fEndOfInput_, removed, t_Interrupting_, timeout>>

\* Mutant: does not notify.
AddTailQuietly(t) ==
  /\ "AddTail" \in Ops[t]
  /\ pc[t] = "idle"
  /\ ~fEndOfInput_
  /\ added < MaxItems
  /\ added' = added + 1
  /\ fQueue_' = Append(fQueue_, added')
  /\ UNCHANGED <<fEndOfInput_, removed, t_Interrupting_, thread>>

\* It is required that the end of input has not been queued.
AddTail(t) ==
  /\ Call(t, "AddTail", "notify")
  /\ ~fEndOfInput_
  /\ added < MaxItems
  /\ added' = added + 1
  /\ fQueue_' = Append(fQueue_, added')
  /\ UNCHANGED <<fEndOfInput_, removed, t_Interrupting_, timeout>>

EndOfInput(t) ==
  /\ Call(t, "EndOfInput", "notify")
  /\ fEndOfInput_' = TRUE
  /\ UNCHANGED <<fQueue_, added, removed, t_Interrupting_, timeout>>

Clear(t) ==
  /\ "clear" \in Ops[t]
  /\ pc[t] = "idle"
  /\ fQueue_' = <<>>
  /\ IF fEndOfInput_ THEN Call(t, "clear", "notify") ELSE UNCHANGED <<pc, op>>
  /\ UNCHANGED <<fEndOfInput_, added, removed, t_Interrupting_, timeout>>

Asleep == {t \in Threads : pc[t] = "asleep"}

\* Mutant: wakes one of the sleepers.
NotifyOne(t) ==
  /\ pc[t] = "notify"
  /\ op' = [op EXCEPT ![t] = "none"]
  /\ \/ Asleep = {} /\ pc' = [pc EXCEPT ![t] = "idle"]
     \/ \E s \in Asleep : pc' = [pc EXCEPT ![t] = "idle", ![s] = "test"]
  /\ UNCHANGED <<data, t_Interrupting_, timeout>>

NotifyAll(t) ==
  /\ pc[t] = "notify"
  /\ op' = [op EXCEPT ![t] = "none"]
  /\ pc' = [s \in Threads |-> IF s = t THEN "idle" ELSE IF s \in Asleep THEN "test" ELSE pc[s]]
  /\ UNCHANGED <<data, t_Interrupting_, timeout>>

---------------------------------------------------------------------------
(***************************************************************************)
(* Removals                                                                *)
(***************************************************************************)

Remove(t) ==
  /\ \E o \in Removals : Call(t, o, "test")
  /\ \E d \in Timeouts : timeout' = [timeout EXCEPT ![t] = d]
  /\ UNCHANGED <<data, t_Interrupting_>>

\* RemoveHeadIf finds an element, though the time may be over.
Take(t) ==
  /\ pc[t] = "test"
  /\ fQueue_ # <<>>
  /\ removed' = Append(removed, Head(fQueue_))
  /\ fQueue_' = Tail(fQueue_)
  /\ Return(t)
  /\ UNCHANGED <<fEndOfInput_, added, t_Interrupting_, timeout>>

\* TimeOutException, or no element: at the end of input whatever the timeout.
TakeNothing(t) ==
  /\ pc[t] = "test"
  /\ fQueue_ = <<>>
  /\ fEndOfInput_ \/ timeout[t] = "finite"
  /\ Return(t)
  /\ UNCHANGED <<data, t_Interrupting_, timeout>>

\* Mutant: sleeps without having looked at the queue.
SleepUntested(t) ==
  /\ pc[t] = "test"
  /\ ~t_Interrupting_[t]
  /\ pc' = [pc EXCEPT ![t] = "asleep"]
  /\ UNCHANGED <<data, t_Interrupting_, op, timeout>>

\* The wait looks for an interruption before it releases the mutex.
Sleep(t) ==
  /\ pc[t] = "test"
  /\ fQueue_ = <<>>
  /\ ~fEndOfInput_
  /\ ~t_Interrupting_[t]
  /\ pc' = [pc EXCEPT ![t] = "asleep"]
  /\ UNCHANGED <<data, t_Interrupting_, op, timeout>>

\* Mutant: the exception leaves the thread in the call.
InterruptedInCall(t) ==
  /\ pc[t] = "test"
  /\ t_Interrupting_[t]
  /\ t_Interrupting_' = [t_Interrupting_ EXCEPT ![t] = FALSE]
  /\ pc' = [pc EXCEPT ![t] = "idle"]
  /\ UNCHANGED <<data, op, timeout>>

Interrupted(t) ==
  /\ pc[t] = "test"
  /\ fQueue_ = <<>>
  /\ ~fEndOfInput_
  /\ t_Interrupting_[t]
  /\ t_Interrupting_' = [t_Interrupting_ EXCEPT ![t] = FALSE]
  /\ Return(t)
  /\ UNCHANGED <<data, timeout>>

\* The end of a slice of the wait, of the timeout, or a spurious wakeup.
SliceOver(t) ==
  /\ pc[t] = "asleep"
  /\ pc' = [pc EXCEPT ![t] = "test"]
  /\ UNCHANGED <<data, t_Interrupting_, op, timeout>>

\* Some other thread calls Thread::Interrupt on t.
Interrupt(t) ==
  /\ ~t_Interrupting_[t]
  /\ t_Interrupting_' = [t_Interrupting_ EXCEPT ![t] = TRUE]
  /\ UNCHANGED <<data, thread>>

---------------------------------------------------------------------------
Step(t) == NotifyAll(t) \/ Take(t) \/ TakeNothing(t) \/ Sleep(t) \/ Interrupted(t)

Next ==
  \E t \in Threads :
    \/ AddTail(t) \/ EndOfInput(t) \/ Clear(t) \/ Remove(t)
    \/ Step(t) \/ SliceOver(t) \/ Interrupt(t)

Spec == Init /\ [][Next]_vars

\* The scheduler runs every thread that can go on.  A sleeper whose slice ends need
\* not be rescheduled: what holds does not lean on the polling.
FairSpec == Spec /\ \A t \in Threads : WF_vars(Step(t))

---------------------------------------------------------------------------
(***************************************************************************)
(* Properties                                                              *)
(***************************************************************************)

\* The queue implements EndableQueue: elements are removed in the order they were
\* added, each once, none is lost to a timeout or an interruption, and none comes
\* after the end of input.
Endable == INSTANCE EndableQueue
             WITH items <- fQueue_, put <- added, got <- removed, ended <- fEndOfInput_

EndableSpec == Endable!Spec

\* No lost wakeup: while a consumer sleeps on a queue that has an element, or has
\* ended, whoever added it has yet to notify everybody.
NoSleeperMissed ==
  Asleep # {} /\ (fQueue_ # <<>> \/ fEndOfInput_) => \E s \in Threads : pc[s] = "notify"

\* The consumers together get the elements in the order of the additions, none twice.
Rising(s) == \A i, j \in 1 .. Len(s) : i < j => s[i] < s[j]

InOrder == Rising(removed)

\* Once QAtEOF is true it stays true.
EOFIsForEver ==
  [][fEndOfInput_ /\ fQueue_ = <<>> => (fEndOfInput_ /\ fQueue_ = <<>>)']_vars

\* After the end of input every removal ends, with an element or without one, whatever
\* its timeout and without help from the polling.
EndReachesAll ==
  \A t \in Threads : fEndOfInput_ /\ op[t] \in Removals ~> op[t] = "none"

\* An element does not stay in the queue while somebody sleeps in RemoveHead.
ElementReachesSleeper == Asleep # {} /\ fQueue_ # <<>> ~> Asleep = {} \/ fQueue_ = <<>>
=============================================================================
