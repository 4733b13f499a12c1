---------------------------- MODULE BlockingQueue_proofs ----------------------------
(***************************************************************************)
(* Proofs about BlockingQueue, for any threads, calls and number of        *)
(* elements.                                                               *)
(***************************************************************************)
EXTENDS BlockingQueue, TLAPS

\* The elements removed came before those in the queue, and these before the next.
Passed ==
  /\ Rising(fQueue_)
  /\ \A i \in 1 .. Len(removed), j \in 1 .. Len(fQueue_) : removed[i] < fQueue_[j]
  /\ \A i \in 1 .. Len(removed) : removed[i] <= added
  /\ \A j \in 1 .. Len(fQueue_) : fQueue_[j] <= added

IInv == TypeOK /\ NoSleeperMissed /\ Passed /\ InOrder

-----------------------------------------------------------------------------

LEMMA InitIInv == Init => IInv
<1> SUFFICES ASSUME Init PROVE IInv
  OBVIOUS
<1>1. TypeOK
  <2>1. fQueue_ \in Seq(Nat) /\ removed \in Seq(Nat)
    BY DEF Init
  <2> QED
    BY <2>1 DEF Init, TypeOK, AllOps, Timeouts
<1>2. NoSleeperMissed
  BY DEF Init, NoSleeperMissed, Asleep
<1>3. Passed /\ InOrder
  <2>1. Len(fQueue_) = 0 /\ Len(removed) = 0
    BY DEF Init
  <2> QED
    BY <2>1 DEF Passed, InOrder, Rising
<1> QED
  BY <1>1, <1>2, <1>3 DEF IInv

LEMMA TypeStep == TypeOK /\ [Next]_vars => TypeOK'
<1> SUFFICES ASSUME TypeOK, [Next]_vars
             PROVE  TypeOK'
  OBVIOUS
<1> USE QueueAssumption DEF TypeOK, AllOps, Removals, Timeouts, vars, data, thread, Call, Return, Asleep
<1>1. ASSUME NEW t \in Threads, AddTail(t) PROVE TypeOK'
  <2>1. added' \in Nat /\ fQueue_' \in Seq(Nat)
    BY <1>1 DEF AddTail
  <2> QED
    BY <1>1, <2>1 DEF AddTail
<1>2. ASSUME NEW t \in Threads, EndOfInput(t) PROVE TypeOK'
  BY <1>2 DEF EndOfInput
<1>3. ASSUME NEW t \in Threads, Clear(t) PROVE TypeOK'
  <2>1. fQueue_' \in Seq(Nat)
    BY <1>3 DEF Clear
  <2>2. UNCHANGED <<fEndOfInput_, added, removed, t_Interrupting_, timeout>>
    BY <1>3 DEF Clear
  <2>3. CASE fEndOfInput_
    <3>1. pc' = [pc EXCEPT ![t] = "notify"] /\ op' = [op EXCEPT ![t] = "clear"]
      BY <1>3, <2>3 DEF Clear
    <3> QED
      BY <2>1, <2>2, <3>1
  <2>4. CASE ~fEndOfInput_
    <3>1. UNCHANGED <<pc, op>>
      BY <1>3, <2>4 DEF Clear
    <3> QED
      BY <2>1, <2>2, <3>1
  <2> QED
    BY <2>3, <2>4
<1>4. ASSUME NEW t \in Threads, NotifyAll(t) PROVE TypeOK'
  BY <1>4 DEF NotifyAll
<1>5. ASSUME NEW t \in Threads, Remove(t) PROVE TypeOK'
  BY <1>5 DEF Remove
<1>6. ASSUME NEW t \in Threads, Take(t) PROVE TypeOK'
  BY <1>6 DEF Take
<1>7. ASSUME NEW t \in Threads, TakeNothing(t) PROVE TypeOK'
  BY <1>7 DEF TakeNothing
<1>8. ASSUME NEW t \in Threads, Sleep(t) PROVE TypeOK'
  BY <1>8 DEF Sleep
<1>9. ASSUME NEW t \in Threads, Interrupted(t) PROVE TypeOK'
  BY <1>9 DEF Interrupted
<1>10. ASSUME NEW t \in Threads, SliceOver(t) PROVE TypeOK'
  BY <1>10 DEF SliceOver
<1>11. ASSUME NEW t \in Threads, Interrupt(t) PROVE TypeOK'
  BY <1>11 DEF Interrupt
<1>12. CASE UNCHANGED vars
  BY <1>12 DEF vars, data, thread
<1> QED
  BY <1>1, <1>2, <1>3, <1>4, <1>5, <1>6, <1>7, <1>8, <1>9, <1>10, <1>11, <1>12 DEF Next, Step

\* A notification leaves no sleeper; who makes the queue worth waking for goes on to
\* notify; and who goes to sleep has seen nothing worth staying awake for.
LEMMA SleeperStep == TypeOK /\ NoSleeperMissed /\ [Next]_vars => NoSleeperMissed'
<1> SUFFICES ASSUME TypeOK, NoSleeperMissed, [Next]_vars
             PROVE  NoSleeperMissed'
  OBVIOUS
<1> USE DEF TypeOK, NoSleeperMissed, Asleep, vars, data, thread, Call, Return
<1>1. ASSUME NEW t \in Threads, AddTail(t) PROVE NoSleeperMissed'
  BY <1>1 DEF AddTail
<1>2. ASSUME NEW t \in Threads, EndOfInput(t) PROVE NoSleeperMissed'
  BY <1>2 DEF EndOfInput
<1>3. ASSUME NEW t \in Threads, Clear(t) PROVE NoSleeperMissed'
  BY <1>3 DEF Clear
<1>4. ASSUME NEW t \in Threads, NotifyAll(t) PROVE NoSleeperMissed'
  BY <1>4 DEF NotifyAll
<1>5. ASSUME NEW t \in Threads, Remove(t) PROVE NoSleeperMissed'
  BY <1>5 DEF Remove
<1>6. ASSUME NEW t \in Threads, Take(t) PROVE NoSleeperMissed'
  BY <1>6 DEF Take
<1>7. ASSUME NEW t \in Threads, TakeNothing(t) PROVE NoSleeperMissed'
  BY <1>7 DEF TakeNothing
<1>8. ASSUME NEW t \in Threads, Sleep(t) PROVE NoSleeperMissed'
  BY <1>8 DEF Sleep
<1>9. ASSUME NEW t \in Threads, Interrupted(t) PROVE NoSleeperMissed'
  BY <1>9 DEF Interrupted
<1>10. ASSUME NEW t \in Threads, SliceOver(t) PROVE NoSleeperMissed'
  BY <1>10 DEF SliceOver
<1>11. ASSUME NEW t \in Threads, Interrupt(t) PROVE NoSleeperMissed'
  BY <1>11 DEF Interrupt
<1>12. CASE UNCHANGED vars
  BY <1>12 DEF vars, data, thread
<1> QED
  BY <1>1, <1>2, <1>3, <1>4, <1>5, <1>6, <1>7, <1>8, <1>9, <1>10, <1>11, <1>12 DEF Next, Step

LEMMA OrderStep == TypeOK /\ Passed /\ InOrder /\ [Next]_vars => Passed' /\ InOrder'
<1> SUFFICES ASSUME TypeOK, Passed, InOrder, [Next]_vars
             PROVE  Passed' /\ InOrder'
  OBVIOUS
<1> USE DEF TypeOK
<1>1. ASSUME NEW t \in Threads, AddTail(t) PROVE Passed' /\ InOrder'
  <2>1. /\ fQueue_' = Append(fQueue_, added + 1)
        /\ added' = added + 1
        /\ removed' = removed
    BY <1>1 DEF AddTail
  <2>2. /\ Len(fQueue_') = Len(fQueue_) + 1
        /\ fQueue_'[Len(fQueue_) + 1] = added + 1
        /\ \A j \in 1 .. Len(fQueue_) : fQueue_'[j] = fQueue_[j]
    BY <2>1
  <2>3. /\ \A i \in 1 .. Len(removed) : removed[i] \in Nat
        /\ \A j \in 1 .. Len(fQueue_) : fQueue_[j] \in Nat
        /\ added \in Nat /\ Len(fQueue_) \in Nat
    OBVIOUS
  <2>4. Rising(fQueue_')
    <3> SUFFICES ASSUME NEW i \in 1 .. Len(fQueue_) + 1, NEW j \in 1 .. Len(fQueue_) + 1, i < j
                 PROVE  fQueue_'[i] < fQueue_'[j]
      BY <2>2 DEF Rising
    <3>1. i \in 1 .. Len(fQueue_) /\ fQueue_'[i] = fQueue_[i]
      BY <2>2
    <3>2. CASE j = Len(fQueue_) + 1
      BY <2>2, <2>3, <3>1, <3>2 DEF Passed
    <3>3. CASE j \in 1 .. Len(fQueue_)
      BY <2>2, <2>3, <3>1, <3>3 DEF Passed, Rising
    <3>4. \A n \in Nat : \A m \in 1 .. n + 1 : m = n + 1 \/ m \in 1 .. n
      OBVIOUS
    <3>5. j = Len(fQueue_) + 1 \/ j \in 1 .. Len(fQueue_)
      BY <2>3, <3>4, Zenon
    <3> QED
      BY <3>2, <3>3, <3>5
  <2> QED
    BY <2>1, <2>2, <2>3, <2>4 DEF Passed, InOrder, Rising
<1>2. ASSUME NEW t \in Threads, EndOfInput(t) PROVE Passed' /\ InOrder'
  <2>1. UNCHANGED <<removed, added>> /\ (UNCHANGED fQueue_ \/ fQueue_' = <<>>)
    BY <1>2 DEF EndOfInput, data
  <2> QED
    BY <2>1 DEF Passed, InOrder, Rising
<1>3. ASSUME NEW t \in Threads, Clear(t) PROVE Passed' /\ InOrder'
  <2>1. UNCHANGED <<removed, added>> /\ (UNCHANGED fQueue_ \/ fQueue_' = <<>>)
    BY <1>3 DEF Clear, data
  <2> QED
    BY <2>1 DEF Passed, InOrder, Rising
<1>4. ASSUME NEW t \in Threads, NotifyAll(t) PROVE Passed' /\ InOrder'
  <2>1. UNCHANGED <<removed, added>> /\ (UNCHANGED fQueue_ \/ fQueue_' = <<>>)
    BY <1>4 DEF NotifyAll, data
  <2> QED
    BY <2>1 DEF Passed, InOrder, Rising
<1>5. ASSUME NEW t \in Threads, Remove(t) PROVE Passed' /\ InOrder'
  <2>1. UNCHANGED <<removed, added>> /\ (UNCHANGED fQueue_ \/ fQueue_' = <<>>)
    BY <1>5 DEF Remove, data
  <2> QED
    BY <2>1 DEF Passed, InOrder, Rising
<1>6. ASSUME NEW t \in Threads, Take(t) PROVE Passed' /\ InOrder'
  <2>1. /\ fQueue_ # <<>>
        /\ removed' = Append(removed, Head(fQueue_))
        /\ fQueue_' = Tail(fQueue_)
        /\ added' = added
    BY <1>6 DEF Take
  <2>2. /\ Len(fQueue_) \in Nat \ {0}
        /\ Len(fQueue_') = Len(fQueue_) - 1
        /\ \A j \in 1 .. Len(fQueue_) - 1 : fQueue_'[j] = fQueue_[j + 1]
    BY <2>1
  <2>3. /\ Len(removed') = Len(removed) + 1
        /\ removed'[Len(removed) + 1] = fQueue_[1]
        /\ \A i \in 1 .. Len(removed) : removed'[i] = removed[i]
    BY <2>1
  <2>4. /\ \A i \in 1 .. Len(removed) : removed[i] \in Nat
        /\ \A j \in 1 .. Len(fQueue_) : fQueue_[j] \in Nat
        /\ added \in Nat
        /\ Len(removed) \in Nat
    OBVIOUS
  <2>5. Rising(fQueue_') /\ \A j \in 1 .. Len(fQueue_') : fQueue_'[j] <= added'
    BY <2>1, <2>2, <2>4 DEF Passed, Rising
  <2>6. Rising(removed') /\ \A i \in 1 .. Len(removed') : removed'[i] <= added'
    <3> SUFFICES ASSUME NEW i \in 1 .. Len(removed) + 1
                 PROVE  /\ removed'[i] <= added
                        /\ \A j \in 1 .. Len(removed) + 1 : j < i => removed'[j] < removed'[i]
      BY <2>1, <2>3 DEF Rising
    <3>1. CASE i = Len(removed) + 1
      <4>1. 1 \in 1 .. Len(fQueue_) /\ removed'[i] = fQueue_[1]
        BY <2>2, <2>3, <3>1
      <4>2. \A j \in 1 .. Len(removed) : removed'[j] < fQueue_[1]
        BY <2>3, <4>1 DEF Passed
      <4> QED
        BY <2>4, <3>1, <4>1, <4>2 DEF Passed
    <3>2. CASE i \in 1 .. Len(removed)
      <4>1. \A j \in 1 .. Len(removed) + 1 : j < i => j \in 1 .. Len(removed)
        BY <2>4, <3>2
      <4> QED
        BY <2>3, <3>2, <4>1 DEF Passed, InOrder, Rising
    <3> QED
      BY <2>4, <3>1, <3>2
  <2>7. \A i \in 1 .. Len(removed'), j \in 1 .. Len(fQueue_') : removed'[i] < fQueue_'[j]
    <3> SUFFICES ASSUME NEW i \in 1 .. Len(removed) + 1, NEW j \in 1 .. Len(fQueue_) - 1
                 PROVE  removed'[i] < fQueue_'[j]
      BY <2>2, <2>3
    <3>1. j + 1 \in 1 .. Len(fQueue_) /\ fQueue_'[j] = fQueue_[j + 1]
      BY <2>2
    <3>2. CASE i = Len(removed) + 1
      <4>1. 1 \in 1 .. Len(fQueue_) /\ 1 < j + 1 /\ removed'[i] = fQueue_[1]
        BY <2>2, <2>3, <3>2
      <4> QED
        BY <3>1, <4>1 DEF Passed, Rising
    <3>3. CASE i \in 1 .. Len(removed)
      BY <2>3, <3>1, <3>3 DEF Passed
    <3> QED
      BY <3>2, <3>3
  <2> QED
    BY <2>5, <2>6, <2>7 DEF Passed, InOrder
<1>7. ASSUME NEW t \in Threads, TakeNothing(t) PROVE Passed' /\ InOrder'
  <2>1. UNCHANGED <<removed, added>> /\ (UNCHANGED fQueue_ \/ fQueue_' = <<>>)
    BY <1>7 DEF TakeNothing, data
  <2> QED
    BY <2>1 DEF Passed, InOrder, Rising
<1>8. ASSUME NEW t \in Threads, Sleep(t) PROVE Passed' /\ InOrder'
  <2>1. UNCHANGED <<removed, added>> /\ (UNCHANGED fQueue_ \/ fQueue_' = <<>>)
    BY <1>8 DEF Sleep, data
  <2> QED
    BY <2>1 DEF Passed, InOrder, Rising
<1>9. ASSUME NEW t \in Threads, Interrupted(t) PROVE Passed' /\ InOrder'
  <2>1. UNCHANGED <<removed, added>> /\ (UNCHANGED fQueue_ \/ fQueue_' = <<>>)
    BY <1>9 DEF Interrupted, data
  <2> QED
    BY <2>1 DEF Passed, InOrder, Rising
<1>10. ASSUME NEW t \in Threads, SliceOver(t) PROVE Passed' /\ InOrder'
  <2>1. UNCHANGED <<removed, added>> /\ (UNCHANGED fQueue_ \/ fQueue_' = <<>>)
    BY <1>10 DEF SliceOver, data
  <2> QED
    BY <2>1 DEF Passed, InOrder, Rising
<1>11. ASSUME NEW t \in Threads, Interrupt(t) PROVE Passed' /\ InOrder'
  <2>1. UNCHANGED <<removed, added>> /\ (UNCHANGED fQueue_ \/ fQueue_' = <<>>)
    BY <1>11 DEF Interrupt, data
  <2> QED
    BY <2>1 DEF Passed, InOrder, Rising
<1>12. CASE UNCHANGED vars
  BY <1>12 DEF vars, data, thread, Passed, InOrder, Rising
<1> QED
  BY <1>1, <1>2, <1>3, <1>4, <1>5, <1>6, <1>7, <1>8, <1>9, <1>10, <1>11, <1>12 DEF Next, Step

LEMMA Invariance == Spec => []IInv
<1>1. IInv /\ [Next]_vars => IInv'
  BY TypeStep, SleeperStep, OrderStep DEF IInv
<1> QED
  BY <1>1, InitIInv, PTL DEF Spec

-----------------------------------------------------------------------------

\* Every variable keeps its type, and a thread waits only in a call that removes.
THEOREM TypeCorrect == Spec => []TypeOK
<1>1. IInv => TypeOK
  BY DEF IInv
<1> QED
  BY <1>1, Invariance, PTL

\* Though the additions notify after they have unlocked, no consumer sleeps on with
\* an element or the end of input before it and no notification to come.
THEOREM NoWakeupLost == Spec => []NoSleeperMissed
<1>1. IInv => NoSleeperMissed
  BY DEF IInv
<1> QED
  BY <1>1, Invariance, PTL

\* The consumers get each element once at most, in the order of the additions.
THEOREM RemovedInOrder == Spec => []InOrder
<1>1. IInv => InOrder
  BY DEF IInv
<1> QED
  BY <1>1, Invariance, PTL

\* Once ended and empty, the queue is so for ever: whatever else is called.
THEOREM EndIsFinal == Spec => EOFIsForEver
<1>1. TypeOK /\ [Next]_vars => [fEndOfInput_ /\ fQueue_ = <<>> => (fEndOfInput_ /\ fQueue_ = <<>>)']_vars
  <2> SUFFICES ASSUME TypeOK, NEW t \in Threads, fEndOfInput_, fQueue_ = <<>>,
                      AddTail(t) \/ EndOfInput(t) \/ Clear(t) \/ Remove(t)
                      \/ Step(t) \/ SliceOver(t) \/ Interrupt(t)
               PROVE  fEndOfInput_' /\ fQueue_' = <<>>
    BY DEF Next
  <2> QED
    BY DEF AddTail, EndOfInput, Clear, Remove, Step, NotifyAll, Take, TakeNothing, Sleep, Interrupted,
           SliceOver, Interrupt, data
<1> QED
  BY <1>1, TypeCorrect, PTL DEF Spec, EOFIsForEver

-----------------------------------------------------------------------------

LEMMA StepSimulation == TypeOK /\ [Next]_vars => [Endable!Next]_(Endable!vars)
<1> SUFFICES ASSUME TypeOK, [Next]_vars
             PROVE  [Endable!Next]_(Endable!vars)
  OBVIOUS
<1> USE DEF TypeOK, vars, data, Endable!Next, Endable!vars
<1>1. ASSUME NEW t \in Threads, AddTail(t) PROVE [Endable!Next]_(Endable!vars)
  BY <1>1 DEF AddTail, Endable!Put
<1>2. ASSUME NEW t \in Threads, EndOfInput(t) PROVE [Endable!Next]_(Endable!vars)
  BY <1>2 DEF EndOfInput, Endable!End
<1>3. ASSUME NEW t \in Threads, Clear(t) PROVE [Endable!Next]_(Endable!vars)
  BY <1>3 DEF Clear, Endable!Clear
<1>4. ASSUME NEW t \in Threads, NotifyAll(t) PROVE [Endable!Next]_(Endable!vars)
  BY <1>4 DEF NotifyAll
<1>5. ASSUME NEW t \in Threads, Remove(t) PROVE [Endable!Next]_(Endable!vars)
  BY <1>5 DEF Remove
<1>6. ASSUME NEW t \in Threads, Take(t) PROVE [Endable!Next]_(Endable!vars)
  BY <1>6 DEF Take, Endable!Get
<1>7. ASSUME NEW t \in Threads, TakeNothing(t) PROVE [Endable!Next]_(Endable!vars)
  BY <1>7 DEF TakeNothing
<1>8. ASSUME NEW t \in Threads, Sleep(t) PROVE [Endable!Next]_(Endable!vars)
  BY <1>8 DEF Sleep
<1>9. ASSUME NEW t \in Threads, Interrupted(t) PROVE [Endable!Next]_(Endable!vars)
  BY <1>9 DEF Interrupted
<1>10. ASSUME NEW t \in Threads, SliceOver(t) PROVE [Endable!Next]_(Endable!vars)
  BY <1>10 DEF SliceOver
<1>11. ASSUME NEW t \in Threads, Interrupt(t) PROVE [Endable!Next]_(Endable!vars)
  BY <1>11 DEF Interrupt
<1>12. CASE UNCHANGED vars
  BY <1>12 DEF vars, data, thread
<1> QED
  BY <1>1, <1>2, <1>3, <1>4, <1>5, <1>6, <1>7, <1>8, <1>9, <1>10, <1>11, <1>12 DEF Next, Step

\* The queue is the abstract one: no element is lost to a timeout, an interruption or
\* another consumer, and none is added after the end of input.
THEOREM ImplementsEndableQueue == Spec => EndableSpec
<1>1. Init => Endable!Init
  BY DEF Init, Endable!Init
<1> QED
  BY <1>1, StepSimulation, TypeCorrect, PTL DEF Spec, EndableSpec, Endable!Spec
=============================================================================
