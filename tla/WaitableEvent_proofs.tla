------------------------ MODULE WaitableEvent_proofs ------------------------
(***************************************************************************)
(* Proofs about WaitableEvent, for any threads, events and timeouts.       *)
(*                                                                         *)
(* The inductive invariant is TypeOK strengthened with what a scan ranges  *)
(* over at each place (ScanTyped) and with which call a thread can be in   *)
(* at each place and who holds the spin lock (Shape).                      *)
(***************************************************************************)
EXTENDS WaitableEvent, TLAPS

\* Set's walk ranges over private WE_s, a scan over events; elsewhere nothing is
\* left of either.
ScanTyped ==
  \A t \in Threads :
    /\ pc[t] \in {"notify", "extraSet"} => scan[t] \subseteq Threads
    /\ pc[t] \in {"scan", "resetFound"} => scan[t] \subseteq Events
    /\ pc[t] \in {"idle", "register", "enter", "asleep", "awake", "cleanup"} => scan[t] = {}

\* The call a thread is in goes with the place it is at, and the spin lock is
\* held across steps only by a thread inside Set's walk.
Shape ==
  \A t \in Threads :
    /\ pc[t] = "idle" <=> call[t].kind = "none"
    /\ pc[t] \in {"notify", "lockExtra", "extraSet"} => call[t].kind = "Set"
    /\ pc[t] \in {"enter", "asleep", "awake"} => call[t].kind \in SeveralKinds \cup {"Wait"}
    /\ pc[t] \in {"register", "scan", "resetFound", "cleanup"} => call[t].kind \in SeveralKinds
    /\ pc[t] \in {"enter", "asleep", "awake", "scan"} =>
         IF call[t].kind = "Wait" THEN target[t] \in Events ELSE target[t] = t
    /\ pc[t] = "extraSet" => extraMutex = t
    /\ pc[t] = "notify" => /\ target[t] \in WEs
                           /\ extraMutex = t <=> target[t] \in Threads
    /\ extraMutex = t => pc[t] \in {"notify", "extraSet"}

IInv == TypeOK /\ ScanTyped /\ Shape

-----------------------------------------------------------------------------
LEMMA LeaveTyped ==
  ASSUME TypeOK, NEW t \in Threads, NEW why \in {"timeout", "interrupt", "set"}, Leave(t, why)
  PROVE  /\ pc' \in [Threads -> PCs]
         /\ call' \in [Threads -> Calls]
         /\ target' \in [Threads -> WEs \cup {None}]
         /\ ret' \in [Threads -> {"none", "set", "timeout", "interrupt"}]
<1>1. CASE call[t].kind = "Wait"
  BY <1>1 DEF TypeOK, Leave, Goto, PCs, Calls
<1>2. CASE call[t].kind # "Wait"
  BY <1>2 DEF TypeOK, Leave, Goto, PCs
<1> QED  BY <1>1, <1>2

LEMMA InitIInv == Init => IInv
BY EventAssumption DEF Init, IInv, TypeOK, ScanTyped, Shape, PCs, Calls, Idle, WEs, AllModes,
   SeveralKinds, AllKinds

LEMMA NextIInv == IInv /\ [Next]_vars => IInv'
<1> USE EventAssumption DEF IInv, WEs, PCs, Calls, Idle, AllModes, AllKinds, SeveralKinds, Goto
<1> SUFFICES ASSUME IInv, [Next]_vars PROVE IInv'
  OBVIOUS
<1>1. CASE UNCHANGED vars
  BY <1>1 DEF vars, TypeOK, ScanTyped, Shape
<1>2. ASSUME NEW t \in Threads, Begin(t) PROVE IInv'
  <2>1. ASSUME NEW e \in Events, Set(t, e) PROVE IInv'
    <3>1. TypeOK'
      BY <2>1 DEF Set, Trigger, TypeOK
    <3>2. ScanTyped' /\ Shape'
      BY <2>1 DEF Set, Trigger, TypeOK, ScanTyped, Shape
    <3> QED  BY <3>1, <3>2
  <2>2. ASSUME NEW e \in Events, Reset(t, e) PROVE IInv'
    BY <2>2 DEF Reset, TypeOK, ScanTyped, Shape
  <2>3. ASSUME NEW e \in Events, NEW mode \in Modes, Wait(t, e, mode) PROVE IInv'
    <3>1. TypeOK'
      BY <2>3 DEF Wait, TypeOK
    <3>2. ScanTyped' /\ Shape'
      BY <2>3 DEF Wait, TypeOK, ScanTyped, Shape
    <3> QED  BY <3>1, <3>2
  <2>4. ASSUME NEW kind \in SeveralKinds, NEW S \in (SUBSET Events) \ {{}}, NEW mode \in Modes,
               WaitForSeveral(t, kind, S, mode)
        PROVE IInv'
    <3>1. TypeOK'
      BY <2>4 DEF WaitForSeveral, TypeOK
    <3>2. ScanTyped' /\ Shape'
      BY <2>4 DEF WaitForSeveral, TypeOK, ScanTyped, Shape
    <3> QED  BY <3>1, <3>2
  <2> QED  BY <1>2, <2>1, <2>2, <2>3, <2>4 DEF Begin
<1>3. ASSUME NEW t \in Threads, Step(t) PROVE IInv'
  <2>1. CASE Notify(t)
    <3>1. TypeOK'
      BY <2>1 DEF Notify, TypeOK, ScanTyped
    <3>2. ScanTyped'
      BY <2>1 DEF Notify, TypeOK, ScanTyped, Shape
    <3>3. Shape'
      BY <2>1 DEF Notify, TypeOK, ScanTyped, Shape
    <3> QED  BY <3>1, <3>2, <3>3
  <2>2. CASE LockExtra(t)
    <3>1. TypeOK'
      BY <2>2 DEF LockExtra, TypeOK, ScanTyped
    <3>2. ScanTyped'
      BY <2>2 DEF LockExtra, TypeOK, ScanTyped, Shape
    <3>3. Shape'
      BY <2>2 DEF LockExtra, TypeOK, ScanTyped, Shape
    <3> QED  BY <3>1, <3>2, <3>3
  <2>3. CASE SetExtra(t)
    <3>1. TypeOK'
      BY <2>3 DEF SetExtra, Trigger, TypeOK, ScanTyped
    <3>2. ScanTyped'
      BY <2>3 DEF SetExtra, Trigger, TypeOK, ScanTyped, Shape
    <3>3. Shape'
      BY <2>3 DEF SetExtra, Trigger, TypeOK, ScanTyped, Shape
    <3> QED  BY <3>1, <3>2, <3>3
  <2>4. CASE UnlockExtra(t)
    <3>1. TypeOK'
      BY <2>4 DEF UnlockExtra, TypeOK, ScanTyped
    <3>2. ScanTyped'
      BY <2>4 DEF UnlockExtra, TypeOK, ScanTyped, Shape
    <3>3. Shape'
      BY <2>4 DEF UnlockExtra, TypeOK, ScanTyped, Shape
    <3> QED  BY <3>1, <3>2, <3>3
  <2>5. CASE WaitInterrupted(t)
    <3>1. TypeOK'
      BY <2>5, LeaveTyped DEF WaitInterrupted, TypeOK
    <3>2. ScanTyped'
      BY <2>5 DEF WaitInterrupted, Leave, TypeOK, ScanTyped, Shape
    <3>3. Shape'
      BY <2>5 DEF WaitInterrupted, Leave, TypeOK, ScanTyped, Shape
    <3> QED  BY <3>1, <3>2, <3>3
  <2>6. CASE WaitSatisfied(t)
    <3>1. TypeOK'
      <4>1. target[t] \in WEs /\ IsAutoReset(target[t]) \in BOOLEAN
        BY <2>6 DEF WaitSatisfied, TypeOK, Shape, IsAutoReset
      <4>2. fTriggered' \in [WEs -> BOOLEAN]
        BY <2>6, <4>1 DEF WaitSatisfied, TypeOK
      <4>3. CASE call[t].kind = "Wait"
        BY <2>6, <4>2, <4>3, LeaveTyped DEF WaitSatisfied, TypeOK
      <4>4. CASE call[t].kind # "Wait"
        <5>1. call[t] \in Calls /\ call[t].on \subseteq Events
          BY DEF TypeOK
        <5>2. scan' \in [Threads -> SUBSET WEs]
          BY <2>6, <4>4, <5>1 DEF WaitSatisfied, TypeOK
        <5>3. pc' \in [Threads -> PCs]
          BY <2>6, <4>4 DEF WaitSatisfied, TypeOK
        <5>4. UNCHANGED <<fExtraWaitableEvents, extraMutex, interrupting, found, call, target, ret>>
          BY <2>6, <4>4 DEF WaitSatisfied
        <5> QED  BY <4>2, <5>2, <5>3, <5>4 DEF TypeOK
      <4> QED  BY <4>3, <4>4
    <3>2. ScanTyped'
      BY <2>6 DEF WaitSatisfied, Leave, IsAutoReset, TypeOK, ScanTyped, Shape
    <3>3. Shape'
      BY <2>6 DEF WaitSatisfied, Leave, IsAutoReset, TypeOK, ScanTyped, Shape
    <3> QED  BY <3>1, <3>2, <3>3
  <2>7. CASE WaitTimedOut(t)
    <3>1. TypeOK'
      BY <2>7, LeaveTyped DEF WaitTimedOut, TypeOK
    <3>2. ScanTyped'
      BY <2>7 DEF WaitTimedOut, Leave, TypeOK, ScanTyped, Shape
    <3>3. Shape'
      BY <2>7 DEF WaitTimedOut, Leave, TypeOK, ScanTyped, Shape
    <3> QED  BY <3>1, <3>2, <3>3
  <2>8. CASE Sleep(t)
    <3>1. TypeOK'
      BY <2>8 DEF Sleep, TypeOK, ScanTyped
    <3>2. ScanTyped'
      BY <2>8 DEF Sleep, TypeOK, ScanTyped, Shape
    <3>3. Shape'
      BY <2>8 DEF Sleep, TypeOK, ScanTyped, Shape
    <3> QED  BY <3>1, <3>2, <3>3
  <2>9. CASE Register(t)
    <3>1. TypeOK'
      BY <2>9 DEF Register, TypeOK, ScanTyped
    <3>2. ScanTyped'
      BY <2>9 DEF Register, TypeOK, ScanTyped, Shape
    <3>3. Shape'
      BY <2>9 DEF Register, TypeOK, ScanTyped, Shape
    <3> QED  BY <3>1, <3>2, <3>3
  <2>10. CASE Peek(t)
    <3>1. TypeOK'
      BY <2>10 DEF Peek, TypeOK, ScanTyped
    <3>2. ScanTyped'
      BY <2>10 DEF Peek, TypeOK, ScanTyped, Shape
    <3>3. Shape'
      BY <2>10 DEF Peek, TypeOK, ScanTyped, Shape
    <3> QED  BY <3>1, <3>2, <3>3
  <2>11. CASE ScanDone(t)
    <3>1. TypeOK'
      <4>1. ret' \in [Threads -> {"none", "set", "timeout", "interrupt"}]
        BY <2>11 DEF ScanDone, TypeOK
      <4>2. pc' \in [Threads -> PCs] /\ found' \in [Threads -> SUBSET Events]
        BY <2>11 DEF ScanDone, TypeOK
      <4>3. scan' \in [Threads -> SUBSET WEs]
        BY <2>11 DEF ScanDone, TypeOK
      <4> QED  BY <2>11, <4>1, <4>2, <4>3 DEF ScanDone, TypeOK
    <3>2. ScanTyped'
      BY <2>11 DEF ScanDone, TypeOK, ScanTyped, Shape
    <3>3. Shape'
      BY <2>11 DEF ScanDone, TypeOK, ScanTyped, Shape
    <3> QED  BY <3>1, <3>2, <3>3
  <2>12. CASE ResetFound(t)
    <3>1. TypeOK'
      BY <2>12 DEF ResetFound, TypeOK, ScanTyped
    <3>2. ScanTyped'
      BY <2>12 DEF ResetFound, TypeOK, ScanTyped, Shape
    <3>3. Shape'
      BY <2>12 DEF ResetFound, TypeOK, ScanTyped, Shape
    <3> QED  BY <3>1, <3>2, <3>3
  <2>13. CASE ResetAll(t)
    <3>1. TypeOK'
      BY <2>13 DEF ResetAll, TypeOK, ScanTyped
    <3>2. ScanTyped'
      BY <2>13 DEF ResetAll, TypeOK, ScanTyped, Shape
    <3>3. Shape'
      BY <2>13 DEF ResetAll, TypeOK, ScanTyped, Shape
    <3> QED  BY <3>1, <3>2, <3>3
  <2>14. CASE ResetAllDone(t)
    <3>1. TypeOK'
      BY <2>14 DEF ResetAllDone, TypeOK, ScanTyped
    <3>2. ScanTyped'
      BY <2>14 DEF ResetAllDone, TypeOK, ScanTyped, Shape
    <3>3. Shape'
      BY <2>14 DEF ResetAllDone, TypeOK, ScanTyped, Shape
    <3> QED  BY <3>1, <3>2, <3>3
  <2>15. CASE Cleanup(t)
    <3>1. TypeOK'
      BY <2>15 DEF Cleanup, TypeOK, ScanTyped
    <3>2. ScanTyped'
      BY <2>15 DEF Cleanup, TypeOK, ScanTyped, Shape
    <3>3. Shape'
      BY <2>15 DEF Cleanup, TypeOK, ScanTyped, Shape
    <3> QED  BY <3>1, <3>2, <3>3
  <2> QED  BY <1>3, <2>1, <2>2, <2>3, <2>4, <2>5, <2>6, <2>7, <2>8, <2>9, <2>10, <2>11, <2>12, <2>13, <2>14, <2>15 DEF Step
<1>4. ASSUME NEW t \in Threads, SliceOver(t) PROVE IInv'
  BY <1>4 DEF SliceOver, TypeOK, ScanTyped, Shape
<1>5. ASSUME NEW t \in Threads, Interrupt(t) PROVE IInv'
  BY <1>5 DEF Interrupt, TypeOK, ScanTyped, Shape
<1> QED  BY <1>1, <1>2, <1>3, <1>4, <1>5 DEF Next

\* Every variable keeps its type, for any number of threads and events.
THEOREM TypeCorrect == Spec => []TypeOK
<1>1. IInv => TypeOK
  BY DEF IInv
<1> QED  BY <1>1, InitIInv, NextIInv, PTL DEF Spec

-----------------------------------------------------------------------------
LEMMA WakeupsNotLostStep == IInv /\ NoLostWakeup /\ [Next]_vars => NoLostWakeup'
<1> USE EventAssumption DEF IInv, WEs, Idle, SeveralKinds, Goto
<1> SUFFICES ASSUME IInv, NoLostWakeup, [Next]_vars PROVE NoLostWakeup'
  OBVIOUS
<1>1. CASE UNCHANGED vars
  BY <1>1 DEF vars, NoLostWakeup
<1>2. ASSUME NEW t \in Threads, Begin(t) PROVE NoLostWakeup'
  <2>1. ASSUME NEW e \in Events, Set(t, e) PROVE NoLostWakeup'
    BY <2>1 DEF Set, Trigger, TypeOK, ScanTyped, Shape, NoLostWakeup
  <2>2. ASSUME NEW e \in Events, Reset(t, e) PROVE NoLostWakeup'
    BY <2>2 DEF Reset, TypeOK, ScanTyped, Shape, NoLostWakeup
  <2>3. ASSUME NEW e \in Events, NEW mode \in Modes, Wait(t, e, mode) PROVE NoLostWakeup'
    BY <2>3 DEF Wait, TypeOK, ScanTyped, Shape, NoLostWakeup
  <2>4. ASSUME NEW kind \in SeveralKinds, NEW S \in (SUBSET Events) \ {{}}, NEW mode \in Modes,
               WaitForSeveral(t, kind, S, mode)
        PROVE NoLostWakeup'
    BY <2>4 DEF WaitForSeveral, TypeOK, ScanTyped, Shape, NoLostWakeup
  <2> QED  BY <1>2, <2>1, <2>2, <2>3, <2>4 DEF Begin
<1>3. ASSUME NEW t \in Threads, Step(t) PROVE NoLostWakeup'
  <2>1. CASE Notify(t)
    BY <2>1 DEF Notify, TypeOK, ScanTyped, Shape, NoLostWakeup
  <2>2. CASE LockExtra(t)
    BY <2>2 DEF LockExtra, TypeOK, ScanTyped, Shape, NoLostWakeup
  <2>3. CASE SetExtra(t)
    BY <2>3 DEF SetExtra, Trigger, TypeOK, ScanTyped, Shape, NoLostWakeup
  <2>4. CASE UnlockExtra(t)
    BY <2>4 DEF UnlockExtra, TypeOK, ScanTyped, Shape, NoLostWakeup
  <2>5. CASE WaitInterrupted(t)
    BY <2>5 DEF WaitInterrupted, Leave, TypeOK, ScanTyped, Shape, NoLostWakeup
  <2>6. CASE WaitSatisfied(t)
    BY <2>6 DEF WaitSatisfied, Leave, IsAutoReset, TypeOK, ScanTyped, Shape, NoLostWakeup
  <2>7. CASE WaitTimedOut(t)
    BY <2>7 DEF WaitTimedOut, Leave, TypeOK, ScanTyped, Shape, NoLostWakeup
  <2>8. CASE Sleep(t)
    BY <2>8 DEF Sleep, TypeOK, ScanTyped, Shape, NoLostWakeup
  <2>9. CASE Register(t)
    BY <2>9 DEF Register, TypeOK, ScanTyped, Shape, NoLostWakeup
  <2>10. CASE Peek(t)
    BY <2>10 DEF Peek, TypeOK, ScanTyped, Shape, NoLostWakeup
  <2>11. CASE ScanDone(t)
    BY <2>11 DEF ScanDone, TypeOK, ScanTyped, Shape, NoLostWakeup
  <2>12. CASE ResetFound(t)
    BY <2>12 DEF ResetFound, TypeOK, ScanTyped, Shape, NoLostWakeup
  <2>13. CASE ResetAll(t)
    BY <2>13 DEF ResetAll, TypeOK, ScanTyped, Shape, NoLostWakeup
  <2>14. CASE ResetAllDone(t)
    BY <2>14 DEF ResetAllDone, TypeOK, ScanTyped, Shape, NoLostWakeup
  <2>15. CASE Cleanup(t)
    <3>1. /\ pc[t] = "cleanup" /\ pc'[t] = "idle" /\ fTriggered' = fTriggered
          /\ \A s \in Threads \ {t} : pc'[s] = pc[s] /\ target'[s] = target[s]
      BY <2>15 DEF Cleanup, Goto, TypeOK
    <3> QED  BY ONLY <3>1, NoLostWakeup DEF NoLostWakeup
  <2> QED  BY <1>3, <2>1, <2>2, <2>3, <2>4, <2>5, <2>6, <2>7, <2>8, <2>9, <2>10, <2>11, <2>12, <2>13, <2>14, <2>15 DEF Step
<1>4. ASSUME NEW t \in Threads, SliceOver(t) PROVE NoLostWakeup'
  BY <1>4 DEF SliceOver, TypeOK, ScanTyped, Shape, NoLostWakeup
<1>5. ASSUME NEW t \in Threads, Interrupt(t) PROVE NoLostWakeup'
  BY <1>5 DEF Interrupt, TypeOK, ScanTyped, Shape, NoLostWakeup
<1> QED  BY <1>1, <1>2, <1>3, <1>4, <1>5 DEF Next

\* No wakeup is lost between Set's unlock and its notification, for any number of
\* threads and events: a sleeper whose WE_ is set has a notification coming.
THEOREM WakeupsNotLost == Spec => []NoLostWakeup
<1>1. Init => NoLostWakeup
  BY EventAssumption DEF Init, NoLostWakeup, Idle, WEs, SeveralKinds
<1> QED  BY <1>1, InitIInv, NextIInv, WakeupsNotLostStep, PTL DEF Spec

-----------------------------------------------------------------------------
LEMMA RegisteredExactlyStep == IInv /\ RegisteredWhileWaiting /\ [Next]_vars => RegisteredWhileWaiting'
<1> USE EventAssumption DEF IInv, WEs, Idle, SeveralKinds, Goto
<1> SUFFICES ASSUME IInv, RegisteredWhileWaiting, [Next]_vars PROVE RegisteredWhileWaiting'
  OBVIOUS
<1>1. CASE UNCHANGED vars
  BY <1>1 DEF vars, RegisteredWhileWaiting, InSeveral
<1>2. ASSUME NEW t \in Threads, Begin(t) PROVE RegisteredWhileWaiting'
  <2>1. ASSUME NEW e \in Events, Set(t, e) PROVE RegisteredWhileWaiting'
    BY <2>1 DEF Set, Trigger, TypeOK, ScanTyped, Shape, RegisteredWhileWaiting, InSeveral
  <2>2. ASSUME NEW e \in Events, Reset(t, e) PROVE RegisteredWhileWaiting'
    BY <2>2 DEF Reset, TypeOK, ScanTyped, Shape, RegisteredWhileWaiting, InSeveral
  <2>3. ASSUME NEW e \in Events, NEW mode \in Modes, Wait(t, e, mode) PROVE RegisteredWhileWaiting'
    BY <2>3 DEF Wait, TypeOK, ScanTyped, Shape, RegisteredWhileWaiting, InSeveral
  <2>4. ASSUME NEW kind \in SeveralKinds, NEW S \in (SUBSET Events) \ {{}}, NEW mode \in Modes,
               WaitForSeveral(t, kind, S, mode)
        PROVE RegisteredWhileWaiting'
    BY <2>4 DEF WaitForSeveral, TypeOK, ScanTyped, Shape, RegisteredWhileWaiting, InSeveral
  <2> QED  BY <1>2, <2>1, <2>2, <2>3, <2>4 DEF Begin
<1>3. ASSUME NEW t \in Threads, Step(t) PROVE RegisteredWhileWaiting'
  <2>1. CASE Notify(t)
    BY <2>1 DEF Notify, TypeOK, ScanTyped, Shape, RegisteredWhileWaiting, InSeveral
  <2>2. CASE LockExtra(t)
    BY <2>2 DEF LockExtra, TypeOK, ScanTyped, Shape, RegisteredWhileWaiting, InSeveral
  <2>3. CASE SetExtra(t)
    BY <2>3 DEF SetExtra, Trigger, TypeOK, ScanTyped, Shape, RegisteredWhileWaiting, InSeveral
  <2>4. CASE UnlockExtra(t)
    BY <2>4 DEF UnlockExtra, TypeOK, ScanTyped, Shape, RegisteredWhileWaiting, InSeveral
  <2>5. CASE WaitInterrupted(t)
    BY <2>5 DEF WaitInterrupted, Leave, TypeOK, ScanTyped, Shape, RegisteredWhileWaiting, InSeveral
  <2>6. CASE WaitSatisfied(t)
    BY <2>6 DEF WaitSatisfied, Leave, IsAutoReset, TypeOK, ScanTyped, Shape, RegisteredWhileWaiting, InSeveral
  <2>7. CASE WaitTimedOut(t)
    BY <2>7 DEF WaitTimedOut, Leave, TypeOK, ScanTyped, Shape, RegisteredWhileWaiting, InSeveral
  <2>8. CASE Sleep(t)
    BY <2>8 DEF Sleep, TypeOK, ScanTyped, Shape, RegisteredWhileWaiting, InSeveral
  <2>9. CASE Register(t)
    BY <2>9 DEF Register, TypeOK, ScanTyped, Shape, RegisteredWhileWaiting, InSeveral
  <2>10. CASE Peek(t)
    BY <2>10 DEF Peek, TypeOK, ScanTyped, Shape, RegisteredWhileWaiting, InSeveral
  <2>11. CASE ScanDone(t)
    BY <2>11 DEF ScanDone, TypeOK, ScanTyped, Shape, RegisteredWhileWaiting, InSeveral
  <2>12. CASE ResetFound(t)
    BY <2>12 DEF ResetFound, TypeOK, ScanTyped, Shape, RegisteredWhileWaiting, InSeveral
  <2>13. CASE ResetAll(t)
    BY <2>13 DEF ResetAll, TypeOK, ScanTyped, Shape, RegisteredWhileWaiting, InSeveral
  <2>14. CASE ResetAllDone(t)
    BY <2>14 DEF ResetAllDone, TypeOK, ScanTyped, Shape, RegisteredWhileWaiting, InSeveral
  <2>15. CASE Cleanup(t)
    BY <2>15 DEF Cleanup, TypeOK, ScanTyped, Shape, RegisteredWhileWaiting, InSeveral
  <2> QED  BY <1>3, <2>1, <2>2, <2>3, <2>4, <2>5, <2>6, <2>7, <2>8, <2>9, <2>10, <2>11, <2>12, <2>13, <2>14, <2>15 DEF Step
<1>4. ASSUME NEW t \in Threads, SliceOver(t) PROVE RegisteredWhileWaiting'
  BY <1>4 DEF SliceOver, TypeOK, ScanTyped, Shape, RegisteredWhileWaiting, InSeveral
<1>5. ASSUME NEW t \in Threads, Interrupt(t) PROVE RegisteredWhileWaiting'
  BY <1>5 DEF Interrupt, TypeOK, ScanTyped, Shape, RegisteredWhileWaiting, InSeveral
<1> QED  BY <1>1, <1>2, <1>3, <1>4, <1>5 DEF Next

\* A private WE_ is on its events' lists exactly while its call lasts, however the
\* call ends.
THEOREM RegisteredExactly == Spec => []RegisteredWhileWaiting
<1>1. Init => RegisteredWhileWaiting
  BY EventAssumption DEF Init, RegisteredWhileWaiting, Idle, WEs, SeveralKinds, InSeveral
<1> QED  BY <1>1, InitIInv, NextIInv, RegisteredExactlyStep, PTL DEF Spec

-----------------------------------------------------------------------------
LEMMA WalkSignalsRegisteredStep == IInv /\ SignalsOnlyRegistered /\ [Next]_vars => SignalsOnlyRegistered'
<1> USE EventAssumption DEF IInv, WEs, Idle, SeveralKinds, Goto
<1> SUFFICES ASSUME IInv, SignalsOnlyRegistered, [Next]_vars PROVE SignalsOnlyRegistered'
  OBVIOUS
<1>1. CASE UNCHANGED vars
  BY <1>1 DEF vars, SignalsOnlyRegistered
<1>2. ASSUME NEW t \in Threads, Begin(t) PROVE SignalsOnlyRegistered'
  <2>1. ASSUME NEW e \in Events, Set(t, e) PROVE SignalsOnlyRegistered'
    BY <2>1 DEF Set, Trigger, TypeOK, ScanTyped, Shape, SignalsOnlyRegistered
  <2>2. ASSUME NEW e \in Events, Reset(t, e) PROVE SignalsOnlyRegistered'
    BY <2>2 DEF Reset, TypeOK, ScanTyped, Shape, SignalsOnlyRegistered
  <2>3. ASSUME NEW e \in Events, NEW mode \in Modes, Wait(t, e, mode) PROVE SignalsOnlyRegistered'
    BY <2>3 DEF Wait, TypeOK, ScanTyped, Shape, SignalsOnlyRegistered
  <2>4. ASSUME NEW kind \in SeveralKinds, NEW S \in (SUBSET Events) \ {{}}, NEW mode \in Modes,
               WaitForSeveral(t, kind, S, mode)
        PROVE SignalsOnlyRegistered'
    BY <2>4 DEF WaitForSeveral, TypeOK, ScanTyped, Shape, SignalsOnlyRegistered
  <2> QED  BY <1>2, <2>1, <2>2, <2>3, <2>4 DEF Begin
<1>3. ASSUME NEW t \in Threads, Step(t) PROVE SignalsOnlyRegistered'
  <2>1. CASE Notify(t)
    BY <2>1 DEF Notify, TypeOK, ScanTyped, Shape, SignalsOnlyRegistered
  <2>2. CASE LockExtra(t)
    BY <2>2 DEF LockExtra, TypeOK, ScanTyped, Shape, SignalsOnlyRegistered
  <2>3. CASE SetExtra(t)
    BY <2>3 DEF SetExtra, Trigger, TypeOK, ScanTyped, Shape, SignalsOnlyRegistered
  <2>4. CASE UnlockExtra(t)
    BY <2>4 DEF UnlockExtra, TypeOK, ScanTyped, Shape, SignalsOnlyRegistered
  <2>5. CASE WaitInterrupted(t)
    BY <2>5 DEF WaitInterrupted, Leave, TypeOK, ScanTyped, Shape, SignalsOnlyRegistered
  <2>6. CASE WaitSatisfied(t)
    BY <2>6 DEF WaitSatisfied, Leave, IsAutoReset, TypeOK, ScanTyped, Shape, SignalsOnlyRegistered
  <2>7. CASE WaitTimedOut(t)
    BY <2>7 DEF WaitTimedOut, Leave, TypeOK, ScanTyped, Shape, SignalsOnlyRegistered
  <2>8. CASE Sleep(t)
    BY <2>8 DEF Sleep, TypeOK, ScanTyped, Shape, SignalsOnlyRegistered
  <2>9. CASE Register(t)
    BY <2>9 DEF Register, TypeOK, ScanTyped, Shape, SignalsOnlyRegistered
  <2>10. CASE Peek(t)
    BY <2>10 DEF Peek, TypeOK, ScanTyped, Shape, SignalsOnlyRegistered
  <2>11. CASE ScanDone(t)
    BY <2>11 DEF ScanDone, TypeOK, ScanTyped, Shape, SignalsOnlyRegistered
  <2>12. CASE ResetFound(t)
    BY <2>12 DEF ResetFound, TypeOK, ScanTyped, Shape, SignalsOnlyRegistered
  <2>13. CASE ResetAll(t)
    BY <2>13 DEF ResetAll, TypeOK, ScanTyped, Shape, SignalsOnlyRegistered
  <2>14. CASE ResetAllDone(t)
    BY <2>14 DEF ResetAllDone, TypeOK, ScanTyped, Shape, SignalsOnlyRegistered
  <2>15. CASE Cleanup(t)
    BY <2>15 DEF Cleanup, TypeOK, ScanTyped, Shape, SignalsOnlyRegistered
  <2> QED  BY <1>3, <2>1, <2>2, <2>3, <2>4, <2>5, <2>6, <2>7, <2>8, <2>9, <2>10, <2>11, <2>12, <2>13, <2>14, <2>15 DEF Step
<1>4. ASSUME NEW t \in Threads, SliceOver(t) PROVE SignalsOnlyRegistered'
  BY <1>4 DEF SliceOver, TypeOK, ScanTyped, Shape, SignalsOnlyRegistered
<1>5. ASSUME NEW t \in Threads, Interrupt(t) PROVE SignalsOnlyRegistered'
  BY <1>5 DEF Interrupt, TypeOK, ScanTyped, Shape, SignalsOnlyRegistered
<1> QED  BY <1>1, <1>2, <1>3, <1>4, <1>5 DEF Next

\* Set never signals the private WE_ of a call that is over: the spin lock keeps the
\* lists as they were when the walk began.
THEOREM WalkSignalsRegistered == Spec => []SignalsOnlyRegistered
<1>1. Init => SignalsOnlyRegistered
  BY EventAssumption DEF Init, SignalsOnlyRegistered, Idle, WEs, SeveralKinds
<1> QED  BY <1>1, InitIInv, NextIInv, WalkSignalsRegisteredStep, PTL DEF Spec

-----------------------------------------------------------------------------
\* A registration lasts exactly as long as its call, and so no Set signals the
\* private WE_ of a call that is over.
THEOREM RegistrationsKept == Spec => []RegistrationsLast
<1>1. RegisteredWhileWaiting /\ SignalsOnlyRegistered => RegistrationsLast
  BY DEF RegistrationsLast
<1> QED  BY <1>1, RegisteredExactly, WalkSignalsRegistered, PTL

-----------------------------------------------------------------------------
(***************************************************************************)
(* What a scan has found at each place: only events of the call, nothing   *)
(* outside a scan and its end, everything once WaitForAll resets.          *)
(***************************************************************************)
Results ==
  \A t \in Threads :
    /\ found[t] \subseteq call[t].on
    /\ pc[t] \notin {"scan", "resetFound", "cleanup"} => found[t] = {}
    /\ call[t].kind \in SeveralKinds => call[t].on # {}
    /\ pc[t] \in {"scan", "resetFound"} => scan[t] \subseteq call[t].on
    /\ pc[t] = "resetFound" /\ call[t].kind = "WaitForAll" => found[t] = call[t].on
    /\ pc[t] = "cleanup" =>
         /\ ret[t] = "set" => found[t] # {}
         /\ ret[t] = "set" /\ call[t].kind = "WaitForAll" => found[t] = call[t].on
         /\ ret[t] # "set" => found[t] = {}

LEMMA ResultsStep == IInv /\ Results /\ [Next]_vars => Results'
<1> USE EventAssumption DEF IInv, WEs, Idle, SeveralKinds, Goto
<1> SUFFICES ASSUME IInv, Results, [Next]_vars PROVE Results'
  OBVIOUS
<1>1. CASE UNCHANGED vars
  BY <1>1 DEF vars, Results
<1>2. ASSUME NEW t \in Threads, Begin(t) PROVE Results'
  <2>1. ASSUME NEW e \in Events, Set(t, e) PROVE Results'
    BY <2>1 DEF Set, Trigger, TypeOK, ScanTyped, Shape, Results
  <2>2. ASSUME NEW e \in Events, Reset(t, e) PROVE Results'
    BY <2>2 DEF Reset, TypeOK, ScanTyped, Shape, Results
  <2>3. ASSUME NEW e \in Events, NEW mode \in Modes, Wait(t, e, mode) PROVE Results'
    BY <2>3 DEF Wait, TypeOK, ScanTyped, Shape, Results
  <2>4. ASSUME NEW kind \in SeveralKinds, NEW S \in (SUBSET Events) \ {{}}, NEW mode \in Modes,
               WaitForSeveral(t, kind, S, mode)
        PROVE Results'
    BY <2>4 DEF WaitForSeveral, TypeOK, ScanTyped, Shape, Results
  <2> QED  BY <1>2, <2>1, <2>2, <2>3, <2>4 DEF Begin
<1>3. ASSUME NEW t \in Threads, Step(t) PROVE Results'
  <2>1. CASE Notify(t)
    BY <2>1 DEF Notify, TypeOK, ScanTyped, Shape, Results
  <2>2. CASE LockExtra(t)
    BY <2>2 DEF LockExtra, TypeOK, ScanTyped, Shape, Results
  <2>3. CASE SetExtra(t)
    BY <2>3 DEF SetExtra, Trigger, TypeOK, ScanTyped, Shape, Results
  <2>4. CASE UnlockExtra(t)
    BY <2>4 DEF UnlockExtra, TypeOK, ScanTyped, Shape, Results
  <2>5. CASE WaitInterrupted(t)
    BY <2>5 DEF WaitInterrupted, Leave, TypeOK, ScanTyped, Shape, Results
  <2>6. CASE WaitSatisfied(t)
    BY <2>6 DEF WaitSatisfied, Leave, IsAutoReset, TypeOK, ScanTyped, Shape, Results
  <2>7. CASE WaitTimedOut(t)
    BY <2>7 DEF WaitTimedOut, Leave, TypeOK, ScanTyped, Shape, Results
  <2>8. CASE Sleep(t)
    BY <2>8 DEF Sleep, TypeOK, ScanTyped, Shape, Results
  <2>9. CASE Register(t)
    BY <2>9 DEF Register, TypeOK, ScanTyped, Shape, Results
  <2>10. CASE Peek(t)
    BY <2>10 DEF Peek, TypeOK, ScanTyped, Shape, Results
  <2>11. CASE ScanDone(t)
    BY <2>11 DEF ScanDone, TypeOK, ScanTyped, Shape, Results
  <2>12. CASE ResetFound(t)
    BY <2>12 DEF ResetFound, TypeOK, ScanTyped, Shape, Results
  <2>13. CASE ResetAll(t)
    BY <2>13 DEF ResetAll, TypeOK, ScanTyped, Shape, Results
  <2>14. CASE ResetAllDone(t)
    BY <2>14 DEF ResetAllDone, TypeOK, ScanTyped, Shape, Results
  <2>15. CASE Cleanup(t)
    BY <2>15 DEF Cleanup, TypeOK, ScanTyped, Shape, Results
  <2> QED  BY <1>3, <2>1, <2>2, <2>3, <2>4, <2>5, <2>6, <2>7, <2>8, <2>9, <2>10, <2>11, <2>12, <2>13, <2>14, <2>15 DEF Step
<1>4. ASSUME NEW t \in Threads, SliceOver(t) PROVE Results'
  BY <1>4 DEF SliceOver, TypeOK, ScanTyped, Shape, Results
<1>5. ASSUME NEW t \in Threads, Interrupt(t) PROVE Results'
  BY <1>5 DEF Interrupt, TypeOK, ScanTyped, Shape, Results
<1> QED  BY <1>1, <1>2, <1>3, <1>4, <1>5 DEF Next

\* WaitForAny returns at least one event of its call and WaitForAll all of them, and
\* one that times out or is interrupted has taken none, however many threads set,
\* reset and receive the same events meanwhile.
THEOREM ResultsAreReal == Spec => []ResultIsReal
<1>1. Init => Results
  BY EventAssumption DEF Init, Results, Idle, WEs, SeveralKinds
<1>2. Results => ResultIsReal
  BY DEF Results, ResultIsReal
<1> QED  BY <1>1, <1>2, InitIInv, NextIInv, ResultsStep, PTL DEF Spec

=============================================================================
