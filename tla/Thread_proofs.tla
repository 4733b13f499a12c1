---------------------------- MODULE Thread_proofs ----------------------------
(***************************************************************************)
(* Proofs about Thread, for any clients, calls and timeouts, in any build. *)
(*                                                                         *)
(* The inductive invariant has a part for each question: which places the  *)
(* status goes with (Stages), who is responsible for starting the target   *)
(* and which references exist meanwhile (Birth), and what the result says  *)
(* of how the function ended (Outcomes).                                   *)
(***************************************************************************)
EXTENDS Thread, FiniteSetTheorems, TLAPS

\* The status goes with the place the target is at; who announces, joins or
\* returns has seen the status completed.
Stages ==
  /\ tpc \in Running => fStatus_ \in {"eRunning", "eAborting"}
  /\ fStatus_ \in {"eRunning", "eAborting"} =>
       tpc \in Running \cup {"caught", "caughtOther", "complete"}
  /\ tpc \in {"signalDone", "leave", "exited"} => fStatus_ = "eCompleted"
  /\ fThreadDoneAndCanJoin_ => fStatus_ = "eCompleted"
  /\ \A c \in Clients :
       /\ cpc[c] = "setDone" => fStatus_ = "eCompleted"
       /\ cpc[c] \in {"lockToJoin", "join"} => fThreadDoneAndCanJoin_

Starting == {"create", "waitBumped", "nameThread", "setOK"}

\* One client starts the target, and holds its Ptr until the target has a reference
\* of its own.
Birth ==
  /\ fThread_ = "none" <=> tpc = "none"
  /\ fRefCountBumpedEvent_ => tpc \notin {"none", "main"}
  /\ incRefCnt <=> tpc \notin {"none", "main", "exited"}
  /\ tpc = "main" => \E c \in Clients : cpc[c] = "waitBumped"
  /\ \A c \in Clients :
       /\ cpc[c] # "idle" => c \in holders
       /\ cpc[c] \in Starting => op[c] = "Start"
       /\ cpc[c] = "create" => fThread_ = "none"
  /\ \A c, d \in Clients : op[c] = "Start" /\ op[d] = "Start" => c = d

\* The function has ended only after it was called, and an exception is saved only
\* if it threw one.
Outcomes ==
  /\ tpc \in Running \cup {"none", "main", "waitOK", "clearOK", "claim"} => outcome = "none"
  /\ fSavedException_ <=> outcome = "threw"

-----------------------------------------------------------------------------

LEMMA TypeStep == TypeOK /\ [Next]_vars => TypeOK'
<1> SUFFICES ASSUME TypeOK, [Next]_vars PROVE TypeOK'
  OBVIOUS
<1> USE ThreadAssumption DEF TypeOK, Statuses, Flags, TargetPCs, ClientPCs, AllOps, Goto, life,
          created, result, counts, client, Target
<1>1. CASE BumpRefCount
  BY <1>1 DEF BumpRefCount
<1>2. CASE OKToStart
  BY <1>2 DEF OKToStart
<1>3. CASE Claim
  BY <1>3 DEF Claim
<1>4. CASE ThrowAbort
  BY <1>4 DEF ThrowAbort
<1>5. CASE SeeInterrupt
  BY <1>5 DEF SeeInterrupt
<1>6. CASE ThrowInterrupt
  BY <1>6 DEF ThrowInterrupt, Interrupted
<1>7. CASE CatchOther
  BY <1>7 DEF CatchOther
<1>8. CASE CompleteStatus
  BY <1>8 DEF CompleteStatus
<1>9. CASE SignalDone
  BY <1>9 DEF SignalDone
<1>10. CASE Exit
  <2>1. incRefCnt' \in BOOLEAN /\ tpc' \in TargetPCs
    BY <1>10 DEF Exit
  <2>2. UNCHANGED <<fStatus_, fThread_, fRefCountBumpedEvent_, fOK2StartEvent_,
                    fThreadDoneAndCanJoin_, fAccessSTDThreadMutex_, fSavedException_, outcome>>
    BY <1>10 DEF Exit
  <2>3. UNCHANGED <<t_Interrupting_, client, counts>>
    BY <1>10 DEF Exit
  <2> QED
    BY <2>1, <2>2, <2>3
<1>11. CASE FunctionReturns
  BY <1>11 DEF FunctionReturns
<1>12. CASE FunctionThrows
  BY <1>12 DEF FunctionThrows
<1>13. ASSUME NEW c \in Clients, Start(c) PROVE TypeOK'
  BY <1>13 DEF Start, Call
<1>14. ASSUME NEW c \in Clients, Create(c) PROVE TypeOK'
  BY <1>14 DEF Create
<1>15. ASSUME NEW c \in Clients, WaitBumped(c) PROVE TypeOK'
  BY <1>15 DEF WaitBumped
<1>16. ASSUME NEW c \in Clients, NameThread(c) PROVE TypeOK'
  BY <1>16 DEF NameThread
<1>17. ASSUME NEW c \in Clients, SetOK2Start(c) PROVE TypeOK'
  BY <1>17 DEF SetOK2Start, Return
<1>18. ASSUME NEW c \in Clients, Abort(c) PROVE TypeOK'
  BY <1>18 DEF Abort, Call
<1>19. ASSUME NEW c \in Clients, AbortRunning(c) PROVE TypeOK'
  BY <1>19 DEF AbortRunning
<1>20. ASSUME NEW c \in Clients, AbortUnstarted(c) PROVE TypeOK'
  BY <1>20 DEF AbortUnstarted
<1>21. ASSUME NEW c \in Clients, SetDone(c) PROVE TypeOK'
  BY <1>21 DEF SetDone
<1>22. ASSUME NEW c \in Clients, AbortCheck(c) PROVE TypeOK'
  BY <1>22 DEF AbortCheck, AfterNotify, Return
<1>23. ASSUME NEW c \in Clients, Interrupt(c) PROVE TypeOK'
  BY <1>23 DEF Interrupt, Call
<1>24. ASSUME NEW c \in Clients, InterruptCheck(c) PROVE TypeOK'
  BY <1>24 DEF InterruptCheck, Return
<1>25. ASSUME NEW c \in Clients, NotifyAbort(c) PROVE TypeOK'
  BY <1>25 DEF NotifyAbort, HasFlag
<1>26. ASSUME NEW c \in Clients, NotifyInterrupt(c) PROVE TypeOK'
  BY <1>26 DEF NotifyInterrupt, HasFlag
<1>27. ASSUME NEW c \in Clients, GetID(c) PROVE TypeOK'
  BY <1>27 DEF GetID
<1>28. ASSUME NEW c \in Clients, SendSignal(c) PROVE TypeOK'
  BY <1>28 DEF SendSignal, AfterNotify, Return
<1>29. ASSUME NEW c \in Clients, WaitForDone(c) PROVE TypeOK'
  BY <1>29 DEF WaitForDone, Call
<1>30. ASSUME NEW c \in Clients, AbortAndWaitForDone(c) PROVE TypeOK'
  BY <1>30 DEF AbortAndWaitForDone, Call
<1>31. ASSUME NEW c \in Clients, WaitIsOver(c) PROVE TypeOK'
  BY <1>31 DEF WaitIsOver
<1>32. ASSUME NEW c \in Clients, AbortAgain(c) PROVE TypeOK'
  BY <1>32 DEF AbortAgain
<1>33. ASSUME NEW c \in Clients, GiveUp(c) PROVE TypeOK'
  BY <1>33 DEF GiveUp, Return
<1>34. ASSUME NEW c \in Clients, LockToJoin(c) PROVE TypeOK'
  BY <1>34 DEF LockToJoin, Done, Return
<1>35. ASSUME NEW c \in Clients, Join(c) PROVE TypeOK'
  BY <1>35 DEF Join, Done, Return
<1>36. ASSUME NEW c \in Clients, Drop(c) PROVE TypeOK'
  BY <1>36 DEF Drop
<1>37. CASE UNCHANGED vars
  BY <1>37 DEF vars, client
<1> QED
  BY <1>1, <1>2, <1>3, <1>4, <1>5, <1>6, <1>7, <1>8, <1>9, <1>10, <1>11, <1>12,
     <1>13, <1>14, <1>15, <1>16, <1>17, <1>18, <1>19, <1>20, <1>21, <1>22,
     <1>23, <1>24, <1>25, <1>26, <1>27, <1>28, <1>29, <1>30, <1>31, <1>32,
     <1>33, <1>34, <1>35, <1>36, <1>37
     DEF Next, TargetStep, ClientStep, ClientCall

LEMMA StagesStep == TypeOK /\ Birth /\ Stages /\ [Next]_vars => Stages'
<1> SUFFICES ASSUME TypeOK, Birth, Stages, [Next]_vars PROVE Stages'
  OBVIOUS
<1> USE DEF TypeOK, Birth, Starting, Stages, Running, Statuses, Goto, life,
          created, result, counts, client, Target
<1>1. CASE Claim
  BY <1>1 DEF Claim
<1>2. CASE ThrowAbort
  BY <1>2 DEF ThrowAbort
<1>3. CASE ThrowInterrupt
  BY <1>3 DEF ThrowInterrupt, Interrupted
<1>4. CASE CatchOther
  BY <1>4 DEF CatchOther
<1>5. CASE CompleteStatus
  BY <1>5 DEF CompleteStatus
<1>6. CASE SignalDone
  BY <1>6 DEF SignalDone
<1>7. CASE FunctionReturns
  BY <1>7 DEF FunctionReturns
<1>8. CASE FunctionThrows
  BY <1>8 DEF FunctionThrows
<1>9. ASSUME NEW c \in Clients, Create(c) PROVE Stages'
  BY <1>9 DEF Create
<1>10. ASSUME NEW c \in Clients, SetOK2Start(c) PROVE Stages'
  BY <1>10 DEF SetOK2Start, Return
<1>11. ASSUME NEW c \in Clients, AbortRunning(c) PROVE Stages'
  BY <1>11 DEF AbortRunning
<1>12. ASSUME NEW c \in Clients, AbortUnstarted(c) PROVE Stages'
  BY <1>12 DEF AbortUnstarted
<1>13. ASSUME NEW c \in Clients, SetDone(c) PROVE Stages'
  BY <1>13 DEF SetDone
<1>14. ASSUME NEW c \in Clients, AbortCheck(c) PROVE Stages'
  BY <1>14 DEF AbortCheck, AfterNotify, Return
<1>15. ASSUME NEW c \in Clients, InterruptCheck(c) PROVE Stages'
  BY <1>15 DEF InterruptCheck, Return
<1>16. ASSUME NEW c \in Clients, NotifyAbort(c) PROVE Stages'
  BY <1>16 DEF NotifyAbort, HasFlag
<1>17. ASSUME NEW c \in Clients, NotifyInterrupt(c) PROVE Stages'
  BY <1>17 DEF NotifyInterrupt, HasFlag
<1>18. ASSUME NEW c \in Clients, SendSignal(c) PROVE Stages'
  BY <1>18 DEF SendSignal, AfterNotify, Return
<1>19. ASSUME NEW c \in Clients, WaitIsOver(c) PROVE Stages'
  BY <1>19 DEF WaitIsOver
<1>20. ASSUME NEW c \in Clients, GiveUp(c) PROVE Stages'
  BY <1>20 DEF GiveUp, Return
<1>21. ASSUME NEW c \in Clients, LockToJoin(c) PROVE Stages'
  BY <1>21 DEF LockToJoin, Done, Return
<1>22. ASSUME NEW c \in Clients, Join(c) PROVE Stages'
  BY <1>22 DEF Join, Done, Return
<1>23. CASE BumpRefCount \/ OKToStart \/ SeeInterrupt \/ Exit
  BY <1>23 DEF BumpRefCount, OKToStart, SeeInterrupt, Exit
<1>24. ASSUME NEW c \in Clients,
        Start(c) \/ Abort(c) \/ Interrupt(c) \/ WaitForDone(c) \/ AbortAndWaitForDone(c)
          \/ Drop(c)
     PROVE  Stages'
  BY <1>24 DEF Start, Call, Abort, Interrupt, WaitForDone, AbortAndWaitForDone, Drop
<1>25. ASSUME NEW c \in Clients,
        WaitBumped(c) \/ NameThread(c) \/ GetID(c) \/ AbortAgain(c)
     PROVE  Stages'
  BY <1>25 DEF WaitBumped, NameThread, GetID, AbortAgain
<1>26. CASE UNCHANGED vars
  BY <1>26 DEF vars, client
<1> QED
  BY <1>1, <1>2, <1>3, <1>4, <1>5, <1>6, <1>7, <1>8, <1>9, <1>10, <1>11, <1>12,
     <1>13, <1>14, <1>15, <1>16, <1>17, <1>18, <1>19, <1>20, <1>21, <1>22,
     <1>23, <1>24, <1>25, <1>26
     DEF Next, TargetStep, ClientStep, ClientCall

LEMMA BirthStep == TypeOK /\ Birth /\ [Next]_vars => Birth'
<1> SUFFICES ASSUME TypeOK, Birth, [Next]_vars PROVE Birth'
  OBVIOUS
<1> USE DEF TypeOK, Birth, Starting, Goto, life, created, result, counts, client,
          Target
<1>1. CASE BumpRefCount
  BY <1>1 DEF BumpRefCount
<1>2. CASE Exit
  BY <1>2 DEF Exit
<1>3. ASSUME NEW c \in Clients, Start(c) PROVE Birth'
  BY <1>3 DEF Start, Call
<1>4. ASSUME NEW c \in Clients, Create(c) PROVE Birth'
  BY <1>4 DEF Create
<1>5. ASSUME NEW c \in Clients, WaitBumped(c) PROVE Birth'
  BY <1>5 DEF WaitBumped
<1>6. ASSUME NEW c \in Clients, NameThread(c) PROVE Birth'
  BY <1>6 DEF NameThread
<1>7. ASSUME NEW c \in Clients, SetOK2Start(c) PROVE Birth'
  BY <1>7 DEF SetOK2Start, Return
<1>8. ASSUME NEW c \in Clients, LockToJoin(c) PROVE Birth'
  BY <1>8 DEF LockToJoin, Done, Return
<1>9. ASSUME NEW c \in Clients, Join(c) PROVE Birth'
  BY <1>9 DEF Join, Done, Return
<1>10. ASSUME NEW c \in Clients, Drop(c) PROVE Birth'
  BY <1>10 DEF Drop
<1>11. CASE OKToStart \/ Claim \/ ThrowAbort \/ SeeInterrupt \/ ThrowInterrupt
              \/ CatchOther \/ CompleteStatus \/ SignalDone \/ FunctionReturns
              \/ FunctionThrows
  BY <1>11 DEF OKToStart, Claim, ThrowAbort, SeeInterrupt, ThrowInterrupt,
          Interrupted, CatchOther, CompleteStatus, SignalDone,
          FunctionReturns, FunctionThrows
<1>12. ASSUME NEW c \in Clients,
        Abort(c) \/ Interrupt(c) \/ WaitForDone(c) \/ AbortAndWaitForDone(c)
     PROVE  Birth'
  BY <1>12 DEF Abort, Call, Interrupt, WaitForDone, AbortAndWaitForDone
<1>13. ASSUME NEW c \in Clients,
        AbortRunning(c) \/ AbortUnstarted(c) \/ SetDone(c) \/ AbortCheck(c)
          \/ InterruptCheck(c) \/ NotifyAbort(c) \/ NotifyInterrupt(c) \/ GetID(c)
          \/ SendSignal(c) \/ WaitIsOver(c) \/ AbortAgain(c) \/ GiveUp(c)
     PROVE  Birth'
  BY <1>13 DEF AbortRunning, AbortUnstarted, SetDone, AbortCheck, AfterNotify, Return,
          InterruptCheck, NotifyAbort, HasFlag, NotifyInterrupt, GetID,
          SendSignal, WaitIsOver, AbortAgain, GiveUp
<1>14. CASE UNCHANGED vars
  BY <1>14 DEF vars, client
<1> QED
  BY <1>1, <1>2, <1>3, <1>4, <1>5, <1>6, <1>7, <1>8, <1>9, <1>10, <1>11, <1>12,
     <1>13, <1>14
     DEF Next, TargetStep, ClientStep, ClientCall

LEMMA OutcomesStep == TypeOK /\ Birth /\ Outcomes /\ [Next]_vars => Outcomes'
<1> SUFFICES ASSUME TypeOK, Birth, Outcomes, [Next]_vars PROVE Outcomes'
  OBVIOUS
<1> USE DEF TypeOK, Birth, Starting, Outcomes, Running, Goto, life, created,
          result, counts, client, Target
<1>1. CASE Claim
  BY <1>1 DEF Claim
<1>2. CASE ThrowAbort
  BY <1>2 DEF ThrowAbort
<1>3. CASE ThrowInterrupt
  BY <1>3 DEF ThrowInterrupt, Interrupted
<1>4. CASE FunctionReturns
  BY <1>4 DEF FunctionReturns
<1>5. CASE FunctionThrows
  BY <1>5 DEF FunctionThrows
<1>6. ASSUME NEW c \in Clients, Create(c) PROVE Outcomes'
  BY <1>6 DEF Create
<1>7. CASE BumpRefCount \/ OKToStart \/ SeeInterrupt \/ CatchOther \/ CompleteStatus
              \/ SignalDone \/ Exit
  BY <1>7 DEF BumpRefCount, OKToStart, SeeInterrupt, CatchOther, CompleteStatus,
          SignalDone, Exit
<1>8. ASSUME NEW c \in Clients,
        Start(c) \/ Abort(c) \/ Interrupt(c) \/ WaitForDone(c) \/ AbortAndWaitForDone(c)
          \/ Drop(c)
     PROVE  Outcomes'
  BY <1>8 DEF Start, Call, Abort, Interrupt, WaitForDone, AbortAndWaitForDone, Drop
<1>9. ASSUME NEW c \in Clients,
        WaitBumped(c) \/ NameThread(c) \/ SetOK2Start(c) \/ AbortRunning(c)
          \/ AbortUnstarted(c) \/ SetDone(c) \/ AbortCheck(c) \/ InterruptCheck(c)
          \/ NotifyAbort(c) \/ NotifyInterrupt(c) \/ GetID(c) \/ SendSignal(c)
          \/ WaitIsOver(c) \/ AbortAgain(c) \/ GiveUp(c) \/ LockToJoin(c) \/ Join(c)
     PROVE  Outcomes'
  BY <1>9 DEF WaitBumped, NameThread, SetOK2Start, Return, AbortRunning,
          AbortUnstarted, SetDone, AbortCheck, AfterNotify,
          InterruptCheck, NotifyAbort, HasFlag, NotifyInterrupt, GetID,
          SendSignal, WaitIsOver, AbortAgain, GiveUp, LockToJoin, Done,
          Join
<1>10. CASE UNCHANGED vars
  BY <1>10 DEF vars, client
<1> QED
  BY <1>1, <1>2, <1>3, <1>4, <1>5, <1>6, <1>7, <1>8, <1>9, <1>10
     DEF Next, TargetStep, ClientStep, ClientCall

LEMMA JoinStep == TypeOK /\ Birth /\ JoinedByOne /\ [Next]_vars => JoinedByOne'
<1> SUFFICES ASSUME TypeOK, Birth, JoinedByOne, [Next]_vars PROVE JoinedByOne'
  OBVIOUS
<1> USE ThreadAssumption DEF TypeOK, Birth, JoinedByOne, MutexFree, Goto, life, created, result,
          counts, client, Target
<1>1. ASSUME NEW c \in Clients, Create(c) PROVE JoinedByOne'
  BY <1>1 DEF Create
<1>2. ASSUME NEW c \in Clients, LockToJoin(c) PROVE JoinedByOne'
  BY <1>2 DEF LockToJoin, Done, Return
<1>3. ASSUME NEW c \in Clients, Join(c) PROVE JoinedByOne'
  BY <1>3 DEF Join, Done, Return
<1>4. CASE BumpRefCount \/ OKToStart \/ Claim \/ ThrowAbort \/ SeeInterrupt
              \/ ThrowInterrupt \/ CatchOther \/ CompleteStatus \/ SignalDone \/ Exit
              \/ FunctionReturns \/ FunctionThrows
  BY <1>4 DEF BumpRefCount, OKToStart, Claim, ThrowAbort, SeeInterrupt,
          ThrowInterrupt, Interrupted, CatchOther, CompleteStatus,
          SignalDone, Exit, FunctionReturns, FunctionThrows
<1>5. ASSUME NEW c \in Clients,
        Start(c) \/ Abort(c) \/ Interrupt(c) \/ WaitForDone(c) \/ AbortAndWaitForDone(c)
          \/ Drop(c)
     PROVE  JoinedByOne'
  BY <1>5 DEF Start, Call, Abort, Interrupt, WaitForDone, AbortAndWaitForDone, Drop
<1>6. ASSUME NEW c \in Clients,
        WaitBumped(c) \/ NameThread(c) \/ SetOK2Start(c) \/ AbortRunning(c)
          \/ AbortUnstarted(c) \/ SetDone(c) \/ AbortCheck(c) \/ InterruptCheck(c)
          \/ NotifyAbort(c) \/ NotifyInterrupt(c) \/ GetID(c) \/ SendSignal(c)
          \/ WaitIsOver(c) \/ AbortAgain(c) \/ GiveUp(c)
     PROVE  JoinedByOne'
  BY <1>6 DEF WaitBumped, NameThread, SetOK2Start, Return, AbortRunning,
          AbortUnstarted, SetDone, AbortCheck, AfterNotify,
          InterruptCheck, NotifyAbort, HasFlag, NotifyInterrupt, GetID,
          SendSignal, WaitIsOver, AbortAgain, GiveUp
<1>7. CASE UNCHANGED vars
  BY <1>7 DEF vars, client
<1> QED
  BY <1>1, <1>2, <1>3, <1>4, <1>5, <1>6, <1>7
     DEF Next, TargetStep, ClientStep, ClientCall

LEMMA AbortStep == TypeOK /\ AbortNotLost /\ [Next]_vars => AbortNotLost'
<1> SUFFICES ASSUME TypeOK, AbortNotLost, [Next]_vars PROVE AbortNotLost'
  OBVIOUS
<1> USE DEF TypeOK, AbortNotLost, Running, Goto, life, created, result, counts,
          client, Target
<1>1. CASE Claim
  BY <1>1 DEF Claim
<1>2. CASE ThrowInterrupt
  BY <1>2 DEF ThrowInterrupt, Interrupted
<1>3. CASE CatchOther
  BY <1>3 DEF CatchOther
<1>4. CASE CompleteStatus
  BY <1>4 DEF CompleteStatus
<1>5. ASSUME NEW c \in Clients, AbortRunning(c) PROVE AbortNotLost'
  BY <1>5 DEF AbortRunning
<1>6. ASSUME NEW c \in Clients, AbortUnstarted(c) PROVE AbortNotLost'
  BY <1>6 DEF AbortUnstarted
<1>7. ASSUME NEW c \in Clients, AbortCheck(c) PROVE AbortNotLost'
  BY <1>7 DEF AbortCheck, AfterNotify, Return
<1>8. ASSUME NEW c \in Clients, NotifyAbort(c) PROVE AbortNotLost'
  BY <1>8 DEF NotifyAbort, HasFlag
<1>9. ASSUME NEW c \in Clients, NotifyInterrupt(c) PROVE AbortNotLost'
  BY <1>9 DEF NotifyInterrupt, HasFlag
<1>10. CASE BumpRefCount \/ OKToStart \/ ThrowAbort \/ SeeInterrupt \/ SignalDone \/ Exit
              \/ FunctionReturns \/ FunctionThrows
  BY <1>10 DEF BumpRefCount, OKToStart, ThrowAbort, SeeInterrupt, SignalDone, Exit,
          FunctionReturns, FunctionThrows
<1>11. ASSUME NEW c \in Clients,
        Start(c) \/ Abort(c) \/ Interrupt(c) \/ WaitForDone(c) \/ AbortAndWaitForDone(c)
          \/ Drop(c)
     PROVE  AbortNotLost'
  BY <1>11 DEF Start, Call, Abort, Interrupt, WaitForDone, AbortAndWaitForDone, Drop
<1>12. ASSUME NEW c \in Clients,
        Create(c) \/ WaitBumped(c) \/ NameThread(c) \/ SetOK2Start(c) \/ SetDone(c)
          \/ InterruptCheck(c) \/ GetID(c) \/ SendSignal(c) \/ WaitIsOver(c)
          \/ AbortAgain(c) \/ GiveUp(c) \/ LockToJoin(c) \/ Join(c)
     PROVE  AbortNotLost'
  BY <1>12 DEF Create, WaitBumped, NameThread, SetOK2Start, Return, SetDone,
          InterruptCheck, GetID, SendSignal, AfterNotify, WaitIsOver,
          AbortAgain, GiveUp, LockToJoin, Done, Join
<1>13. CASE UNCHANGED vars
  BY <1>13 DEF vars, client
<1> QED
  BY <1>1, <1>2, <1>3, <1>4, <1>5, <1>6, <1>7, <1>8, <1>9, <1>10, <1>11, <1>12,
     <1>13
     DEF Next, TargetStep, ClientStep, ClientCall

LEMMA DoneStep == TypeOK /\ Stages /\ Outcomes /\ DoneMeansOver /\ [Next]_vars => DoneMeansOver'
<1> SUFFICES ASSUME TypeOK, Stages, Outcomes, DoneMeansOver, [Next]_vars PROVE DoneMeansOver'
  OBVIOUS
<1> USE DEF TypeOK, Stages, Outcomes, DoneMeansOver, Running, Statuses, Goto, life,
          created, result, counts, client, Target
<1>1. CASE Claim
  BY <1>1 DEF Claim
<1>2. CASE ThrowAbort
  BY <1>2 DEF ThrowAbort
<1>3. CASE ThrowInterrupt
  BY <1>3 DEF ThrowInterrupt, Interrupted
<1>4. CASE CompleteStatus
  BY <1>4 DEF CompleteStatus
<1>5. CASE FunctionReturns
  BY <1>5 DEF FunctionReturns
<1>6. CASE FunctionThrows
  BY <1>6 DEF FunctionThrows
<1>7. ASSUME NEW c \in Clients, AbortRunning(c) PROVE DoneMeansOver'
  BY <1>7 DEF AbortRunning
<1>8. ASSUME NEW c \in Clients, AbortUnstarted(c) PROVE DoneMeansOver'
  BY <1>8 DEF AbortUnstarted
<1>9. ASSUME NEW c \in Clients, GiveUp(c) PROVE DoneMeansOver'
  BY <1>9 DEF GiveUp, Return
<1>10. ASSUME NEW c \in Clients, LockToJoin(c) PROVE DoneMeansOver'
  BY <1>10 DEF LockToJoin, Done, Return
<1>11. ASSUME NEW c \in Clients, Join(c) PROVE DoneMeansOver'
  BY <1>11 DEF Join, Done, Return
<1>12. CASE BumpRefCount \/ OKToStart \/ SeeInterrupt \/ CatchOther \/ SignalDone \/ Exit
  BY <1>12 DEF BumpRefCount, OKToStart, SeeInterrupt, CatchOther, SignalDone, Exit
<1>13. ASSUME NEW c \in Clients,
        Start(c) \/ Abort(c) \/ Interrupt(c) \/ WaitForDone(c) \/ AbortAndWaitForDone(c)
          \/ Drop(c)
     PROVE  DoneMeansOver'
  BY <1>13 DEF Start, Call, Abort, Interrupt, WaitForDone, AbortAndWaitForDone, Drop
<1>14. ASSUME NEW c \in Clients,
        Create(c) \/ WaitBumped(c) \/ NameThread(c) \/ SetOK2Start(c) \/ SetDone(c)
          \/ AbortCheck(c) \/ InterruptCheck(c) \/ NotifyAbort(c) \/ NotifyInterrupt(c)
          \/ GetID(c) \/ SendSignal(c) \/ WaitIsOver(c) \/ AbortAgain(c)
     PROVE  DoneMeansOver'
  BY <1>14 DEF Create, WaitBumped, NameThread, SetOK2Start, Return, SetDone,
          AbortCheck, AfterNotify, InterruptCheck, NotifyAbort,
          HasFlag, NotifyInterrupt, GetID, SendSignal, WaitIsOver,
          AbortAgain
<1>15. CASE UNCHANGED vars
  BY <1>15 DEF vars, client
<1> QED
  BY <1>1, <1>2, <1>3, <1>4, <1>5, <1>6, <1>7, <1>8, <1>9, <1>10, <1>11, <1>12,
     <1>13, <1>14, <1>15
     DEF Next, TargetStep, ClientStep, ClientCall

-----------------------------------------------------------------------------
IInv == TypeOK /\ Birth /\ Stages /\ Outcomes /\ JoinedByOne /\ AbortNotLost /\ DoneMeansOver

LEMMA InitIInv == Init => IInv
<1> USE ThreadAssumption DEF Init
<1>1. Init => TypeOK
  <2> SUFFICES ASSUME Init PROVE TypeOK
    OBVIOUS
  <2>1. posted \in 0..MaxInterrupts /\ thrown \in Nat
    OBVIOUS
  <2>2. /\ cpc \in [Clients -> ClientPCs]
        /\ op \in [Clients -> AllOps \cup {"none"}]
        /\ ret \in [Clients -> {"none", "done", "joined", "timeout", "exception"}]
    BY DEF ClientPCs
  <2> QED
    BY <2>1, <2>2 DEF TypeOK, Statuses, Flags, TargetPCs
<1>2. Init => Birth /\ Stages /\ Outcomes
  BY DEF Birth, Starting, Stages, Outcomes, Running
<1>3. Init => JoinedByOne /\ AbortNotLost /\ DoneMeansOver
  BY DEF JoinedByOne, AbortNotLost, DoneMeansOver, Running
<1> QED
  BY <1>1, <1>2, <1>3 DEF IInv

LEMMA NextIInv == IInv /\ [Next]_vars => IInv'
BY TypeStep, BirthStep, StagesStep, OutcomesStep, JoinStep, AbortStep, DoneStep DEF IInv

LEMMA Invariance == Spec => []IInv
BY InitIInv, NextIInv, PTL DEF Spec

\* Every variable keeps its type, for any number of clients and calls.
THEOREM TypeCorrect == Spec => []TypeOK
<1>1. IInv => TypeOK
  BY DEF IInv
<1> QED
  BY <1>1, Invariance, PTL

\* Abort's store is the last word on the flag while the function runs, whatever
\* Interrupt and CheckForThreadInterruption do meanwhile.
THEOREM AbortIsKept == Spec => []AbortNotLost
<1>1. IInv => AbortNotLost
  BY DEF IInv
<1> QED
  BY <1>1, Invariance, PTL

\* A wait for done succeeds only when the function is over, and Join throws exactly
\* what it threw.
THEOREM DoneIsOver == Spec => []DoneMeansOver
<1>1. IInv => DoneMeansOver
  BY DEF IInv
<1> QED
  BY <1>1, Invariance, PTL

\* One client joins the std::thread, once, with the mutex held.
THEOREM OneJoins == Spec => []JoinedByOne
<1>1. IInv => JoinedByOne
  BY DEF IInv
<1> QED
  BY <1>1, Invariance, PTL

\* The Rep_ lives while its target does: DoCreate's wait for fRefCountBumpedEvent_
\* hands over the reference.
THEOREM RepLives == Spec => []RepOutlivesUse
<1>1. IInv => RepOutlivesUse
  <2> SUFFICES ASSUME IInv PROVE RepOutlivesUse
    OBVIOUS
  <2>1. ASSUME tpc \notin {"none", "exited"} PROVE ~Destroyed
    <3>1. CASE tpc = "main"
      BY <3>1 DEF IInv, Birth, Destroyed
    <3>2. CASE tpc # "main"
      BY <2>1, <3>2 DEF IInv, Birth, Destroyed
    <3> QED
      BY <3>1, <3>2
  <2>2. ASSUME Destroyed PROVE fStatus_ \notin {"eRunning", "eAborting"}
    BY <2>2, <2>1 DEF IInv, Stages, Running
  <2> QED
    BY <2>1, <2>2 DEF RepOutlivesUse
<1> QED
  BY <1>1, Invariance, PTL

-----------------------------------------------------------------------------
(***************************************************************************)
(* What keeps InterruptedNoMoreThanAsked: every call of Interrupt is at    *)
(* one place only.  It is still on its way to the flag, or it is the       *)
(* pending interruption, or it has been thrown, or it is lost.             *)
(***************************************************************************)

\* The clients whose Interrupt has not stored yet.
Asking == {c \in Clients : cpc[c] \in {"interrupt", "notifyInterrupt"}}

\* The interruption the flag stands for, or that the target has seen there and not
\* thrown yet.
Pending == IF t_Interrupting_ = "eInterrupted" \/ tpc \in {"clearOK", "clearRun"} THEN 1 ELSE 0

Counted ==
  /\ IsFiniteSet(Asking)
  /\ thrown + Pending + Cardinality(Asking) <= posted

\* A step that adds nothing to what is pending or thrown leaves the count right.
LEMMA CountKept ==
  ASSUME TypeOK, TypeOK', Counted, Asking' = Asking, posted' = posted,
         thrown' + Pending' <= thrown + Pending
  PROVE  Counted'
<1>1. Cardinality(Asking) \in Nat
  BY FS_CardinalityType DEF Counted
<1>2. Pending \in Nat /\ Pending' \in Nat /\ thrown \in Nat /\ thrown' \in Nat /\ posted \in Nat
  BY ThreadAssumption DEF Pending, TypeOK
<1>3. IsFiniteSet(Asking') /\ Cardinality(Asking') = Cardinality(Asking)
  BY DEF Counted
<1>4. thrown + Pending + Cardinality(Asking) <= posted
  BY DEF Counted
<1>5. thrown' + Pending' + Cardinality(Asking') <= posted'
  <2>1. \A a, b, k, p, x, y \in Nat : a + b + k <= p /\ x + y <= a + b => x + y + k <= p
    OBVIOUS
  <2> QED
    BY <1>1, <1>2, <1>3, <1>4, <2>1
<1> QED
  BY <1>3, <1>5 DEF Counted

LEMMA CountedStep == TypeOK /\ TypeOK' /\ Counted /\ [Next]_vars => Counted'
<1> SUFFICES ASSUME TypeOK, TypeOK', Counted, [Next]_vars PROVE Counted'
  OBVIOUS
<1> USE ThreadAssumption DEF Goto, life, created, result, counts, client, Target
<1>1. Cardinality(Asking) \in Nat /\ IsFiniteSet(Asking)
  BY FS_CardinalityType DEF Counted
<1>2. CASE \/ BumpRefCount \/ OKToStart \/ Claim \/ ThrowAbort \/ SeeInterrupt \/ ThrowInterrupt
           \/ CatchOther \/ CompleteStatus \/ SignalDone \/ Exit \/ FunctionReturns
           \/ FunctionThrows
  <2>1. UNCHANGED <<cpc, posted>>
    BY <1>2 DEF BumpRefCount, OKToStart, Claim, ThrowAbort, SeeInterrupt, ThrowInterrupt,
       Interrupted, CatchOther, CompleteStatus, SignalDone, Exit, FunctionReturns, FunctionThrows
  <2>2. thrown' + Pending' <= thrown + Pending
    <3>1. CASE ThrowInterrupt
      BY <3>1 DEF ThrowInterrupt, Interrupted, Pending, TypeOK
    <3>2. CASE ~ThrowInterrupt
      <4>1. thrown' = thrown
        BY <1>2, <3>2 DEF BumpRefCount, OKToStart, Claim, ThrowAbort, SeeInterrupt, CatchOther,
           CompleteStatus, SignalDone, Exit, FunctionReturns, FunctionThrows
      <4>2. Pending' <= Pending
        BY <1>2, <3>2 DEF BumpRefCount, OKToStart, Claim, ThrowAbort, SeeInterrupt, CatchOther,
           CompleteStatus, SignalDone, Exit, FunctionReturns, FunctionThrows, Pending
      <4> QED
        BY <4>1, <4>2 DEF TypeOK, Pending
    <3> QED
      BY <3>1, <3>2
  <2>3. Asking' = Asking
    BY <2>1 DEF Asking
  <2> QED
    BY <2>1, <2>2, <2>3, CountKept
<1>3. ASSUME NEW c \in Clients, Interrupt(c) PROVE Counted'
  <2>1. c \notin Asking /\ Asking' = Asking \cup {c}
    BY <1>3 DEF Interrupt, Call, Asking, TypeOK
  <2>2. IsFiniteSet(Asking') /\ Cardinality(Asking') = Cardinality(Asking) + 1
    BY <1>1, <2>1, FS_AddElement
  <2>3. posted' = posted + 1 /\ thrown' = thrown /\ Pending' = Pending
    BY <1>3 DEF Interrupt, Pending
  <2> QED
    BY <1>1, <2>2, <2>3 DEF Counted, TypeOK, Pending
<1>4. ASSUME NEW c \in Clients,
             \/ NotifyInterrupt(c)
             \/ InterruptCheck(c) /\ cpc'[c] # "notifyInterrupt"
      PROVE  Counted'
  <2>1. c \in Asking /\ Asking' = Asking \ {c}
    BY <1>4 DEF InterruptCheck, Return, NotifyInterrupt, Asking, TypeOK
  <2>2. IsFiniteSet(Asking') /\ Cardinality(Asking') = Cardinality(Asking) - 1
    BY <1>1, <2>1, FS_RemoveElement
  <2>3. posted' = posted /\ thrown' = thrown /\ Pending' <= Pending + 1
    BY <1>4 DEF InterruptCheck, NotifyInterrupt, Pending
  <2> QED
    BY <1>1, <2>2, <2>3 DEF Counted, TypeOK, Pending
<1>5. ASSUME NEW c \in Clients, InterruptCheck(c), cpc'[c] = "notifyInterrupt"
      PROVE  Counted'
  <2>1. Asking' = Asking
    <3>1. cpc[c] = "interrupt" /\ cpc' = [cpc EXCEPT ![c] = "notifyInterrupt"]
      BY <1>5 DEF InterruptCheck, Return, TypeOK
    <3> QED
      BY <3>1 DEF Asking, TypeOK
  <2>2. posted' = posted /\ thrown' = thrown /\ Pending' = Pending
    BY <1>5 DEF InterruptCheck, Pending
  <2> QED
    BY <2>1, <2>2, CountKept DEF TypeOK, Pending
<1>6. ASSUME NEW c \in Clients,
        \/ Start(c) \/ Abort(c) \/ WaitForDone(c) \/ AbortAndWaitForDone(c) \/ Drop(c)
        \/ Create(c) \/ WaitBumped(c) \/ NameThread(c) \/ SetOK2Start(c) \/ AbortRunning(c)
        \/ AbortUnstarted(c) \/ SetDone(c) \/ AbortCheck(c) \/ NotifyAbort(c) \/ GetID(c)
        \/ SendSignal(c) \/ WaitIsOver(c) \/ LockToJoin(c) \/ Join(c) \/ AbortAgain(c) \/ GiveUp(c)
      PROVE  Counted'
  <2>1. cpc[c] \notin {"interrupt", "notifyInterrupt"}
    BY <1>6 DEF Start, Call, Abort, WaitForDone, AbortAndWaitForDone, Drop, Create, WaitBumped,
       NameThread, SetOK2Start, AbortRunning, AbortUnstarted, SetDone, AbortCheck, NotifyAbort,
       GetID, SendSignal, WaitIsOver, LockToJoin, Join, AbortAgain, GiveUp
  <2>2. \E l \in ClientPCs \ {"interrupt", "notifyInterrupt"} : cpc' = [cpc EXCEPT ![c] = l]
    <3>1. CASE \/ Start(c) \/ Abort(c) \/ WaitForDone(c) \/ AbortAndWaitForDone(c) \/ Create(c)
               \/ WaitBumped(c) \/ NameThread(c) \/ SetOK2Start(c) \/ AbortRunning(c)
               \/ AbortUnstarted(c) \/ SetDone(c)
      BY <3>1 DEF Start, Call, Abort, WaitForDone, AbortAndWaitForDone, Create, WaitBumped,
         NameThread, SetOK2Start, Return, AbortRunning, AbortUnstarted, SetDone, ClientPCs
    <3>2. CASE \/ AbortCheck(c) \/ NotifyAbort(c) \/ GetID(c) \/ SendSignal(c) \/ WaitIsOver(c)
               \/ LockToJoin(c) \/ Join(c) \/ AbortAgain(c) \/ GiveUp(c)
      BY <3>2 DEF AbortCheck, AfterNotify, Return, NotifyAbort, GetID, SendSignal, WaitIsOver,
         LockToJoin, Done, Join, AbortAgain, GiveUp, ClientPCs
    <3>3. CASE Drop(c)
      BY <3>3 DEF Drop, TypeOK, ClientPCs
    <3> QED
      BY <1>6, <3>1, <3>2, <3>3
  <2>3. Asking' = Asking
    BY <2>1, <2>2 DEF Asking, TypeOK
  <2>4. UNCHANGED <<posted, thrown>>
    BY <1>6 DEF Start, Call, Abort, WaitForDone, AbortAndWaitForDone, Drop, Create, WaitBumped,
       NameThread, SetOK2Start, AbortRunning, AbortUnstarted, SetDone, AbortCheck, NotifyAbort,
       GetID, SendSignal, WaitIsOver, LockToJoin, Join, AbortAgain, GiveUp
  <2>5. Pending' <= Pending
    <3>1. CASE NotifyAbort(c)
      BY <3>1 DEF NotifyAbort, Pending
    <3>2. CASE Create(c)
      BY <3>2 DEF Create, Pending
    <3>3. CASE ~NotifyAbort(c) /\ ~Create(c)
      BY <1>6, <3>3 DEF Start, Call, Abort, WaitForDone, AbortAndWaitForDone, Drop, WaitBumped,
         NameThread, SetOK2Start, AbortRunning, AbortUnstarted, SetDone, AbortCheck,
         GetID, SendSignal, WaitIsOver, LockToJoin, Join, AbortAgain, GiveUp, Pending
    <3> QED
      BY <3>1, <3>2, <3>3
  <2> QED
    BY <2>3, <2>4, <2>5, CountKept DEF TypeOK, Pending
<1>7. CASE UNCHANGED vars
  BY <1>7, CountKept DEF vars, Asking, Pending, TypeOK
<1> QED
  BY <1>2, <1>3, <1>4, <1>5, <1>6, <1>7 DEF Next, TargetStep, ClientStep, ClientCall

\* At most one InterruptException is thrown for each call of Interrupt, however many
\* clients call it and whatever Abort and the target's own catch clauses do to the flag.
THEOREM InterruptedAsAsked == Spec => []InterruptedNoMoreThanAsked
<1>1. Init => Counted
  <2> SUFFICES ASSUME Init PROVE Counted
    OBVIOUS
  <2>1. Asking = {} /\ Pending = 0 /\ thrown = 0 /\ posted = 0
    BY DEF Init, Asking, Pending
  <2> QED
    BY <2>1, FS_EmptySet DEF Counted
<1>2. TypeOK /\ Counted => InterruptedNoMoreThanAsked
  <2> SUFFICES ASSUME TypeOK, Counted PROVE thrown <= posted
    BY DEF InterruptedNoMoreThanAsked
  <2>1. Cardinality(Asking) \in Nat
    BY FS_CardinalityType DEF Counted
  <2> QED
    BY <2>1 DEF Counted, Pending, TypeOK
<1> QED
  BY <1>1, <1>2, CountedStep, TypeCorrect, PTL DEF Spec

-----------------------------------------------------------------------------
\* Each step of Thread is a step of ThreadLife or changes nothing ThreadLife sees.
LEMMA StepSimulation == IInv /\ [Next]_vars => [Life!Next]_(Life!vars)
<1> SUFFICES ASSUME IInv, [Next]_vars PROVE [Life!Next]_(Life!vars)
  OBVIOUS
<1> USE DEF IInv, TypeOK, Stages, Statuses, Running, Life!Next, Life!vars, Goto,
          life, created, result, counts, client, Target
<1>1. CASE Claim
  BY <1>1 DEF Claim, Life!Begin
<1>2. CASE ThrowAbort
  BY <1>2 DEF ThrowAbort, Life!End
<1>3. CASE ThrowInterrupt
  BY <1>3 DEF ThrowInterrupt, Interrupted, Life!End
<1>4. CASE CompleteStatus
  BY <1>4 DEF CompleteStatus, Life!Complete, Life!Cancel
<1>5. CASE SignalDone
  BY <1>5 DEF SignalDone, Life!Announce
<1>6. CASE FunctionReturns
  BY <1>6 DEF FunctionReturns, Life!End
<1>7. CASE FunctionThrows
  BY <1>7 DEF FunctionThrows, Life!End
<1>8. ASSUME NEW c \in Clients, Create(c) PROVE [Life!Next]_(Life!vars)
  BY <1>8 DEF Create, Birth
<1>9. ASSUME NEW c \in Clients, AbortRunning(c) PROVE [Life!Next]_(Life!vars)
  BY <1>9 DEF AbortRunning, Life!RequestAbort
<1>10. ASSUME NEW c \in Clients, AbortUnstarted(c) PROVE [Life!Next]_(Life!vars)
  BY <1>10 DEF AbortUnstarted, Life!Cancel
<1>11. ASSUME NEW c \in Clients, SetDone(c) PROVE [Life!Next]_(Life!vars)
  BY <1>11 DEF SetDone, Life!Announce
<1>12. CASE BumpRefCount \/ OKToStart \/ SeeInterrupt \/ CatchOther \/ Exit
  BY <1>12 DEF BumpRefCount, OKToStart, SeeInterrupt, CatchOther, Exit
<1>13. ASSUME NEW c \in Clients,
        Start(c) \/ Abort(c) \/ Interrupt(c) \/ WaitForDone(c) \/ AbortAndWaitForDone(c)
          \/ Drop(c)
     PROVE  [Life!Next]_(Life!vars)
  BY <1>13 DEF Start, Call, Abort, Interrupt, WaitForDone, AbortAndWaitForDone, Drop
<1>14. ASSUME NEW c \in Clients,
        WaitBumped(c) \/ NameThread(c) \/ SetOK2Start(c) \/ AbortCheck(c)
          \/ InterruptCheck(c) \/ NotifyAbort(c) \/ NotifyInterrupt(c) \/ GetID(c)
          \/ SendSignal(c) \/ WaitIsOver(c) \/ AbortAgain(c) \/ GiveUp(c) \/ LockToJoin(c)
          \/ Join(c)
     PROVE  [Life!Next]_(Life!vars)
  BY <1>14 DEF WaitBumped, NameThread, SetOK2Start, Return, AbortCheck, AfterNotify,
          InterruptCheck, NotifyAbort, HasFlag, NotifyInterrupt, GetID,
          SendSignal, WaitIsOver, AbortAgain, GiveUp, LockToJoin, Done,
          Join
<1>15. CASE UNCHANGED vars
  BY <1>15 DEF vars, client
<1> QED
  BY <1>1, <1>2, <1>3, <1>4, <1>5, <1>6, <1>7, <1>8, <1>9, <1>10, <1>11, <1>12,
     <1>13, <1>14, <1>15
     DEF Next, TargetStep, ClientStep, ClientCall

\* The thread implements ThreadLife: the function is called at most once, never once
\* an Abort came first, and done is announced only after it is over.
THEOREM ImplementsThreadLife == Spec => LifeSpec
<1>1. Init => Life!Init
  BY DEF Init, Life!Init, Running
<1> QED
  BY <1>1, StepSimulation, Invariance, PTL DEF Spec, LifeSpec, Life!Spec
=============================================================================
