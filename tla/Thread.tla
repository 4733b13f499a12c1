------------------------------- MODULE Thread -------------------------------
(***************************************************************************)
(* Execution::Thread: one Rep_, the thread it runs (the target), and the   *)
(* clients that hold a Thread::Ptr to it.                                  *)
(*                                                                         *)
(* Every load, store or compare-exchange of an atomic, every event set or  *)
(* waited for, and every critical section of fAccessSTDThreadMutex_ is a   *)
(* step.  The mutex is held across steps only to join.  A wait on one of   *)
(* the three events is what WaitableEvent shows it to be: it goes on once  *)
(* the event is set, or is interrupted, or times out if the event is not   *)
(* set.                                                                    *)
(***************************************************************************)
EXTENDS Naturals

CONSTANTS
  Clients,        \* threads that hold a Ptr
  None,
  Ops,            \* Ops[c]: the calls client c makes
  Impatient,      \* clients that pass a finite timeout
  Tracing,        \* qDefaultTracingOn: DbgTrace evaluates ToString
  MaxInterrupts   \* bound on the calls of Interrupt

AllOps == {"Start", "Abort", "Interrupt", "WaitForDone", "Join", "AbortAndWaitForDone"}

ASSUME ThreadAssumption ==
  /\ None \notin Clients
  /\ Ops \in [Clients -> SUBSET AllOps]
  /\ Impatient \subseteq Clients
  /\ Tracing \in BOOLEAN
  /\ MaxInterrupts \in Nat

VARIABLES
  fStatus_,
  fThread_,                \* "none", "joinable" or "joined"
  fAccessSTDThreadMutex_,  \* the client that holds it to join, or None
  fRefCountBumpedEvent_,
  fOK2StartEvent_,
  fThreadDoneAndCanJoin_,
  fSavedException_,        \* whether there is one
  t_Interrupting_,         \* the target's thread-local flag
  incRefCnt,               \* the target holds a reference to the Rep_
  holders,                 \* the clients that do
  tpc,                     \* where the target is
  cpc,                     \* where each client is
  op,                      \* the call each client is in
  ret,                     \* how its last wait ended
  outcome,                 \* how the function ended
  posted, thrown           \* calls of Interrupt, and InterruptExceptions thrown

life == <<fStatus_, fThreadDoneAndCanJoin_>>
created == <<fThread_, fRefCountBumpedEvent_, fOK2StartEvent_, incRefCnt>>
result == <<fSavedException_, outcome>>
counts == <<posted, thrown>>
client == <<holders, cpc, op, ret>>

vars == <<life, created, fAccessSTDThreadMutex_, result, t_Interrupting_, client, tpc, counts>>

Statuses == {"eNotYetRunning", "eRunning", "eAborting", "eCompleted"}
Flags == {"eNone", "eInterrupted", "eAborted"}

TargetPCs == {"none", "main", "waitOK", "clearOK", "claim", "run", "clearRun", "caught",
              "caughtOther", "complete", "signalDone", "leave", "exited"}

\* While the target is at one of these its function is being called.
Running == {"run", "clearRun"}

ClientPCs == {"idle", "create", "waitBumped", "nameThread", "setOK",
              "abort", "abortUnstarted", "setDone", "abortCheck", "notifyAbort",
              "interrupt", "notifyInterrupt", "getID", "sendSignal",
              "wait", "lockToJoin", "join"}

TypeOK ==
  /\ fStatus_ \in Statuses
  /\ fThread_ \in {"none", "joinable", "joined"}
  /\ fAccessSTDThreadMutex_ \in Clients \cup {None}
  /\ fRefCountBumpedEvent_ \in BOOLEAN
  /\ fOK2StartEvent_ \in BOOLEAN
  /\ fThreadDoneAndCanJoin_ \in BOOLEAN
  /\ fSavedException_ \in BOOLEAN
  /\ t_Interrupting_ \in Flags
  /\ incRefCnt \in BOOLEAN
  /\ holders \in SUBSET Clients
  /\ tpc \in TargetPCs
  /\ cpc \in [Clients -> ClientPCs]
  /\ op \in [Clients -> AllOps \cup {"none"}]
  /\ ret \in [Clients -> {"none", "done", "joined", "timeout", "exception"}]
  /\ outcome \in {"none", "returned", "threw", "interrupted"}
  /\ posted \in 0..MaxInterrupts
  /\ thrown \in Nat

Init ==
  /\ fStatus_ = "eNotYetRunning"
  /\ fThread_ = "none"
  /\ fAccessSTDThreadMutex_ = None
  /\ fRefCountBumpedEvent_ = FALSE
  /\ fOK2StartEvent_ = FALSE
  /\ fThreadDoneAndCanJoin_ = FALSE
  /\ fSavedException_ = FALSE
  /\ t_Interrupting_ = "eNone"
  /\ incRefCnt = FALSE
  /\ holders = Clients
  /\ tpc = "none"
  /\ cpc = [c \in Clients |-> "idle"]
  /\ op = [c \in Clients |-> "none"]
  /\ ret = [c \in Clients |-> "none"]
  /\ outcome = "none"
  /\ posted = 0
  /\ thrown = 0

MutexFree == fAccessSTDThreadMutex_ = None

\* The target's thread-local storage exists, and the Rep_ knows where.
HasFlag == tpc \notin {"none", "main", "exited"}

Goto(c, l) == cpc' = [cpc EXCEPT ![c] = l]

\* Client c's call is over.
Return(c) ==
  /\ Goto(c, "idle")
  /\ op' = [op EXCEPT ![c] = "none"]

---------------------------------------------------------------------------
(***************************************************************************)
(* The target: ThreadMain_, Run_ and the cancelation points                *)
(***************************************************************************)

\* ThreadMain_ takes its reference and leaves the address of its flag before it
\* lets DoCreate go on.
BumpRefCount ==
  /\ tpc = "main"
  /\ incRefCnt' = TRUE
  /\ fRefCountBumpedEvent_' = TRUE
  /\ tpc' = "waitOK"
  /\ UNCHANGED <<life, fThread_, fOK2StartEvent_, fAccessSTDThreadMutex_, result,
                 t_Interrupting_, client, counts>>

OKToStart ==
  /\ tpc = "waitOK"
  /\ fOK2StartEvent_
  /\ tpc' = "claim"
  /\ UNCHANGED <<life, created, fAccessSTDThreadMutex_, result, t_Interrupting_, client, counts>>

\* The compare-exchange that decides between running and a past Abort.
Claim ==
  /\ tpc = "claim"
  /\ IF fStatus_ = "eNotYetRunning"
     THEN /\ fStatus_' = "eRunning"
          /\ tpc' = "run"
     ELSE /\ tpc' = "leave"
          /\ UNCHANGED fStatus_
  /\ UNCHANGED <<fThreadDoneAndCanJoin_, created, fAccessSTDThreadMutex_, result,
                 t_Interrupting_, client, counts>>

\* CheckForThreadInterruption, in the wait for fOK2StartEvent_ or wherever the
\* function calls it, finds the flag eAborted ...
ThrowAbort ==
  /\ tpc \in {"waitOK", "run"}
  /\ t_Interrupting_ = "eAborted"
  /\ tpc' = "caught"
  /\ outcome' = IF tpc = "run" THEN "interrupted" ELSE outcome
  /\ UNCHANGED <<life, created, fAccessSTDThreadMutex_, fSavedException_, t_Interrupting_,
                 client, counts>>

\* ... or eInterrupted, which it then tries to put back to eNone.
SeeInterrupt ==
  /\ tpc \in {"waitOK", "run"}
  /\ t_Interrupting_ = "eInterrupted"
  /\ tpc' = IF tpc = "run" THEN "clearRun" ELSE "clearOK"
  /\ UNCHANGED <<life, created, fAccessSTDThreadMutex_, result, t_Interrupting_, client, counts>>

\* What the InterruptException does: the function may handle it and go on.
Interrupted ==
  /\ thrown' = thrown + 1
  /\ UNCHANGED posted
  /\ \/ /\ tpc = "clearRun"
        /\ tpc' = "run"
        /\ UNCHANGED outcome
     \/ /\ tpc' = "caught"
        /\ outcome' = IF tpc = "clearRun" THEN "interrupted" ELSE outcome

\* Mutant: a store where the code has a compare-exchange.
ThrowInterruptAndClear ==
  /\ tpc \in {"clearOK", "clearRun"}
  /\ t_Interrupting_' = "eNone"
  /\ Interrupted
  /\ UNCHANGED <<life, created, fAccessSTDThreadMutex_, fSavedException_, client>>

\* Mutant: an interruption as permanent as an abort.
ThrowInterruptForGood ==
  /\ tpc \in {"clearOK", "clearRun"}
  /\ thrown <= MaxInterrupts
  /\ Interrupted
  /\ UNCHANGED <<life, created, fAccessSTDThreadMutex_, fSavedException_, t_Interrupting_, client>>

ThrowInterrupt ==
  /\ tpc \in {"clearOK", "clearRun"}
  /\ t_Interrupting_' = IF t_Interrupting_ = "eInterrupted" THEN "eNone" ELSE t_Interrupting_
  /\ Interrupted
  /\ UNCHANGED <<life, created, fAccessSTDThreadMutex_, fSavedException_, client>>

FunctionReturns ==
  /\ tpc = "run"
  /\ tpc' = "complete"
  /\ outcome' = "returned"
  /\ UNCHANGED <<life, created, fAccessSTDThreadMutex_, fSavedException_, t_Interrupting_,
                 client, counts>>

\* Run_ saves any exception that is no InterruptException.
FunctionThrows ==
  /\ tpc = "run"
  /\ fSavedException_' = TRUE
  /\ tpc' = "caughtOther"
  /\ outcome' = "threw"
  /\ UNCHANGED <<life, created, fAccessSTDThreadMutex_, t_Interrupting_, client, counts>>

\* The last catch clause clears the flag first.
CatchOther ==
  /\ tpc = "caughtOther"
  /\ t_Interrupting_' = "eNone"
  /\ tpc' = "complete"
  /\ UNCHANGED <<life, created, fAccessSTDThreadMutex_, result, client, counts>>

\* Whichever way the target got here.  DbgTrace's ToString calls GetID.
CompleteStatus ==
  /\ tpc \in {"complete", "caught"}
  /\ Tracing => MutexFree
  /\ fStatus_' = "eCompleted"
  /\ tpc' = "signalDone"
  /\ UNCHANGED <<fThreadDoneAndCanJoin_, created, fAccessSTDThreadMutex_, result,
                 t_Interrupting_, client, counts>>

\* Mutant: signals before the function has returned.
SignalDoneEarly ==
  /\ tpc \in {"run", "signalDone"}
  /\ fThreadDoneAndCanJoin_' = TRUE
  /\ tpc' = IF tpc = "run" THEN tpc ELSE "leave"
  /\ UNCHANGED <<fStatus_, created, fAccessSTDThreadMutex_, result, t_Interrupting_,
                 client, counts>>

SignalDone ==
  /\ tpc = "signalDone"
  /\ fThreadDoneAndCanJoin_' = TRUE
  /\ tpc' = "leave"
  /\ UNCHANGED <<fStatus_, created, fAccessSTDThreadMutex_, result, t_Interrupting_,
                 client, counts>>

\* The target drops its reference and is gone, its flag with it.
Exit ==
  /\ tpc = "leave"
  /\ incRefCnt' = FALSE
  /\ tpc' = "exited"
  /\ UNCHANGED <<life, fThread_, fRefCountBumpedEvent_, fOK2StartEvent_, fAccessSTDThreadMutex_,
                 result, t_Interrupting_, client, counts>>

\* A step the target takes when the scheduler runs it; how long the function runs
\* is its own affair.
TargetStep ==
  \/ BumpRefCount \/ OKToStart \/ Claim \/ ThrowAbort \/ SeeInterrupt \/ ThrowInterrupt
  \/ CatchOther \/ CompleteStatus \/ SignalDone \/ Exit

---------------------------------------------------------------------------
(***************************************************************************)
(* The clients: Start                                                      *)
(***************************************************************************)

\* A client calls o.  Only a client that has a Ptr can.
Call(c, o, l) ==
  /\ o \in Ops[c]
  /\ c \in holders
  /\ cpc[c] = "idle"
  /\ op' = [op EXCEPT ![c] = o]
  /\ Goto(c, l)
  /\ ret' = [ret EXCEPT ![c] = "none"]

Target == <<tpc, t_Interrupting_, result>>

\* GetStatus () = eNotYetRunning is required of the caller, and that nobody else
\* starts the thread.
Start(c) ==
  /\ Call(c, "Start", "create")
  /\ fStatus_ = "eNotYetRunning"
  /\ fThread_ = "none"
  /\ \A d \in Clients : op[d] # "Start"
  /\ UNCHANGED <<life, created, fAccessSTDThreadMutex_, holders, Target, counts>>

Create(c) ==
  /\ cpc[c] = "create"
  /\ MutexFree
  /\ fThread_' = "joinable"
  /\ tpc' = "main"
  /\ Goto(c, "waitBumped")
  /\ UNCHANGED <<life, fRefCountBumpedEvent_, fOK2StartEvent_, incRefCnt, fAccessSTDThreadMutex_,
                 result, t_Interrupting_, holders, op, ret, counts>>

\* Mutant: does not wait.
WaitBumpedNot(c) ==
  /\ cpc[c] = "waitBumped"
  /\ Goto(c, "nameThread")
  /\ UNCHANGED <<life, created, fAccessSTDThreadMutex_, holders, op, ret, Target, counts>>

\* Interruption of the caller is suppressed here.
WaitBumped(c) ==
  /\ cpc[c] = "waitBumped"
  /\ fRefCountBumpedEvent_
  /\ Goto(c, "nameThread")
  /\ UNCHANGED <<life, created, fAccessSTDThreadMutex_, holders, op, ret, Target, counts>>

\* ApplyThreadName2OSThreadObject and ApplyPriority: GetNativeHandle.
NameThread(c) ==
  /\ cpc[c] = "nameThread"
  /\ MutexFree
  /\ Goto(c, "setOK")
  /\ UNCHANGED <<life, created, fAccessSTDThreadMutex_, holders, op, ret, Target, counts>>

SetOK2Start(c) ==
  /\ cpc[c] = "setOK"
  /\ fOK2StartEvent_' = TRUE
  /\ Return(c)
  /\ UNCHANGED <<life, fThread_, fRefCountBumpedEvent_, incRefCnt, fAccessSTDThreadMutex_,
                 holders, ret, Target, counts>>

---------------------------------------------------------------------------
(***************************************************************************)
(* Abort                                                                   *)
(***************************************************************************)

Abort(c) ==
  /\ Call(c, "Abort", "abort")
  /\ UNCHANGED <<life, created, fAccessSTDThreadMutex_, holders, Target, counts>>

\* compare_exchange_strong (eRunning, eAborting), and the branch on what it found.
AbortRunning(c) ==
  /\ cpc[c] = "abort"
  /\ fStatus_' = IF fStatus_ = "eRunning" THEN "eAborting" ELSE fStatus_
  /\ Goto(c, IF fStatus_ = "eNotYetRunning" THEN "abortUnstarted" ELSE "abortCheck")
  /\ UNCHANGED <<fThreadDoneAndCanJoin_, created, fAccessSTDThreadMutex_, holders, op, ret,
                 Target, counts>>

\* compare_exchange_strong (eNotYetRunning, eCompleted), which may fail and start
\* the loop again.
AbortUnstarted(c) ==
  /\ cpc[c] = "abortUnstarted"
  /\ IF fStatus_ = "eNotYetRunning"
     THEN /\ fStatus_' = "eCompleted"
          /\ Goto(c, "setDone")
     ELSE /\ Goto(c, "abort")
          /\ UNCHANGED fStatus_
  /\ UNCHANGED <<fThreadDoneAndCanJoin_, created, fAccessSTDThreadMutex_, holders, op, ret,
                 Target, counts>>

\* Mutant: forgets those who wait for a thread that will not run.
SetDoneNot(c) ==
  /\ cpc[c] = "setDone"
  /\ Goto(c, "abortCheck")
  /\ UNCHANGED <<life, created, fAccessSTDThreadMutex_, holders, op, ret, Target, counts>>

SetDone(c) ==
  /\ cpc[c] = "setDone"
  /\ fThreadDoneAndCanJoin_' = TRUE
  /\ Goto(c, "abortCheck")
  /\ UNCHANGED <<fStatus_, created, fAccessSTDThreadMutex_, holders, op, ret, Target, counts>>

\* The end of a notification and of Abort: AbortAndWaitForDone goes on to wait.
AfterNotify(c) ==
  IF op[c] = "AbortAndWaitForDone"
  THEN Goto(c, "wait") /\ UNCHANGED op
  ELSE Return(c)

AbortCheck(c) ==
  /\ cpc[c] = "abortCheck"
  /\ IF fStatus_ = "eAborting"
     THEN Goto(c, "notifyAbort") /\ UNCHANGED op
     ELSE AfterNotify(c)
  /\ UNCHANGED <<life, created, fAccessSTDThreadMutex_, holders, ret, Target, counts>>

---------------------------------------------------------------------------
(***************************************************************************)
(* Interrupt, and NotifyOfInterruptionFromAnyThread_                       *)
(***************************************************************************)

Interrupt(c) ==
  /\ Call(c, "Interrupt", "interrupt")
  /\ posted < MaxInterrupts
  /\ posted' = posted + 1
  /\ UNCHANGED <<life, created, fAccessSTDThreadMutex_, holders, Target, thrown>>

InterruptCheck(c) ==
  /\ cpc[c] = "interrupt"
  /\ IF fStatus_ \in {"eAborting", "eCompleted"}
     THEN Return(c)
     ELSE Goto(c, "notifyInterrupt") /\ UNCHANGED op
  /\ UNCHANGED <<life, created, fAccessSTDThreadMutex_, holders, ret, Target, counts>>

\* Mutant: stores the status where the flag belongs.
NotifyAbortStatus(c) ==
  /\ cpc[c] = "notifyAbort"
  /\ t_Interrupting_' = fStatus_
  /\ Goto(c, "getID")
  /\ UNCHANGED <<life, created, fAccessSTDThreadMutex_, result, holders, op, ret, tpc, counts>>

\* The stores go through fTLSInterruptFlag_: nothing is said of one made before
\* there is a flag, and one made after the target is gone is lost.
NotifyAbort(c) ==
  /\ cpc[c] = "notifyAbort"
  /\ t_Interrupting_' = IF HasFlag THEN "eAborted" ELSE t_Interrupting_
  /\ Goto(c, "getID")
  /\ UNCHANGED <<life, created, fAccessSTDThreadMutex_, result, holders, op, ret, tpc, counts>>

\* Mutant: a store where the code has a compare-exchange.
NotifyInterruptStore(c) ==
  /\ cpc[c] = "notifyInterrupt"
  /\ tpc \notin {"none", "main"}
  /\ t_Interrupting_' = IF HasFlag THEN "eInterrupted" ELSE t_Interrupting_
  /\ Goto(c, "getID")
  /\ UNCHANGED <<life, created, fAccessSTDThreadMutex_, result, holders, op, ret, tpc, counts>>

NotifyInterrupt(c) ==
  /\ cpc[c] = "notifyInterrupt"
  /\ tpc \notin {"none", "main"}
  /\ t_Interrupting_' = IF HasFlag /\ t_Interrupting_ = "eNone" THEN "eInterrupted"
                        ELSE t_Interrupting_
  /\ Goto(c, "getID")
  /\ UNCHANGED <<life, created, fAccessSTDThreadMutex_, result, holders, op, ret, tpc, counts>>

\* The comparison of the caller with the target: GetID takes the mutex.
GetID(c) ==
  /\ cpc[c] = "getID"
  /\ MutexFree
  /\ Goto(c, "sendSignal")
  /\ UNCHANGED <<life, created, fAccessSTDThreadMutex_, holders, op, ret, Target, counts>>

\* GetNativeHandle takes the mutex again, if the flag is still up.  The signal only
\* makes system calls return, which the target's waits do anyway.
SendSignal(c) ==
  /\ cpc[c] = "sendSignal"
  /\ t_Interrupting_ # "eNone" => MutexFree
  /\ AfterNotify(c)
  /\ UNCHANGED <<life, created, fAccessSTDThreadMutex_, holders, ret, Target, counts>>

---------------------------------------------------------------------------
(***************************************************************************)
(* WaitForDone, Join and AbortAndWaitForDone                               *)
(***************************************************************************)

WaitForDone(c) ==
  /\ \E o \in {"WaitForDone", "Join"} : Call(c, o, "wait")
  /\ UNCHANGED <<life, created, fAccessSTDThreadMutex_, holders, Target, counts>>

AbortAndWaitForDone(c) ==
  /\ Call(c, "AbortAndWaitForDone", "abort")
  /\ UNCHANGED <<life, created, fAccessSTDThreadMutex_, holders, Target, counts>>

\* Mutant: does not wait.
WaitIsOverNot(c) ==
  /\ cpc[c] = "wait"
  /\ Goto(c, "lockToJoin")
  /\ UNCHANGED <<life, created, fAccessSTDThreadMutex_, holders, op, ret, Target, counts>>

WaitIsOver(c) ==
  /\ cpc[c] = "wait"
  /\ fThreadDoneAndCanJoin_
  /\ Goto(c, "lockToJoin")
  /\ UNCHANGED <<life, created, fAccessSTDThreadMutex_, holders, op, ret, Target, counts>>

\* AbortAndWaitForDone waits a second at a time and aborts again.
AbortAgain(c) ==
  /\ cpc[c] = "wait"
  /\ ~fThreadDoneAndCanJoin_
  /\ op[c] = "AbortAndWaitForDone"
  /\ Goto(c, "abort")
  /\ UNCHANGED <<life, created, fAccessSTDThreadMutex_, holders, op, ret, Target, counts>>

\* TimeOutException.
GiveUp(c) ==
  /\ cpc[c] = "wait"
  /\ ~fThreadDoneAndCanJoin_
  /\ c \in Impatient
  /\ ret' = [ret EXCEPT ![c] = "timeout"]
  /\ Return(c)
  /\ UNCHANGED <<life, created, fAccessSTDThreadMutex_, holders, Target, counts>>

\* Join ends in ThrowIfDoneWithException.
Done(c) ==
  /\ ret' = [ret EXCEPT ![c] = IF op[c] # "Join" THEN "done"
                               ELSE IF fStatus_ = "eCompleted" /\ fSavedException_ THEN "exception"
                               ELSE "joined"]
  /\ Return(c)

LockToJoin(c) ==
  /\ cpc[c] = "lockToJoin"
  /\ MutexFree
  /\ IF fThread_ = "joinable"
     THEN /\ fAccessSTDThreadMutex_' = c
          /\ Goto(c, "join")
          /\ UNCHANGED <<op, ret>>
     ELSE /\ Done(c)
          /\ UNCHANGED fAccessSTDThreadMutex_
  /\ UNCHANGED <<life, created, holders, Target, counts>>

Join(c) ==
  /\ cpc[c] = "join"
  /\ tpc = "exited"
  /\ fThread_' = "joined"
  /\ fAccessSTDThreadMutex_' = None
  /\ Done(c)
  /\ UNCHANGED <<life, fRefCountBumpedEvent_, fOK2StartEvent_, incRefCnt, holders, Target, counts>>

---------------------------------------------------------------------------
\* A client destroys its Ptr.  The last reference, the target's included, takes
\* the Rep_ with it.
Drop(c) ==
  /\ cpc[c] = "idle"
  /\ c \in holders
  /\ holders' = holders \ {c}
  /\ UNCHANGED <<life, created, fAccessSTDThreadMutex_, cpc, op, ret, Target, counts>>

Destroyed == holders = {} /\ ~incRefCnt

ClientStep(c) ==
  \/ Create(c) \/ WaitBumped(c) \/ NameThread(c) \/ SetOK2Start(c)
  \/ AbortRunning(c) \/ AbortUnstarted(c) \/ SetDone(c) \/ AbortCheck(c)
  \/ InterruptCheck(c) \/ NotifyAbort(c) \/ NotifyInterrupt(c)
  \/ GetID(c) \/ SendSignal(c)
  \/ WaitIsOver(c) \/ LockToJoin(c) \/ Join(c)

ClientCall(c) ==
  \/ Start(c) \/ Abort(c) \/ Interrupt(c) \/ WaitForDone(c) \/ AbortAndWaitForDone(c)
  \/ Drop(c)

Next ==
  \/ TargetStep \/ FunctionReturns \/ FunctionThrows
  \/ \E c \in Clients : ClientCall(c) \/ ClientStep(c) \/ AbortAgain(c) \/ GiveUp(c)

Spec == Init /\ [][Next]_vars

\* The scheduler runs every thread that can go on.  A function that has not ended
\* reaches cancelation points again and again (ThrowAbort, SeeInterrupt), but need
\* never return; a timeout need never come.
FairSpec ==
  /\ Spec
  /\ WF_vars(TargetStep)
  /\ \A c \in Clients : WF_vars(ClientStep(c))

---------------------------------------------------------------------------
(***************************************************************************)
(* Properties                                                              *)
(***************************************************************************)

\* Thread implements ThreadLife: the status takes only the documented steps, the
\* function is called at most once and not at all once an Abort came first, and
\* done is announced only after it is over.
Life == INSTANCE ThreadLife
          WITH status <- fStatus_, running <- tpc \in Running, done <- fThreadDoneAndCanJoin_

LifeSpec == Life!Spec

\* An abort is not lost while the function runs: the flag says eAborted, whatever
\* Interrupt and the target's own cancelation points did to it, or will once the
\* Abort that set the status notifies.
AbortNotLost ==
  fStatus_ = "eAborting" /\ tpc \in Running =>
    \/ t_Interrupting_ = "eAborted"
    \/ \E c \in Clients : cpc[c] \in {"abortCheck", "notifyAbort"}

\* Interrupt is no more sticky than its calls: at most one InterruptException for
\* each.
InterruptedNoMoreThanAsked == thrown <= posted

\* WaitForDone, Join and AbortAndWaitForDone succeed only when the function is over
\* for good (what lets the caller destroy what it uses), and Join throws exactly if
\* the function ended by an exception of its own.
DoneMeansOver ==
  \A c \in Clients :
    /\ ret[c] \in {"done", "joined", "exception"} => /\ fStatus_ = "eCompleted"
                                                     /\ tpc \notin Running
    /\ ret[c] = "exception" => outcome = "threw"
    /\ ret[c] = "joined" => outcome # "threw"

\* std::thread::join is called by one client at a time, on a joinable thread, and
\* nobody starts to access the std::thread meanwhile.
JoinedByOne ==
  \A c \in Clients : cpc[c] = "join" => /\ fThread_ = "joinable"
                                        /\ fAccessSTDThreadMutex_ = c

\* The Rep_ outlives whoever is inside it: its target from its first statement to
\* its last, and a client during a call.
RepOutlivesUse ==
  /\ tpc \notin {"none", "exited"} => ~Destroyed
  /\ Destroyed => fStatus_ \notin {"eRunning", "eAborting"}

\* Nobody joins a thread before its Start is over (which takes an Abort during the
\* Start: it completes the status, and those who wait then join).
StartUndisturbed == [](\A c \in Clients : cpc[c] = "join" => fOK2StartEvent_)

\* fThread_.join "shouldn't really take long": it returns.
JoinReturns == StartUndisturbed => \A c \in Clients : cpc[c] = "join" ~> cpc[c] # "join"

\* An Abort of a running thread ends it, though nobody else does anything.
AbortCompletes == fStatus_ = "eAborting" ~> fStatus_ = "eCompleted"

\* AbortAndWaitForDone returns, if it does not overtake a Start ...
AbortAndWaitReturns ==
  StartUndisturbed => \A c \in Clients : op[c] = "AbortAndWaitForDone" ~> op[c] = "none"

\* ... and, as Thread.h has it, in whatever state the thread is called.
LegalInAnyState ==
  \A c \in Clients : op[c] = "AbortAndWaitForDone" ~> op[c] = "none"
=============================================================================
