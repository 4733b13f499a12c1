----------------------------- MODULE ThreadPool -----------------------------
(***************************************************************************)
(* Execution::ThreadPool: the queue of tasks, the workers that take from   *)
(* it, and the clients that add, abort and wait for tasks, resize the pool *)
(* and destroy it.                                                         *)
(*                                                                         *)
(* A critical section of fCriticalSection_ or of a worker's                *)
(* fCurTaskUpdateCritSection_ is one step; AbortTasks is the one caller    *)
(* that holds fCriticalSection_ while it waits for something else.  A scan *)
(* of the workers under fCriticalSection_ is one step because no worker    *)
(* can get a task meanwhile.                                               *)
(*                                                                         *)
(* Of a worker's Thread only what Thread shows is used: an Abort takes     *)
(* effect at a cancelation point, which the wait for the event and every   *)
(* task reach, and a wait for done returns once the thread is over.        *)
(***************************************************************************)
EXTENDS Naturals, SequencesExt, FiniteSetsExt

CONSTANTS
  Clients,
  Tasks,
  None,
  Ops,          \* Ops[c]: the calls client c makes
  InitialSize,  \* what the constructor is given
  Sizes,        \* arguments of SetPoolSize
  MaxWorkers    \* bound on fNextThreadEntryNumber_

AllOps == {"AddTask", "AbortTask", "AbortTasks", "WaitForTask", "WaitForTasksDone",
           "SetPoolSize", "Destroy"}

ASSUME PoolAssumption ==
  /\ IsFiniteSet(Clients)
  /\ None \notin Clients \cup Tasks \cup (1..MaxWorkers)
  /\ Ops \in [Clients -> SUBSET AllOps]
  /\ Sizes \subseteq Nat
  /\ MaxWorkers \in Nat
  /\ InitialSize \in 0..MaxWorkers

VARIABLES
  fCriticalSection_,        \* the client that holds it across steps, or None
  fAborted_,
  fThreads_,                \* the workers the pool knows of
  fPendingTasks_,
  fTasksMaybeAdded_,
  fNextThreadEntryNumber_,
  fCurTask_, fNextTask_,    \* of each worker's MyRunnable_
  aborting,                 \* the workers whose thread was aborted
  wpc,                      \* where each worker is
  cpc,                      \* where each client is
  arg,                      \* the task each client's call is about
  victim,                   \* the worker a client waits for to be done
  left,                     \* the workers AbortTasks has still to wait for
  poolSize,                 \* the size AbortTasks will restore
  added,                    \* tasks ever added
  withdrawn,                \* those an abort or the destructor took from the queue
  ended,                    \* tasks that began and are over
  waited,                   \* tasks some WaitForTask has returned for
  destroyed                 \* the destructor has returned

queue == <<fPendingTasks_, added, withdrawn>>
slots == <<fCurTask_, fNextTask_>>
workers == <<slots, wpc, ended>>
pool == <<fAborted_, fThreads_, fNextThreadEntryNumber_>>
killing == <<left, poolSize>>
locals == <<cpc, arg, victim>>
client == <<locals, killing, waited, destroyed>>

vars == <<fCriticalSection_, pool, queue, fTasksMaybeAdded_, aborting, workers, client>>

Workers == 1..MaxWorkers

WorkerPCs == {"none", "check", "lock", "wait", "move", "run", "cleanup", "cleanupAborted",
              "exited"}

ClientPCs == {"idle", "notify", "findRunning", "abortVictim", "awaitVictim",
              "clear", "abortAll", "lockAll", "killNext", "resize",
              "present", "presentRunning", "count", "shutdown", "awaitAll"}

\* GetCurrentTask.
CurrentTask(w) == IF fCurTask_[w] = None THEN fNextTask_[w] ELSE fCurTask_[w]

\* With the assertion of GetCurrentTask, which other threads call at any moment: at
\* most one of the two slots is filled; and what a worker is about to run or runs is
\* visible in one of them.
TypeOK ==
  /\ fCriticalSection_ \in Clients \cup {None}
  /\ fAborted_ \in BOOLEAN
  /\ fThreads_ \in SUBSET Workers
  /\ fPendingTasks_ \in Seq(Tasks)
  /\ fTasksMaybeAdded_ \in BOOLEAN
  /\ fNextThreadEntryNumber_ \in 1..MaxWorkers + 1
  /\ fCurTask_ \in [Workers -> Tasks \cup {None}]
  /\ fNextTask_ \in [Workers -> Tasks \cup {None}]
  /\ aborting \in SUBSET Workers
  /\ wpc \in [Workers -> WorkerPCs]
  /\ cpc \in [Clients -> ClientPCs]
  /\ arg \in [Clients -> Tasks \cup {None}]
  /\ victim \in [Clients -> Workers \cup {None}]
  /\ left \in SUBSET Workers
  /\ poolSize \in Nat
  /\ added \in SUBSET Tasks
  /\ withdrawn \in SUBSET Tasks
  /\ ended \in SUBSET Tasks
  /\ waited \in SUBSET Tasks
  /\ destroyed \in BOOLEAN
  /\ \A w \in Workers :
       /\ fCurTask_[w] = None \/ fNextTask_[w] = None
       /\ wpc[w] \in {"move", "run", "cleanup", "cleanupAborted"} <=> CurrentTask(w) # None

Init ==
  /\ fCriticalSection_ = None
  /\ fAborted_ = FALSE
  /\ fThreads_ = 1..InitialSize
  /\ fPendingTasks_ = <<>>
  /\ fTasksMaybeAdded_ = FALSE
  /\ fNextThreadEntryNumber_ = InitialSize + 1
  /\ fCurTask_ = [w \in Workers |-> None]
  /\ fNextTask_ = [w \in Workers |-> None]
  /\ aborting = {}
  /\ wpc = [w \in Workers |-> IF w <= InitialSize THEN "check" ELSE "none"]
  /\ cpc = [c \in Clients |-> "idle"]
  /\ arg = [c \in Clients |-> None]
  /\ victim = [c \in Clients |-> None]
  /\ left = {}
  /\ poolSize = 0
  /\ added = {}
  /\ withdrawn = {}
  /\ ended = {}
  /\ waited = {}
  /\ destroyed = FALSE

SectionFree == fCriticalSection_ = None

Exited(w) == wpc[w] = "exited"

---------------------------------------------------------------------------
(***************************************************************************)
(* The workers: Run and WaitForNextTask_                                   *)
(***************************************************************************)

WorkerAt(w, from, to) ==
  /\ wpc[w] = from
  /\ wpc' = [wpc EXCEPT ![w] = to]

CheckAborted(w) ==
  /\ WorkerAt(w, "check", IF fAborted_ THEN "exited" ELSE "lock")
  /\ UNCHANGED <<fCriticalSection_, pool, queue, fTasksMaybeAdded_, aborting, slots, ended, client>>

\* Mutant: takes the newest task.
TakeLast(w) ==
  /\ WorkerAt(w, "lock", IF fPendingTasks_ = <<>> THEN "wait" ELSE "move")
  /\ SectionFree
  /\ IF fPendingTasks_ = <<>>
     THEN UNCHANGED <<fPendingTasks_, fNextTask_>>
     ELSE /\ fNextTask_' = [fNextTask_ EXCEPT ![w] = Last(fPendingTasks_)]
          /\ fPendingTasks_' = Front(fPendingTasks_)
  /\ UNCHANGED <<fCriticalSection_, pool, added, withdrawn, fTasksMaybeAdded_, aborting, fCurTask_, ended, client>>

TakeNext(w) ==
  /\ WorkerAt(w, "lock", IF fPendingTasks_ = <<>> THEN "wait" ELSE "move")
  /\ SectionFree
  /\ IF fPendingTasks_ = <<>>
     THEN UNCHANGED <<fPendingTasks_, fNextTask_>>
     ELSE /\ fNextTask_' = [fNextTask_ EXCEPT ![w] = Head(fPendingTasks_)]
          /\ fPendingTasks_' = Tail(fPendingTasks_)
  /\ UNCHANGED <<fCriticalSection_, pool, added, withdrawn, fTasksMaybeAdded_, aborting, fCurTask_, ended, client>>

\* The event resets itself.
Woken(w) ==
  /\ WorkerAt(w, "wait", "check")
  /\ fTasksMaybeAdded_
  /\ fTasksMaybeAdded_' = FALSE
  /\ UNCHANGED <<fCriticalSection_, pool, queue, aborting, slots, ended, client>>

WaitAborted(w) ==
  /\ WorkerAt(w, "wait", "exited")
  /\ w \in aborting
  /\ UNCHANGED <<fCriticalSection_, pool, queue, fTasksMaybeAdded_, aborting, slots, ended, client>>

\* Mutant: leaves fNextTask_ set.
MoveLeaving(w) ==
  /\ WorkerAt(w, "move", "run")
  /\ fCurTask_' = [fCurTask_ EXCEPT ![w] = fNextTask_[w]]
  /\ UNCHANGED <<fCriticalSection_, pool, queue, fTasksMaybeAdded_, aborting, fNextTask_, ended, client>>

Move(w) ==
  /\ WorkerAt(w, "move", "run")
  /\ fCurTask_' = [fCurTask_ EXCEPT ![w] = fNextTask_[w]]
  /\ fNextTask_' = [fNextTask_ EXCEPT ![w] = None]
  /\ UNCHANGED <<fCriticalSection_, pool, queue, fTasksMaybeAdded_, aborting, ended, client>>

\* The task returns, or throws something that is swallowed.
Finish(w) ==
  /\ WorkerAt(w, "run", "cleanup")
  /\ UNCHANGED <<fCriticalSection_, pool, queue, fTasksMaybeAdded_, aborting, slots, ended, client>>

\* AbortException, which ends the worker.
TaskAborted(w) ==
  /\ WorkerAt(w, "run", "cleanupAborted")
  /\ w \in aborting
  /\ UNCHANGED <<fCriticalSection_, pool, queue, fTasksMaybeAdded_, aborting, slots, ended, client>>


Cleanup(w) ==
  /\ WorkerAt(w, "cleanup", "check") \/ WorkerAt(w, "cleanupAborted", "exited")
  /\ ended' = ended \cup {fCurTask_[w]}
  /\ fCurTask_' = [fCurTask_ EXCEPT ![w] = None]
  /\ UNCHANGED <<fCriticalSection_, pool, queue, fTasksMaybeAdded_, aborting, fNextTask_, client>>

WorkerStep(w) ==
  \/ CheckAborted(w) \/ TakeNext(w) \/ Woken(w) \/ WaitAborted(w) \/ Move(w)
  \/ Finish(w) \/ TaskAborted(w) \/ Cleanup(w)

---------------------------------------------------------------------------
(***************************************************************************)
(* The clients: adding tasks and resizing the pool                         *)
(***************************************************************************)

\* Client c may call o: it is in no other call, and nobody has begun to destroy
\* the pool.
MayCall(c, o) ==
  /\ o \in Ops[c]
  /\ cpc[c] = "idle"
  /\ ~fAborted_

ClientAt(c, from, to) ==
  /\ cpc[c] = from
  /\ cpc' = [cpc EXCEPT ![c] = to]

\* Each task is added once.
AddTask(c, t) ==
  /\ MayCall(c, "AddTask")
  /\ SectionFree
  /\ t \notin added
  /\ added' = added \cup {t}
  /\ fPendingTasks_' = Append(fPendingTasks_, t)
  /\ ClientAt(c, "idle", "notify")
  /\ UNCHANGED <<fCriticalSection_, pool, withdrawn, fTasksMaybeAdded_, aborting, workers, arg,
                 victim, killing, waited, destroyed>>


Notify(c) ==
  /\ ClientAt(c, "notify", "idle")
  /\ fTasksMaybeAdded_' = TRUE
  /\ UNCHANGED <<fCriticalSection_, pool, queue, aborting, workers, arg, victim,
                 killing, waited, destroyed>>

\* mkThread_, n times.  A call of AbortTask in progress may still need one.
MayStart(n) ==
  fNextThreadEntryNumber_ + n + Cardinality({c \in Clients : cpc[c] = "findRunning"})
    <= MaxWorkers + 1

Fresh(n) == fNextThreadEntryNumber_ .. fNextThreadEntryNumber_ + n - 1

StartWorkers(n) ==
  /\ fNextThreadEntryNumber_' = fNextThreadEntryNumber_ + n
  /\ wpc' = [w \in Workers |-> IF w \in Fresh(n) THEN "check" ELSE wpc[w]]

\* Adds workers, or drops as many idle ones as there are.  Those dropped are not
\* aborted.
Resize(n) ==
  /\ SectionFree
  /\ \/ /\ n >= Cardinality(fThreads_)
        /\ MayStart(n - Cardinality(fThreads_))
        /\ StartWorkers(n - Cardinality(fThreads_))
        /\ fThreads_' = fThreads_ \cup Fresh(n - Cardinality(fThreads_))
     \/ /\ n < Cardinality(fThreads_)
        /\ LET idle == {w \in fThreads_ : CurrentTask(w) = None}
               surplus == Min({Cardinality(fThreads_) - n, Cardinality(idle)})
           IN \E dropped \in kSubset(surplus, idle) : fThreads_' = fThreads_ \ dropped
        /\ UNCHANGED <<fNextThreadEntryNumber_, wpc>>
  /\ UNCHANGED <<fCriticalSection_, fAborted_, queue, fTasksMaybeAdded_, aborting, slots, ended>>

SetPoolSize(c, n) ==
  /\ MayCall(c, "SetPoolSize")
  /\ Resize(n)
  /\ UNCHANGED client

---------------------------------------------------------------------------
(***************************************************************************)
(* Aborting one task                                                       *)
(***************************************************************************)

\* Taken from the queue, if it is there.
AbortTask(c, t) ==
  /\ MayCall(c, "AbortTask")
  /\ SectionFree
  /\ t \in added
  /\ MayStart(1)
  /\ IF Contains(fPendingTasks_, t)
     THEN /\ fPendingTasks_' = RemoveFirst(fPendingTasks_, t)
          /\ withdrawn' = withdrawn \cup {t}
          /\ UNCHANGED <<cpc, arg>>
     ELSE /\ ClientAt(c, "idle", "findRunning")
          /\ arg' = [arg EXCEPT ![c] = t]
          /\ UNCHANGED <<fPendingTasks_, withdrawn>>
  /\ UNCHANGED <<fCriticalSection_, pool, added, fTasksMaybeAdded_, aborting, workers, victim,
                 killing, waited, destroyed>>

\* Otherwise the worker that runs it is replaced by a new one.
FindRunning(c) ==
  /\ cpc[c] = "findRunning"
  /\ SectionFree
  /\ \/ /\ \A w \in fThreads_ : CurrentTask(w) # arg[c]
        /\ ClientAt(c, "findRunning", "idle")
        /\ UNCHANGED <<fThreads_, fNextThreadEntryNumber_, wpc, victim>>
     \/ \E w \in fThreads_ :
        /\ CurrentTask(w) = arg[c]
        /\ ClientAt(c, "findRunning", "abortVictim")
        /\ victim' = [victim EXCEPT ![c] = w]
        /\ fThreads_' = (fThreads_ \ {w}) \cup Fresh(1)
        /\ StartWorkers(1)
  /\ UNCHANGED <<fCriticalSection_, fAborted_, queue, fTasksMaybeAdded_, aborting, slots, ended,
                 arg, killing, waited, destroyed>>

\* Mutant: waits without having aborted.
AbortVictimNot(c) ==
  /\ ClientAt(c, "abortVictim", "awaitVictim")
  /\ UNCHANGED <<fCriticalSection_, pool, queue, fTasksMaybeAdded_, aborting, workers, arg, victim,
                 killing, waited, destroyed>>

AbortVictim(c) ==
  /\ ClientAt(c, "abortVictim", "awaitVictim")
  /\ aborting' = aborting \cup {victim[c]}
  /\ UNCHANGED <<fCriticalSection_, pool, queue, fTasksMaybeAdded_, workers, arg, victim,
                 killing, waited, destroyed>>

AwaitVictim(c) ==
  /\ ClientAt(c, "awaitVictim", "idle")
  /\ Exited(victim[c])
  /\ victim' = [victim EXCEPT ![c] = None]
  /\ UNCHANGED <<fCriticalSection_, pool, queue, fTasksMaybeAdded_, aborting, workers, arg,
                 killing, waited, destroyed>>

\* fPendingTasks_.clear ().
ClearQueue ==
  /\ fPendingTasks_' = <<>>
  /\ withdrawn' = withdrawn \cup ToSet(fPendingTasks_)

---------------------------------------------------------------------------
(***************************************************************************)
(* Aborting all tasks                                                      *)
(***************************************************************************)

\* One client at a time (poolSize is the one local of the call).
AbortTasks(c) ==
  /\ MayCall(c, "AbortTasks")
  /\ SectionFree
  /\ \A d \in Clients : cpc[d] \notin {"clear", "abortAll", "lockAll", "killNext", "resize"}
  /\ poolSize' = Cardinality(fThreads_)
  /\ ClientAt(c, "idle", "clear")
  /\ UNCHANGED <<fCriticalSection_, pool, queue, fTasksMaybeAdded_, aborting, workers, arg, victim,
                 left, waited, destroyed>>

Clear(c) ==
  /\ SectionFree
  /\ ClientAt(c, "clear", "abortAll")
  /\ ClearQueue
  /\ UNCHANGED <<fCriticalSection_, pool, added, fTasksMaybeAdded_, aborting, workers, arg, victim,
                 killing, waited, destroyed>>

AbortAll(c) ==
  /\ SectionFree
  /\ ClientAt(c, "abortAll", "lockAll")
  /\ aborting' = aborting \cup fThreads_
  /\ UNCHANGED <<fCriticalSection_, pool, queue, fTasksMaybeAdded_, workers, arg, victim,
                 killing, waited, destroyed>>

LockAll(c) ==
  /\ SectionFree
  /\ ClientAt(c, "lockAll", "killNext")
  /\ fCriticalSection_' = c
  /\ left' = fThreads_
  /\ UNCHANGED <<pool, queue, fTasksMaybeAdded_, aborting, workers, arg, victim,
                 poolSize, waited, destroyed>>

\* AbortAndWaitForDone on one worker after the other, the section still held.
KillNext(c) ==
  /\ cpc[c] = "killNext"
  /\ victim[c] # None => Exited(victim[c])
  /\ \E w \in left :
       /\ left' = left \ {w}
       /\ victim' = [victim EXCEPT ![c] = w]
       /\ aborting' = aborting \cup {w}
  /\ UNCHANGED <<fCriticalSection_, pool, queue, fTasksMaybeAdded_, workers, cpc, arg,
                 poolSize, waited, destroyed>>

KillDone(c) ==
  /\ left = {}
  /\ victim[c] # None => Exited(victim[c])
  /\ ClientAt(c, "killNext", "resize")
  /\ fThreads_' = {}
  /\ victim' = [victim EXCEPT ![c] = None]
  /\ fCriticalSection_' = None
  /\ UNCHANGED <<fAborted_, fNextThreadEntryNumber_, queue, fTasksMaybeAdded_, aborting, workers,
                 arg, killing, waited, destroyed>>

RestoreSize(c) ==
  /\ ClientAt(c, "resize", "idle")
  /\ Resize(poolSize)
  /\ UNCHANGED <<arg, victim, killing, waited, destroyed>>

---------------------------------------------------------------------------
(***************************************************************************)
(* Waiting for tasks.  The timeout is infinite: each round that finds the  *)
(* task present is followed by another.                                    *)
(***************************************************************************)

WaitForTask(c, t) ==
  /\ MayCall(c, "WaitForTask")
  /\ t \in added \ waited
  /\ ClientAt(c, "idle", "present")
  /\ arg' = [arg EXCEPT ![c] = t]
  /\ UNCHANGED <<fCriticalSection_, pool, queue, fTasksMaybeAdded_, aborting, workers, victim,
                 killing, waited, destroyed>>

\* Mutant: IsPresent forgets the queue.
PresentForgetting(c) ==
  /\ ClientAt(c, "present", "presentRunning")
  /\ SectionFree
  /\ \A w \in fThreads_ : CurrentTask(w) # arg[c]
  /\ UNCHANGED <<fCriticalSection_, pool, queue, fTasksMaybeAdded_, aborting, workers, arg, victim,
                 killing, waited, destroyed>>

\* IsPresent looks into the queue first ...
Present(c) ==
  /\ ClientAt(c, "present", "presentRunning")
  /\ SectionFree
  /\ ~Contains(fPendingTasks_, arg[c])
  /\ UNCHANGED <<fCriticalSection_, pool, queue, fTasksMaybeAdded_, aborting, workers, arg, victim,
                 killing, waited, destroyed>>

\* ... then asks the workers.
PresentRunning(c) ==
  /\ cpc[c] = "presentRunning"
  /\ SectionFree
  /\ IF \A w \in fThreads_ : CurrentTask(w) # arg[c]
     THEN /\ ClientAt(c, "presentRunning", "idle")
          /\ waited' = waited \cup {arg[c]}
     ELSE /\ ClientAt(c, "presentRunning", "present")
          /\ UNCHANGED waited
  /\ UNCHANGED <<fCriticalSection_, pool, queue, fTasksMaybeAdded_, aborting, workers, arg, victim,
                 killing, destroyed>>

WaitForTasksDone(c) ==
  /\ MayCall(c, "WaitForTasksDone")
  /\ ClientAt(c, "idle", "count")
  /\ UNCHANGED <<fCriticalSection_, pool, queue, fTasksMaybeAdded_, aborting, workers, arg, victim,
                 killing, waited, destroyed>>

\* GetTasksCount () = 0.
CountIsZero(c) ==
  /\ ClientAt(c, "count", "idle")
  /\ SectionFree
  /\ fPendingTasks_ = <<>>
  /\ \A w \in fThreads_ : CurrentTask(w) = None
  /\ UNCHANGED <<fCriticalSection_, pool, queue, fTasksMaybeAdded_, aborting, workers, arg, victim,
                 killing, waited, destroyed>>

---------------------------------------------------------------------------
(***************************************************************************)
(* The destructor.  Nobody else is in a call, or makes one any more.       *)
(***************************************************************************)

Destroy(c) ==
  /\ MayCall(c, "Destroy")
  /\ \A d \in Clients : cpc[d] = "idle"
  /\ fAborted_' = TRUE
  /\ ClientAt(c, "idle", "shutdown")
  /\ UNCHANGED <<fCriticalSection_, fThreads_, fNextThreadEntryNumber_, queue, fTasksMaybeAdded_,
                 aborting, workers, arg, victim, killing, waited, destroyed>>

\* Abort_.
Shutdown(c) ==
  /\ SectionFree
  /\ ClientAt(c, "shutdown", "awaitAll")
  /\ ClearQueue
  /\ aborting' = aborting \cup fThreads_
  /\ UNCHANGED <<fCriticalSection_, pool, added, fTasksMaybeAdded_, workers, arg, victim,
                 killing, waited, destroyed>>

AwaitAll(c) ==
  /\ ClientAt(c, "awaitAll", "idle")
  /\ \A w \in fThreads_ : Exited(w)
  /\ destroyed' = TRUE
  /\ UNCHANGED <<fCriticalSection_, pool, queue, fTasksMaybeAdded_, aborting, workers, arg, victim,
                 killing, waited>>

---------------------------------------------------------------------------
ClientCall(c) ==
  \/ \E t \in Tasks : AddTask(c, t) \/ AbortTask(c, t) \/ WaitForTask(c, t)
  \/ \E n \in Sizes : SetPoolSize(c, n)
  \/ AbortTasks(c) \/ WaitForTasksDone(c) \/ Destroy(c)

ClientStep(c) ==
  \/ Notify(c)
  \/ FindRunning(c) \/ AbortVictim(c) \/ AwaitVictim(c)
  \/ Clear(c) \/ AbortAll(c) \/ LockAll(c) \/ KillNext(c) \/ KillDone(c) \/ RestoreSize(c)
  \/ Present(c) \/ PresentRunning(c) \/ CountIsZero(c)
  \/ Shutdown(c) \/ AwaitAll(c)

Next ==
  \/ \E w \in Workers : WorkerStep(w)
  \/ \E c \in Clients : ClientCall(c) \/ ClientStep(c)

Spec == Init /\ [][Next]_vars

\* The scheduler runs every thread that can go on, and tasks end: ThreadPool.h
\* requires them to respond to an abort, and here they also end by themselves.
FairSpec ==
  /\ Spec
  /\ \A w \in Workers : WF_vars(WorkerStep(w))
  /\ \A c \in Clients : WF_vars(ClientStep(c))

---------------------------------------------------------------------------
(***************************************************************************)
(* Properties                                                              *)
(***************************************************************************)

\* The pool implements TaskQueue: tasks begin in the order they were added, none
\* begins twice or after it was withdrawn, and none leaves the queue but to begin or
\* because an abort or the destructor withdrew it.
Queue == INSTANCE TaskQueue
           WITH pending <- fPendingTasks_,
                running <- {CurrentTask(w) : w \in Workers} \ {None}

QueueSpec == Queue!Spec

\* When WaitForTask has returned the task is in neither the queue nor any worker the
\* pool knows, though IsPresent looks at them in two critical sections.  It does not
\* say that the task is over, as ThreadPool.h does: a worker that SetPoolSize dropped,
\* or that another AbortTask is waiting for, may still run it.
WaitedIsOver ==
  \A t \in waited : /\ ~Contains(fPendingTasks_, t)
                    /\ \A w \in fThreads_ : CurrentTask(w) # t

\* The destructor waits for the pool's threads to shut down (ThreadPool.h, on
\* ~ThreadPool): when it has returned, none is left to use the members of the pool.
\* A worker that SetPoolSize dropped refutes it.
DestroyedMeansStopped == destroyed => \A w \in Workers : wpc[w] \in {"none", "exited"}

InAbortTasks(c) == cpc[c] \in {"clear", "abortAll", "lockAll", "killNext", "resize"}

\* No AbortTasks goes on for ever, as AbortTasksReturns shows that one may.
AbortTasksEnds == []<>(\A c \in Clients : ~InAbortTasks(c))

Callers(o) == {c \in Clients : o \in Ops[c]}



\* So do aborting one, whatever the worker has gone on to meanwhile, and destroying
\* the pool, wherever its workers are in taking or running their tasks.
AbortsReturn ==
  AbortTasksEnds =>
    \A c \in Callers("AbortTask") \cup Callers("Destroy") :
      cpc[c] \in {"findRunning", "abortVictim", "awaitVictim", "shutdown", "awaitAll"}
        ~> cpc[c] = "idle"

\* So does aborting all of them.
AbortTasksReturns == \A c \in Clients : InAbortTasks(c) ~> ~InAbortTasks(c)
=============================================================================
