--------------------------- MODULE ThreadPool_proofs ---------------------------
(***************************************************************************)
(* Proofs about ThreadPool, for any clients, tasks, calls, sizes and       *)
(* number of workers.                                                      *)
(***************************************************************************)
EXTENDS ThreadPool, FiniteSetTheorems, SequenceTheorems, TLAPS

\* The numbers from the next on are those of no worker, and there are enough of them
\* for the calls of AbortTask that may still need one.
Seekers == {c \in Clients : cpc[c] = "findRunning"}

Numbered ==
  /\ fNextThreadEntryNumber_ + Cardinality(Seekers) <= MaxWorkers + 1
  /\ \A w \in Workers : w >= fNextThreadEntryNumber_ => wpc[w] = "none"

\* The slots say what the worker is at.
Slotted ==
  \A w \in Workers :
    /\ fNextTask_[w] # None <=> wpc[w] = "move"
    /\ fCurTask_[w] # None <=> wpc[w] \in {"run", "cleanup", "cleanupAborted"}

\* What the steps of a call use was set by the earlier ones.
Called ==
  \A c \in Clients :
    /\ cpc[c] \in {"findRunning", "present", "presentRunning"} => arg[c] \in added
    /\ cpc[c] \in {"abortVictim", "awaitVictim"} => victim[c] # None

Typed == TypeOK /\ Numbered /\ Slotted /\ Called

\* Of a task that was added there is one copy: in the queue, or with a worker, or none
\* any more once it has ended or was withdrawn.
Busy(w) == CurrentTask(w) # None

Gone == ended \cup withdrawn

OneCopy ==
  /\ IsInjective(fPendingTasks_)
  /\ \A i \in 1 .. Len(fPendingTasks_) : fPendingTasks_[i] \in added \ Gone
  /\ Gone \subseteq added
  /\ \A w \in Workers : Busy(w) =>
       /\ CurrentTask(w) \in added \ Gone
       /\ ~Contains(fPendingTasks_, CurrentTask(w))
       /\ \A v \in Workers : CurrentTask(v) = CurrentTask(w) => v = w

\* A task that was seen not to be in the queue does not come back to it.
Looked == \A c \in Clients : cpc[c] = "presentRunning" => ~Contains(fPendingTasks_, arg[c])

Over == waited \subseteq added /\ WaitedIsOver /\ Looked

IInv == Typed /\ OneCopy /\ Over

-----------------------------------------------------------------------------
(* Cardinalities and sequences *)

LEMMA ThreadsFinite ==
  ASSUME TypeOK
  PROVE  IsFiniteSet(fThreads_) /\ Cardinality(fThreads_) \in Nat
<1>1. MaxWorkers \in Int /\ fThreads_ \in SUBSET (1..MaxWorkers)
  BY PoolAssumption DEF TypeOK, Workers
<1>2. IsFiniteSet(1..MaxWorkers)
  BY <1>1, FS_Interval
<1> QED  BY <1>1, <1>2, FS_Subset, FS_CardinalityType

LEMMA SeekersFinite == IsFiniteSet(Seekers) /\ Cardinality(Seekers) \in Nat
<1>1. Seekers \in SUBSET Clients
  BY DEF Seekers
<1> QED  BY <1>1, PoolAssumption, FS_Subset, FS_CardinalityType

\* Of a task that is in the queue once, the first is the only one.
LEMMA Removal ==
  ASSUME NEW S, NEW s \in Seq(S), IsInjective(s), NEW e, Contains(s, e)
  PROVE  /\ RemoveFirst(s, e) \in Seq(S)
         /\ IsInjective(RemoveFirst(s, e))
         /\ \A i \in 1 .. Len(RemoveFirst(s, e)) :
              \E j \in 1 .. Len(s) : RemoveFirst(s, e)[i] = s[j] /\ s[j] # e
<1>1. PICK k \in 1 .. Len(s) : s[k] = e
  BY DEF Contains
<1>2. {i \in 1 .. Len(s) : s[i] = e} = {k}
  BY <1>1 DEF IsInjective
<1>3. SelectInSeq(s, LAMBDA v : v = e) = k
  BY <1>2 DEF SelectInSeq, Min
<1> DEFINE left1 == SubSeq(s, 1, k - 1)
           right1 == SubSeq(s, k + 1, Len(s))
<1>4. RemoveFirst(s, e) = left1 \o right1
  BY <1>1, <1>3 DEF RemoveFirst, RemoveAt
<1>5. /\ left1 \in Seq(S) /\ Len(left1) = k - 1
      /\ \A i \in 1 .. k - 1 : left1[i] = s[i]
  BY <1>1
<1>6. /\ right1 \in Seq(S) /\ Len(right1) = Len(s) - k
      /\ \A i \in 1 .. Len(s) - k : right1[i] = s[k + i]
  BY <1>1
<1>7. Len(s) \in Nat /\ k \in Int /\ 1 <= k /\ k <= Len(s)
  BY <1>1
<1> HIDE DEF left1, right1
<1>8. /\ left1 \o right1 \in Seq(S)
      /\ Len(left1 \o right1) = Len(s) - 1
      /\ \A i \in 1 .. Len(s) - 1 :
           (left1 \o right1)[i] = IF i <= k - 1 THEN left1[i] ELSE right1[i - (k - 1)]
  BY <1>5, <1>6, <1>7, ConcatProperties
<1>9. \A i \in 1 .. Len(s) - 1 :
        (left1 \o right1)[i] = IF i <= k - 1 THEN s[i] ELSE s[i + 1]
  <2> SUFFICES ASSUME NEW i \in 1 .. Len(s) - 1
               PROVE  (left1 \o right1)[i] = IF i <= k - 1 THEN s[i] ELSE s[i + 1]
    OBVIOUS
  <2>1. CASE i <= k - 1
    BY <1>5, <1>7, <1>8, <2>1
  <2>2. CASE ~(i <= k - 1)
    <3>1. i - (k - 1) \in 1 .. Len(s) - k /\ k + (i - (k - 1)) = i + 1
      BY <1>7, <2>2
    <3> QED  BY <1>6, <1>8, <2>2, <3>1
  <2> QED  BY <2>1, <2>2
<1> DEFINE r == RemoveFirst(s, e)
<1>10. /\ r \in Seq(S) /\ DOMAIN r = 1 .. Len(s) - 1 /\ Len(r) = Len(s) - 1
       /\ \A i \in 1 .. Len(s) - 1 : r[i] = IF i <= k - 1 THEN s[i] ELSE s[i + 1]
  BY <1>4, <1>8, <1>9, LenProperties
<1> HIDE DEF r
<1>11. DOMAIN s = 1 .. Len(s)
  BY LenProperties
<1>12. \A i \in 1 .. Len(s) - 1 : i \in 1 .. Len(s) /\ i + 1 \in 1 .. Len(s)
  BY <1>7
<1>13. IsInjective(r)
  <2> SUFFICES ASSUME NEW i \in 1 .. Len(s) - 1, NEW j \in 1 .. Len(s) - 1, r[i] = r[j]
               PROVE  i = j
    BY <1>10 DEF IsInjective
  <2>1. CASE i <= k - 1 /\ j <= k - 1
    BY <1>10, <1>11, <1>12, <2>1 DEF IsInjective
  <2>2. CASE i <= k - 1 /\ ~(j <= k - 1)
    <3>1. i = j + 1
      BY <1>10, <1>11, <1>12, <2>2 DEF IsInjective
    <3> QED  BY <1>7, <2>2, <3>1
  <2>3. CASE ~(i <= k - 1) /\ j <= k - 1
    <3>1. i + 1 = j
      BY <1>10, <1>11, <1>12, <2>3 DEF IsInjective
    <3> QED  BY <1>7, <2>3, <3>1
  <2>4. CASE ~(i <= k - 1) /\ ~(j <= k - 1)
    <3>1. s[i + 1] = s[j + 1] /\ i + 1 \in DOMAIN s /\ j + 1 \in DOMAIN s
      BY <1>10, <1>11, <1>12, <2>4
    <3>2. i + 1 = j + 1
      BY <3>1, Zenon DEF IsInjective
    <3> QED  BY <1>7, <3>2
  <2> QED  BY <2>1, <2>2, <2>3, <2>4
<1>14. \A i \in 1 .. Len(r) : \E j \in 1 .. Len(s) : r[i] = s[j] /\ s[j] # e
  <2>1. \A j \in 1 .. Len(s) : s[j] = e => j = k
    BY <1>2
  <2>2. \A i \in 1 .. Len(s) - 1 : IF i <= k - 1 THEN i # k ELSE i + 1 # k
    BY <1>7
  <2> QED  BY <1>10, <1>12, <2>1, <2>2
<1> QED  BY <1>10, <1>13, <1>14 DEF r

-----------------------------------------------------------------------------
(* Types, numbers and slots *)

LEMMA InitTyped == Init => Typed
<1> SUFFICES ASSUME Init PROVE Typed
  OBVIOUS
<1> USE PoolAssumption DEF Init
<1>1. TypeOK
  <2>1. /\ fThreads_ \in SUBSET Workers /\ fNextThreadEntryNumber_ \in 1 .. MaxWorkers + 1
    BY DEF Workers
  <2>2. fPendingTasks_ \in Seq(Tasks)
    BY EmptySeq
  <2>3. /\ wpc \in [Workers -> WorkerPCs] /\ cpc \in [Clients -> ClientPCs]
    BY DEF WorkerPCs, ClientPCs
  <2>4. \A w \in Workers :
          /\ fCurTask_[w] = None \/ fNextTask_[w] = None
          /\ wpc[w] \in {"move", "run", "cleanup", "cleanupAborted"} <=> CurrentTask(w) # None
    BY DEF CurrentTask
  <2> QED  BY <2>1, <2>2, <2>3, <2>4 DEF TypeOK
<1>2. Numbered
  <2>1. Seekers = {}
    BY DEF Seekers
  <2> QED  BY <2>1, FS_EmptySet DEF Numbered, Workers
<1>3. Slotted /\ Called
  BY DEF Slotted, Called
<1> QED  BY <1>1, <1>2, <1>3 DEF Typed

LEMMA WorkerTyped ==
  ASSUME Typed, NEW w \in Workers, WorkerStep(w)
  PROVE  Typed'
<1> USE PoolAssumption DEF Typed
<1>1. UNCHANGED <<fCriticalSection_, pool, added, withdrawn, aborting, client>>
  BY DEF WorkerStep, CheckAborted, TakeNext, Woken, WaitAborted, Move, Finish, TaskAborted, Cleanup, queue
<1>2. PICK to \in WorkerPCs \ {"none"} : wpc' = [wpc EXCEPT ![w] = to] /\ wpc[w] # "none"
  BY DEF WorkerStep, CheckAborted, TakeNext, Woken, WaitAborted, Move, Finish, TaskAborted, Cleanup,
         WorkerAt, WorkerPCs
<1>3. Numbered' /\ Called'
  BY <1>1, <1>2 DEF Numbered, Called, Seekers, pool, client, locals, TypeOK
<1>4. /\ fPendingTasks_' \in Seq(Tasks) /\ fTasksMaybeAdded_' \in BOOLEAN /\ ended' \in SUBSET Tasks
      /\ fCurTask_' \in [Workers -> Tasks \cup {None}] /\ fNextTask_' \in [Workers -> Tasks \cup {None}]
      /\ Slotted'
  <2>1. CASE CheckAborted(w)
    BY <2>1 DEF CheckAborted, WorkerAt, TypeOK, Slotted, queue, slots
  <2>2. CASE TakeNext(w)
    <3>1. UNCHANGED <<fTasksMaybeAdded_, ended, fCurTask_>>
      BY <2>2 DEF TakeNext
    <3>2. CASE fPendingTasks_ = <<>>
      BY <2>2, <3>1, <3>2 DEF TakeNext, WorkerAt, TypeOK, Slotted
    <3>3. CASE fPendingTasks_ # <<>>
      <4>1. fPendingTasks_' = Tail(fPendingTasks_) /\ WorkerAt(w, "lock", "move")
            /\ fNextTask_' = [fNextTask_ EXCEPT ![w] = Head(fPendingTasks_)]
        BY <2>2, <3>3 DEF TakeNext
      <4>2. Head(fPendingTasks_) \in Tasks /\ fPendingTasks_' \in Seq(Tasks)
        BY <3>3, <4>1, HeadTailProperties DEF TypeOK
      <4> QED  BY <3>1, <4>1, <4>2 DEF WorkerAt, TypeOK, Slotted
    <3> QED  BY <3>2, <3>3
  <2>3. CASE Woken(w) \/ WaitAborted(w)
    <3>1. CASE Woken(w)
      BY <3>1 DEF Woken, WorkerAt, TypeOK, Slotted, queue, slots
    <3>2. CASE WaitAborted(w)
      BY <3>2 DEF WaitAborted, WorkerAt, TypeOK, Slotted, queue, slots
    <3> QED  BY <2>3, <3>1, <3>2
  <2>4. CASE Move(w)
    <3>1. /\ wpc[w] = "move" /\ wpc' = [wpc EXCEPT ![w] = "run"]
          /\ fCurTask_' = [fCurTask_ EXCEPT ![w] = fNextTask_[w]]
          /\ fNextTask_' = [fNextTask_ EXCEPT ![w] = None]
          /\ UNCHANGED <<fPendingTasks_, fTasksMaybeAdded_, ended>>
      BY <2>4 DEF Move, WorkerAt, queue
    <3>2. fNextTask_[w] \in Tasks
      BY <3>1 DEF TypeOK, Slotted
    <3> QED  BY <3>1, <3>2 DEF TypeOK, Slotted
  <2>5. CASE Finish(w) \/ TaskAborted(w)
    BY <2>5 DEF Finish, TaskAborted, WorkerAt, TypeOK, Slotted, queue, slots
  <2>6. CASE Cleanup(w)
    BY <2>6 DEF Cleanup, WorkerAt, TypeOK, Slotted, queue, slots
  <2> QED  BY <2>1, <2>2, <2>3, <2>4, <2>5, <2>6 DEF WorkerStep
<1>5. wpc' \in [Workers -> WorkerPCs]
  BY <1>2 DEF TypeOK
<1>6. \A v \in Workers :
        /\ fCurTask_'[v] = None \/ fNextTask_'[v] = None
        /\ wpc'[v] \in {"move", "run", "cleanup", "cleanupAborted"} <=> CurrentTask(v)' # None
  BY <1>4 DEF Slotted, CurrentTask
<1>7. TypeOK'
  BY <1>1, <1>4, <1>5, <1>6 DEF TypeOK, pool, client, locals, killing
<1> QED  BY <1>3, <1>4, <1>7

\* The bound leaves a number for each worker to come.
LEMMA Room ==
  ASSUME Typed, NEW n \in Nat, MayStart(n)
  PROVE  /\ fNextThreadEntryNumber_ + n \in 1 .. MaxWorkers + 1
         /\ Fresh(n) \subseteq Workers
         /\ \A w \in Fresh(n) : wpc[w] = "none"
<1>1. Cardinality(Seekers) \in Nat /\ MaxWorkers \in Nat /\ fNextThreadEntryNumber_ \in Nat \ {0}
  BY SeekersFinite, PoolAssumption DEF Typed, TypeOK
<1>2. fNextThreadEntryNumber_ + n + Cardinality(Seekers) <= MaxWorkers + 1
  BY DEF MayStart, Seekers
<1>3. fNextThreadEntryNumber_ + n \in 1 .. MaxWorkers + 1
  BY <1>1, <1>2
<1>4. \A w \in Fresh(n) : w \in Workers /\ w >= fNextThreadEntryNumber_
  BY <1>1, <1>3 DEF Fresh, Workers
<1> QED  BY <1>3, <1>4 DEF Typed, Numbered

\* New workers find themselves at the beginning of their loop, without a task.
LEMMA Started ==
  ASSUME Typed, NEW n \in Nat, Fresh(n) \subseteq Workers, \A w \in Fresh(n) : wpc[w] = "none",
         fNextThreadEntryNumber_ + n \in 1 .. MaxWorkers + 1,
         StartWorkers(n), UNCHANGED slots
  PROVE  /\ wpc' \in [Workers -> WorkerPCs]
         /\ \A w \in Workers : w >= fNextThreadEntryNumber_' => wpc'[w] = "none"
         /\ \A w \in Workers : CurrentTask(w)' = CurrentTask(w)
         /\ \A w \in Fresh(n) : CurrentTask(w) = None
         /\ Slotted'
<1>1. wpc' = [w \in Workers |-> IF w \in Fresh(n) THEN "check" ELSE wpc[w]]
      /\ fNextThreadEntryNumber_' = fNextThreadEntryNumber_ + n
  BY DEF StartWorkers
<1>2. fNextThreadEntryNumber_ \in Nat /\ MaxWorkers \in Nat
  BY PoolAssumption DEF Typed, TypeOK
<1>3. wpc' \in [Workers -> WorkerPCs]
  BY <1>1 DEF Typed, TypeOK, WorkerPCs
<1>4. \A w \in Workers : w >= fNextThreadEntryNumber_' => wpc'[w] = "none"
  <2> SUFFICES ASSUME NEW w \in Workers, w >= fNextThreadEntryNumber_ + n PROVE wpc'[w] = "none"
    BY <1>1
  <2>1. w \notin Fresh(n) /\ w >= fNextThreadEntryNumber_
    BY <1>2 DEF Fresh, Workers
  <2> QED  BY <1>1, <2>1 DEF Typed, Numbered
<1>5. \A w \in Workers : CurrentTask(w)' = CurrentTask(w)
  BY DEF CurrentTask, slots
<1>6. \A w \in Fresh(n) : CurrentTask(w) = None
  BY DEF Typed, Slotted, CurrentTask
<1>7. Slotted'
  BY <1>1 DEF Typed, Slotted, slots
<1> QED  BY <1>3, <1>4, <1>5, <1>6, <1>7
LEMMA NumberedKept ==
  ASSUME Numbered, TypeOK, UNCHANGED <<fNextThreadEntryNumber_, wpc>>, Seekers' \subseteq Seekers
  PROVE  Numbered'
<1>1. Cardinality(Seekers') <= Cardinality(Seekers) /\ Cardinality(Seekers') \in Nat
  BY SeekersFinite, FS_Subset, FS_CardinalityType
<1>2. Cardinality(Seekers)' = Cardinality(Seekers')
  OBVIOUS
<1>3. Cardinality(Seekers) \in Nat /\ fNextThreadEntryNumber_ \in Nat /\ MaxWorkers \in Nat
  BY SeekersFinite, PoolAssumption DEF TypeOK
<1> QED  BY <1>1, <1>2, <1>3 DEF Numbered

\* The steps of a client that neither start a worker nor look for one.
PlainCall(c) ==
  \/ \E t \in Tasks : AddTask(c, t) \/ WaitForTask(c, t)
  \/ AbortTasks(c) \/ WaitForTasksDone(c) \/ Destroy(c)

Waiting(c) == Present(c) \/ PresentRunning(c) \/ CountIsZero(c)

PlainStep(c) ==
  \/ Notify(c) \/ AbortVictim(c) \/ AwaitVictim(c)
  \/ Clear(c) \/ AbortAll(c) \/ LockAll(c) \/ KillNext(c) \/ KillDone(c)
  \/ Waiting(c) \/ Shutdown(c) \/ AwaitAll(c)

LEMMA ClientTypes ==
  ASSUME TypeOK, NEW c \in Clients, NEW to \in ClientPCs, cpc' = [cpc EXCEPT ![c] = to]
  PROVE  cpc' \in [Clients -> ClientPCs]
BY DEF TypeOK

LEMMA PlainTyped ==
  ASSUME Typed, NEW c \in Clients, PlainCall(c) \/ PlainStep(c)
  PROVE  Typed'
<1> USE PoolAssumption
        DEF Typed, PlainCall, AddTask, WaitForTask, AbortTasks, WaitForTasksDone, Destroy,
            PlainStep, Notify, AbortVictim, AwaitVictim, Clear, ClearQueue, AbortAll, LockAll, KillNext, KillDone,
            Waiting, Present, PresentRunning, CountIsZero, Shutdown, AwaitAll, ClientAt, pool, queue, killing
<1>1. UNCHANGED <<workers, fNextThreadEntryNumber_>> /\ fThreads_' \subseteq fThreads_
  OBVIOUS
<1>2. \E to \in ClientPCs \ {"findRunning"} : cpc' = [cpc EXCEPT ![c] = to]
  BY DEF TypeOK, ClientPCs
<1>3. cpc' \in [Clients -> ClientPCs] /\ Seekers' \subseteq Seekers
  BY <1>2 DEF TypeOK, Seekers
<1>4. Numbered' /\ Slotted'
  BY <1>1, <1>3, NumberedKept DEF workers, slots, Slotted
<1>5. /\ fCriticalSection_' \in Clients \cup {None}
      /\ fAborted_' \in BOOLEAN
      /\ fTasksMaybeAdded_' \in BOOLEAN
      /\ aborting' \in SUBSET Workers
      /\ left' \in SUBSET Workers
      /\ destroyed' \in BOOLEAN
  BY DEF Called, TypeOK
<1>6. poolSize' \in Nat
  BY ThreadsFinite DEF TypeOK
<1>7. fPendingTasks_' \in Seq(Tasks) /\ added' \in SUBSET Tasks /\ withdrawn' \in SUBSET Tasks
  <2>1. \/ UNCHANGED <<fPendingTasks_, added, withdrawn>>
        \/ /\ fPendingTasks_' = <<>> /\ added' = added
           /\ withdrawn' = withdrawn \cup ToSet(fPendingTasks_)
        \/ \E t \in Tasks : /\ fPendingTasks_' = Append(fPendingTasks_, t)
                            /\ added' = added \cup {t} /\ withdrawn' = withdrawn
    OBVIOUS
  <2>2. \A t \in Tasks : Append(fPendingTasks_, t) \in Seq(Tasks)
    BY DEF TypeOK
  <2>3. <<>> \in Seq(Tasks)
    OBVIOUS
  <2>4. ToSet(fPendingTasks_) \subseteq Tasks
    BY DEF TypeOK, ToSet
  <2> QED  BY ONLY <2>1, <2>2, <2>3, <2>4, TypeOK DEF TypeOK
<1>8. arg' \in [Clients -> Tasks \cup {None}] /\ victim' \in [Clients -> Workers \cup {None}]
  BY DEF TypeOK
<1>9. waited' \in SUBSET Tasks
  BY DEF TypeOK, Called
<1>10. Called'
  BY DEF TypeOK, Called
<1>11. TypeOK'
  BY <1>1, <1>3, <1>5, <1>6, <1>7, <1>8, <1>9 DEF TypeOK, workers, slots, CurrentTask
<1> QED  BY <1>4, <1>10, <1>11

LEMMA Resized ==
  ASSUME Typed, NEW n \in Nat, Resize(n)
  PROVE  /\ fThreads_' \in SUBSET Workers
         /\ fNextThreadEntryNumber_' \in 1 .. MaxWorkers + 1
         /\ wpc' \in [Workers -> WorkerPCs]
         /\ \A w \in Workers : w >= fNextThreadEntryNumber_' => wpc'[w] = "none"
         /\ \A w \in Workers : CurrentTask(w)' = CurrentTask(w)
         /\ \A w \in fThreads_' \ fThreads_ : CurrentTask(w) = None
         /\ Slotted'
         /\ fNextThreadEntryNumber_' + Cardinality(Seekers) <= MaxWorkers + 1
<1> DEFINE m == n - Cardinality(fThreads_)
<1>1. UNCHANGED slots
  BY DEF Resize
<1>2. CASE n >= Cardinality(fThreads_) /\ MayStart(m) /\ StartWorkers(m) /\ fThreads_' = fThreads_ \cup Fresh(m)
  <2>1. m \in Nat
    BY <1>2, ThreadsFinite DEF Typed
  <2>2. fNextThreadEntryNumber_' = fNextThreadEntryNumber_ + m
    BY <1>2 DEF StartWorkers
  <2>3. fNextThreadEntryNumber_' + Cardinality(Seekers) <= MaxWorkers + 1
    BY <1>2, <2>2 DEF MayStart, Seekers
  <2> HIDE DEF m
  <2> QED  BY <1>1, <1>2, <2>1, <2>2, <2>3, Room, Started DEF Typed, TypeOK
<1>3. CASE fThreads_' \subseteq fThreads_ /\ UNCHANGED <<fNextThreadEntryNumber_, wpc>>
  BY <1>1, <1>3 DEF Typed, TypeOK, Numbered, Slotted, CurrentTask, slots
<1>4. \/ n >= Cardinality(fThreads_) /\ MayStart(m) /\ StartWorkers(m) /\ fThreads_' = fThreads_ \cup Fresh(m)
      \/ fThreads_' \subseteq fThreads_ /\ UNCHANGED <<fNextThreadEntryNumber_, wpc>>
  BY DEF Resize
<1> QED  BY <1>2, <1>3, <1>4

LEMMA ResizeTyped ==
  ASSUME Typed, NEW c \in Clients, (\E n \in Sizes : SetPoolSize(c, n)) \/ RestoreSize(c)
  PROVE  Typed'
<1>1. PICK n \in Nat : Resize(n)
  BY PoolAssumption DEF SetPoolSize, RestoreSize, Typed, TypeOK
<1>2. UNCHANGED <<fCriticalSection_, fAborted_, queue, fTasksMaybeAdded_, aborting, slots, ended>>
  BY <1>1 DEF Resize
<1>3. UNCHANGED <<arg, victim, killing, waited, destroyed>>
  BY DEF SetPoolSize, RestoreSize, client, locals
<1>4. cpc' \in [Clients -> ClientPCs] /\ Seekers' \subseteq Seekers
      /\ \A d \in Clients : cpc'[d] = cpc[d] \/ cpc'[d] = "idle"
  BY DEF SetPoolSize, RestoreSize, client, locals, ClientAt, Typed, TypeOK, ClientPCs, Seekers
<1>5. Slotted'
  BY <1>1, Resized
<1>6. Numbered'
  <2>1. Cardinality(Seekers') <= Cardinality(Seekers) /\ Cardinality(Seekers') \in Nat
    BY <1>4, SeekersFinite, FS_Subset, FS_CardinalityType
  <2>2. /\ fNextThreadEntryNumber_' \in Nat
        /\ fNextThreadEntryNumber_' + Cardinality(Seekers) <= MaxWorkers + 1
        /\ \A w \in Workers : w >= fNextThreadEntryNumber_' => wpc'[w] = "none"
    BY <1>1, Resized
  <2>3. Cardinality(Seekers) \in Nat /\ MaxWorkers \in Nat
    BY SeekersFinite, PoolAssumption
  <2> QED  BY <2>1, <2>2, <2>3 DEF Numbered
<1>7. \A w \in Workers : CurrentTask(w)' = None <=> wpc'[w] \notin {"move", "run", "cleanup", "cleanupAborted"}
  BY <1>5 DEF Slotted, CurrentTask
<1>8. TypeOK'
  BY <1>1, <1>2, <1>3, <1>4, <1>7, Resized DEF Typed, TypeOK, queue, slots, killing
<1>9. Called'
  BY <1>2, <1>3, <1>4 DEF Typed, TypeOK, Called, queue
<1> QED  BY <1>5, <1>6, <1>8, <1>9 DEF Typed
LEMMA AbortTaskTyped ==
  ASSUME Typed, OneCopy, NEW c \in Clients, NEW t \in Tasks, AbortTask(c, t)
  PROVE  Typed'
<1> USE PoolAssumption
<1>1. /\ UNCHANGED <<fCriticalSection_, pool, added, fTasksMaybeAdded_, aborting, workers, victim,
                     killing, waited, destroyed>>
      /\ t \in added /\ MayStart(1) /\ cpc[c] = "idle"
  BY DEF AbortTask, MayCall
<1>2. \A v \in Workers : CurrentTask(v)' = CurrentTask(v)
  BY <1>1 DEF workers, slots, CurrentTask
<1>3. CASE Contains(fPendingTasks_, t)
  <2>1. /\ fPendingTasks_' = RemoveFirst(fPendingTasks_, t)
        /\ withdrawn' = withdrawn \cup {t}
        /\ UNCHANGED <<cpc, arg>>
    BY <1>3 DEF AbortTask
  <2>2. fPendingTasks_' \in Seq(Tasks)
    BY <1>3, <2>1, Removal DEF Typed, TypeOK, OneCopy
  <2>3. TypeOK' /\ Slotted' /\ Called'
    BY <1>1, <1>2, <2>1, <2>2
    DEF Typed, TypeOK, Slotted, Called, pool, workers, slots, killing
  <2>4. Seekers' \subseteq Seekers /\ UNCHANGED <<fNextThreadEntryNumber_, wpc>>
    BY <1>1, <2>1 DEF Seekers, pool, workers
  <2> QED  BY <2>3, <2>4, NumberedKept DEF Typed
<1>4. CASE ~Contains(fPendingTasks_, t)
  <2>1. /\ ClientAt(c, "idle", "findRunning")
        /\ arg' = [arg EXCEPT ![c] = t]
        /\ UNCHANGED <<fPendingTasks_, withdrawn>>
    BY <1>4 DEF AbortTask
  <2>2. cpc' \in [Clients -> ClientPCs]
    BY <2>1 DEF Typed, TypeOK, ClientAt, ClientPCs
  <2>3. TypeOK' /\ Slotted' /\ Called'
    BY <1>1, <1>2, <2>1, <2>2
    DEF Typed, TypeOK, Slotted, Called, ClientAt, pool, workers, slots, killing
  <2>4. Seekers' = Seekers \cup {c} /\ c \notin Seekers
    BY <1>1, <2>1 DEF Seekers, Typed, TypeOK, ClientAt
  <2>5. Cardinality(Seekers') = Cardinality(Seekers) + 1
    BY <2>4, SeekersFinite, FS_AddElement
  <2>6. UNCHANGED <<fNextThreadEntryNumber_, wpc>>
    BY <1>1 DEF pool, workers
  <2>7. fNextThreadEntryNumber_ + 1 + Cardinality(Seekers) <= MaxWorkers + 1
    BY <1>1 DEF MayStart, Seekers
  <2>8. fNextThreadEntryNumber_ \in Nat /\ Cardinality(Seekers) \in Nat
    BY SeekersFinite DEF Typed, TypeOK
  <2>9. Numbered'
    BY <2>5, <2>6, <2>7, <2>8 DEF Typed, Numbered
  <2> QED  BY <2>3, <2>9 DEF Typed
<1> QED  BY <1>3, <1>4

\* A call of AbortTask that is on its way has a number for the worker it may need.
LEMMA RoomToReplace ==
  ASSUME Typed, NEW c \in Clients, cpc[c] = "findRunning"
  PROVE  /\ fNextThreadEntryNumber_ + 1 \in 1 .. MaxWorkers + 1
         /\ Fresh(1) \subseteq Workers
         /\ \A v \in Fresh(1) : wpc[v] = "none"
<1>1. c \in Seekers
  BY DEF Seekers
<1>2. Cardinality(Seekers) \in Nat /\ Cardinality(Seekers) # 0
  BY <1>1, SeekersFinite, FS_EmptySet
<1>3. /\ fNextThreadEntryNumber_ \in Nat \ {0} /\ MaxWorkers \in Nat
      /\ fNextThreadEntryNumber_ + Cardinality(Seekers) <= MaxWorkers + 1
  BY PoolAssumption DEF Typed, TypeOK, Numbered
<1>4. fNextThreadEntryNumber_ \in Workers /\ Fresh(1) = {fNextThreadEntryNumber_}
  BY <1>2, <1>3 DEF Workers, Fresh
<1>5. wpc[fNextThreadEntryNumber_] = "none"
  BY <1>3, <1>4 DEF Typed, Numbered
<1>6. fNextThreadEntryNumber_ + 1 \in 1 .. MaxWorkers + 1
  BY <1>2, <1>3
<1> QED  BY <1>4, <1>5, <1>6

LEMMA FindRunningTyped ==
  ASSUME Typed, NEW c \in Clients, FindRunning(c)
  PROVE  Typed'
<1> USE PoolAssumption
<1>1. UNCHANGED <<fCriticalSection_, fAborted_, queue, fTasksMaybeAdded_, aborting, slots, ended,
                  arg, killing, waited, destroyed>>
      /\ cpc[c] = "findRunning"
  BY DEF FindRunning, ClientAt
<1>2. CASE /\ ClientAt(c, "findRunning", "idle")
           /\ UNCHANGED <<fThreads_, fNextThreadEntryNumber_, wpc, victim>>
  <2>1. cpc' \in [Clients -> ClientPCs] /\ Seekers' \subseteq Seekers
    BY <1>2 DEF Typed, TypeOK, ClientAt, ClientPCs, Seekers
  <2>2. TypeOK' /\ Slotted' /\ Called'
    BY <1>1, <1>2, <2>1
    DEF Typed, TypeOK, Slotted, Called, ClientAt, queue, slots, killing, CurrentTask
  <2> QED  BY <1>2, <2>1, <2>2, NumberedKept DEF Typed
<1>3. ASSUME NEW w \in fThreads_,
             /\ ClientAt(c, "findRunning", "abortVictim")
             /\ victim' = [victim EXCEPT ![c] = w]
             /\ fThreads_' = (fThreads_ \ {w}) \cup Fresh(1)
             /\ StartWorkers(1)
      PROVE  Typed'
  <2>1. c \in Seekers /\ Seekers' = Seekers \ {c}
    BY <1>1, <1>3 DEF Typed, TypeOK, ClientAt, Seekers
  <2>2. Cardinality(Seekers') = Cardinality(Seekers) - 1 /\ Cardinality(Seekers) \in Nat
    BY <2>1, SeekersFinite, FS_RemoveElement
  <2>3. /\ fNextThreadEntryNumber_ \in Nat
        /\ fNextThreadEntryNumber_ + Cardinality(Seekers) <= MaxWorkers + 1
    BY DEF Typed, TypeOK, Numbered
  <2>4. fNextThreadEntryNumber_' = fNextThreadEntryNumber_ + 1
    BY <1>3 DEF StartWorkers
  <2>5. /\ fNextThreadEntryNumber_ + 1 \in 1 .. MaxWorkers + 1
        /\ Fresh(1) \subseteq Workers
        /\ \A v \in Fresh(1) : wpc[v] = "none"
    BY <1>1, RoomToReplace
  <2>6. /\ wpc' \in [Workers -> WorkerPCs]
        /\ \A v \in Workers : v >= fNextThreadEntryNumber_' => wpc'[v] = "none"
        /\ Slotted'
    BY <1>1, <1>3, <2>5, Started
  <2>7. Numbered'
    BY <2>2, <2>3, <2>4, <2>6 DEF Numbered
  <2>8. cpc' \in [Clients -> ClientPCs] /\ fThreads_' \in SUBSET Workers /\ w \in Workers
    BY <1>3, <2>5 DEF Typed, TypeOK, ClientAt, ClientPCs
  <2>9. Called'
    BY <1>1, <1>3, <2>8 DEF Typed, TypeOK, Called, ClientAt, Workers, queue
  <2>10. \A v \in Workers :
           /\ fCurTask_'[v] = None \/ fNextTask_'[v] = None
           /\ wpc'[v] \in {"move", "run", "cleanup", "cleanupAborted"} <=> CurrentTask(v)' # None
    BY <2>6 DEF Slotted, CurrentTask
  <2>11. victim' \in [Clients -> Workers \cup {None}]
    BY <1>3, <2>8 DEF Typed, TypeOK
  <2>12. TypeOK'
    BY <1>1, <2>4, <2>5, <2>6, <2>8, <2>10, <2>11 DEF Typed, TypeOK, queue, slots, killing
  <2> QED  BY <2>6, <2>7, <2>9, <2>12 DEF Typed
<1> QED  BY <1>2, <1>3 DEF FindRunning
LEMMA TypedStep == Typed /\ OneCopy /\ [Next]_vars => Typed'
<1> SUFFICES ASSUME Typed, OneCopy, [Next]_vars PROVE Typed'
  OBVIOUS
<1>1. CASE UNCHANGED vars
  <2>1. Seekers' = Seekers
    BY <1>1 DEF vars, client, locals, Seekers
  <2> QED
    BY <1>1, <2>1
    DEF vars, pool, queue, workers, slots, client, locals, killing, Typed, TypeOK, Numbered, Slotted, Called,
        CurrentTask
<1>2. ASSUME NEW w \in Workers, WorkerStep(w) PROVE Typed'
  BY <1>2, WorkerTyped
<1>3. ASSUME NEW c \in Clients, PlainCall(c) \/ PlainStep(c) PROVE Typed'
  BY <1>3, PlainTyped
<1>4. ASSUME NEW c \in Clients, (\E n \in Sizes : SetPoolSize(c, n)) \/ RestoreSize(c) PROVE Typed'
  BY <1>4, ResizeTyped
<1>5. ASSUME NEW c \in Clients, FindRunning(c) \/ \E t \in Tasks : AbortTask(c, t) PROVE Typed'
  BY <1>5, AbortTaskTyped, FindRunningTyped
<1> QED  BY <1>1, <1>2, <1>3, <1>4, <1>5 DEF Next, ClientCall, ClientStep, PlainCall, PlainStep, Waiting
-----------------------------------------------------------------------------
(* Where the tasks are *)

LEMMA ClientTasks ==
  ASSUME Typed, NEW c \in Clients, ClientCall(c) \/ ClientStep(c)
  PROVE  /\ UNCHANGED ended
         /\ \A w \in Workers : CurrentTask(w)' = CurrentTask(w)
         /\ \/ UNCHANGED queue
            \/ ClearQueue /\ UNCHANGED added
            \/ \E t \in Tasks \ added : /\ fPendingTasks_' = Append(fPendingTasks_, t)
                                        /\ added' = added \cup {t}
                                        /\ UNCHANGED withdrawn
            \/ \E t \in Tasks : /\ Contains(fPendingTasks_, t)
                                /\ fPendingTasks_' = RemoveFirst(fPendingTasks_, t)
                                /\ withdrawn' = withdrawn \cup {t}
                                /\ UNCHANGED added
<1> USE DEF CurrentTask, queue, workers, slots
<1>1. CASE PlainCall(c) \/ PlainStep(c)
  BY <1>1
  DEF PlainCall, AddTask, WaitForTask, AbortTasks, WaitForTasksDone, Destroy,
      PlainStep, Notify, AbortVictim, AwaitVictim, Clear, ClearQueue, AbortAll, LockAll, KillNext, KillDone,
      Waiting, Present, PresentRunning, CountIsZero, Shutdown, AwaitAll
<1>2. CASE FindRunning(c) \/ \E t \in Tasks : AbortTask(c, t)
  BY <1>2 DEF FindRunning, AbortTask
<1>3. CASE (\E n \in Sizes : SetPoolSize(c, n)) \/ RestoreSize(c)
  BY <1>3 DEF SetPoolSize, RestoreSize, Resize
<1> QED  BY <1>1, <1>2, <1>3 DEF ClientCall, ClientStep, PlainCall, PlainStep, Waiting

LEMMA WorkerTasks ==
  ASSUME Typed, NEW w \in Workers, WorkerStep(w)
  PROVE  /\ UNCHANGED <<added, withdrawn>>
         /\ \A v \in Workers \ {w} : CurrentTask(v)' = CurrentTask(v)
         /\ \/ UNCHANGED <<fPendingTasks_, ended>> /\ CurrentTask(w)' = CurrentTask(w)
            \/ /\ fPendingTasks_ # <<>> /\ fPendingTasks_' = Tail(fPendingTasks_)
               /\ ~Busy(w) /\ CurrentTask(w)' = Head(fPendingTasks_)
               /\ UNCHANGED ended
            \/ /\ Busy(w) /\ CurrentTask(w)' = None
               /\ ended' = ended \cup {CurrentTask(w)}
               /\ UNCHANGED fPendingTasks_
<1> USE DEF Busy, CurrentTask, queue, slots, Typed, TypeOK, Slotted, WorkerAt
<1>1. CASE CheckAborted(w) \/ Woken(w) \/ WaitAborted(w) \/ Finish(w) \/ TaskAborted(w)
  BY <1>1 DEF CheckAborted, Woken, WaitAborted, Finish, TaskAborted
<1>2. CASE TakeNext(w)
  BY <1>2 DEF TakeNext
<1>3. CASE Move(w)
  BY <1>3 DEF Move
<1>4. CASE Cleanup(w)
  BY <1>4 DEF Cleanup
<1> QED  BY <1>1, <1>2, <1>3, <1>4 DEF WorkerStep

LEMMA ClientOneCopy ==
  ASSUME Typed, OneCopy, NEW c \in Clients, ClientCall(c) \/ ClientStep(c)
  PROVE  OneCopy'
<1>1. /\ UNCHANGED ended
      /\ \A w \in Workers : CurrentTask(w)' = CurrentTask(w)
  BY ClientTasks
<1>2. CASE UNCHANGED queue
  BY <1>1, <1>2 DEF OneCopy, Gone, Busy, queue
<1>3. CASE ClearQueue /\ UNCHANGED added
  <2>1. Len(fPendingTasks_') = 0 /\ DOMAIN fPendingTasks_' = {}
    BY <1>3 DEF ClearQueue
  <2>2. \A x \in ToSet(fPendingTasks_) : Contains(fPendingTasks_, x) /\ x \in added
    BY LenProperties DEF ToSet, Contains, OneCopy, Typed, TypeOK
  <2>3. Gone' = Gone \cup ToSet(fPendingTasks_)
    BY <1>1, <1>3 DEF Gone, ClearQueue
  <2> QED  BY <1>1, <1>3, <2>1, <2>2, <2>3 DEF OneCopy, Busy, IsInjective, Contains
<1>4. ASSUME NEW t \in Tasks \ added, fPendingTasks_' = Append(fPendingTasks_, t), added' = added \cup {t},
             UNCHANGED withdrawn
      PROVE  OneCopy'
  <2>1. /\ Len(fPendingTasks_) \in Nat /\ Len(fPendingTasks_') = Len(fPendingTasks_) + 1
        /\ DOMAIN fPendingTasks_ = 1 .. Len(fPendingTasks_)
        /\ DOMAIN fPendingTasks_' = 1 .. Len(fPendingTasks_) + 1
        /\ \A i \in 1 .. Len(fPendingTasks_) : fPendingTasks_'[i] = fPendingTasks_[i]
        /\ fPendingTasks_'[Len(fPendingTasks_) + 1] = t
    BY <1>4, AppendProperties, LenProperties DEF Typed, TypeOK
  <2>2. \A i \in 1 .. Len(fPendingTasks_) + 1 : i \in 1 .. Len(fPendingTasks_) \/ i = Len(fPendingTasks_) + 1
    BY <2>1
  <2>3. IsInjective(fPendingTasks_')
    BY <2>1, <2>2 DEF OneCopy, IsInjective
  <2>4. \A i \in 1 .. Len(fPendingTasks_') : fPendingTasks_'[i] \in added' \ Gone'
    BY <1>1, <1>4, <2>1, <2>2 DEF OneCopy, Gone
  <2>5. \A x : Contains(fPendingTasks_', x) => Contains(fPendingTasks_, x) \/ x = t
    BY <2>1, <2>2 DEF Contains
  <2> QED  BY <1>1, <1>4, <2>3, <2>4, <2>5 DEF OneCopy, Gone, Busy
<1>5. ASSUME NEW t \in Tasks, Contains(fPendingTasks_, t),
             fPendingTasks_' = RemoveFirst(fPendingTasks_, t),
             withdrawn' = withdrawn \cup {t}, UNCHANGED added
      PROVE  OneCopy'
  <2>1. /\ IsInjective(fPendingTasks_')
        /\ \A i \in 1 .. Len(fPendingTasks_') :
             \E j \in 1 .. Len(fPendingTasks_) : /\ fPendingTasks_'[i] = fPendingTasks_[j]
                                               /\ fPendingTasks_[j] # t
    BY <1>5, Removal DEF Typed, TypeOK, OneCopy
  <2>2. \A x : Contains(fPendingTasks_', x) => Contains(fPendingTasks_, x)
    BY <2>1 DEF Contains
  <2>3. Gone' = Gone \cup {t} /\ t \in added
    BY <1>1, <1>5 DEF Gone, Contains, OneCopy
  <2> QED  BY <1>1, <1>5, <2>1, <2>2, <2>3 DEF OneCopy, Busy
<1> QED  BY <1>2, <1>3, <1>4, <1>5, ClientTasks

LEMMA WorkerOneCopy ==
  ASSUME Typed, OneCopy, NEW w \in Workers, WorkerStep(w)
  PROVE  OneCopy'
<1>1. UNCHANGED <<added, withdrawn>> /\ \A v \in Workers \ {w} : CurrentTask(v)' = CurrentTask(v)
  BY WorkerTasks
<1>2. CASE UNCHANGED <<fPendingTasks_, ended>> /\ CurrentTask(w)' = CurrentTask(w)
  BY <1>1, <1>2 DEF OneCopy, Gone, Busy
<1>3. CASE /\ fPendingTasks_ # <<>> /\ fPendingTasks_' = Tail(fPendingTasks_)
           /\ ~Busy(w) /\ CurrentTask(w)' = Head(fPendingTasks_)
           /\ UNCHANGED ended
  <2>1. /\ Len(fPendingTasks_) \in Nat \ {0} /\ Len(fPendingTasks_') = Len(fPendingTasks_) - 1
        /\ DOMAIN fPendingTasks_ = 1 .. Len(fPendingTasks_)
        /\ DOMAIN fPendingTasks_' = 1 .. Len(fPendingTasks_) - 1
        /\ \A i \in 1 .. Len(fPendingTasks_) - 1 : fPendingTasks_'[i] = fPendingTasks_[i + 1]
        /\ CurrentTask(w)' = fPendingTasks_[1]
    BY <1>3, EmptySeq, HeadTailProperties, LenProperties DEF Typed, TypeOK
  <2>2. \A i \in 1 .. Len(fPendingTasks_) - 1 : i + 1 \in 1 .. Len(fPendingTasks_) /\ i + 1 # 1
    BY <2>1
  <2>3. IsInjective(fPendingTasks_')
    <3> SUFFICES ASSUME NEW i \in 1 .. Len(fPendingTasks_) - 1, NEW j \in 1 .. Len(fPendingTasks_) - 1,
                        fPendingTasks_'[i] = fPendingTasks_'[j]
                 PROVE  i = j
      BY <2>1 DEF IsInjective
    <3>1. fPendingTasks_[i + 1] = fPendingTasks_[j + 1]
      BY <2>1
    <3>2. i + 1 = j + 1
      BY <2>1, <2>2, <3>1, Zenon DEF OneCopy, IsInjective
    <3> QED  BY <2>1, <3>2
  <2>4. \A i \in 1 .. Len(fPendingTasks_') : fPendingTasks_'[i] \in added \ Gone
    BY <2>1, <2>2 DEF OneCopy
  <2>5. \A x : Contains(fPendingTasks_', x) => Contains(fPendingTasks_, x) /\ x # fPendingTasks_[1]
    BY <2>1, <2>2 DEF Contains, OneCopy, IsInjective
  <2>6. Contains(fPendingTasks_, fPendingTasks_[1]) /\ fPendingTasks_[1] \in added \ Gone
    BY <2>1 DEF Contains, OneCopy
  <2>7. \A v \in Workers : CurrentTask(v) # fPendingTasks_[1]
    <3>1. fPendingTasks_[1] # None
      BY <2>6, PoolAssumption DEF Typed, TypeOK
    <3> QED  BY <2>6, <3>1 DEF OneCopy, Busy
  <2> QED  BY <1>1, <1>3, <2>1, <2>3, <2>4, <2>5, <2>6, <2>7 DEF OneCopy, Gone, Busy
<1>4. CASE /\ Busy(w) /\ CurrentTask(w)' = None
           /\ ended' = ended \cup {CurrentTask(w)}
           /\ UNCHANGED fPendingTasks_
  <2>1. \A i \in 1 .. Len(fPendingTasks_) : fPendingTasks_[i] # CurrentTask(w)
    BY <1>4 DEF OneCopy, Contains
  <2> QED  BY <1>1, <1>4, <2>1 DEF OneCopy, Gone, Busy
<1> QED  BY <1>2, <1>3, <1>4, WorkerTasks
-----------------------------------------------------------------------------
(* Waiting for a task *)

\* A task gets into the queue when it is added, and to a worker from the queue.
LEMMA Sources ==
  ASSUME Typed, OneCopy, [Next]_vars
  PROVE  /\ added \subseteq added'
         /\ \A x : Contains(fPendingTasks_', x) => Contains(fPendingTasks_, x) \/ x \notin added
         /\ \A w \in Workers : \/ CurrentTask(w)' \in {CurrentTask(w), None}
                               \/ Contains(fPendingTasks_, CurrentTask(w)')
<1>1. CASE UNCHANGED vars
  BY <1>1 DEF vars, queue, workers, slots, CurrentTask
<1>2. ASSUME NEW c \in Clients, ClientCall(c) \/ ClientStep(c)
      PROVE  /\ added \subseteq added'
             /\ \A x : Contains(fPendingTasks_', x) => Contains(fPendingTasks_, x) \/ x \notin added
             /\ \A w \in Workers : CurrentTask(w)' = CurrentTask(w)
  <2>1. \A w \in Workers : CurrentTask(w)' = CurrentTask(w)
    BY <1>2, ClientTasks
  <2>2. CASE UNCHANGED queue
    BY <2>1, <2>2 DEF queue
  <2>3. CASE ClearQueue /\ UNCHANGED added
    BY <2>1, <2>3 DEF ClearQueue, Contains
  <2>4. CASE \E t \in Tasks \ added : /\ fPendingTasks_' = Append(fPendingTasks_, t)
                                      /\ added' = added \cup {t}
    BY <2>1, <2>4, AppendProperties DEF Contains, Typed, TypeOK
  <2>5. CASE \E t \in Tasks : /\ Contains(fPendingTasks_, t)
                              /\ fPendingTasks_' = RemoveFirst(fPendingTasks_, t)
                              /\ UNCHANGED added
    <3>1. PICK t \in Tasks : /\ Contains(fPendingTasks_, t)
                             /\ fPendingTasks_' = RemoveFirst(fPendingTasks_, t)
      BY <2>5
    <3>2. \A i \in 1 .. Len(fPendingTasks_') :
            \E j \in 1 .. Len(fPendingTasks_) : fPendingTasks_'[i] = fPendingTasks_[j]
      BY <3>1, Removal DEF Typed, TypeOK, OneCopy
    <3> QED  BY <2>1, <2>5, <3>2 DEF Contains
  <2> QED  BY <1>2, <2>2, <2>3, <2>4, <2>5, ClientTasks
<1>3. ASSUME NEW v \in Workers, WorkerStep(v)
      PROVE  /\ added \subseteq added'
             /\ \A x : Contains(fPendingTasks_', x) => Contains(fPendingTasks_, x)
             /\ \A w \in Workers : \/ CurrentTask(w)' \in {CurrentTask(w), None}
                                   \/ Contains(fPendingTasks_, CurrentTask(w)')
  <2>1. UNCHANGED added /\ \A w \in Workers \ {v} : CurrentTask(w)' = CurrentTask(w)
    BY <1>3, WorkerTasks
  <2>2. CASE UNCHANGED fPendingTasks_ /\ CurrentTask(v)' \in {CurrentTask(v), None}
    BY <2>1, <2>2
  <2>3. CASE /\ fPendingTasks_ # <<>> /\ fPendingTasks_' = Tail(fPendingTasks_)
             /\ CurrentTask(v)' = Head(fPendingTasks_)
    <3>1. /\ Len(fPendingTasks_) \in Nat \ {0} /\ Len(fPendingTasks_') = Len(fPendingTasks_) - 1
          /\ \A i \in 1 .. Len(fPendingTasks_) - 1 : fPendingTasks_'[i] = fPendingTasks_[i + 1]
          /\ CurrentTask(v)' = fPendingTasks_[1]
      BY <2>3, EmptySeq, HeadTailProperties DEF Typed, TypeOK
    <3>2. Contains(fPendingTasks_, CurrentTask(v)')
      BY <3>1 DEF Contains
    <3>3. \A x : Contains(fPendingTasks_', x) => Contains(fPendingTasks_, x)
      BY <3>1 DEF Contains
    <3> QED  BY <2>1, <3>2, <3>3
  <2> QED  BY <1>3, <2>2, <2>3, WorkerTasks
<1> QED  BY <1>1, <1>2, <1>3 DEF Next

\* Workers come to the pool without a task.
LEMMA NewWorkersIdle ==
  ASSUME Typed, [Next]_vars
  PROVE  \A w \in fThreads_' \ fThreads_ : CurrentTask(w) = None
<1>1. CASE fThreads_' \subseteq fThreads_
  BY <1>1
<1>2. ASSUME NEW w \in Workers, WorkerStep(w) PROVE fThreads_' \subseteq fThreads_
  BY <1>2 DEF WorkerStep, CheckAborted, TakeNext, Woken, WaitAborted, Move, Finish, TaskAborted, Cleanup, pool
<1>3. ASSUME NEW c \in Clients, PlainCall(c) \/ PlainStep(c) \/ \E t \in Tasks : AbortTask(c, t)
      PROVE  fThreads_' \subseteq fThreads_
  BY <1>3
  DEF PlainCall, AddTask, WaitForTask, AbortTasks, WaitForTasksDone, Destroy,
      PlainStep, Notify, AbortVictim, AwaitVictim, Clear, ClearQueue, AbortAll, LockAll, KillNext, KillDone,
      Waiting, Present, PresentRunning, CountIsZero, Shutdown, AwaitAll, AbortTask, pool
<1>4. ASSUME NEW c \in Clients, (\E n \in Sizes : SetPoolSize(c, n)) \/ RestoreSize(c)
      PROVE  \A w \in fThreads_' \ fThreads_ : CurrentTask(w) = None
  <2>1. PICK n \in Nat : Resize(n)
    BY <1>4, PoolAssumption DEF SetPoolSize, RestoreSize, Typed, TypeOK
  <2> QED  BY <2>1, Resized
<1>5. ASSUME NEW c \in Clients, FindRunning(c)
      PROVE  \A w \in fThreads_' \ fThreads_ : CurrentTask(w) = None
  <2>1. fThreads_' \subseteq fThreads_ \/ fThreads_' \subseteq fThreads_ \cup Fresh(1)
    BY <1>5 DEF FindRunning
  <2>2. cpc[c] = "findRunning"
    BY <1>5 DEF FindRunning, ClientAt
  <2>3. \A w \in Fresh(1) : CurrentTask(w) = None
    BY <2>2, RoomToReplace DEF Typed, Slotted, CurrentTask
  <2> QED  BY <2>1, <2>3
<1>6. CASE UNCHANGED vars
  BY <1>6 DEF vars, pool
<1> QED
  BY <1>1, <1>2, <1>3, <1>4, <1>5, <1>6 DEF Next, ClientCall, ClientStep, PlainCall, PlainStep, Waiting

\* WaitForTask returns for a task that it has found nowhere.
LEMMA Waits ==
  ASSUME Typed, [Next]_vars
  PROVE  /\ \/ UNCHANGED waited
            \/ \E c \in Clients : PresentRunning(c) /\ waited' = waited \cup {arg[c]}
                                  /\ \A w \in fThreads_ : CurrentTask(w) # arg[c]
         /\ \A c \in Clients : cpc'[c] = "presentRunning" =>
              arg'[c] = arg[c] /\ (cpc[c] = "presentRunning" \/ Present(c))
<1> USE DEF Typed, TypeOK
<1>1. CASE UNCHANGED vars
  BY <1>1 DEF vars, client, locals
<1>2. ASSUME NEW w \in Workers, WorkerStep(w) PROVE UNCHANGED <<waited, cpc, arg>>
  BY <1>2 DEF WorkerStep, CheckAborted, TakeNext, Woken, WaitAborted, Move, Finish, TaskAborted, Cleanup,
              client, locals
<1>3. ASSUME NEW c \in Clients, ClientCall(c) \/ ClientStep(c), ~PresentRunning(c), ~Present(c)
      PROVE  /\ UNCHANGED waited
             /\ \A d \in Clients : cpc'[d] = "presentRunning" => arg'[d] = arg[d] /\ cpc[d] = "presentRunning"
  <2>1. CASE PlainCall(c) \/ PlainStep(c)
    BY <1>3, <2>1
    DEF PlainCall, AddTask, WaitForTask, AbortTasks, WaitForTasksDone, Destroy,
        PlainStep, Notify, AbortVictim, AwaitVictim, Clear, ClearQueue, AbortAll, LockAll, KillNext, KillDone,
        Waiting, CountIsZero, Shutdown, AwaitAll, ClientAt
  <2>2. CASE FindRunning(c) \/ \E t \in Tasks : AbortTask(c, t)
    BY <2>2 DEF FindRunning, AbortTask, ClientAt
  <2>3. CASE (\E n \in Sizes : SetPoolSize(c, n)) \/ RestoreSize(c)
    BY <2>3 DEF SetPoolSize, RestoreSize, ClientAt, client, locals
  <2> QED  BY <1>3, <2>1, <2>2, <2>3 DEF ClientCall, ClientStep, PlainCall, PlainStep, Waiting
<1>4. ASSUME NEW c \in Clients, Present(c)
      PROVE  /\ UNCHANGED waited
             /\ \A d \in Clients : cpc'[d] = "presentRunning" =>
                  arg'[d] = arg[d] /\ (cpc[d] = "presentRunning" \/ Present(d))
  BY <1>4 DEF Present, ClientAt
<1>5. ASSUME NEW c \in Clients, PresentRunning(c)
      PROVE  /\ \/ UNCHANGED waited
                \/ waited' = waited \cup {arg[c]} /\ \A w \in fThreads_ : CurrentTask(w) # arg[c]
             /\ \A d \in Clients : cpc'[d] = "presentRunning" => arg'[d] = arg[d] /\ cpc[d] = "presentRunning"
  BY <1>5 DEF PresentRunning, ClientAt
<1> QED  BY <1>1, <1>2, <1>3, <1>4, <1>5 DEF Next

LEMMA OverStep == Typed /\ OneCopy /\ Over /\ [Next]_vars => Over'
<1> SUFFICES ASSUME Typed, OneCopy, Over, [Next]_vars PROVE Over'
  OBVIOUS
<1>1. /\ added \subseteq added'
      /\ \A t \in added : ~Contains(fPendingTasks_, t) => ~Contains(fPendingTasks_', t)
  BY Sources
<1>2. Looked'
  <2> SUFFICES ASSUME NEW c \in Clients, cpc'[c] = "presentRunning"
               PROVE  ~Contains(fPendingTasks_', arg'[c])
    BY DEF Looked
  <2>1. arg'[c] = arg[c] /\ (cpc[c] = "presentRunning" \/ Present(c))
    BY Waits
  <2>2. cpc[c] \in {"present", "presentRunning"} /\ ~Contains(fPendingTasks_, arg[c])
    BY <2>1 DEF Over, Looked, Present, ClientAt
  <2>3. arg[c] \in added
    BY <2>2 DEF Typed, Called
  <2> QED  BY <1>1, <2>1, <2>2, <2>3
<1>3. ASSUME NEW t \in waited
      PROVE  t \in added' /\ ~Contains(fPendingTasks_', t) /\ \A w \in fThreads_' : CurrentTask(w)' # t
  <2>1. t \in added /\ t # None /\ ~Contains(fPendingTasks_, t) /\ \A w \in fThreads_ : CurrentTask(w) # t
    BY PoolAssumption DEF Over, WaitedIsOver, Typed, TypeOK
  <2>2. ASSUME NEW w \in fThreads_', CurrentTask(w)' = t PROVE FALSE
    <3>1. w \in Workers
      BY TypedStep DEF Typed, TypeOK
    <3>2. CurrentTask(w) = t
      BY <2>1, <2>2, <3>1, Sources
    <3>3. w \notin fThreads_
      BY <2>1, <3>2
    <3> QED  BY <2>1, <3>2, <3>3, NewWorkersIdle
  <2> QED  BY <1>1, <2>1, <2>2
<1>4. ASSUME NEW c \in Clients, PresentRunning(c), \A w \in fThreads_ : CurrentTask(w) # arg[c]
      PROVE  /\ arg[c] \in added' /\ ~Contains(fPendingTasks_', arg[c])
             /\ \A w \in fThreads_' : CurrentTask(w)' # arg[c]
  <2>1. cpc[c] = "presentRunning" /\ UNCHANGED <<pool, queue, workers>>
    BY <1>4 DEF PresentRunning, ClientAt
  <2>2. arg[c] \in added /\ ~Contains(fPendingTasks_, arg[c])
    BY <2>1 DEF Typed, Called, Over, Looked
  <2> QED  BY <1>4, <2>1, <2>2 DEF pool, queue, workers, slots, CurrentTask
<1>5. waited' \subseteq added' /\ WaitedIsOver'
  BY <1>3, <1>4, Waits DEF WaitedIsOver
<1> QED  BY <1>2, <1>5 DEF Over
-----------------------------------------------------------------------------
LEMMA InitIInv == Init => IInv
<1> SUFFICES ASSUME Init PROVE IInv
  OBVIOUS
<1>1. Typed
  BY InitTyped
<1>2. Len(fPendingTasks_) = 0 /\ DOMAIN fPendingTasks_ = {}
  BY DEF Init
<1>3. OneCopy
  BY <1>2 DEF Init, OneCopy, Gone, IsInjective, Busy, CurrentTask
<1>4. Over
  BY DEF Init, Over, WaitedIsOver, Looked
<1> QED  BY <1>1, <1>3, <1>4 DEF IInv

LEMMA OneCopyStep == Typed /\ OneCopy /\ [Next]_vars => OneCopy'
<1>1. UNCHANGED vars /\ OneCopy => OneCopy'
  BY DEF vars, queue, workers, slots, OneCopy, Gone, Busy, CurrentTask
<1> QED  BY <1>1, WorkerOneCopy, ClientOneCopy DEF Next

LEMMA Invariance == Spec => []IInv
<1>1. IInv /\ [Next]_vars => IInv'
  BY TypedStep, OneCopyStep, OverStep DEF IInv
<1> QED  BY <1>1, InitIInv, PTL DEF Spec

\* Every variable keeps its type; of a worker's two slots at most one is filled, which
\* GetCurrentTask asserts to whoever calls it; and what the worker is about to run or
\* runs is in one of them.
THEOREM TypeCorrect == Spec => []TypeOK
<1>1. IInv => TypeOK
  BY DEF IInv, Typed
<1> QED  BY <1>1, Invariance, PTL

\* When WaitForTask has returned, its task is in neither the queue nor a worker the
\* pool knows, and will be in neither: the two critical sections of IsPresent look in
\* the order in which tasks move.  A worker the pool no longer knows may run it.
THEOREM WaitedIsOverForGood == Spec => []WaitedIsOver
<1>1. IInv => WaitedIsOver
  BY DEF IInv, Over
<1> QED  BY <1>1, Invariance, PTL

\* A task is in one place at most: a place of the queue, or a worker; and in none when
\* it has ended or an abort took it from the queue.
THEOREM OneCopyOfEach == Spec => []OneCopy
<1>1. IInv => OneCopy
  BY DEF IInv
<1> QED  BY <1>1, Invariance, PTL

-----------------------------------------------------------------------------
(* The pool implements TaskQueue *)

Running == {CurrentTask(w) : w \in Workers} \ {None}

LEMMA ClientSimulation ==
  ASSUME Typed, OneCopy, NEW c \in Clients, ClientCall(c) \/ ClientStep(c)
  PROVE  [Queue!Next]_(Queue!vars)
<1>1. UNCHANGED <<ended, Running>>
  BY ClientTasks DEF Running
<1>2. CASE UNCHANGED queue
  BY <1>1, <1>2 DEF queue, Queue!vars, Running
<1>3. CASE ClearQueue
  <2>1. Queue!ToSet(fPendingTasks_) = ToSet(fPendingTasks_)
    BY DEF ToSet, Queue!ToSet
  <2> QED  BY <1>1, <1>3, <2>1 DEF ClearQueue, Queue!Next, Queue!WithdrawAll, Running
<1>4. ASSUME NEW t \in Tasks \ added, fPendingTasks_' = Append(fPendingTasks_, t), UNCHANGED withdrawn
      PROVE  Queue!Submit(t)
  <2>1. t \notin withdrawn \cup Running \cup ended
    BY DEF Running, OneCopy, Gone, Busy
  <2> QED  BY <1>1, <1>4, <2>1 DEF Queue!Submit, Running
<1>5. ASSUME NEW t \in Tasks, Contains(fPendingTasks_, t),
             fPendingTasks_' = RemoveFirst(fPendingTasks_, t), withdrawn' = withdrawn \cup {t}
      PROVE  Queue!Withdraw(t)
  <2>1. Queue!Contains(fPendingTasks_, t)
    BY <1>5 DEF Contains, Queue!Contains
  <2>2. Queue!RemoveFirst(fPendingTasks_, t) = RemoveFirst(fPendingTasks_, t)
    BY DEF RemoveFirst, RemoveAt, SelectInSeq, Min,
           Queue!RemoveFirst, Queue!RemoveAt, Queue!SelectInSeq, Queue!Min
  <2> QED  BY <1>1, <1>5, <2>1, <2>2 DEF Queue!Withdraw, Running
<1> QED  BY <1>2, <1>3, <1>4, <1>5, ClientTasks DEF Queue!Next

LEMMA WorkerSimulation ==
  ASSUME Typed, OneCopy, NEW w \in Workers, WorkerStep(w)
  PROVE  [Queue!Next]_(Queue!vars)
<1>1. UNCHANGED withdrawn /\ \A v \in Workers \ {w} : CurrentTask(v)' = CurrentTask(v)
  BY WorkerTasks
<1>2. CASE UNCHANGED <<fPendingTasks_, ended>> /\ CurrentTask(w)' = CurrentTask(w)
  <2>1. Running' = Running
    BY <1>1, <1>2 DEF Running
  <2> QED  BY <1>1, <1>2, <2>1 DEF Queue!vars, Running
<1>3. CASE /\ fPendingTasks_ # <<>> /\ fPendingTasks_' = Tail(fPendingTasks_)
           /\ ~Busy(w) /\ CurrentTask(w)' = Head(fPendingTasks_)
           /\ UNCHANGED ended
  <2>1. Head(fPendingTasks_) # None
    BY <1>3, HeadTailProperties, PoolAssumption DEF Typed, TypeOK
  <2>2. Running' = Running \cup {Head(fPendingTasks_)}
    BY <1>1, <1>3, <2>1 DEF Running, Busy
  <2> QED  BY <1>1, <1>3, <2>2 DEF Queue!Next, Queue!Begin, Running
<1>4. CASE /\ Busy(w) /\ CurrentTask(w)' = None
           /\ ended' = ended \cup {CurrentTask(w)}
           /\ UNCHANGED fPendingTasks_
  <2>1. CurrentTask(w) \in Running /\ CurrentTask(w) \in Tasks
    BY <1>4 DEF Running, Busy, OneCopy, Typed, TypeOK
  <2>2. Running' = Running \ {CurrentTask(w)}
    BY <1>1, <1>4 DEF Running, Busy, OneCopy
  <2> QED  BY <1>1, <1>4, <2>1, <2>2 DEF Queue!Next, Queue!End, Running
<1> QED  BY <1>2, <1>3, <1>4, WorkerTasks

(***************************************************************************)
(* Tasks begin in the order they were added, none begins twice or after it *)
(* was withdrawn, and none leaves the queue but to begin or because an     *)
(* abort or the destructor withdrew it: AddTask, AbortTask, AbortTasks,    *)
(* Abort_, WaitForNextTask_ and Run in ThreadPool.cpp.                     *)
(***************************************************************************)
THEOREM ImplementsTaskQueue == Spec => QueueSpec
<1>1. Init => Queue!Init
  BY DEF Init, Queue!Init, CurrentTask
<1>2. IInv /\ [Next]_vars => [Queue!Next]_(Queue!vars)
  <2>1. UNCHANGED vars => UNCHANGED Queue!vars
    BY DEF vars, queue, workers, slots, Queue!vars, CurrentTask
  <2> QED  BY <2>1, ClientSimulation, WorkerSimulation DEF IInv, Next
<1> QED  BY <1>1, <1>2, Invariance, PTL DEF Spec, QueueSpec, Queue!Spec
=============================================================================
