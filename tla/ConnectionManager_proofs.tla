----------------------- MODULE ConnectionManager_proofs -----------------------
(***************************************************************************)
(* Proofs about ConnectionManager, for any connections, workers and        *)
(* requests.                                                               *)
(***************************************************************************)
EXTENDS ConnectionManager, FiniteSetTheorems, SequenceTheorems, TLAPS

-----------------------------------------------------------------------------
(* The polling thread is always told of a connection to poll. *)

Placed == pc = [t \in Threads |-> pc[t]]

Told == Placed /\ WakeupOwed

\* A wakeup that is owed stays owed while the polling thread keeps its copy.
LEMMA StillOwed ==
  ASSUME Told, Placed',
         UNCHANGED <<waiterAt, seeIfReady>>, interrupted => interrupted',
         fInactiveOpenConnections_' \subseteq fInactiveOpenConnections_
           \/ \E t \in Threads : pc'[t] = "interrupt",
         \A t \in Threads : pc[t] = "interrupt" => pc'[t] = "interrupt" \/ interrupted'
  PROVE  Told'
BY DEF Told, WakeupOwed

\* Nobody but Interrupt leaves the place before it.
LEMMA PlacesKept ==
  ASSUME Placed, NEW t \in Threads, NEW from, NEW to, Goes(t, from, to), from # "interrupt"
  PROVE  /\ Placed'
         /\ pc'[t] = to
         /\ \A u \in Threads : pc[u] = "interrupt" => pc'[u] = "interrupt"
BY DEF Placed, Goes

-----------------------------------------------------------------------------
LEMMA ClientTold ==
  ASSUME Told, NEW c \in Connections, Client(c)
  PROVE  Told'
<1>1. UNCHANGED <<sets, waiter, interrupted, workers>>
  BY DEF Client, Begin, Complete, HangUp, Send
<1> QED  BY <1>1 DEF Told, Placed, WakeupOwed, sets, waiter, workers

LEMMA ListenerTold ==
  ASSUME Told, NEW c \in Connections, onConnect_(c)
  PROVE  Told'
<1>1. Goes(Listener, "idle", "interrupt") /\ UNCHANGED <<waiter, interrupted>>
  BY DEF onConnect_
<1>2. Listener \in Threads
  BY DEF Threads
<1>3. /\ Placed' /\ pc'[Listener] = "interrupt"
      /\ \A u \in Threads : pc[u] = "interrupt" => pc'[u] = "interrupt"
  BY <1>1, <1>2, PlacesKept DEF Told
<1> QED  BY <1>1, <1>2, <1>3, StillOwed DEF waiter

LEMMA WakesTold ==
  ASSUME Told, NEW t \in Threads, Wakes(t)
  PROVE  Told'
<1>1. CASE Interrupt(t)
  <2>1. interrupted' /\ UNCHANGED <<sets, waiter>> /\ Goes(t, "interrupt", "signal")
    BY <1>1 DEF Interrupt
  <2>2. Placed'
    BY <2>1 DEF Goes, Told, Placed
  <2> QED  BY <2>1, <2>2 DEF Told, WakeupOwed
<1>2. CASE Signal(t)
  <2>1. /\ Goes(t, "signal", "idle")
        /\ UNCHANGED <<sets, seeIfReady, interrupted>>
        /\ waiterAt = "asleep" \/ UNCHANGED waiterAt
    BY <1>2 DEF Signal
  <2>2. Placed' /\ \A u \in Threads : pc[u] = "interrupt" => pc'[u] = "interrupt"
    BY <2>1, PlacesKept DEF Told
  <2> QED  BY <2>1, <2>2 DEF Told, WakeupOwed, sets
<1> QED  BY <1>1, <1>2 DEF Wakes

LEMMA WaiterTold ==
  ASSUME Told, WaiterStep \/ SleepReturns
  PROVE  Told'
<1>1. UNCHANGED workers
  BY DEF WaiterStep, SleepReturns, Interrupted, Checked, NotInterrupted, Copy, Block, PollReturns,
         RemoveInactive, Activate, AddTask, Dispatched, WaiterGoes
<1>2. Placed'
  BY <1>1 DEF Told, Placed, workers
<1>3. CASE Interrupted
  BY <1>2, <1>3 DEF Interrupted, Told, WakeupOwed
<1>4. CASE Checked
  BY <1>1, <1>2, <1>4 DEF Checked, NotInterrupted, WaiterGoes, Told, WakeupOwed, sets, workers
<1>5. CASE Copy
  BY <1>2, <1>5 DEF Copy, WaiterGoes, Told, WakeupOwed, sets
<1>6. CASE Block \/ PollReturns
  BY <1>1, <1>2, <1>6 DEF Block, PollReturns, WaiterGoes, Told, WakeupOwed, sets, workers
<1>7. CASE SleepReturns \/ Activate \/ AddTask \/ Dispatched
           \/ \E c \in Connections : RemoveInactive(c)
  BY <1>2, <1>7
  DEF SleepReturns, Activate, AddTask, Dispatched, RemoveInactive, WaiterGoes, Told, WakeupOwed
<1> QED  BY <1>3, <1>4, <1>5, <1>6, <1>7 DEF WaiterStep

LEMMA TaskTold ==
  ASSUME Told, NEW w \in Workers, TaskStep(w)
  PROVE  Told'
<1>1. w \in Threads
  BY DEF Threads
<1>2. ASSUME NEW from, NEW to, Goes(w, from, to), from # "interrupt",
             UNCHANGED <<waiter, interrupted, fInactiveOpenConnections_>>
      PROVE  Told'
  <2>1. Placed' /\ \A u \in Threads : pc[u] = "interrupt" => pc'[u] = "interrupt"
    BY <1>1, <1>2, PlacesKept DEF Told
  <2> QED  BY <1>2, <2>1, StillOwed DEF waiter
<1>3. CASE Take(w)
  BY <1>2, <1>3 DEF Take
<1>4. CASE ReadHeaders(w)
  <2>1. PICK n, to, keep : Message(w, n, to, keep)
    BY <1>4 DEF ReadHeaders
  <2> QED  BY <1>2, <2>1 DEF Message, TaskGoes
<1>5. CASE HandleMessage(w)
  <2>1. PICK from \in {"handle", "handlePost"}, to \in {"end", "body"}, keep \in BOOLEAN :
               TaskGoes(w, from, to, keep)
    BY <1>5 DEF HandleMessage
  <2>2. UNCHANGED fInactiveOpenConnections_
    BY <1>5 DEF HandleMessage
  <2> QED  BY <1>2, <2>1, <2>2 DEF TaskGoes
<1>6. CASE GetRequestBody(w) \/ End(w) \/ EndThrows(w)
  BY <1>2, <1>6 DEF GetRequestBody, End, EndThrows, TaskGoes
<1>7. CASE RemoveActive(w)
  BY <1>2, <1>7 DEF RemoveActive, TaskGoes
<1>8. CASE Finish(w)
  BY <1>2, <1>8 DEF Finish, TaskGoes
<1>9. CASE AddInactive(w)
  <2>1. Goes(w, "add", "interrupt") /\ UNCHANGED <<waiter, interrupted>>
    BY <1>9 DEF AddInactive, TaskGoes
  <2>2. /\ Placed' /\ pc'[w] = "interrupt"
        /\ \A u \in Threads : pc[u] = "interrupt" => pc'[u] = "interrupt"
    BY <1>1, <2>1, PlacesKept DEF Told
  <2> QED  BY <1>1, <2>1, <2>2, StillOwed DEF waiter
<1> QED  BY <1>3, <1>4, <1>5, <1>6, <1>7, <1>8, <1>9 DEF TaskStep

(***************************************************************************)
(* Whenever the polling thread waits without polling a connection that is  *)
(* inactive, an interruption is pending or about to come                   *)
(* (AddConnection and the end of a task in ConnectionManager.cpp).         *)
(***************************************************************************)
THEOREM WakeupIsOwed == Spec => []WakeupOwed
<1>1. Init => Told
  BY DEF Init, Told, Placed, WakeupOwed
<1>2. Told /\ [Next]_vars => Told'
  <2> SUFFICES ASSUME Told, [Next]_vars PROVE Told'
    OBVIOUS
  <2>1. CASE Next
    BY <2>1, ClientTold, ListenerTold, WakesTold, WaiterTold, TaskTold DEF Next
  <2>2. CASE UNCHANGED vars
    BY <2>2 DEF vars, sets, waiter, workers, Told, Placed, WakeupOwed
  <2> QED  BY <2>1, <2>2
<1>3. Told => WakeupOwed
  BY DEF Told
<1> QED  BY <1>1, <1>2, <1>3, PTL DEF Spec

-----------------------------------------------------------------------------
(* Each connection is with one actor. *)

\* Only the polling thread takes connections away from the inactive ones, so that its
\* copy holds none that has gone.
CopyKept ==
  waiterAt \in {"enter", "block", "asleep", "woken"} => seeIfReady \subseteq fInactiveOpenConnections_

Holding == OneHolder /\ CopyKept

LEMMA AppendOnce ==
  ASSUME NEW S, NEW s \in Seq(S), NEW x \in S \ Range(s),
         \A i, j \in DOMAIN s : s[i] = s[j] => i = j
  PROVE  /\ Append(s, x) \in Seq(S)
         /\ Range(Append(s, x)) = Range(s) \cup {x}
         /\ \A i, j \in DOMAIN Append(s, x) : Append(s, x)[i] = Append(s, x)[j] => i = j
<1> DEFINE a == Append(s, x)
<1>1. /\ a \in Seq(S) /\ Len(s) \in Nat
      /\ DOMAIN s = 1 .. Len(s) /\ DOMAIN a = 1 .. Len(s) + 1
      /\ \A i \in 1 .. Len(s) : a[i] = s[i]
      /\ a[Len(s) + 1] = x
  BY AppendProperties, LenProperties
<1> HIDE DEF a
<1>2. \A i \in 1 .. Len(s) + 1 : i \in 1 .. Len(s) \/ i = Len(s) + 1
  BY <1>1
<1>3. Range(a) = Range(s) \cup {x}
  BY <1>1, <1>2 DEF Range
<1>4. \A i, j \in DOMAIN a : a[i] = a[j] => i = j
  BY <1>1, <1>2 DEF Range
<1> QED  BY <1>1, <1>3, <1>4 DEF a

LEMMA TailOnce ==
  ASSUME NEW S, NEW s \in Seq(S), s # <<>>,
         \A i, j \in DOMAIN s : s[i] = s[j] => i = j
  PROVE  /\ Tail(s) \in Seq(S)
         /\ Head(s) \in Range(s)
         /\ Range(Tail(s)) = Range(s) \ {Head(s)}
         /\ \A i, j \in DOMAIN Tail(s) : Tail(s)[i] = Tail(s)[j] => i = j
<1> DEFINE t == Tail(s)
<1>1. /\ t \in Seq(S) /\ Len(s) \in Nat \ {0} /\ Head(s) = s[1]
      /\ DOMAIN s = 1 .. Len(s) /\ DOMAIN t = 1 .. Len(s) - 1
      /\ \A i \in 1 .. Len(s) - 1 : t[i] = s[i + 1]
  BY EmptySeq, HeadTailProperties, LenProperties
<1> HIDE DEF t
<1>2. \A i \in 1 .. Len(s) - 1 : i + 1 \in 1 .. Len(s) /\ i + 1 # 1
  BY <1>1
<1>3. \A i \in 1 .. Len(s) : i = 1 \/ (i - 1 \in 1 .. Len(s) - 1 /\ (i - 1) + 1 = i)
  BY <1>1
<1>4. Range(t) \subseteq Range(s) \ {Head(s)}
  BY <1>1, <1>2 DEF Range
<1>5. Range(s) \ {Head(s)} \subseteq Range(t)
  <2> SUFFICES ASSUME NEW i \in 1 .. Len(s), s[i] # s[1] PROVE s[i] \in Range(t)
    BY <1>1 DEF Range
  <2>1. i - 1 \in 1 .. Len(s) - 1 /\ s[i] = t[i - 1]
    BY <1>1, <1>3
  <2> QED  BY <1>1, <2>1 DEF Range
<1>6. \A i, j \in DOMAIN t : t[i] = t[j] => i = j
  <2> SUFFICES ASSUME NEW i \in 1 .. Len(s) - 1, NEW j \in 1 .. Len(s) - 1, t[i] = t[j] PROVE i = j
    BY <1>1
  <2>1. s[i + 1] = s[j + 1] /\ i + 1 \in DOMAIN s /\ j + 1 \in DOMAIN s
    BY <1>1, <1>2
  <2>2. i + 1 = j + 1
    BY <2>1, Zenon
  <2> QED  BY <1>1, <2>2
<1>7. Head(s) \in Range(s)
  BY <1>1 DEF Range
<1> QED  BY <1>1, <1>4, <1>5, <1>6, <1>7 DEF t

LEMMA ClientHolding ==
  ASSUME Holding, NEW c \in Connections, Client(c)
  PROVE  Holding'
<1>1. UNCHANGED <<sets, waiter, interrupted, workers, replies>>
  BY DEF Client, Begin, Complete, HangUp, Send
<1>2. PICK piece \in Pieces, next \in {None, "rest", "body"} : Send(c, piece, next)
  <2>1. CASE Begin(c)
    <3>1. PICK piece \in Sends[c] :
            Send(c, piece, CASE piece = "request" -> None [] piece = "post" -> "body" [] piece = "start" -> "rest")
      BY <2>1 DEF Begin
    <3>2. piece \in {"request", "post", "start"}
      BY <3>1, ConnectionAssumption
    <3> QED  BY <3>1, <3>2 DEF Pieces
  <2>2. CASE Complete(c)
    <3>1. owes[c] \in {"rest", "body"} /\ Send(c, owes[c], None)
      BY <2>2 DEF Complete, Holding, OneHolder, TypeOK
    <3> QED  BY <3>1 DEF Pieces
  <2>3. CASE HangUp(c)
    BY <2>3 DEF HangUp, Pieces
  <2> QED  BY <2>1, <2>2, <2>3 DEF Client
<1>3. wire' \in [Connections -> Seq(Pieces)]
  BY <1>2, AppendProperties DEF Send, Holding, OneHolder, TypeOK
<1>4. owes' \in [Connections -> {None, "rest", "body"}] /\ asked' \in [Connections -> Nat]
  BY <1>2 DEF Send, Holding, OneHolder, TypeOK
<1>5. TypeOK'
  BY <1>1, <1>3, <1>4 DEF sets, waiter, workers, replies, Holding, OneHolder, TypeOK
<1> QED  BY <1>1, <1>5 DEF sets, waiter, workers, Holding, OneHolder, CopyKept, Queued

LEMMA ListenerHolding ==
  ASSUME Holding, NEW c \in Connections, onConnect_(c)
  PROVE  Holding'
<1> USE ConnectionAssumption DEF Holding, OneHolder, TypeOK
<1>1. /\ c \notin accepted /\ accepted' = accepted \cup {c}
      /\ fInactiveOpenConnections_' = fInactiveOpenConnections_ \cup {c}
      /\ UNCHANGED <<client, waiter, fActiveConnections_, fPendingTasks_, interrupted, conn, keepAlive, replies>>
      /\ pc' = [pc EXCEPT ![Listener] = "interrupt"]
  BY DEF onConnect_, Goes
<1>2. Queued \subseteq accepted /\ Queued' = Queued
  BY <1>1, RangeOfSeq DEF Queued
<1>3. fPendingTasks_' \in Seq(accepted')
  BY <1>1, SeqMonotonic
<1>4. \A w \in Workers : pc'[w] = pc[w]
  BY <1>1 DEF Threads
<1>5. TypeOK'
  BY <1>1, <1>3 DEF client, waiter, replies, Threads
<1>6. CopyKept'
  BY <1>1 DEF CopyKept, waiter
<1>7. c \notin Queued \cup {waiterConn} /\ c # None /\ \A w \in Workers : conn[w] # c
  BY <1>1, <1>2
<1>8. \A w \in Workers : conn'[w] # None =>
        /\ conn'[w] \notin fInactiveOpenConnections_' \cup Queued' \cup {waiterConn'}
        /\ \A v \in Workers : conn'[v] = conn'[w] => v = w
  BY <1>1, <1>2, <1>7 DEF waiter
<1>9. {conn'[w] : w \in {v \in Workers : pc'[v] \in Processing}}
        = {conn[w] : w \in {v \in Workers : pc[v] \in Processing}}
  BY <1>1, <1>4
<1>10. /\ ready' \subseteq fInactiveOpenConnections_'
       /\ waiterConn' # None <=> waiterAt' \in {"activate", "addTask"}
       /\ waiterConn' \notin fInactiveOpenConnections_' \cup Queued'
       /\ fInactiveOpenConnections_' \cap Queued' = {}
  BY <1>1, <1>2, <1>7 DEF waiter
<1>11. /\ \A w \in Workers : conn'[w] # None <=> pc'[w] \in Processing \cup {"add", "finish"}
       /\ \A i, j \in DOMAIN fPendingTasks_' : fPendingTasks_'[i] = fPendingTasks_'[j] => i = j
       /\ fActiveConnections_' = Queued' \cup {conn'[w] : w \in {v \in Workers : pc'[v] \in Processing}}
                                   \cup (IF waiterAt' = "addTask" THEN {waiterConn'} ELSE {})
  BY <1>1, <1>2, <1>4, <1>9 DEF waiter
<1>12. OneHolder'
  BY ONLY <1>5, <1>8, <1>10, <1>11 DEF OneHolder
<1> QED  BY <1>6, <1>12

LEMMA WakesHolding ==
  ASSUME Holding, NEW t \in Threads, Wakes(t)
  PROVE  Holding'
<1> USE DEF Holding, OneHolder, TypeOK
<1>1. /\ UNCHANGED <<client, sets, seeIfReady, ready, waiterConn, conn, keepAlive, replies>>
      /\ interrupted' \in BOOLEAN
      /\ waiterAt' = waiterAt \/ (waiterAt = "asleep" /\ waiterAt' = "woken")
      /\ \E from \in {"interrupt", "signal"}, to \in {"signal", "idle"} :
            pc[t] = from /\ pc' = [pc EXCEPT ![t] = to]
  BY DEF Wakes, Interrupt, Signal, Goes, waiter
<1>2. \A w \in Workers : pc'[w] \in Processing \cup {"add", "finish"} <=> pc[w] \in Processing \cup {"add", "finish"}
  BY <1>1 DEF Threads, Processing
<1>3. \A w \in Workers : pc'[w] \in Processing <=> pc[w] \in Processing
  BY <1>1 DEF Threads, Processing
<1>4. TypeOK'
  BY <1>1 DEF client, sets, replies
<1>5. CopyKept' /\ Queued' = Queued
  BY <1>1 DEF CopyKept, sets, Queued
<1>6. {conn'[w] : w \in {v \in Workers : pc'[v] \in Processing}}
        = {conn[w] : w \in {v \in Workers : pc[v] \in Processing}}
  BY <1>1, <1>3
<1> QED  BY <1>1, <1>2, <1>4, <1>5, <1>6 DEF sets

LEMMA WaiterHolding ==
  ASSUME Holding, WaiterStep \/ SleepReturns
  PROVE  Holding'
<1> USE DEF Holding, OneHolder, TypeOK, CopyKept
<1>1. /\ UNCHANGED <<client, accepted, conn, pc, keepAlive, replies>>
      /\ interrupted' \in BOOLEAN
  BY DEF WaiterStep, SleepReturns, Interrupted, Checked, NotInterrupted, Copy, Block, PollReturns,
         RemoveInactive, Activate, AddTask, Dispatched, WaiterGoes, workers, sets
<1>2. CASE Interrupted \/ Checked \/ Copy \/ Block \/ PollReturns \/ Dispatched \/ SleepReturns
  <2>1. UNCHANGED <<sets, waiterConn>> /\ ready' \subseteq fInactiveOpenConnections_
    BY <1>2 DEF Interrupted, Checked, Copy, Block, PollReturns, Dispatched, SleepReturns, WaiterGoes, Readable
  <2>2. waiterAt \notin {"activate", "addTask"}
        /\ waiterAt' \in {"top", "copy", "enter", "block", "asleep", "woken", "dispatch"}
    BY <1>2 DEF Interrupted, Checked, NotInterrupted, Copy, Block, PollReturns, Dispatched, SleepReturns, WaiterGoes
  <2>3. seeIfReady' \subseteq accepted /\ CopyKept'
    BY <1>2 DEF Interrupted, Checked, NotInterrupted, Copy, Block, PollReturns, Dispatched, SleepReturns,
                WaiterGoes, sets
  <2>4. TypeOK'
    BY <1>1, <2>1, <2>2, <2>3 DEF client, sets, replies
  <2> QED  BY <1>1, <2>1, <2>2, <2>3, <2>4 DEF sets, Queued
<1>3. ASSUME NEW c \in Connections, RemoveInactive(c) PROVE Holding'
  <2>1. /\ c \in fInactiveOpenConnections_ /\ waiterAt = "dispatch" /\ waiterAt' = "activate"
        /\ waiterConn' = c /\ ready' = ready \ {c}
        /\ fInactiveOpenConnections_' = fInactiveOpenConnections_ \ {c}
        /\ UNCHANGED <<fActiveConnections_, fPendingTasks_, seeIfReady, interrupted>>
    BY <1>3 DEF RemoveInactive, WaiterGoes
  <2>2. c # None /\ c \in accepted
    BY <2>1, ConnectionAssumption
  <2>3. TypeOK'
    BY <1>1, <2>1, <2>2 DEF client, replies
  <2> QED  BY <1>1, <2>1, <2>2, <2>3 DEF Queued
<1>4. CASE Activate
  <2>1. /\ waiterAt = "activate" /\ waiterAt' = "addTask"
        /\ fActiveConnections_' = fActiveConnections_ \cup {waiterConn}
        /\ UNCHANGED <<fInactiveOpenConnections_, fPendingTasks_, seeIfReady, ready, waiterConn, interrupted>>
    BY <1>4 DEF Activate, WaiterGoes
  <2>2. TypeOK'
    BY <1>1, <2>1 DEF client, replies
  <2> QED  BY <1>1, <2>1, <2>2 DEF Queued
<1>5. CASE AddTask
  <2>1. /\ waiterAt = "addTask" /\ waiterAt' = "dispatch"
        /\ fPendingTasks_' = Append(fPendingTasks_, waiterConn)
        /\ waiterConn' = None
        /\ UNCHANGED <<fInactiveOpenConnections_, fActiveConnections_, seeIfReady, ready, interrupted>>
    BY <1>5 DEF AddTask, WaiterGoes
  <2>2. waiterConn \in accepted \ Queued
    BY <2>1
  <2>3. /\ fPendingTasks_' \in Seq(accepted)
        /\ Range(fPendingTasks_') = Range(fPendingTasks_) \cup {waiterConn}
        /\ \A i, j \in DOMAIN fPendingTasks_' : fPendingTasks_'[i] = fPendingTasks_'[j] => i = j
    <3>1. waiterConn \in accepted \ Range(fPendingTasks_) /\ fPendingTasks_ \in Seq(accepted)
          /\ \A i, j \in DOMAIN fPendingTasks_ : fPendingTasks_[i] = fPendingTasks_[j] => i = j
      BY <2>2 DEF Queued
    <3>2. /\ Append(fPendingTasks_, waiterConn) \in Seq(accepted)
          /\ Range(Append(fPendingTasks_, waiterConn)) = Range(fPendingTasks_) \cup {waiterConn}
          /\ \A i, j \in DOMAIN Append(fPendingTasks_, waiterConn) :
               Append(fPendingTasks_, waiterConn)[i] = Append(fPendingTasks_, waiterConn)[j] => i = j
      BY ONLY <3>1, AppendOnce
    <3> QED  BY <2>1, <3>2
  <2>4. Queued' = Queued \cup {waiterConn}
    BY <2>3 DEF Queued
  <2>5. TypeOK'
    BY <1>1, <2>1, <2>3 DEF client, replies
  <2>6. None \notin fInactiveOpenConnections_ \cup Queued'
    BY <2>2, <2>4, RangeOfSeq, ConnectionAssumption DEF Queued
  <2>7. \A v \in Workers : conn'[v] # None =>
          /\ conn'[v] \notin fInactiveOpenConnections_' \cup Queued' \cup {waiterConn'}
          /\ \A u \in Workers : conn'[u] = conn'[v] => u = v
    BY <1>1, <2>1, <2>4
  <2>8. fActiveConnections_' = Queued' \cup {conn'[v] : v \in {u \in Workers : pc'[u] \in Processing}}
                                  \cup (IF waiterAt' = "addTask" THEN {waiterConn'} ELSE {})
    BY <1>1, <2>1, <2>4
  <2>9. /\ waiterConn' = None /\ waiterAt' \notin {"activate", "addTask"}
        /\ \A v \in Workers : conn'[v] # None <=> pc'[v] \in Processing \cup {"add", "finish"}
        /\ fInactiveOpenConnections_' \cap Queued' = {}
        /\ ready' \subseteq fInactiveOpenConnections_'
    BY <1>1, <2>1, <2>2, <2>4
  <2>10. waiterConn' \notin fInactiveOpenConnections_' \cup Queued'
    BY <2>1, <2>6
  <2>11. CopyKept'
    BY <2>1
  <2> QED  BY ONLY <2>3, <2>5, <2>7, <2>8, <2>9, <2>10, <2>11 DEF Holding, OneHolder
<1> QED  BY <1>2, <1>3, <1>4, <1>5 DEF WaiterStep

\* A task that goes on keeps its connection, among the active ones.
LEMMA TaskKeeps ==
  ASSUME Holding, NEW w \in Workers, NEW from \in Processing, NEW to \in Processing,
         pc[w] = from, pc' = [pc EXCEPT ![w] = to],
         UNCHANGED <<sets, waiter, interrupted, conn, owes, asked>>,
         wire' \in [Connections -> Seq(Pieces)], keepAlive' \in [Workers -> BOOLEAN],
         fState_' \in [Connections -> ResponseStates], answered' \in [Connections -> Nat]
  PROVE  Holding'
<1> USE DEF Holding, OneHolder, TypeOK
<1>1. \A v \in Workers : /\ pc'[v] \in Processing <=> pc[v] \in Processing
                         /\ pc'[v] \in Processing \cup {"add", "finish"}
                              <=> pc[v] \in Processing \cup {"add", "finish"}
  BY DEF Threads
<1>2. TypeOK'
  BY DEF sets, waiter, Threads
<1>3. {conn'[u] : u \in {v \in Workers : pc'[v] \in Processing}}
        = {conn[u] : u \in {v \in Workers : pc[v] \in Processing}}
  BY <1>1
<1> QED  BY <1>1, <1>2, <1>3 DEF sets, waiter, Queued, CopyKept

LEMMA FlushTypes ==
  ASSUME TypeOK, NEW c \in Connections, NEW state \in ResponseStates, Flush(c, state)
  PROVE  fState_' \in [Connections -> ResponseStates] /\ answered' \in [Connections -> Nat]
<1>1. fState_' \in [Connections -> ResponseStates]
  <2>1. fState_' = [fState_ EXCEPT ![c] = state] /\ fState_ \in [Connections -> ResponseStates]
    BY DEF TypeOK, Flush
  <2> QED  BY <2>1
<1>2. [answered EXCEPT ![c] = @ + 1] \in [Connections -> Nat] /\ answered \in [Connections -> Nat]
  BY DEF TypeOK
<1>3. answered' = answered \/ answered' = [answered EXCEPT ![c] = @ + 1]
  BY DEF Flush
<1> QED  BY <1>1, <1>2, <1>3

\* A message takes one piece off the wire, or the two parts of a split request, or the
\* end of the stream, which stays.
LEMMA Read ==
  ASSUME NEW w \in Workers, ReadHeaders(w)
  PROVE  \E n \in {0, 1, 2}, to \in {"handle", "handlePost", "remove"}, keep \in BOOLEAN :
           Message(w, n, to, keep)
<1>1. CASE wire[conn[w]] = <<"start">>
  BY <1>1 DEF ReadHeaders
<1>2. CASE wire[conn[w]] # <<"start">> /\ Head(wire[conn[w]]) = "end"
  BY <1>2 DEF ReadHeaders
<1>3. CASE wire[conn[w]] # <<"start">> /\ Head(wire[conn[w]]) = "post"
  BY <1>3 DEF ReadHeaders
<1>4. CASE wire[conn[w]] # <<"start">> /\ Head(wire[conn[w]]) \notin {"end", "post"}
  <2>1. PICK n \in {1, 2} : Message(w, n, "handle", FALSE) \/ Message(w, n, "remove", FALSE)
    BY <1>4 DEF ReadHeaders
  <2> QED  BY <2>1
<1> QED  BY <1>1, <1>2, <1>3, <1>4

LEMMA TaskHolding ==
  ASSUME Holding, NEW w \in Workers, TaskStep(w)
  PROVE  Holding'
<1> USE ConnectionAssumption DEF Holding, OneHolder, TypeOK
<1>1. CASE Take(w)
  <2>1. /\ fPendingTasks_ # <<>> /\ fPendingTasks_' = Tail(fPendingTasks_)
        /\ pc[w] = "idle" /\ pc' = [pc EXCEPT ![w] = "read"]
        /\ conn' = [conn EXCEPT ![w] = Head(fPendingTasks_)]
        /\ UNCHANGED <<client, waiter, accepted, fInactiveOpenConnections_, fActiveConnections_,
                       interrupted, keepAlive, replies>>
    BY <1>1 DEF Take, Goes
  <2>2. /\ fPendingTasks_ \in Seq(accepted)
        /\ \A i, j \in DOMAIN fPendingTasks_ : fPendingTasks_[i] = fPendingTasks_[j] => i = j
    OBVIOUS
  <2>3. /\ fPendingTasks_' \in Seq(accepted)
        /\ Head(fPendingTasks_) \in Queued
        /\ Queued' = Queued \ {Head(fPendingTasks_)}
        /\ \A i, j \in DOMAIN fPendingTasks_' : fPendingTasks_'[i] = fPendingTasks_'[j] => i = j
    BY ONLY <2>1, <2>2, TailOnce DEF Queued
  <2>4. Queued \subseteq accepted
    BY RangeOfSeq DEF Queued
  <2>5. Head(fPendingTasks_) \in accepted /\ Head(fPendingTasks_) # None
    BY <2>3, <2>4
  <2>6. /\ conn'[w] = Head(fPendingTasks_) /\ pc'[w] = "read" /\ conn[w] = None
        /\ \A v \in Workers \ {w} : conn'[v] = conn[v] /\ pc'[v] = pc[v]
    BY <2>1 DEF Threads, Processing
  <2>7. TypeOK'
    BY <2>1, <2>3, <2>5 DEF client, waiter, replies, Threads, Processing
  <2>8. \A v \in Workers : conn'[v] # None =>
          /\ conn'[v] \notin fInactiveOpenConnections_' \cup Queued' \cup {waiterConn'}
          /\ \A u \in Workers : conn'[u] = conn'[v] => u = v
    <3>1. \A v \in Workers : conn[v] # None =>
            /\ conn[v] \notin fInactiveOpenConnections_ \cup Queued \cup {waiterConn}
            /\ \A u \in Workers : conn[u] = conn[v] => u = v
      OBVIOUS
    <3>2. Head(fPendingTasks_) \notin fInactiveOpenConnections_ \cup {waiterConn}
      BY <2>3
    <3> QED  BY ONLY <2>1, <2>3, <2>6, <3>1, <3>2 DEF waiter
  <2>9. fActiveConnections_' = Queued' \cup {conn'[v] : v \in {u \in Workers : pc'[u] \in Processing}}
                                  \cup (IF waiterAt' = "addTask" THEN {waiterConn'} ELSE {})
    <3>1. {conn'[v] : v \in {u \in Workers : pc'[u] \in Processing}}
            = {conn[v] : v \in {u \in Workers : pc[u] \in Processing}} \cup {Head(fPendingTasks_)}
      <4>1. {u \in Workers : pc'[u] \in Processing} = {u \in Workers : pc[u] \in Processing} \cup {w}
        BY <2>1, <2>6 DEF Processing
      <4>2. w \notin {u \in Workers : pc[u] \in Processing}
        BY <2>1 DEF Processing
      <4> QED  BY ONLY <2>6, <4>1, <4>2
    <3>2. fActiveConnections_ = Queued \cup {conn[v] : v \in {u \in Workers : pc[u] \in Processing}}
                                  \cup (IF waiterAt = "addTask" THEN {waiterConn} ELSE {})
      OBVIOUS
    <3> QED  BY ONLY <2>1, <2>3, <3>1, <3>2 DEF waiter
  <2>10. \A v \in Workers : conn'[v] # None <=> pc'[v] \in Processing \cup {"add", "finish"}
    BY <2>5, <2>6 DEF Processing
  <2>11. CopyKept'
    BY <2>1 DEF CopyKept, waiter
  <2>12. /\ ready' \subseteq fInactiveOpenConnections_'
         /\ waiterConn' # None <=> waiterAt' \in {"activate", "addTask"}
         /\ waiterConn' \notin fInactiveOpenConnections_' \cup Queued'
         /\ fInactiveOpenConnections_' \cap Queued' = {}
    BY <2>1, <2>3 DEF waiter
  <2> QED  BY ONLY <2>3, <2>7, <2>8, <2>9, <2>10, <2>11, <2>12 DEF Holding, OneHolder
<1>2. CASE ReadHeaders(w)
  <2>1. PICK n \in {0, 1, 2}, to \in {"handle", "handlePost", "remove"}, keep \in BOOLEAN :
          Message(w, n, to, keep)
    BY <1>2, Read
  <2>2. pc[w] = "read" /\ conn[w] \in Connections
    BY <2>1 DEF Message, TaskGoes, Goes, Processing
  <2>3. SubSeq(wire[conn[w]], n + 1, Len(wire[conn[w]])) \in Seq(Pieces)
    BY <2>2
  <2> QED
    BY <2>1, <2>2, <2>3, TaskKeeps DEF Message, TaskGoes, Goes, sets, replies, Processing, ResponseStates
<1>3. CASE HandleMessage(w)
  <2>1. PICK from \in {"handle", "handlePost"}, to \in {"end", "body"}, keep \in BOOLEAN, state \in HandlerLeaves :
          /\ TaskGoes(w, from, to, keep) /\ Flush(conn[w], state)
          /\ UNCHANGED <<wire, fInactiveOpenConnections_, fActiveConnections_, conn>>
    BY ONLY <1>3 DEF HandleMessage
  <2>2. fState_' \in [Connections -> ResponseStates] /\ answered' \in [Connections -> Nat]
    <3>1. conn[w] \in Connections
      BY <2>1 DEF TaskGoes, Goes, Processing
    <3> QED  BY <2>1, <3>1, FlushTypes
  <2> QED  BY <2>1, <2>2, TaskKeeps DEF TaskGoes, Goes, sets, Processing
<1>4. CASE GetRequestBody(w)
  <2>1. TaskGoes(w, "body", "end", keepAlive[w])
        /\ UNCHANGED <<fInactiveOpenConnections_, fActiveConnections_, conn, replies>>
        /\ wire[conn[w]] # <<>>
        /\ wire' = [wire EXCEPT ![conn[w]] = IF Head(@) = "body" THEN Tail(@) ELSE @]
    BY <1>4 DEF GetRequestBody
  <2>2. conn[w] \in Connections
    BY <2>1 DEF TaskGoes, Goes, Processing
  <2>3. wire' \in [Connections -> Seq(Pieces)]
    BY <2>1, <2>2
  <2> QED  BY <2>1, <2>3, TaskKeeps DEF TaskGoes, Goes, sets, replies, Processing
<1>5. CASE End(w)
  <2>1. fState_' \in [Connections -> ResponseStates] /\ answered' \in [Connections -> Nat]
    <3>1. conn[w] \in Connections
      BY <1>5 DEF End, TaskGoes, Goes, Processing
    <3> QED  BY <1>5, <3>1, FlushTypes DEF End, ResponseStates
  <2> QED  BY <1>5, <2>1, TaskKeeps DEF End, TaskGoes, Goes, sets, Processing
<1>6. CASE EndThrows(w)
  BY <1>6, TaskKeeps DEF EndThrows, TaskGoes, Goes, sets, replies, Processing
<1>7. CASE RemoveActive(w)
  <2>1. PICK to \in {"add", "finish"} :
          /\ pc[w] = "remove" /\ pc' = [pc EXCEPT ![w] = to]
          /\ keepAlive' = [keepAlive EXCEPT ![w] = FALSE]
          /\ fActiveConnections_' = fActiveConnections_ \ {conn[w]}
          /\ UNCHANGED <<client, accepted, fInactiveOpenConnections_, fPendingTasks_, waiter, interrupted,
                         conn, replies>>
    BY <1>7 DEF RemoveActive, TaskGoes, Goes, client
  <2>2. /\ pc'[w] = to /\ conn[w] # None
        /\ \A v \in Workers \ {w} : pc'[v] = pc[v]
    BY <2>1 DEF Threads, Processing
  <2>3. Queued' = Queued
    BY <2>1 DEF Queued
  <2>4. TypeOK'
    BY <2>1 DEF client, waiter, replies, Threads
  <2>5. {conn'[v] : v \in {u \in Workers : pc'[u] \in Processing}}
          = {conn[v] : v \in {u \in Workers : pc[u] \in Processing}} \ {conn[w]}
    BY <2>1, <2>2 DEF Processing
  <2>6. fActiveConnections_' = Queued' \cup {conn'[v] : v \in {u \in Workers : pc'[u] \in Processing}}
                                  \cup (IF waiterAt' = "addTask" THEN {waiterConn'} ELSE {})
    <3>1. fActiveConnections_ = Queued \cup {conn[v] : v \in {u \in Workers : pc[u] \in Processing}}
                                  \cup (IF waiterAt = "addTask" THEN {waiterConn} ELSE {})
      OBVIOUS
    <3>2. conn[w] \notin Queued \cup {waiterConn}
      BY <2>2
    <3> QED  BY ONLY <2>1, <2>3, <2>5, <3>1, <3>2 DEF waiter
  <2>7. \A v \in Workers : conn'[v] # None <=> pc'[v] \in Processing \cup {"add", "finish"}
    BY <2>1, <2>2 DEF Processing
  <2> QED  BY <2>1, <2>3, <2>4, <2>6, <2>7 DEF waiter, CopyKept
<1>8. CASE AddInactive(w) \/ Finish(w)
  <2>1. /\ pc[w] \in {"add", "finish"}
        /\ \E to \in {"interrupt", "idle"} : pc' = [pc EXCEPT ![w] = to]
        /\ keepAlive' = [keepAlive EXCEPT ![w] = FALSE]
        /\ conn' = [conn EXCEPT ![w] = None]
        /\ fInactiveOpenConnections_' \in {fInactiveOpenConnections_, fInactiveOpenConnections_ \cup {conn[w]}}
        /\ UNCHANGED <<client, accepted, fActiveConnections_, fPendingTasks_, waiter, interrupted>>
    BY <1>8 DEF AddInactive, Finish, TaskGoes, Goes, client
  <2>2. fState_' \in [Connections -> ResponseStates] /\ answered' \in [Connections -> Nat]
    <3>1. CASE AddInactive(w)
      BY <3>1 DEF AddInactive, replies
    <3>2. CASE Finish(w)
      <4>1. conn[w] \in Connections
        BY <2>1
      <4> QED  BY <3>2, <4>1, FlushTypes DEF Finish, ResponseStates
    <3> QED  BY <1>8, <3>1, <3>2
  <2>3. /\ pc'[w] \in {"interrupt", "idle"} /\ conn'[w] = None /\ conn[w] # None
        /\ \A v \in Workers \ {w} : pc'[v] = pc[v] /\ conn'[v] = conn[v]
    BY <2>1 DEF Threads
  <2>4. Queued' = Queued
    BY <2>1 DEF Queued
  <2>5. TypeOK'
    BY <2>1, <2>2, <2>3 DEF client, waiter, Threads
  <2>6. {conn'[v] : v \in {u \in Workers : pc'[u] \in Processing}}
          = {conn[v] : v \in {u \in Workers : pc[u] \in Processing}}
    <3>1. \A v \in Workers : /\ pc'[v] \in Processing <=> pc[v] \in Processing
                             /\ pc[v] \in Processing => conn'[v] = conn[v]
      BY ONLY <2>1, <2>3 DEF Processing
    <3> QED  BY ONLY <3>1
  <2>7. \A v \in Workers : conn'[v] # None <=> pc'[v] \in Processing \cup {"add", "finish"}
    BY <2>3 DEF Processing
  <2>8. \A v \in Workers : conn'[v] # None =>
          /\ conn'[v] \notin fInactiveOpenConnections_' \cup Queued' \cup {waiterConn'}
          /\ \A u \in Workers : conn'[u] = conn'[v] => u = v
    BY <2>1, <2>3, <2>4 DEF waiter
  <2>9. fInactiveOpenConnections_' \cap Queued' = {} /\ waiterConn' \notin fInactiveOpenConnections_' \cup Queued'
    BY <2>1, <2>3, <2>4 DEF waiter
  <2> QED  BY <2>1, <2>4, <2>5, <2>6, <2>7, <2>8, <2>9 DEF waiter, CopyKept
<1> QED  BY <1>1, <1>2, <1>3, <1>4, <1>5, <1>6, <1>7, <1>8 DEF TaskStep

LEMMA HoldingAlways == Spec => []Holding
<1>1. Init => Holding
  <2> SUFFICES ASSUME Init PROVE Holding
    OBVIOUS
  <2>1. Queued = {}
    BY DEF Init, Queued, Range
  <2>2. TypeOK
    BY EmptySeq DEF Init, TypeOK, ResponseStates, Threads
  <2> QED  BY <2>1, <2>2 DEF Init, Holding, OneHolder, CopyKept, Processing, Threads
<1>2. Holding /\ [Next]_vars => Holding'
  <2> SUFFICES ASSUME Holding, [Next]_vars PROVE Holding'
    OBVIOUS
  <2>1. CASE Next
    BY <2>1, ClientHolding, ListenerHolding, WakesHolding, WaiterHolding, TaskHolding DEF Next
  <2>2. CASE UNCHANGED vars
    <3>1. TypeOK'
      BY <2>2 DEF vars, client, sets, waiter, workers, replies, Holding, OneHolder, TypeOK
    <3> QED  BY <2>2, <3>1 DEF vars, client, sets, waiter, workers, replies, Holding, OneHolder, CopyKept, Queued
  <2> QED  BY <2>1, <2>2
<1> QED  BY <1>1, <1>2, PTL DEF Spec

(***************************************************************************)
(* A connection is inactive, or in the hands of the polling thread, or in  *)
(* one task, queued or begun, and never in two; and what the poll found    *)
(* ready in its copy is inactive still when it is taken                    *)
(* (WaitForReadyConnectionLoop_ and the task in ConnectionManager.cpp).    *)
(***************************************************************************)
THEOREM OneHolderAlways == Spec => []OneHolder
<1>1. Holding => OneHolder
  BY DEF Holding
<1> QED  BY <1>1, HoldingAlways, PTL
=============================================================================
