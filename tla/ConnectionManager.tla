------------------------- MODULE ConnectionManager -------------------------
(***************************************************************************)
(* WebServer::ConnectionManager and the Connections it serves.             *)
(*                                                                         *)
(* The listener's thread accepts connections; one thread polls those that  *)
(* are inactive and gives the readable ones to the thread pool, as tasks;  *)
(* a task reads and answers one message and either gives the connection    *)
(* back to be polled or is through with it.  Whoever adds an inactive      *)
(* connection interrupts the polling thread, so that it looks again.  The  *)
(* interruption is a flag, which the polling thread tests before and after *)
(* each system call, and a signal, which ends a system call it is in.      *)
(*                                                                         *)
(* The pool is what TaskQueue says of it: tasks begin in the order they    *)
(* were added.  What clients send is abstracted to pieces: a request, one  *)
(* whose body follows, the two parts of a request split between two lines  *)
(* of its header, a body, and the end of the stream.                       *)
(***************************************************************************)
EXTENDS SequencesExt

CONSTANTS
  Connections,
  Workers,           \* the threads of fActiveConnectionThreads_
  Listener,          \* the thread of fListener_
  None,
  HandlerLeaves,     \* the response states that interceptors may leave
  Sends,             \* Sends[c]: how the requests of each client begin
  MaxRequests        \* MaxRequests[c]: bound on their number

Pieces == {"request", "post", "start", "rest", "body", "end"}

ResponseStates == {"eInProgress", "eInProgressHeaderSentState", "eCompleted"}

ASSUME ConnectionAssumption ==
  /\ None \notin Connections \cup Pieces
  /\ Listener \notin Workers
  /\ HandlerLeaves \subseteq ResponseStates
  /\ Sends \in [Connections -> SUBSET {"request", "post", "start"}]
  /\ MaxRequests \in [Connections -> Nat]

VARIABLES
  wire,           \* what each client has sent and nobody has read
  owes,           \* what is still to come of the request it is sending
  asked,          \* number of requests it has sent
  accepted,       \* connections that have been accepted
  fInactiveOpenConnections_,
  fActiveConnections_,
  fPendingTasks_, \* of the pool: the connection of each task
  waiterAt,       \* where the polling thread is
  seeIfReady, ready, waiterConn,  \* its locals: connections polled, found readable, in hand
  interrupted,    \* its interruption flag is eInterrupted
  pc,             \* of the workers and the listener
  conn, keepAlive,  \* locals of the task of each worker
  fState_,        \* of the response to the last message of each connection
  answered        \* number of response headers sent on each connection

client == <<wire, owes, asked>>
waiter == <<waiterAt, seeIfReady, ready, waiterConn>>
sets == <<accepted, fInactiveOpenConnections_, fActiveConnections_, fPendingTasks_>>
workers == <<pc, conn, keepAlive>>
replies == <<fState_, answered>>

vars == <<client, sets, waiter, interrupted, workers, replies>>

Threads == Workers \cup {Listener}

Init ==
  /\ wire = [c \in Connections |-> <<>>]
  /\ owes = [c \in Connections |-> None]
  /\ asked = [c \in Connections |-> 0]
  /\ accepted = {}
  /\ fInactiveOpenConnections_ = {}
  /\ fActiveConnections_ = {}
  /\ fPendingTasks_ = <<>>
  /\ waiterAt = "top"
  /\ seeIfReady = {} /\ ready = {} /\ waiterConn = None
  /\ interrupted = FALSE
  /\ pc = [t \in Threads |-> "idle"]
  /\ conn = [w \in Workers |-> None]
  /\ keepAlive = [w \in Workers |-> FALSE]
  /\ fState_ = [c \in Connections |-> "eCompleted"]
  /\ answered = [c \in Connections |-> 0]

-----------------------------------------------------------------------------
(* The clients *)

HungUp(c) == Contains(wire[c], "end")

Send(c, piece, next) ==
  /\ ~HungUp(c)
  /\ wire' = [wire EXCEPT ![c] = Append(@, piece)]
  /\ owes' = [owes EXCEPT ![c] = next]
  /\ asked' = [asked EXCEPT ![c] = IF piece \in {"request", "post", "rest"} THEN @ + 1 ELSE @]
  /\ UNCHANGED <<sets, waiter, interrupted, workers, replies>>

Begin(c) ==
  /\ owes[c] = None
  /\ asked[c] < MaxRequests[c]
  /\ \E piece \in Sends[c] :
       Send(c, piece, CASE piece = "request" -> None [] piece = "post" -> "body" [] piece = "start" -> "rest")

Complete(c) == owes[c] # None /\ Send(c, owes[c], None)

HangUp(c) == Send(c, "end", None)

-----------------------------------------------------------------------------
(* Connections come and go *)

Goes(t, from, to) ==
  /\ pc[t] = from
  /\ pc' = [pc EXCEPT ![t] = to]

onConnect_(c) ==
  /\ c \notin accepted
  /\ Goes(Listener, "idle", "interrupt")
  /\ accepted' = accepted \cup {c}
  /\ fInactiveOpenConnections_' = fInactiveOpenConnections_ \cup {c}
  /\ UNCHANGED <<client, waiter, fActiveConnections_, fPendingTasks_, interrupted, conn, keepAlive, replies>>

Interrupt(t) ==
  /\ Goes(t, "interrupt", "signal")
  /\ interrupted' = TRUE
  /\ UNCHANGED <<client, sets, waiter, conn, keepAlive, replies>>

\* Not sent when the flag is seen to be clear again; handled to no effect outside a system call.
Signal(t) ==
  /\ Goes(t, "signal", "idle")
  /\ \/ /\ waiterAt = "asleep"
        /\ waiterAt' = "woken"
     \/ /\ waiterAt # "asleep" \/ ~interrupted
        /\ UNCHANGED waiterAt
  /\ UNCHANGED <<client, sets, seeIfReady, ready, waiterConn, interrupted, conn, keepAlive, replies>>

-----------------------------------------------------------------------------
(* WaitForReadyConnectionLoop_ *)

\* Mutant: the loop goes on with the copy it has.
InterruptedWithOldCopy ==
  /\ waiterAt \in {"top", "enter", "woken"}
  /\ interrupted
  /\ interrupted' = FALSE
  /\ waiterAt' = (IF waiterAt = "top" THEN "top" ELSE "enter") /\ ready' = {}
  /\ UNCHANGED <<client, sets, seeIfReady, waiterConn, workers, replies>>

\* CheckForThreadInterruption throws, and the loop begins again.
Interrupted ==
  /\ waiterAt \in {"top", "enter", "woken"}
  /\ interrupted
  /\ interrupted' = FALSE
  /\ waiterAt' = "top" /\ seeIfReady' = {} /\ ready' = {}
  /\ UNCHANGED <<client, sets, waiterConn, workers, replies>>

WaiterGoes(from, to) ==
  /\ waiterAt = from
  /\ waiterAt' = to
  /\ UNCHANGED <<client, accepted, interrupted, workers, replies>>

NotInterrupted ==
  \/ WaiterGoes("top", "copy")
  \/ WaiterGoes("enter", "block")
  \/ WaiterGoes("woken", IF ready = {} THEN "enter" ELSE "dispatch")

Checked ==
  /\ ~interrupted
  /\ NotInterrupted
  /\ UNCHANGED <<sets, seeIfReady, ready, waiterConn>>

Copy ==
  /\ WaiterGoes("copy", "enter")
  /\ seeIfReady' = fInactiveOpenConnections_
  /\ UNCHANGED <<sets, ready, waiterConn>>

Readable == {c \in seeIfReady : wire[c] # <<>>}

\* poll, whose timeout of INT_MAX milliseconds (infinity, rounded) is taken never to
\* come; or nanosleep, when there is nothing to poll.
Block ==
  /\ Readable = {}
  /\ WaiterGoes("block", "asleep")
  /\ UNCHANGED <<sets, seeIfReady, ready, waiterConn>>

PollReturns ==
  /\ Readable # {}
  /\ WaiterGoes("block", "woken") \/ WaiterGoes("asleep", "woken")
  /\ ready' = Readable
  /\ UNCHANGED <<sets, seeIfReady, waiterConn>>

\* After two hours.
SleepReturns ==
  /\ seeIfReady = {}
  /\ WaiterGoes("asleep", "top")
  /\ UNCHANGED <<sets, seeIfReady, ready, waiterConn>>

\* Mutant: it stays among the inactive ones.
RemoveNothing(c) ==
  /\ c \in ready
  /\ WaiterGoes("dispatch", "activate")
  /\ waiterConn' = c
  /\ ready' = ready \ {c}
  /\ UNCHANGED <<fInactiveOpenConnections_, fActiveConnections_, fPendingTasks_, seeIfReady>>

\* Removed, added and given to the pool in three critical sections, interruptions suppressed.
RemoveInactive(c) ==
  /\ c \in ready
  /\ WaiterGoes("dispatch", "activate")
  /\ waiterConn' = c
  /\ ready' = ready \ {c}
  /\ fInactiveOpenConnections_' = fInactiveOpenConnections_ \ {c}
  /\ UNCHANGED <<fActiveConnections_, fPendingTasks_, seeIfReady>>

Activate ==
  /\ WaiterGoes("activate", "addTask")
  /\ fActiveConnections_' = fActiveConnections_ \cup {waiterConn}
  /\ UNCHANGED <<fInactiveOpenConnections_, fPendingTasks_, seeIfReady, ready, waiterConn>>

AddTask ==
  /\ WaiterGoes("addTask", "dispatch")
  /\ fPendingTasks_' = Append(fPendingTasks_, waiterConn)
  /\ waiterConn' = None
  /\ UNCHANGED <<fInactiveOpenConnections_, fActiveConnections_, seeIfReady, ready>>

Dispatched ==
  /\ ready = {}
  /\ WaiterGoes("dispatch", "top")
  /\ seeIfReady' = {}
  /\ UNCHANGED <<sets, ready, waiterConn>>

-----------------------------------------------------------------------------
(* A task: ReadAndProcessMessage, and what the lambda does with its result *)

Take(w) ==
  /\ fPendingTasks_ # <<>>
  /\ Goes(w, "idle", "read")
  /\ conn' = [conn EXCEPT ![w] = Head(fPendingTasks_)]
  /\ fPendingTasks_' = Tail(fPendingTasks_)
  /\ UNCHANGED <<client, waiter, accepted, fInactiveOpenConnections_, fActiveConnections_,
                 interrupted, keepAlive, replies>>

TaskGoes(w, from, to, keep) ==
  /\ Goes(w, from, to)
  /\ keepAlive' = [keepAlive EXCEPT ![w] = keep]
  /\ UNCHANGED <<owes, asked, accepted, fPendingTasks_, waiter, interrupted>>

\* A new message takes n pieces off the wire; the one before it is forgotten.
Message(w, n, to, keep) ==
  /\ TaskGoes(w, "read", to, keep)
  /\ wire' = [wire EXCEPT ![conn[w]] = SubSeq(@, n + 1, Len(@))]
  /\ fState_' = [fState_ EXCEPT ![conn[w]] = "eInProgress"]
  /\ UNCHANGED <<fInactiveOpenConnections_, fActiveConnections_, conn, answered>>

\* The part of a header that was read is lost with its message: the rest may be refused, or
\* taken for a header.  So may a header that the end of the stream cuts short.
ReadHeaders(w) ==
  LET unread == wire[conn[w]]
      length == IF IsPrefix(<<"start", "rest">>, unread) THEN 2 ELSE 1
  IN /\ pc[w] = "read"
     /\ CASE unread = <<"start">>  -> Message(w, 1, "remove", TRUE)   \* eIncompleteButMoreMayBeAvailable
          [] Head(unread) = "end"  -> Message(w, 0, "remove", FALSE)  \* eIncompleteDeadEnd
          [] Head(unread) = "post" -> \/ Message(w, 1, "handlePost", FALSE)
                                      \/ Message(w, 1, "remove", FALSE)
          [] OTHER                 -> \/ Message(w, length, "handle", FALSE)
                                      \/ Message(w, length, "remove", FALSE)

\* Flush sends the headers, once, and so do End and Redirect, which call it.
Flush(c, state) ==
  /\ fState_' = [fState_ EXCEPT ![c] = state]
  /\ answered' = IF fState_[c] = "eInProgress" /\ state # "eInProgress"
                   THEN [answered EXCEPT ![c] = @ + 1] ELSE answered

\* Whether to keep the connection is for the headers and the limits on it to say.
HandleMessage(w) ==
  \E keep \in BOOLEAN, state \in HandlerLeaves :
    /\ \/ TaskGoes(w, "handle", "end", keep)
       \/ TaskGoes(w, "handlePost", IF keep THEN "body" ELSE "end", keep)
    /\ Flush(conn[w], state)
    /\ UNCHANGED <<wire, fInactiveOpenConnections_, fActiveConnections_, conn>>

\* Blocks the worker until the client has sent the body, or the end.
GetRequestBody(w) ==
  /\ TaskGoes(w, "body", "end", keepAlive[w])
  /\ wire[conn[w]] # <<>>
  /\ wire' = [wire EXCEPT ![conn[w]] = IF Head(@) = "body" THEN Tail(@) ELSE @]
  /\ UNCHANGED <<fInactiveOpenConnections_, fActiveConnections_, conn, replies>>

End(w) ==
  /\ TaskGoes(w, "end", "remove", keepAlive[w])
  /\ Flush(conn[w], "eCompleted")
  /\ UNCHANGED <<wire, fInactiveOpenConnections_, fActiveConnections_, conn>>

EndThrows(w) ==
  /\ TaskGoes(w, "end", "remove", FALSE)
  /\ HungUp(conn[w])
  /\ UNCHANGED <<wire, fInactiveOpenConnections_, fActiveConnections_, conn, replies>>

RemoveActive(w) ==
  /\ TaskGoes(w, "remove", IF keepAlive[w] THEN "add" ELSE "finish", FALSE)
  /\ fActiveConnections_' = fActiveConnections_ \ {conn[w]}
  /\ UNCHANGED <<wire, fInactiveOpenConnections_, conn, replies>>

\* Mutant: nobody is told.
AddInactiveQuietly(w) ==
  /\ TaskGoes(w, "add", "idle", FALSE)
  /\ fInactiveOpenConnections_' = fInactiveOpenConnections_ \cup {conn[w]}
  /\ conn' = [conn EXCEPT ![w] = None]
  /\ UNCHANGED <<wire, fActiveConnections_, replies>>

AddInactive(w) ==
  /\ TaskGoes(w, "add", "interrupt", FALSE)
  /\ fInactiveOpenConnections_' = fInactiveOpenConnections_ \cup {conn[w]}
  /\ conn' = [conn EXCEPT ![w] = None]
  /\ UNCHANGED <<wire, fActiveConnections_, replies>>

\* Mutant: without the test of the response's state, and with a second Flush of its headers.
FinishAgain(w) ==
  /\ TaskGoes(w, "finish", "idle", FALSE)
  /\ fState_' = [fState_ EXCEPT ![conn[w]] = "eCompleted"]
  /\ answered' = [answered EXCEPT ![conn[w]] = @ + 1]
  /\ conn' = [conn EXCEPT ![w] = None]
  /\ UNCHANGED <<wire, fInactiveOpenConnections_, fActiveConnections_>>

\* A response that is not completed is ended; the last holder of the connection closes it.
Finish(w) ==
  /\ TaskGoes(w, "finish", "idle", FALSE)
  /\ Flush(conn[w], "eCompleted")
  /\ conn' = [conn EXCEPT ![w] = None]
  /\ UNCHANGED <<wire, fInactiveOpenConnections_, fActiveConnections_>>

-----------------------------------------------------------------------------
Client(c) == Begin(c) \/ Complete(c) \/ HangUp(c)

Wakes(t) == Interrupt(t) \/ Signal(t)

WaiterStep ==
  \/ Interrupted \/ Checked \/ Copy \/ Block \/ PollReturns
  \/ (\E c \in Connections : RemoveInactive(c)) \/ Activate \/ AddTask \/ Dispatched

TaskStep(w) ==
  \/ Take(w) \/ ReadHeaders(w) \/ HandleMessage(w) \/ GetRequestBody(w) \/ End(w) \/ EndThrows(w)
  \/ RemoveActive(w) \/ AddInactive(w) \/ Finish(w)

Next ==
  \/ \E c \in Connections : Client(c) \/ onConnect_(c)
  \/ \E t \in Threads : Wakes(t)
  \/ \E w \in Workers : TaskStep(w)
  \/ WaiterStep
  \/ SleepReturns

Spec == Init /\ [][Next]_vars

\* The threads go on and interceptors return; the clients owe nothing.
FairSpec ==
  /\ Spec
  /\ WF_vars(WaiterStep)
  /\ WF_vars(SleepReturns)
  /\ \A t \in Threads : WF_vars(Wakes(t))
  /\ \A w \in Workers : WF_vars(TaskStep(w))

-----------------------------------------------------------------------------
Queued == Range(fPendingTasks_)

Processing == {"read", "handle", "handlePost", "body", "end", "remove"}

Held == fInactiveOpenConnections_ \cup Queued \cup (({waiterConn} \cup Range(conn)) \ {None})

TypeOK ==
  /\ wire \in [Connections -> Seq(Pieces)]
  /\ owes \in [Connections -> {None, "rest", "body"}]
  /\ asked \in [Connections -> Nat]
  /\ accepted \subseteq Connections
  /\ fInactiveOpenConnections_ \subseteq accepted
  /\ fActiveConnections_ \subseteq accepted
  /\ fPendingTasks_ \in Seq(accepted)
  /\ waiterAt \in {"top", "copy", "enter", "block", "asleep", "woken", "dispatch", "activate", "addTask"}
  /\ seeIfReady \subseteq accepted
  /\ waiterConn \in accepted \cup {None}
  /\ interrupted \in BOOLEAN
  /\ pc \in [Threads -> Processing \cup {"idle", "add", "finish", "interrupt", "signal"}]
  /\ conn \in [Workers -> accepted \cup {None}]
  /\ keepAlive \in [Workers -> BOOLEAN]
  /\ fState_ \in [Connections -> ResponseStates]
  /\ answered \in [Connections -> Nat]

(***************************************************************************)
(* A connection is with one actor: inactive, or in the polling thread's    *)
(* hands, or in one task, queued or begun, and then never in two; what the *)
(* poll found ready, from a copy, is inactive still when it is taken; and  *)
(* the active connections are those of the tasks.                          *)
(***************************************************************************)
OneHolder ==
  /\ TypeOK
  /\ ready \subseteq fInactiveOpenConnections_
  /\ waiterConn # None <=> waiterAt \in {"activate", "addTask"}
  /\ \A w \in Workers : conn[w] # None <=> pc[w] \in Processing \cup {"add", "finish"}
  /\ waiterConn \notin fInactiveOpenConnections_ \cup Queued
  /\ fInactiveOpenConnections_ \cap Queued = {}
  /\ \A i, j \in DOMAIN fPendingTasks_ : fPendingTasks_[i] = fPendingTasks_[j] => i = j
  /\ \A w \in Workers : conn[w] # None =>
       /\ conn[w] \notin fInactiveOpenConnections_ \cup Queued \cup {waiterConn}
       /\ \A v \in Workers : conn[v] = conn[w] => v = w
  /\ fActiveConnections_ = Queued \cup {conn[w] : w \in {v \in Workers : pc[v] \in Processing}}
                             \cup (IF waiterAt = "addTask" THEN {waiterConn} ELSE {})

(***************************************************************************)
(* While the polling thread waits without an inactive connection among     *)
(* those it polls, its interruption flag is set or about to be.            *)
(***************************************************************************)
WakeupOwed ==
  waiterAt \in {"enter", "block", "asleep", "woken"} /\ ~(fInactiveOpenConnections_ \subseteq seeIfReady)
    => interrupted \/ \E t \in Threads : pc[t] = "interrupt"

(***************************************************************************)
(* Each client has at most one reply for each request, from a task at a    *)
(* time, until the server is through with it.                              *)
(***************************************************************************)
Replies == INSTANCE RequestReply WITH
  hungUp <- {c \in Connections : HungUp(c)},
  over <- accepted \ Held

RepliesSpec == Replies!Spec

\* A poll, and an interruption whose signal came before it.
SleptThrough(c) ==
  waiterAt = "asleep" /\ interrupted /\ seeIfReady # {} /\ c \notin seeIfReady

(***************************************************************************)
(* What a client sends on an inactive connection is read, except when the  *)
(* polling thread sleeps through its interruption, or every worker waits   *)
(* for the body of a request.                                              *)
(***************************************************************************)
ReadInTheEnd ==
  \A c \in Connections :
    c \in fInactiveOpenConnections_ /\ wire[c] # <<>>
      ~> \/ \E w \in Workers : conn[w] = c /\ pc[w] # "read"
         \/ SleptThrough(c)
         \/ \A w \in Workers : pc[w] = "body"

\* "This will wake up early if another thread adds an inactive connection": it does not when
\* the interruption comes between the test of the flag and the system call; nothing but
\* something to read on another connection ends the poll then, or, after 24.8 days, its
\* timeout.
WakesUpEarly ==
  \A c \in Connections :
    c \in fInactiveOpenConnections_ /\ wire[c] # <<>> ~> c \notin fInactiveOpenConnections_
=============================================================================
