---------------------------- MODULE RequestReply ----------------------------
(***************************************************************************)
(* What the clients of a web server see, each on a connection of its own:  *)
(* at most one reply for each request, and none once the server is through *)
(* with the connection.  A client that has hung up may be sent anything.   *)
(***************************************************************************)
EXTENDS Naturals

CONSTANT Connections

VARIABLES
  asked, answered,  \* requests sent, replies begun, on each connection
  hungUp,           \* connections whose client sends no more
  over              \* connections the server is through with

vars == <<asked, answered, hungUp, over>>

Init ==
  /\ asked = [c \in Connections |-> 0]
  /\ answered = [c \in Connections |-> 0]
  /\ hungUp = {}
  /\ over = {}

Ask(c) ==
  /\ c \notin hungUp
  /\ asked' = [asked EXCEPT ![c] = @ + 1]
  /\ UNCHANGED <<answered, hungUp, over>>

HangUp(c) ==
  /\ hungUp' = hungUp \cup {c}
  /\ UNCHANGED <<asked, answered, over>>

Answer(c) ==
  /\ c \notin over
  /\ answered[c] < asked[c] \/ c \in hungUp
  /\ answered' = [answered EXCEPT ![c] = @ + 1]
  /\ UNCHANGED <<asked, hungUp, over>>

\* The last reply may be what ends it.
GiveUp(c) ==
  /\ c \notin over
  /\ over' = over \cup {c}
  /\ \/ UNCHANGED answered
     \/ /\ answered[c] < asked[c] \/ c \in hungUp
        /\ answered' = [answered EXCEPT ![c] = @ + 1]
  /\ UNCHANGED <<asked, hungUp>>

Next == \E c \in Connections : Ask(c) \/ HangUp(c) \/ Answer(c) \/ GiveUp(c)

Spec == Init /\ [][Next]_vars
=============================================================================
