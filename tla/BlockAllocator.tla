--------------------------- MODULE BlockAllocator ---------------------------
(***************************************************************************)
(* Memory::Private_::BlockAllocationPool_<SIZE>, in the lock-free form that *)
(* the build uses, as BlockAllocator<T> calls it.                          *)
(*                                                                         *)
(* The free blocks are a linked list threaded through the blocks           *)
(* themselves.  A thread that exchanges sHeadLink_ for kLockedSentinal_    *)
(* and gets anything else has the list to itself until it exchanges a head *)
(* back; one that gets the sentinel yields and tries again.  An empty list *)
(* is refilled from malloc, a chunk of adjacent blocks at a time; malloc   *)
(* may fail.                                                               *)
(***************************************************************************)
EXTENDS Naturals, Sequences, FiniteSets

CONSTANTS
  Threads,
  Blocks,            \* the addresses of blocks
  Chunks,            \* what the successive mallocs return: the blocks of each, in order
  nullptr, kLockedSentinal_,
  Junk               \* what the user of a block leaves in its first word

ASSUME BlockAssumption ==
  /\ Chunks \in Seq(Seq(Blocks) \ {<<>>})
  /\ \A c, d \in DOMAIN Chunks : \A i \in DOMAIN Chunks[c], j \in DOMAIN Chunks[d] :
       Chunks[c][i] = Chunks[d][j] => c = d /\ i = j
  /\ nullptr \notin Blocks
  /\ kLockedSentinal_ \notin Blocks \cup {nullptr}
  /\ Junk \notin Blocks \cup {nullptr}

VARIABLES
  sHeadLink_,
  link,      \* the first word of each block
  mallocs,   \* how many chunks malloc has given
  users,     \* how many have been given each block and have not given it back
  pc,
  p,         \* the block each thread is taking, or giving back
  next,      \* what it will exchange back (Allocate: next; Deallocate: newHead)
  exhausted  \* malloc has failed

vars == <<sHeadLink_, link, mallocs, users, pc, p, next, exhausted>>

Pointers == Blocks \cup {nullptr}

Places == {"idle", "allocate", "take", "allocated", "deallocate", "push", "deallocated"}

TypeOK ==
  /\ sHeadLink_ \in Pointers \cup {kLockedSentinal_}
  /\ link \in [Blocks -> Pointers \cup {Junk}]
  /\ mallocs \in 0 .. Len(Chunks)
  /\ users \in [Blocks -> Nat]
  /\ pc \in [Threads -> Places]
  /\ p \in [Threads -> Pointers]
  /\ next \in [Threads -> Pointers]
  /\ exhausted \in BOOLEAN

Init ==
  /\ sHeadLink_ = nullptr
  /\ link = [b \in Blocks |-> Junk]
  /\ mallocs = 0
  /\ users = [b \in Blocks |-> 0]
  /\ pc = [t \in Threads |-> "idle"]
  /\ p = [t \in Threads |-> nullptr]
  /\ next = [t \in Threads |-> nullptr]
  /\ exhausted = FALSE

Goes(t, from, to) ==
  /\ pc[t] = from
  /\ pc' = [pc EXCEPT ![t] = to]

\* The call ends, and with it its locals.
Returns(t, from) ==
  /\ Goes(t, from, "idle")
  /\ p' = [p EXCEPT ![t] = nullptr]
  /\ next' = [next EXCEPT ![t] = nullptr]

-----------------------------------------------------------------------------
(* Allocate *)

Allocate(t) ==
  /\ Goes(t, "idle", "allocate")
  /\ UNCHANGED <<sHeadLink_, link, mallocs, users, p, next, exhausted>>

\* An exchange that gets the sentinel changes nothing: the thread yields and tries again.
AllocateExchange(t) ==
  /\ sHeadLink_ # kLockedSentinal_
  /\ Goes(t, "allocate", "take")
  /\ p' = [p EXCEPT ![t] = sHeadLink_]
  /\ sHeadLink_' = kLockedSentinal_
  /\ UNCHANGED <<link, mallocs, users, next, exhausted>>

\* Mutant: the loop ends one block early.
GetMemShort(t) ==
  /\ pc[t] = "take"
  /\ p[t] = nullptr
  /\ mallocs < Len(Chunks)
  /\ LET chunk == Chunks[mallocs + 1]
         Linked(b, c) == \E i \in 1 .. Len(chunk) - 2 : b = chunk[i] /\ c = chunk[i + 1]
     IN /\ p' = [p EXCEPT ![t] = chunk[1]]
        /\ link' = [b \in Blocks |->
             IF \E c \in Blocks : Linked(b, c) THEN CHOOSE c \in Blocks : Linked(b, c)
             ELSE IF \E i \in DOMAIN chunk : b = chunk[i] THEN nullptr ELSE link[b]]
  /\ mallocs' = mallocs + 1
  /\ UNCHANGED <<sHeadLink_, users, pc, next, exhausted>>

\* Each block of the chunk is linked to the one after it, the last to none.
GetMem_Util_(t) ==
  /\ pc[t] = "take"
  /\ p[t] = nullptr
  /\ mallocs < Len(Chunks)
  /\ LET chunk == Chunks[mallocs + 1]
         Linked(b, c) == \E i \in 1 .. Len(chunk) - 1 : b = chunk[i] /\ c = chunk[i + 1]
     IN /\ p' = [p EXCEPT ![t] = chunk[1]]
        /\ link' = [b \in Blocks |->
             IF \E c \in Blocks : Linked(b, c) THEN CHOOSE c \in Blocks : Linked(b, c)
             ELSE IF b = chunk[Len(chunk)] THEN nullptr ELSE link[b]]
  /\ mallocs' = mallocs + 1
  /\ UNCHANGED <<sHeadLink_, users, pc, next, exhausted>>

\* ThrowIfNull throws bad_alloc; nothing puts a head back.
MallocFails(t) ==
  /\ p[t] = nullptr
  /\ mallocs = Len(Chunks)
  /\ Returns(t, "take")
  /\ exhausted' = TRUE
  /\ UNCHANGED <<sHeadLink_, link, mallocs, users>>

LoadNext(t) ==
  /\ p[t] # nullptr
  /\ Goes(t, "take", "allocated")
  /\ next' = [next EXCEPT ![t] = link[p[t]]]
  /\ UNCHANGED <<sHeadLink_, link, mallocs, users, p, exhausted>>

\* Mutant: the block given out stays the head.
AllocateKeepsHead(t) ==
  /\ Returns(t, "allocated")
  /\ sHeadLink_' = p[t]
  /\ users' = [users EXCEPT ![p[t]] = @ + 1]
  /\ UNCHANGED <<link, mallocs, exhausted>>

AllocateReturns(t) ==
  /\ Returns(t, "allocated")
  /\ sHeadLink_' = next[t]
  /\ users' = [users EXCEPT ![p[t]] = @ + 1]
  /\ UNCHANGED <<link, mallocs, exhausted>>

\* The user writes over the word that was the link.
Use(b) ==
  /\ users[b] > 0
  /\ link[b] # Junk
  /\ link' = [link EXCEPT ![b] = Junk]
  /\ UNCHANGED <<sHeadLink_, mallocs, users, pc, p, next, exhausted>>

-----------------------------------------------------------------------------
(* Deallocate, by any thread the block was handed to *)

Deallocate(t, b) ==
  /\ users[b] > 0
  /\ Goes(t, "idle", "deallocate")
  /\ p' = [p EXCEPT ![t] = b]
  /\ users' = [users EXCEPT ![b] = @ - 1]
  /\ UNCHANGED <<sHeadLink_, link, mallocs, next, exhausted>>

\* Mutant: the head is loaded, not exchanged for the sentinel.
DeallocateLoad(t) ==
  /\ sHeadLink_ # kLockedSentinal_
  /\ Goes(t, "deallocate", "push")
  /\ next' = [next EXCEPT ![t] = sHeadLink_]
  /\ UNCHANGED <<sHeadLink_, link, mallocs, users, p, exhausted>>

DeallocateExchange(t) ==
  /\ sHeadLink_ # kLockedSentinal_
  /\ Goes(t, "deallocate", "push")
  /\ next' = [next EXCEPT ![t] = sHeadLink_]
  /\ sHeadLink_' = kLockedSentinal_
  /\ UNCHANGED <<link, mallocs, users, p, exhausted>>

Push(t) ==
  /\ Goes(t, "push", "deallocated")
  /\ link' = [link EXCEPT ![p[t]] = next[t]]
  /\ next' = [next EXCEPT ![t] = p[t]]
  /\ UNCHANGED <<sHeadLink_, mallocs, users, p, exhausted>>

\* Mutant: returns with the sentinel still there.
DeallocateLeavesSentinel(t) ==
  /\ Returns(t, "deallocated")
  /\ UNCHANGED <<sHeadLink_, link, mallocs, users, exhausted>>

DeallocateReturns(t) ==
  /\ Returns(t, "deallocated")
  /\ sHeadLink_' = next[t]
  /\ UNCHANGED <<link, mallocs, users, exhausted>>

-----------------------------------------------------------------------------
Step(t) ==
  \/ AllocateExchange(t) \/ GetMem_Util_(t) \/ MallocFails(t) \/ LoadNext(t) \/ AllocateReturns(t)
  \/ DeallocateExchange(t) \/ Push(t) \/ DeallocateReturns(t)

Next ==
  \/ \E t \in Threads : Allocate(t) \/ Step(t)
  \/ \E t \in Threads, b \in Blocks : Deallocate(t, b)
  \/ \E b \in Blocks : Use(b)

Spec == Init /\ [][Next]_vars

\* A thread in a call goes on; which of those that spin is next is left open.
FairSpec == Spec /\ \A t \in Threads : WF_vars(Step(t))

-----------------------------------------------------------------------------
HoldsList(t) == pc[t] \in {"take", "allocated", "push", "deallocated"}

HoldsBlock(t) == pc[t] \in {"allocated", "deallocate", "push"}

Given == {b \in Blocks : \E c \in 1 .. mallocs : \E i \in DOMAIN Chunks[c] : Chunks[c][i] = b}

\* Given by malloc, and neither with a user nor on the way to or from one.
Free == {b \in Given : users[b] = 0 /\ \A t \in Threads : HoldsBlock(t) => b # p[t]}

\* Where the list begins: in the head or, while that is the sentinel, with the thread that put it there.
Tops ==
  ({sHeadLink_} \ {kLockedSentinal_})
    \cup {IF pc[t] = "take" THEN p[t] ELSE next[t] : t \in {u \in Threads : HoldsList(u)}}

OneHolder ==
  /\ \A t, u \in Threads : HoldsList(t) /\ HoldsList(u) => t = u
  /\ \A t \in Threads : HoldsList(t) => sHeadLink_ = kLockedSentinal_

OneOwner ==
  /\ \A b \in Blocks : users[b] <= IF b \in Given THEN 1 ELSE 0
  /\ \A t \in Threads : HoldsBlock(t) => p[t] \in Given /\ users[p[t]] = 0
  /\ \A t, u \in Threads : HoldsBlock(t) /\ HoldsBlock(u) /\ p[t] = p[u] => t = u

OneList ==
  /\ Tops \subseteq Free \cup {nullptr}
  /\ \A b \in Free : link[b] \in (Free \ Tops) \cup {nullptr}
  /\ \A b, c \in Free : link[b] = link[c] /\ link[b] # nullptr => b = c

(***************************************************************************)
(* One thread at a time has the list, as the Verifys of the second         *)
(* exchange say; a block is with one user or thread at most, or in the     *)
(* list; and the list is one: no two free blocks, and no block beside the  *)
(* head, lead to the same one.                                             *)
(***************************************************************************)
ListSound == TypeOK /\ OneHolder /\ OneOwner /\ OneList

\* A walk that follows the links does not leave S.
Closed(S) == \A b \in S : link[b] \in Blocks => link[b] \in S

(***************************************************************************)
(* No block is lost: every free one is reached from the head, that is, is  *)
(* in every set of blocks a walk from the head does not leave, until an    *)
(* allocation has failed.                                                  *)
(***************************************************************************)
NothingLost ==
  \A top \in Tops, S \in SUBSET Blocks :
    top \in S \cup {nullptr} /\ Closed(S) => Free \subseteq S

(***************************************************************************)
(* What the callers see: a block is given to one of them at a time, and a  *)
(* block not in use is there to be given.                                  *)
(***************************************************************************)
Pool == INSTANCE BlockPool WITH given <- Given

PoolSpec == Pool!Spec

(***************************************************************************)
(* While any thread is in a call some call comes to its last exchange:     *)
(* nobody keeps the list, unless malloc has failed with the list held.     *)
(***************************************************************************)
SomeCallEnds ==
  (\E t \in Threads : pc[t] # "idle")
    ~> (exhausted \/ \E t \in Threads : pc[t] \in {"allocated", "deallocated"})
=============================================================================
