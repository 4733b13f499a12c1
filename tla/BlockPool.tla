----------------------------- MODULE BlockPool -----------------------------
(***************************************************************************)
(* What BlockAllocator<>::Allocate and Deallocate promise, as malloc and   *)
(* free do: a block is given out only when nobody has it.                  *)
(***************************************************************************)
EXTENDS Naturals

CONSTANT Blocks

VARIABLES
  given,  \* the blocks the pool has
  users   \* how many have each of them

vars == <<given, users>>

Init == given = {} /\ users = [b \in Blocks |-> 0]

Grow ==
  /\ given' \subseteq Blocks
  /\ given \subseteq given'
  /\ UNCHANGED users

GiveOut(b) ==
  /\ b \in given
  /\ users[b] = 0
  /\ users' = [users EXCEPT ![b] = 1]
  /\ UNCHANGED given

TakeBack(b) ==
  /\ users[b] = 1
  /\ users' = [users EXCEPT ![b] = 0]
  /\ UNCHANGED given

Next == Grow \/ \E b \in Blocks : GiveOut(b) \/ TakeBack(b)

Spec == Init /\ [][Next]_vars
=============================================================================
