-------------------------- MODULE MCWaitableEvent --------------------------
(* Instances of WaitableEvent for TLC. *)
EXTENDS WaitableEvent

CONSTANTS w1, w2, s1, manual, auto

TwoWaiters == {w1, w2}
TwoWaitersAndSetter == {w1, w2, s1}
BothEvents == {manual, auto}
AutoOnly == {auto}

EveryKind == AllKinds
ReceivingSeveral == {"Set", "WaitForAny", "WaitForAll"}
FiniteOnly == {"finite"}
=============================================================================
