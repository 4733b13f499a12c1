--------------------------- MODULE WaitableEvent ---------------------------
(***************************************************************************)
(* Execution::WaitableEvent: Set, Reset, the timed waits on one event, and *)
(* the waits on several (WaitForAny, WaitForAll).                          *)
(*                                                                         *)
(* A critical section of one WE_'s mutex is one step.  Notifying the       *)
(* condition variable, which happens after the unlock, is a step of its    *)
(* own, and so is every critical section of a scan over several events:    *)
(* those are the interleavings the code has.                               *)
(***************************************************************************)
EXTENDS FiniteSets

CONSTANTS
  Threads,    \* threads that use the events
  Waiters,    \* those of them that wait
  Events,     \* the WaitableEvent objects
  AutoReset,  \* the events constructed with eAutoReset
  Kinds,      \* calls the clients make: subset of AllKinds
  Modes,      \* timeouts they pass: subset of AllModes
  None

AllKinds == {"Set", "Reset", "Wait", "WaitForAny", "WaitForAll"}
AllModes == {"zero", "finite", "infinite"}

ASSUME EventAssumption ==
  /\ Waiters \subseteq Threads
  /\ AutoReset \subseteq Events
  /\ Threads \cap Events = {}
  /\ None \notin Threads \cup Events
  /\ Kinds \subseteq AllKinds
  /\ Modes \subseteq AllModes

VARIABLES
  fTriggered,            \* WE_::fTriggered of each event and of each private WE_
  fExtraWaitableEvents,  \* fExtraWaitableEvents_: the private WE_s on each event
  extraMutex,            \* holder of the one fExtraWaitableEventsMutex_
  interrupting,          \* t_Interrupting_ # eNone, of each thread
  pc,                    \* where each thread is
  call,                  \* the call a thread is in: kind, events, timeout
  target,                \* the WE_ the thread's current step is about
  scan,                  \* events (or private WE_s) the thread's loop has left
  found,                 \* result so far of the thread's scan
  ret                    \* how the thread's WaitForAny/WaitForAll is ending

vars == <<fTriggered, fExtraWaitableEvents, extraMutex, interrupting, pc,
          call, target, scan, found, ret>>

(***************************************************************************)
(* WaitForAny and WaitForAll make an auto-reset WE_ of their own.  Since a *)
(* thread is in one such call at a time, the thread stands for its WE_.    *)
(***************************************************************************)
WEs == Events \cup Threads

IsAutoReset(x) == x \in AutoReset \cup Threads

Idle == [kind |-> "none", on |-> {}, mode |-> "infinite"]

Calls == [kind : Kinds, on : SUBSET Events, mode : AllModes] \cup {Idle}

PCs == {"idle", "notify", "lockExtra", "extraSet", "register", "enter",
        "asleep", "awake", "scan", "resetFound", "cleanup"}

TypeOK ==
  /\ fTriggered \in [WEs -> BOOLEAN]
  /\ fExtraWaitableEvents \in [Events -> SUBSET Threads]
  /\ extraMutex \in Threads \cup {None}
  /\ interrupting \in [Threads -> BOOLEAN]
  /\ pc \in [Threads -> PCs]
  /\ call \in [Threads -> Calls]
  /\ target \in [Threads -> WEs \cup {None}]
  /\ scan \in [Threads -> SUBSET WEs]
  /\ found \in [Threads -> SUBSET Events]
  /\ ret \in [Threads -> {"none", "set", "timeout", "interrupt"}]

Init ==
  /\ fTriggered = [x \in WEs |-> FALSE]
  /\ fExtraWaitableEvents = [e \in Events |-> {}]
  /\ extraMutex = None
  /\ interrupting = [t \in Threads |-> FALSE]
  /\ pc = [t \in Threads |-> "idle"]
  /\ call = [t \in Threads |-> Idle]
  /\ target = [t \in Threads |-> None]
  /\ scan = [t \in Threads |-> {}]
  /\ found = [t \in Threads |-> {}]
  /\ ret = [t \in Threads |-> "none"]

Goto(t, l) == pc' = [pc EXCEPT ![t] = l]

SeveralKinds == {"WaitForAny", "WaitForAll"}

---------------------------------------------------------------------------
(***************************************************************************)
(* Set and Reset                                                           *)
(***************************************************************************)

\* WE_::Set, first half: fTriggered is assigned under the WE_'s mutex.
Trigger(t, x) ==
  /\ fTriggered' = [fTriggered EXCEPT ![x] = TRUE]
  /\ target' = [target EXCEPT ![t] = x]
  /\ Goto(t, "notify")

Set(t, e) ==
  /\ "Set" \in Kinds
  /\ pc[t] = "idle"
  /\ Trigger(t, e)
  /\ call' = [call EXCEPT ![t] = [kind |-> "Set", on |-> {e}, mode |-> "infinite"]]
  /\ UNCHANGED <<fExtraWaitableEvents, extraMutex, interrupting, scan, found, ret>>

\* notify_all, after the unlock: every sleeper on that condition variable wakes.
Notify(t) ==
  /\ pc[t] = "notify"
  /\ pc' = [u \in Threads |->
              IF u = t THEN IF target[t] \in Events THEN "lockExtra" ELSE "extraSet"
              ELSE IF pc[u] = "asleep" /\ target[u] = target[t] THEN "awake"
              ELSE pc[u]]
  /\ UNCHANGED <<fTriggered, fExtraWaitableEvents, extraMutex, interrupting,
                 call, target, scan, found, ret>>

\* WaitableEvent::Set then walks fExtraWaitableEvents_ under the spin lock ...
LockExtra(t) ==
  /\ pc[t] = "lockExtra"
  /\ extraMutex = None
  /\ extraMutex' = t
  /\ scan' = [scan EXCEPT ![t] = UNION {fExtraWaitableEvents[e] : e \in call[t].on}]
  /\ Goto(t, "extraSet")
  /\ UNCHANGED <<fTriggered, fExtraWaitableEvents, interrupting, call, target, found, ret>>

\* Mutant: fTriggered assigned with no notification to follow.
SetExtraSilently(t) ==
  /\ pc[t] = "extraSet"
  /\ \E u \in scan[t] : /\ fTriggered' = [fTriggered EXCEPT ![u] = TRUE]
                        /\ scan' = [scan EXCEPT ![t] = @ \ {u}]
  /\ UNCHANGED <<fExtraWaitableEvents, extraMutex, interrupting, pc, call, target, found, ret>>

\* ... setting each private WE_ in turn ...
SetExtra(t) ==
  /\ pc[t] = "extraSet"
  /\ \E u \in scan[t] :
       /\ Trigger(t, u)
       /\ scan' = [scan EXCEPT ![t] = @ \ {u}]
  /\ UNCHANGED <<fExtraWaitableEvents, extraMutex, interrupting, call, found, ret>>

\* ... and releases it.
UnlockExtra(t) ==
  /\ pc[t] = "extraSet"
  /\ scan[t] = {}
  /\ extraMutex' = None
  /\ call' = [call EXCEPT ![t] = Idle]
  /\ target' = [target EXCEPT ![t] = None]
  /\ Goto(t, "idle")
  /\ UNCHANGED <<fTriggered, fExtraWaitableEvents, interrupting, scan, found, ret>>

Reset(t, e) ==
  /\ "Reset" \in Kinds
  /\ pc[t] = "idle"
  /\ fTriggered' = [fTriggered EXCEPT ![e] = FALSE]
  /\ UNCHANGED <<fExtraWaitableEvents, extraMutex, interrupting, pc, call,
                 target, scan, found, ret>>

---------------------------------------------------------------------------
(***************************************************************************)
(* Waiting on one WE_: WaitUntilQuietly and the predicate form of          *)
(* ConditionVariable::wait_until it calls.                                 *)
(***************************************************************************)

Wait(t, e, mode) ==
  /\ "Wait" \in Kinds
  /\ pc[t] = "idle"
  /\ call' = [call EXCEPT ![t] = [kind |-> "Wait", on |-> {e}, mode |-> mode]]
  /\ target' = [target EXCEPT ![t] = e]
  /\ Goto(t, "enter")
  /\ UNCHANGED <<fTriggered, fExtraWaitableEvents, extraMutex, interrupting, scan, found, ret>>

\* A wait that ends any other way than set: a plain wait returns or throws to
\* its caller, a private one runs the Finally clean-up of its call.
Leave(t, why) ==
  IF call[t].kind = "Wait"
  THEN /\ Goto(t, "idle")
       /\ call' = [call EXCEPT ![t] = Idle]
       /\ target' = [target EXCEPT ![t] = None]
       /\ UNCHANGED ret
  ELSE /\ Goto(t, "cleanup")
       /\ ret' = [ret EXCEPT ![t] = why]
       /\ UNCHANGED <<call, target>>

\* CheckForThreadInterruption: on entry whatever the state of the event, later
\* only while the event is not set.  Throwing clears the interruption.
WaitInterrupted(t) ==
  /\ pc[t] \in {"enter", "awake"}
  /\ interrupting[t]
  /\ pc[t] = "awake" => ~fTriggered[target[t]]
  /\ interrupting' = [interrupting EXCEPT ![t] = FALSE]
  /\ Leave(t, "interrupt")
  /\ UNCHANGED <<fTriggered, fExtraWaitableEvents, extraMutex, scan, found>>

\* The predicate holds: an auto-reset WE_ is reset in the same critical section.
WaitSatisfied(t) ==
  /\ pc[t] \in {"enter", "awake"}
  /\ pc[t] = "enter" => ~interrupting[t]
  /\ fTriggered[target[t]]
  /\ fTriggered' = [fTriggered EXCEPT ![target[t]] = ~IsAutoReset(target[t])]
  /\ IF call[t].kind = "Wait"
     THEN /\ Leave(t, "set")
          /\ UNCHANGED scan
     ELSE /\ Goto(t, "scan")
          /\ scan' = [scan EXCEPT ![t] = call[t].on]
          /\ UNCHANGED <<call, target, ret>>
  /\ UNCHANGED <<fExtraWaitableEvents, extraMutex, interrupting, found>>

WaitTimedOut(t) ==
  /\ pc[t] \in {"enter", "awake"}
  /\ pc[t] = "enter" => ~interrupting[t]
  /\ call[t].mode # "infinite"
  /\ ~fTriggered[target[t]]
  /\ Leave(t, "timeout")
  /\ UNCHANGED <<fTriggered, fExtraWaitableEvents, extraMutex, interrupting, scan, found>>

\* Mutant: sleeps without testing the flag under the mutex.
SleepUntested(t) ==
  /\ pc[t] \in {"enter", "awake"}
  /\ ~interrupting[t]
  /\ Goto(t, "asleep")
  /\ UNCHANGED <<fTriggered, fExtraWaitableEvents, extraMutex, interrupting,
                 call, target, scan, found, ret>>

\* Mutant: looks for an interruption on entry only.
SleepUninterrupted(t) ==
  /\ pc[t] \in {"enter", "awake"}
  /\ pc[t] = "enter" => ~interrupting[t]
  /\ ~fTriggered[target[t]]
  /\ Goto(t, "asleep")
  /\ UNCHANGED <<fTriggered, fExtraWaitableEvents, extraMutex, interrupting,
                 call, target, scan, found, ret>>

\* wait_for unlocks and sleeps in one step.
Sleep(t) ==
  /\ pc[t] \in {"enter", "awake"}
  /\ ~interrupting[t]
  /\ ~fTriggered[target[t]]
  /\ Goto(t, "asleep")
  /\ UNCHANGED <<fTriggered, fExtraWaitableEvents, extraMutex, interrupting,
                 call, target, scan, found, ret>>

\* No sleep is longer than fThreadAbortCheckFrequency, and sleeps may also end
\* spuriously.
SliceOver(t) ==
  /\ pc[t] = "asleep"
  /\ Goto(t, "awake")
  /\ UNCHANGED <<fTriggered, fExtraWaitableEvents, extraMutex, interrupting,
                 call, target, scan, found, ret>>

---------------------------------------------------------------------------
(***************************************************************************)
(* WaitForAnyUntil and WaitForAllUntil                                     *)
(***************************************************************************)

WaitForSeveral(t, kind, S, mode) ==
  /\ kind \in Kinds
  /\ pc[t] = "idle"
  /\ call' = [call EXCEPT ![t] = [kind |-> kind, on |-> S, mode |-> mode]]
  /\ Goto(t, "register")
  /\ UNCHANGED <<fTriggered, fExtraWaitableEvents, extraMutex, interrupting,
                 target, scan, found, ret>>

\* The fresh private WE_ goes on every event's list, under the spin lock.
Register(t) ==
  /\ pc[t] = "register"
  /\ extraMutex = None
  /\ fExtraWaitableEvents' =
       [e \in Events |-> IF e \in call[t].on THEN fExtraWaitableEvents[e] \cup {t}
                         ELSE fExtraWaitableEvents[e]]
  /\ fTriggered' = [fTriggered EXCEPT ![t] = FALSE]
  /\ target' = [target EXCEPT ![t] = t]
  /\ Goto(t, "enter")
  /\ UNCHANGED <<extraMutex, interrupting, call, scan, found, ret>>

\* Mutant: takes the WE_ that woke it for the event it scans.
PeekPrivate(t) ==
  /\ pc[t] = "scan"
  /\ \E e \in scan[t] : /\ scan' = [scan EXCEPT ![t] = @ \ {e}]
                        /\ found' = [found EXCEPT ![t] = @ \cup {target[t]}]
  /\ UNCHANGED <<fTriggered, fExtraWaitableEvents, extraMutex, interrupting, pc, call,
                 target, ret>>

\* PeekIsSet on the next event.  WaitForAny resets an auto-reset event it found
\* set, in a second critical section; WaitForAll only counts it.
Peek(t) ==
  /\ pc[t] = "scan"
  /\ \E e \in scan[t] :
       LET mustReset == /\ call[t].kind = "WaitForAny"
                        /\ fTriggered[e]
                        /\ e \in AutoReset
       IN /\ scan' = [scan EXCEPT ![t] = @ \ {e}]
          /\ found' = [found EXCEPT ![t] = IF fTriggered[e] THEN @ \cup {e} ELSE @]
          /\ target' = [target EXCEPT ![t] = IF mustReset THEN e ELSE @]
          /\ IF mustReset THEN Goto(t, "resetFound") ELSE UNCHANGED pc
  /\ UNCHANGED <<fTriggered, fExtraWaitableEvents, extraMutex, interrupting, call, ret>>

\* Mutant: WaitForAll is content with one event.
ScanDoneAny(t) ==
  /\ pc[t] = "scan"
  /\ scan[t] = {}
  /\ IF found[t] = {}
     THEN /\ Goto(t, "enter")
          /\ UNCHANGED <<scan, ret>>
     ELSE /\ Goto(t, IF call[t].kind = "WaitForAny" THEN "cleanup" ELSE "resetFound")
          /\ ret' = [ret EXCEPT ![t] = "set"]
          /\ scan' = [scan EXCEPT ![t] = IF call[t].kind = "WaitForAny" THEN {}
                                         ELSE call[t].on \cap AutoReset]
  /\ UNCHANGED <<fTriggered, fExtraWaitableEvents, extraMutex, interrupting, call,
                 target, found>>

\* End of a scan: back to the private WE_ if there is no result yet.
ScanDone(t) ==
  /\ pc[t] = "scan"
  /\ scan[t] = {}
  /\ \/ /\ call[t].kind = "WaitForAny"
        /\ found[t] # {}
        /\ ret' = [ret EXCEPT ![t] = "set"]
        /\ Goto(t, "cleanup")
        /\ UNCHANGED <<scan, found>>
     \/ /\ call[t].kind = "WaitForAll"
        /\ found[t] = call[t].on
        /\ scan' = [scan EXCEPT ![t] = call[t].on \cap AutoReset]
        /\ Goto(t, "resetFound")
        /\ UNCHANGED <<found, ret>>
     \/ /\ call[t].kind = "WaitForAny" => found[t] = {}
        /\ call[t].kind = "WaitForAll" => found[t] # call[t].on
        /\ found' = [found EXCEPT ![t] = {}]
        /\ Goto(t, "enter")
        /\ UNCHANGED <<scan, ret>>
  /\ UNCHANGED <<fTriggered, fExtraWaitableEvents, extraMutex, interrupting, call, target>>

\* The second critical section of WaitForAny's loop body.
ResetFound(t) ==
  /\ pc[t] = "resetFound"
  /\ call[t].kind = "WaitForAny"
  /\ fTriggered' = [fTriggered EXCEPT ![target[t]] = FALSE]
  /\ target' = [target EXCEPT ![t] = t]
  /\ Goto(t, "scan")
  /\ UNCHANGED <<fExtraWaitableEvents, extraMutex, interrupting, call, scan, found, ret>>

\* WaitForAll's second loop, one auto-reset event at a time.
ResetAll(t) ==
  /\ pc[t] = "resetFound"
  /\ call[t].kind = "WaitForAll"
  /\ \E e \in scan[t] :
       /\ fTriggered' = [fTriggered EXCEPT ![e] = FALSE]
       /\ scan' = [scan EXCEPT ![t] = @ \ {e}]
  /\ UNCHANGED <<fExtraWaitableEvents, extraMutex, interrupting, pc, call, target, found, ret>>

ResetAllDone(t) ==
  /\ pc[t] = "resetFound"
  /\ call[t].kind = "WaitForAll"
  /\ scan[t] = {}
  /\ ret' = [ret EXCEPT ![t] = "set"]
  /\ Goto(t, "cleanup")
  /\ UNCHANGED <<fTriggered, fExtraWaitableEvents, extraMutex, interrupting,
                 call, target, scan, found>>

\* Mutant: edits the lists without the spin lock.
CleanupUnlocked(t) ==
  /\ pc[t] = "cleanup"
  /\ fExtraWaitableEvents' = [e \in Events |-> fExtraWaitableEvents[e] \ {t}]
  /\ call' = [call EXCEPT ![t] = Idle]
  /\ target' = [target EXCEPT ![t] = None]
  /\ found' = [found EXCEPT ![t] = {}]
  /\ ret' = [ret EXCEPT ![t] = "none"]
  /\ Goto(t, "idle")
  /\ UNCHANGED <<fTriggered, extraMutex, interrupting, scan>>

\* The Finally object: runs on return and on every exception.
Cleanup(t) ==
  /\ pc[t] = "cleanup"
  /\ extraMutex = None
  /\ fExtraWaitableEvents' =
       [e \in Events |-> IF e \in call[t].on THEN fExtraWaitableEvents[e] \ {t}
                         ELSE fExtraWaitableEvents[e]]
  /\ call' = [call EXCEPT ![t] = Idle]
  /\ target' = [target EXCEPT ![t] = None]
  /\ found' = [found EXCEPT ![t] = {}]
  /\ ret' = [ret EXCEPT ![t] = "none"]
  /\ Goto(t, "idle")
  /\ UNCHANGED <<fTriggered, extraMutex, interrupting, scan>>

---------------------------------------------------------------------------
\* Some other thread calls Thread::Interrupt on t.
Interrupt(t) ==
  /\ ~interrupting[t]
  /\ interrupting' = [interrupting EXCEPT ![t] = TRUE]
  /\ UNCHANGED <<fTriggered, fExtraWaitableEvents, extraMutex, pc, call,
                 target, scan, found, ret>>

\* A step of a call in progress (as opposed to a client's choice to call).
Step(t) ==
  \/ Notify(t) \/ LockExtra(t) \/ SetExtra(t) \/ UnlockExtra(t)
  \/ WaitInterrupted(t) \/ WaitSatisfied(t) \/ WaitTimedOut(t) \/ Sleep(t)
  \/ Register(t) \/ Peek(t) \/ ScanDone(t) \/ ResetFound(t)
  \/ ResetAll(t) \/ ResetAllDone(t) \/ Cleanup(t)

Begin(t) ==
  \/ \E e \in Events : Set(t, e) \/ Reset(t, e)
  \/ /\ t \in Waiters
     /\ \E mode \in Modes :
          \/ \E e \in Events : Wait(t, e, mode)
          \/ \E kind \in SeveralKinds, S \in (SUBSET Events) \ {{}} :
               WaitForSeveral(t, kind, S, mode)

Next == \E t \in Threads :
          \/ Begin(t)
          \/ Step(t)
          \/ SliceOver(t)
          \/ t \in Waiters /\ Interrupt(t)

Spec == Init /\ [][Next]_vars

\* The scheduler runs every thread that is not blocked.  The spin lock keeps no
\* queue: a thread that spins is assumed not to be overtaken for ever.  A sleeper
\* whose slice ends need not be rescheduled unless SliceFairness is added, so
\* what holds under FairSpec does not lean on the polling.
StepFairness ==
  \A t \in Threads : /\ WF_vars(Step(t))
                     /\ SF_vars(LockExtra(t) \/ Register(t) \/ Cleanup(t))

SliceFairness == \A t \in Threads : WF_vars(SliceOver(t))

FairSpec == Spec /\ StepFairness

---------------------------------------------------------------------------
(***************************************************************************)
(* Properties                                                              *)
(***************************************************************************)

\* No lost wakeup (WE_::Set unlocks before it notifies, WaitUntilQuietly tests
\* the flag before it sleeps): a thread asleep on a WE_ that is set is about to
\* be notified by the thread that set it.
NoLostWakeup ==
  \A t \in Threads :
    pc[t] = "asleep" /\ fTriggered[target[t]]
      => \E s \in Threads : pc[s] = "notify" /\ target[s] = target[t]

InSeveral(t) == call[t].kind \in SeveralKinds /\ pc[t] # "register"

\* The private WE_ of a WaitForAny/WaitForAll is on the lists of exactly the
\* events of the call for exactly as long as the call lasts, however it ends:
\* what ~WaitableEvent requires and what keeps Set from signalling a dead WE_.
RegisteredWhileWaiting ==
  \A t \in Threads, e \in Events :
    t \in fExtraWaitableEvents[e] <=> InSeveral(t) /\ e \in call[t].on

\* While Set walks the lists it holds the spin lock, so every private WE_ it has
\* left to signal belongs to a call that is still registered.
SignalsOnlyRegistered ==
  \A s \in Threads :
    pc[s] \in {"extraSet", "notify"} /\ extraMutex = s
      => \A u \in scan[s] : \E e \in call[s].on : u \in fExtraWaitableEvents[e]

\* Both: a registration begins and ends with its call, and no Set signals a private
\* WE_ whose call is over, whichever way and at whatever moment the call ends.
RegistrationsLast == RegisteredWhileWaiting /\ SignalsOnlyRegistered

\* The assertion in WaitForAll's second loop: every auto-reset event it counted and
\* is about to reset is still set, so that nobody else has received the same Set.
\* Two receivers refute it.
AllStillSet ==
  \A t \in Threads :
    pc[t] = "resetFound" /\ call[t].kind = "WaitForAll"
      => \A e \in scan[t] : fTriggered[e]

\* WaitForAny returns at least one of its events, WaitForAll returns when it has
\* seen all of them set in one pass; and a WaitForAny that ends by timeout or
\* interruption has taken no event with it.
ResultIsReal ==
  \A t \in Threads :
    pc[t] = "cleanup" =>
      /\ found[t] \subseteq call[t].on
      /\ ret[t] = "set" => found[t] # {}
      /\ ret[t] = "set" /\ call[t].kind = "WaitForAll" => found[t] = call[t].on
      /\ ret[t] # "set" => found[t] = {}

\* A Set still unreceived when it is about to notify ends the WaitForAny registered
\* on the event, or is received or reset by another, without help from the polling,
\* however Set's walk over the lists races the waiters' scans.
SetReachesWaitForAny ==
  \A t \in Waiters, e \in Events :
    (/\ \E s \in Threads : pc[s] = "notify" /\ target[s] = e
     /\ fTriggered[e]
     /\ call[t].kind = "WaitForAny"
     /\ t \in fExtraWaitableEvents[e])
      ~> pc[t] = "idle" \/ ~fTriggered[e]

\* A waiter that is interrupted leaves its wait, if its slices end: the polling is
\* what notices.
InterruptEndsWait ==
  SliceFairness => \A t \in Waiters : interrupting[t] /\ pc[t] # "idle" ~> pc[t] = "idle"

=============================================================================
