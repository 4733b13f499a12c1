------------------------- MODULE SharedMemoryStream -------------------------
(***************************************************************************)
(* Streams::SharedMemoryStream<>::Rep_.                                    *)
(*                                                                         *)
(* fMoreDataWaiter_ is a manual-reset event that means there may be data.  *)
(* Read waits for it with no lock held, looks with fMutex_ held, and if    *)
(* there is nothing resets it and waits again.  ReadNonBlocking looks with *)
(* fMutex_ held and keeps it (it is recursive) over a call of Read, whose  *)
(* wait must therefore never block.  Every other critical section is one   *)
(* step.  The Requires of Read and Write look at the flags with no lock.   *)
(***************************************************************************)
EXTENDS Integers, Sequences

CONSTANTS
  Threads,
  None, Nothing,  \* no thread; no answer
  Ops,            \* Ops[t]: the calls thread t makes
  Sizes,          \* how many elements a call asks for, or writes
  Offsets,        \* the offsets of the seeks
  MaxWritten      \* bound on the elements written

AllOps == {"Read", "ReadNonBlocking", "Write", "CloseWrite", "CloseRead", "SeekRead", "SeekWrite"}

Whences == {"eFromStart", "eFromCurrent", "eFromEnd"}

ASSUME StreamAssumption ==
  /\ Ops \in [Threads -> SUBSET AllOps]
  /\ None \notin Threads
  /\ Nothing \notin Seq(Nat)
  /\ Sizes \subseteq Nat \ {0}
  /\ Offsets \subseteq Int
  /\ MaxWritten \in Nat

VARIABLES
  fData_,
  fReadCursor_, fWriteCursor_,  \* elements before each iterator
  fClosedForWrites_, fIsOpenForRead_,
  fMoreDataWaiter_,
  fMutex_,                      \* who keeps it from one step to the next
  pc,
  requested,                    \* the size of the call a thread is in
  written,                      \* number of elements written: they are 1, 2, ...
  answer                        \* what the last read of each thread returned

stream == <<fData_, fReadCursor_, fWriteCursor_, fClosedForWrites_, fIsOpenForRead_, written>>

vars == <<stream, fMoreDataWaiter_, fMutex_, pc, requested, answer>>

\* With it, both cursors stay within the contents, which Write asserts of its own.
\* Its other assertion, that the read cursor is then before their end, is no part: it
\* is false when the writer has sought back and overwrites what was all read.
TypeOK ==
  /\ fData_ \in Seq(Nat)
  /\ fReadCursor_ \in 0 .. Len(fData_)
  /\ fWriteCursor_ \in 0 .. Len(fData_)
  /\ fClosedForWrites_ \in BOOLEAN
  /\ fIsOpenForRead_ \in BOOLEAN
  /\ fMoreDataWaiter_ \in BOOLEAN
  /\ fMutex_ \in Threads \cup {None}
  /\ pc \in [Threads -> {"idle", "wait", "look", "keep", "write"}]
  /\ requested \in [Threads -> Nat \ {0}]
  /\ written \in Nat
  /\ answer \in [Threads -> Seq(Nat) \cup {Nothing}]

Init ==
  /\ fData_ = <<>>
  /\ fReadCursor_ = 0
  /\ fWriteCursor_ = 0
  /\ fClosedForWrites_ = FALSE
  /\ fIsOpenForRead_ = TRUE
  /\ fMoreDataWaiter_ = FALSE
  /\ fMutex_ = None
  /\ pc = [t \in Threads |-> "idle"]
  /\ requested = [t \in Threads |-> 1]
  /\ written = 0
  /\ answer = [t \in Threads |-> Nothing]

nAvail == Len(fData_) - fReadCursor_

Calls(t, op) == pc[t] = "idle" /\ op \in Ops[t]

Locks == fMutex_ = None

At(t, place) == pc' = [pc EXCEPT ![t] = place]

Smaller(m, n) == IF m < n THEN m ELSE n

-----------------------------------------------------------------------------
(* Read *)

Read(t, n) ==
  /\ Calls(t, "Read")
  /\ fIsOpenForRead_
  /\ At(t, "wait")
  /\ requested' = [requested EXCEPT ![t] = n]
  /\ answer' = [answer EXCEPT ![t] = Nothing]
  /\ UNCHANGED <<stream, fMoreDataWaiter_, fMutex_>>

\* Mutant: the event resets itself.
WaitReturnsAndResets(t) ==
  /\ pc[t] = "wait"
  /\ fMoreDataWaiter_
  /\ fMoreDataWaiter_' = FALSE
  /\ At(t, "look")
  /\ UNCHANGED <<stream, fMutex_, requested, answer>>

WaitReturns(t) ==
  /\ pc[t] = "wait"
  /\ fMoreDataWaiter_
  /\ At(t, "look")
  /\ UNCHANGED <<stream, fMoreDataWaiter_, fMutex_, requested, answer>>

\* Wait is a cancelation point: Read, and ReadNonBlocking around it, end by an exception.
WaitInterrupted(t) ==
  /\ pc[t] \in {"wait", "keep"}
  /\ At(t, "idle")
  /\ fMutex_' = IF pc[t] = "keep" THEN None ELSE fMutex_
  /\ UNCHANGED <<stream, fMoreDataWaiter_, requested, answer>>

Copy(t) ==
  LET nCopied == Smaller(nAvail, requested[t])
  IN /\ answer' = [answer EXCEPT ![t] = SubSeq(fData_, fReadCursor_ + 1, fReadCursor_ + nCopied)]
     /\ fReadCursor_' = fReadCursor_ + nCopied
     /\ UNCHANGED <<fData_, fWriteCursor_, fClosedForWrites_, fIsOpenForRead_, written>>

TryAgain(t) ==
  /\ pc[t] = "look"
  /\ Locks
  /\ nAvail = 0
  /\ ~fClosedForWrites_
  /\ fMoreDataWaiter_' = FALSE
  /\ At(t, "wait")
  /\ UNCHANGED <<stream, fMutex_, requested, answer>>

\* Mutant: the second look, with the lock held, is left out.
ReadReturnsUnlooked(t) ==
  /\ pc[t] = "look"
  /\ Locks
  /\ Copy(t)
  /\ At(t, "idle")
  /\ UNCHANGED <<fMoreDataWaiter_, fMutex_, requested>>

ReadReturns(t) ==
  /\ pc[t] = "look"
  /\ Locks
  /\ nAvail > 0 \/ fClosedForWrites_
  /\ Copy(t)
  /\ At(t, "idle")
  /\ UNCHANGED <<fMoreDataWaiter_, fMutex_, requested>>

-----------------------------------------------------------------------------
(* ReadNonBlocking *)

\* Elements are available: Read, with fMutex_ kept.  nullopt and end of input are answered at once.
ReadNonBlocking(t, n) ==
  /\ Calls(t, "ReadNonBlocking")
  /\ fIsOpenForRead_
  /\ Locks
  /\ requested' = [requested EXCEPT ![t] = n]
  /\ answer' = [answer EXCEPT ![t] = IF nAvail = 0 /\ fClosedForWrites_ THEN <<>> ELSE Nothing]
  /\ IF nAvail > 0 THEN At(t, "keep") /\ fMutex_' = t
                   ELSE UNCHANGED <<pc, fMutex_>>
  /\ UNCHANGED <<stream, fMoreDataWaiter_>>

ReadNonBlockingReturns(t) ==
  /\ pc[t] = "keep"
  /\ fMoreDataWaiter_
  /\ Copy(t)
  /\ At(t, "idle")
  /\ fMutex_' = None
  /\ UNCHANGED <<fMoreDataWaiter_, requested>>

-----------------------------------------------------------------------------
(* The writer, the ends and the seeks *)

Write(t, n) ==
  /\ Calls(t, "Write")
  /\ ~fClosedForWrites_
  /\ written + n <= MaxWritten
  /\ requested' = [requested EXCEPT ![t] = n]
  /\ At(t, "write")
  /\ UNCHANGED <<stream, fMoreDataWaiter_, fMutex_, answer>>

\* resize when there is not room enough after the cursor, then copy over what is there.
Overwritten(n) ==
  [i \in 1 .. IF Len(fData_) - fWriteCursor_ < n THEN fWriteCursor_ + n ELSE Len(fData_) |->
     IF i \in fWriteCursor_ + 1 .. fWriteCursor_ + n THEN written + (i - fWriteCursor_)
     ELSE fData_[i]]

WriteLocked(t) ==
  /\ pc[t] = "write"
  /\ Locks
  /\ fMoreDataWaiter_' = TRUE
  /\ fData_' = Overwritten(requested[t])
  /\ fWriteCursor_' = fWriteCursor_ + requested[t]
  /\ written' = written + requested[t]
  /\ At(t, "idle")
  /\ UNCHANGED <<fReadCursor_, fClosedForWrites_, fIsOpenForRead_, fMutex_, requested, answer>>

\* Mutant: the readers are not told.
CloseWriteQuietly(t) ==
  /\ Calls(t, "CloseWrite")
  /\ Locks
  /\ ~fClosedForWrites_
  /\ fClosedForWrites_' = TRUE
  /\ UNCHANGED <<fData_, fReadCursor_, fWriteCursor_, fIsOpenForRead_, written, fMoreDataWaiter_, fMutex_, pc, requested, answer>>

CloseWrite(t) ==
  /\ Calls(t, "CloseWrite")
  /\ Locks
  /\ ~fClosedForWrites_
  /\ fClosedForWrites_' = TRUE
  /\ fMoreDataWaiter_' = TRUE
  /\ UNCHANGED <<fData_, fReadCursor_, fWriteCursor_, fIsOpenForRead_, written, fMutex_, pc, requested, answer>>

\* Takes no lock.
CloseRead(t) ==
  /\ Calls(t, "CloseRead")
  /\ fIsOpenForRead_
  /\ fIsOpenForRead_' = FALSE
  /\ UNCHANGED <<fData_, fReadCursor_, fWriteCursor_, fClosedForWrites_, written,
                 fMoreDataWaiter_, fMutex_, pc, requested, answer>>

\* Mutant: one past the end is in range.
SoughtPastEnd(cursor, whence, offset) ==
  LET target == offset + CASE whence = "eFromStart"   -> 0
                           [] whence = "eFromCurrent" -> cursor
                           [] whence = "eFromEnd"     -> Len(fData_)
  IN IF target \in 0 .. Len(fData_) + 1 THEN target ELSE cursor

\* The cursor after a seek; where it was when the offset is out of range, and range_error is thrown.
Sought(cursor, whence, offset) ==
  LET target == offset + CASE whence = "eFromStart"   -> 0
                           [] whence = "eFromCurrent" -> cursor
                           [] whence = "eFromEnd"     -> Len(fData_)
  IN IF target \in 0 .. Len(fData_) THEN target ELSE cursor

SeekRead(t, whence, offset) ==
  /\ Calls(t, "SeekRead")
  /\ Locks
  /\ fIsOpenForRead_
  /\ fMoreDataWaiter_' = TRUE
  /\ fReadCursor_' = Sought(fReadCursor_, whence, offset)
  /\ UNCHANGED <<fData_, fWriteCursor_, fClosedForWrites_, fIsOpenForRead_, written, fMutex_, pc, requested, answer>>

SeekWrite(t, whence, offset) ==
  /\ Calls(t, "SeekWrite")
  /\ Locks
  /\ ~fClosedForWrites_
  /\ fMoreDataWaiter_' = TRUE
  /\ fWriteCursor_' = Sought(fWriteCursor_, whence, offset)
  /\ UNCHANGED <<fData_, fReadCursor_, fClosedForWrites_, fIsOpenForRead_, written, fMutex_, pc, requested, answer>>

-----------------------------------------------------------------------------
Call(t) ==
  \/ \E n \in Sizes : Read(t, n) \/ ReadNonBlocking(t, n) \/ Write(t, n)
  \/ CloseWrite(t) \/ CloseRead(t)
  \/ \E w \in Whences, o \in Offsets : SeekRead(t, w, o) \/ SeekWrite(t, w, o)

\* The steps of a thread inside a call that the scheduler owes it.
Step(t) ==
  \/ WaitReturns(t) \/ TryAgain(t) \/ ReadReturns(t)
  \/ ReadNonBlockingReturns(t)
  \/ WriteLocked(t)

Next == \E t \in Threads : Call(t) \/ Step(t) \/ WaitInterrupted(t)

Spec == Init /\ [][Next]_vars

\* Strong fairness for the steps that lock fMutex_, which keeps no queue.
FairSpec ==
  /\ Spec
  /\ \A t \in Threads : WF_vars(WaitReturns(t) \/ ReadNonBlockingReturns(t))
  /\ \A t \in Threads : SF_vars(TryAgain(t) \/ ReadReturns(t) \/ WriteLocked(t))

-----------------------------------------------------------------------------
(***************************************************************************)
(* The event is set whenever there is something to find, be it data or     *)
(* the end of input: so no reader sleeps over it, and the wait of a Read   *)
(* under ReadNonBlocking, which holds fMutex_, does not block.             *)
(***************************************************************************)
NothingSleptThrough == nAvail > 0 \/ fClosedForWrites_ => fMoreDataWaiter_

(***************************************************************************)
(* Whatever the interleaving, the calls are those of one sequential        *)
(* stream: reads get the next elements, each by one reader, in order, and  *)
(* an empty answer only at the end of input.                               *)
(***************************************************************************)
Pipe == INSTANCE SeekablePipe WITH
  contents <- fData_, readAt <- fReadCursor_, writeAt <- fWriteCursor_,
  ended <- fClosedForWrites_

PipeSpec == Pipe!Spec

(***************************************************************************)
(* A reader gets what is there or the end of input, unless others take     *)
(* what there is before it.                                                *)
(***************************************************************************)
ReadEnds ==
  \A t \in Threads :
    pc[t] \in {"wait", "look"} /\ (nAvail > 0 \/ fClosedForWrites_)
      ~> pc[t] = "idle" \/ (nAvail = 0 /\ ~fClosedForWrites_)
=============================================================================
