---------------------- MODULE SharedMemoryStream_proofs ----------------------
(* That the cursors stay inside the contents, that the event never misses   *)
(* what is to be found and, with one writer, that the calls are those of    *)
(* SeekablePipe.                                                            *)
EXTENDS SharedMemoryStream, SequenceTheorems, TLAPS

Inside == TypeOK /\ NothingSleptThrough

\* How long the contents are after a write of n elements.
Lengthened(n) == IF Len(fData_) - fWriteCursor_ < n THEN fWriteCursor_ + n ELSE Len(fData_)

LEMMA OverwrittenTyped ==
  ASSUME TypeOK, NEW n \in Nat \ {0}
  PROVE  /\ Overwritten(n) \in Seq(Nat)
         /\ Len(Overwritten(n)) = Lengthened(n)
         /\ Len(fData_) <= Lengthened(n)
         /\ fWriteCursor_ + n <= Lengthened(n)
<1>1. Len(fData_) \in Nat /\ fWriteCursor_ \in 0 .. Len(fData_) /\ written \in Nat
  BY DEF TypeOK
<1>2. /\ Lengthened(n) \in Nat
      /\ Len(fData_) <= Lengthened(n)
      /\ fWriteCursor_ + n <= Lengthened(n)
  BY <1>1 DEF Lengthened
<1>3. ASSUME NEW i \in 1 .. Lengthened(n)
      PROVE  (IF i \in fWriteCursor_ + 1 .. fWriteCursor_ + n
                THEN written + (i - fWriteCursor_) ELSE fData_[i]) \in Nat
  <2>1. CASE i \in fWriteCursor_ + 1 .. fWriteCursor_ + n
    BY <1>1, <2>1
  <2>2. CASE i \notin fWriteCursor_ + 1 .. fWriteCursor_ + n
    <3>1. i \in 1 .. Len(fData_)
      BY <1>1, <1>3, <2>2 DEF Lengthened
    <3>2. fData_[i] \in Nat
      BY <3>1 DEF TypeOK
    <3> QED  BY <2>2, <3>2
  <2> QED  BY <2>1, <2>2
<1>4. Overwritten(n) = [i \in 1 .. Lengthened(n) |->
        IF i \in fWriteCursor_ + 1 .. fWriteCursor_ + n
          THEN written + (i - fWriteCursor_) ELSE fData_[i]]
  BY DEF Overwritten, Lengthened
<1> HIDE DEF Lengthened
<1>5. Overwritten(n) \in Seq(Nat) /\ Len(Overwritten(n)) = Lengthened(n)
  BY <1>2, <1>3, <1>4
<1> QED  BY <1>2, <1>5

\* What Copy answers with, and where it leaves the cursor.
LEMMA CopyTyped ==
  ASSUME TypeOK, NEW t \in Threads, Copy(t)
  PROVE  /\ fReadCursor_' \in 0 .. Len(fData_)
         /\ fReadCursor_ <= fReadCursor_'
         /\ answer' \in [Threads -> Seq(Nat) \cup {Nothing}]
         /\ fReadCursor_' = fReadCursor_ + Smaller(nAvail, requested[t])
         /\ answer' = [answer EXCEPT ![t] =
              SubSeq(fData_, fReadCursor_ + 1, fReadCursor_ + Smaller(nAvail, requested[t]))]
         /\ nAvail > 0 <=> Smaller(nAvail, requested[t]) > 0
         /\ Smaller(nAvail, requested[t]) \in 0 .. nAvail
<1> DEFINE n == Smaller(nAvail, requested[t])
<1>1. /\ fData_ \in Seq(Nat) /\ Len(fData_) \in Nat /\ fReadCursor_ \in 0 .. Len(fData_)
      /\ requested[t] \in Nat \ {0}
  BY DEF TypeOK
<1>2. n \in 0 .. nAvail /\ (nAvail > 0 <=> n > 0) /\ nAvail \in Nat
  BY <1>1 DEF nAvail, Smaller
<1>3. fReadCursor_' = fReadCursor_ + n
  BY DEF Copy
<1>4. answer' = [answer EXCEPT ![t] = SubSeq(fData_, fReadCursor_ + 1, fReadCursor_ + n)]
  BY DEF Copy
<1>5. fReadCursor_ + n \in 0 .. Len(fData_) /\ fReadCursor_ <= fReadCursor_ + n
  BY <1>1, <1>2 DEF nAvail
<1>6. SubSeq(fData_, fReadCursor_ + 1, fReadCursor_ + n) \in Seq(Nat)
  BY <1>1, <1>5, SubSeqProperties
<1>7. answer' \in [Threads -> Seq(Nat) \cup {Nothing}]
  BY <1>4, <1>6 DEF TypeOK
<1> QED  BY <1>2, <1>3, <1>4, <1>5, <1>7

LEMMA SoughtInside ==
  ASSUME TypeOK, NEW cursor \in 0 .. Len(fData_), NEW whence, NEW offset
  PROVE  Sought(cursor, whence, offset) \in 0 .. Len(fData_)
BY DEF Sought

-----------------------------------------------------------------------------
LEMMA InitInside == Init => Inside
<1> SUFFICES ASSUME Init PROVE Inside
  OBVIOUS
<1>1. fData_ = <<>> /\ Len(fData_) = 0 /\ fData_ \in Seq(Nat)
  BY DEF Init
<1>2. NothingSleptThrough
  BY <1>1 DEF Init, NothingSleptThrough, nAvail
<1>3. /\ fReadCursor_ \in 0 .. Len(fData_)
      /\ fWriteCursor_ \in 0 .. Len(fData_)
  BY <1>1 DEF Init
<1>4. /\ pc \in [Threads -> {"idle", "wait", "look", "keep", "write"}]
      /\ requested \in [Threads -> Nat \ {0}]
      /\ answer \in [Threads -> Seq(Nat) \cup {Nothing}]
  BY DEF Init
<1>5. TypeOK
  BY <1>1, <1>3, <1>4 DEF Init, TypeOK
<1> QED  BY <1>2, <1>5 DEF Inside

LEMMA CallInside ==
  ASSUME Inside, NEW t \in Threads, Call(t)
  PROVE  Inside'
<1> USE DEF Inside
<1>1. ASSUME NEW n \in Sizes, Read(t, n) \/ ReadNonBlocking(t, n) \/ Write(t, n)
      PROVE  Inside'
  <2>1. n \in Nat \ {0}
    BY StreamAssumption
  <2>2. CASE Read(t, n)
    BY <2>1, <2>2 DEF Read, TypeOK, NothingSleptThrough, nAvail, stream, At
  <2>3. CASE ReadNonBlocking(t, n)
    <3>1. <<>> \in Seq(Nat)
      OBVIOUS
    <3>2. /\ UNCHANGED <<stream, fMoreDataWaiter_>>
          /\ requested' = [requested EXCEPT ![t] = n]
          /\ answer' \in [Threads -> Seq(Nat) \cup {Nothing}]
      BY <2>3, <3>1 DEF ReadNonBlocking, TypeOK
    <3>3. pc' \in [Threads -> {"idle", "wait", "look", "keep", "write"}] /\ fMutex_' \in Threads \cup {None}
      BY <2>3 DEF ReadNonBlocking, TypeOK, At
    <3> QED  BY <2>1, <3>2, <3>3 DEF TypeOK, NothingSleptThrough, nAvail, stream
  <2>4. CASE Write(t, n)
    BY <2>1, <2>4 DEF Write, TypeOK, NothingSleptThrough, nAvail, stream, At
  <2> QED  BY <1>1, <2>2, <2>3, <2>4
<1>2. CASE CloseWrite(t)
  BY <1>2 DEF CloseWrite, TypeOK, NothingSleptThrough
<1>3. CASE CloseRead(t)
  BY <1>3 DEF CloseRead, TypeOK, NothingSleptThrough, nAvail
<1>4. ASSUME NEW whence \in Whences, NEW offset \in Offsets, SeekRead(t, whence, offset)
      PROVE  Inside'
  <2>1. fReadCursor_' \in 0 .. Len(fData_)
    BY <1>4, SoughtInside DEF SeekRead, TypeOK
  <2> QED  BY <1>4, <2>1 DEF SeekRead, TypeOK, NothingSleptThrough
<1>5. ASSUME NEW whence \in Whences, NEW offset \in Offsets, SeekWrite(t, whence, offset)
      PROVE  Inside'
  <2>1. fWriteCursor_' \in 0 .. Len(fData_)
    BY <1>5, SoughtInside DEF SeekWrite, TypeOK
  <2> QED  BY <1>5, <2>1 DEF SeekWrite, TypeOK, NothingSleptThrough
<1> QED  BY <1>1, <1>2, <1>3, <1>4, <1>5 DEF Call

LEMMA StepInside ==
  ASSUME Inside, NEW t \in Threads, Step(t) \/ WaitInterrupted(t)
  PROVE  Inside'
<1> USE DEF Inside
<1>1. CASE WaitReturns(t)
  BY <1>1 DEF WaitReturns, TypeOK, NothingSleptThrough, nAvail, stream, At
<1>2. CASE WaitInterrupted(t)
  BY <1>2 DEF WaitInterrupted, TypeOK, NothingSleptThrough, nAvail, stream, At
<1>3. CASE TryAgain(t)
  <2>1. ~(nAvail > 0 \/ fClosedForWrites_)
    BY <1>3 DEF TryAgain
  <2>2. UNCHANGED <<stream, fMutex_, requested, answer>> /\ At(t, "wait") /\ fMoreDataWaiter_' = FALSE
    BY <1>3 DEF TryAgain
  <2>3. TypeOK'
    BY <2>2 DEF TypeOK, stream, At
  <2> QED  BY <2>1, <2>2, <2>3 DEF NothingSleptThrough, nAvail, stream
<1>4. ASSUME Copy(t), At(t, "idle"), fMutex_' \in {fMutex_, None},
             UNCHANGED <<fMoreDataWaiter_, requested>>
      PROVE  Inside'
  <2>1. /\ fReadCursor_' \in 0 .. Len(fData_) /\ fReadCursor_ <= fReadCursor_'
        /\ answer' \in [Threads -> Seq(Nat) \cup {Nothing}]
    BY <1>4, CopyTyped
  <2>2. UNCHANGED <<fData_, fWriteCursor_, fClosedForWrites_, fIsOpenForRead_, written>>
    BY <1>4 DEF Copy
  <2>3. TypeOK'
    BY <1>4, <2>1, <2>2 DEF TypeOK, At
  <2>4. nAvail' > 0 => nAvail > 0
    BY <2>1, <2>2 DEF TypeOK, nAvail
  <2> QED  BY <1>4, <2>2, <2>3, <2>4 DEF NothingSleptThrough
<1>5. CASE ReadReturns(t)
  BY <1>4, <1>5 DEF ReadReturns
<1>6. CASE ReadNonBlockingReturns(t)
  BY <1>4, <1>6 DEF ReadNonBlockingReturns
<1>7. CASE WriteLocked(t)
  <2>1. requested[t] \in Nat \ {0}
    BY DEF TypeOK
  <2>2. /\ fData_' = Overwritten(requested[t])
        /\ fWriteCursor_' = fWriteCursor_ + requested[t]
        /\ written' = written + requested[t]
        /\ fMoreDataWaiter_' = TRUE
        /\ At(t, "idle")
        /\ UNCHANGED <<fReadCursor_, fClosedForWrites_, fIsOpenForRead_, fMutex_, requested, answer>>
    BY <1>7 DEF WriteLocked
  <2>3. /\ fData_' \in Seq(Nat) /\ Len(fData_') \in Nat
        /\ Len(fData_) <= Len(fData_')
        /\ fWriteCursor_' <= Len(fData_')
    <3>1. /\ Overwritten(requested[t]) \in Seq(Nat)
          /\ Len(fData_) <= Len(Overwritten(requested[t]))
          /\ fWriteCursor_ + requested[t] <= Len(Overwritten(requested[t]))
      BY <2>1, OverwrittenTyped
    <3>2. Len(Overwritten(requested[t])) \in Nat
      BY <3>1
    <3> QED  BY <2>2, <3>1, <3>2
  <2>4. fReadCursor_' \in 0 .. Len(fData_') /\ fWriteCursor_' \in 0 .. Len(fData_')
    BY <2>1, <2>2, <2>3 DEF TypeOK
  <2>5. pc' \in [Threads -> {"idle", "wait", "look", "keep", "write"}] /\ written' \in Nat
    BY <2>1, <2>2 DEF TypeOK, At
  <2> QED  BY <2>2, <2>3, <2>4, <2>5 DEF TypeOK, NothingSleptThrough
<1> QED  BY <1>1, <1>2, <1>3, <1>5, <1>6, <1>7 DEF Step

LEMMA AlwaysInside == Spec => []Inside
<1>1. Init => Inside
  BY InitInside
<1>2. Inside /\ [Next]_vars => Inside'
  <2> SUFFICES ASSUME Inside, [Next]_vars PROVE Inside'
    OBVIOUS
  <2>1. CASE Next
    BY <2>1, CallInside, StepInside DEF Next
  <2>2. CASE UNCHANGED vars
    BY <2>2 DEF vars, stream, Inside, TypeOK, NothingSleptThrough, nAvail
  <2> QED  BY <2>1, <2>2
<1> QED  BY <1>1, <1>2, PTL DEF Spec

(***************************************************************************)
(* The cursors stay inside the contents, as the assertions of              *)
(* SharedMemoryStream.inl say, and every variable keeps its type.          *)
(***************************************************************************)
THEOREM TypeCorrect == Spec => []TypeOK
BY AlwaysInside, PTL DEF Inside

(***************************************************************************)
(* The event of a stream is set whenever Read has something to find.       *)
(***************************************************************************)
THEOREM NothingIsSleptThrough == Spec => []NothingSleptThrough
BY AlwaysInside, PTL DEF Inside

-----------------------------------------------------------------------------
\* What Read and Write leave to their callers: one thread writes, and it ends the input.
OneWriter == \E w \in Threads : \A t \in Threads \ {w} : Ops[t] \cap {"Write", "CloseWrite"} = {}

\* A thread that keeps fMutex_ has found elements, and nobody has taken them since.
Kept == \A t \in Threads : pc[t] = "keep" => fMutex_ = t /\ nAvail > 0

\* The Require of Write still holds when it has fMutex_.
OpenToWriter == \A t \in Threads : pc[t] = "write" => "Write" \in Ops[t] /\ ~fClosedForWrites_

LEMMA KeptNext ==
  ASSUME Inside, Kept, [Next]_vars
  PROVE  Kept'
<1> USE DEF Inside
<1>1. None \notin Threads
  BY StreamAssumption
<1>2. Locks => \A t \in Threads : pc[t] # "keep"
  BY <1>1 DEF Kept, Locks
<1>3. ASSUME NEW t \in Threads, Call(t)
      PROVE  Kept'
  <2>1. ASSUME NEW n \in Sizes, Read(t, n) \/ Write(t, n)
        PROVE  Kept'
    BY <2>1 DEF Read, Write, Kept, nAvail, stream, At, TypeOK
  <2>2. ASSUME NEW n \in Sizes, ReadNonBlocking(t, n)
        PROVE  Kept'
    BY <1>2, <2>2 DEF ReadNonBlocking, Kept, nAvail, stream, At, TypeOK
  <2>3. CASE CloseWrite(t)
    BY <1>2, <2>3 DEF CloseWrite, Kept
  <2>4. CASE CloseRead(t)
    BY <2>4 DEF CloseRead, Kept, nAvail
  <2>5. ASSUME NEW whence \in Whences, NEW offset \in Offsets,
               SeekRead(t, whence, offset) \/ SeekWrite(t, whence, offset)
        PROVE  Kept'
    BY <1>2, <2>5 DEF SeekRead, SeekWrite, Kept
  <2> QED  BY <1>3, <2>1, <2>2, <2>3, <2>4, <2>5 DEF Call
<1>4. ASSUME NEW t \in Threads, Step(t) \/ WaitInterrupted(t)
      PROVE  Kept'
  <2>1. CASE WaitReturns(t) \/ TryAgain(t)
    BY <2>1 DEF WaitReturns, TryAgain, Kept, nAvail, stream, At, TypeOK
  <2>2. CASE WaitInterrupted(t)
    BY <2>2 DEF WaitInterrupted, Kept, nAvail, stream, At, TypeOK
  <2>3. CASE ReadReturns(t) \/ WriteLocked(t)
    BY <1>2, <2>3 DEF ReadReturns, WriteLocked, Kept, At, TypeOK
  <2>4. CASE ReadNonBlockingReturns(t)
    BY <2>4 DEF ReadNonBlockingReturns, Kept, At, TypeOK
  <2> QED  BY <1>4, <2>1, <2>2, <2>3, <2>4 DEF Step
<1>5. CASE UNCHANGED vars
  BY <1>5 DEF vars, stream, Kept, nAvail
<1> QED  BY <1>3, <1>4, <1>5 DEF Next

LEMMA OpenToWriterNext ==
  ASSUME OneWriter, Inside, OpenToWriter, [Next]_vars
  PROVE  OpenToWriter'
<1> USE DEF Inside
<1>1. ASSUME NEW t \in Threads, NEW n \in Sizes, Write(t, n)
      PROVE  OpenToWriter'
  BY <1>1 DEF Write, Calls, OpenToWriter, stream, At, TypeOK
<1>2. ASSUME NEW t \in Threads, CloseWrite(t)
      PROVE  OpenToWriter'
  <2>1. \A u \in Threads : pc[u] # "write"
    BY <1>2 DEF CloseWrite, Calls, OneWriter, OpenToWriter
  <2> QED  BY <1>2, <2>1 DEF CloseWrite, OpenToWriter
<1>3. ASSUME fClosedForWrites_' = fClosedForWrites_,
             NEW t \in Threads, NEW place \in {"idle", "wait", "look", "keep"},
             At(t, place) \/ UNCHANGED pc
      PROVE  OpenToWriter'
  BY <1>3 DEF OpenToWriter, At, TypeOK
<1>4. ASSUME NEW t \in Threads, NEW n \in Sizes, Read(t, n) \/ ReadNonBlocking(t, n)
      PROVE  OpenToWriter'
  <2>1. /\ fClosedForWrites_' = fClosedForWrites_
        /\ At(t, "wait") \/ At(t, "keep") \/ UNCHANGED pc
    BY <1>4 DEF Read, ReadNonBlocking, stream
  <2> QED  BY <1>3, <2>1
<1>5. ASSUME NEW t \in Threads, CloseRead(t)
      PROVE  OpenToWriter'
  BY <1>3, <1>5 DEF CloseRead
<1>6. ASSUME NEW t \in Threads, NEW whence \in Whences, NEW offset \in Offsets,
             SeekRead(t, whence, offset) \/ SeekWrite(t, whence, offset)
      PROVE  OpenToWriter'
  BY <1>3, <1>6 DEF SeekRead, SeekWrite
<1>7. ASSUME NEW t \in Threads, Step(t) \/ WaitInterrupted(t)
      PROVE  OpenToWriter'
  <2>1. fClosedForWrites_' = fClosedForWrites_
    BY <1>7 DEF Step, WaitReturns, TryAgain, ReadReturns, ReadNonBlockingReturns, WriteLocked,
                WaitInterrupted, Copy, stream
  <2>2. At(t, "idle") \/ At(t, "wait") \/ At(t, "look")
    BY <1>7 DEF Step, WaitReturns, TryAgain, ReadReturns, ReadNonBlockingReturns, WriteLocked,
                WaitInterrupted
  <2> QED  BY <1>3, <2>1, <2>2
<1>8. CASE UNCHANGED vars
  BY <1>8 DEF vars, stream, OpenToWriter
<1> QED  BY <1>1, <1>2, <1>4, <1>5, <1>6, <1>7, <1>8 DEF Next, Call

-----------------------------------------------------------------------------
\* Copy gets the next elements, or the end of input when there are none.
LEMMA CopyIsGet ==
  ASSUME TypeOK, NEW t \in Threads, Copy(t), nAvail > 0 \/ fClosedForWrites_
  PROVE  Pipe!Get(t) \/ Pipe!GetEnd(t)
<1> DEFINE n == Smaller(nAvail, requested[t])
<1>1. /\ fReadCursor_' = fReadCursor_ + n
      /\ answer' = [answer EXCEPT ![t] = SubSeq(fData_, fReadCursor_ + 1, fReadCursor_ + n)]
      /\ nAvail > 0 <=> n > 0
      /\ n \in 0 .. nAvail
      /\ UNCHANGED <<fData_, fWriteCursor_, fClosedForWrites_, written>>
  BY CopyTyped DEF Copy
<1>2. Len(fData_) \in Nat /\ fReadCursor_ \in 0 .. Len(fData_)
  BY DEF TypeOK
<1> HIDE DEF n
<1>3. CASE nAvail > 0
  <2>1. n \in 1 .. Len(fData_) - fReadCursor_
    BY <1>1, <1>2, <1>3 DEF nAvail
  <2> QED  BY <1>1, <2>1 DEF Pipe!Get
<1>4. CASE ~(nAvail > 0)
  <2>1. n = 0 /\ fReadCursor_ = Len(fData_) /\ fClosedForWrites_
    BY <1>1, <1>2, <1>4 DEF nAvail
  <2>2. SubSeq(fData_, fReadCursor_ + 1, fReadCursor_ + n) = <<>>
    BY <1>2, <2>1, SubSeqEmpty DEF TypeOK
  <2>3. fReadCursor_' = fReadCursor_
    BY <1>1, <1>2, <2>1
  <2>4. answer' = [answer EXCEPT ![t] = <<>>]
    BY <1>1, <2>2
  <2> QED  BY <1>1, <2>1, <2>3, <2>4 DEF Pipe!GetEnd
<1> QED  BY <1>3, <1>4

LEMMA CallIsPipeStep ==
  ASSUME Inside, NEW t \in Threads, Call(t)
  PROVE  [Pipe!Next]_(Pipe!vars)
<1> USE DEF Inside
<1>1. ASSUME NEW n \in Sizes, Read(t, n) PROVE Pipe!Ask(t)
  BY <1>1 DEF Read, stream, Pipe!Ask
<1>2. ASSUME NEW n \in Sizes, ReadNonBlocking(t, n) PROVE Pipe!Ask(t) \/ Pipe!GetEnd(t)
  <2>1. nAvail = 0 => fReadCursor_ = Len(fData_)
    BY DEF TypeOK, nAvail
  <2> QED  BY <1>2, <2>1 DEF ReadNonBlocking, stream, Pipe!Ask, Pipe!GetEnd
<1>3. ASSUME NEW n \in Sizes, Write(t, n) PROVE UNCHANGED Pipe!vars
  BY <1>3 DEF Write, stream, Pipe!vars
<1>4. CASE CloseWrite(t)
  BY <1>4 DEF CloseWrite, Pipe!End, Pipe!Next
<1>5. CASE CloseRead(t)
  BY <1>5 DEF CloseRead, Pipe!vars
<1>6. ASSUME NEW whence \in Whences, NEW offset \in Offsets,
             SeekRead(t, whence, offset) \/ SeekWrite(t, whence, offset)
      PROVE  Pipe!Seek
  <2>1. fReadCursor_' \in 0 .. Len(fData_) /\ fWriteCursor_' \in 0 .. Len(fData_)
    BY <1>6, SoughtInside DEF SeekRead, SeekWrite, TypeOK
  <2> QED  BY <1>6, <2>1 DEF SeekRead, SeekWrite, Pipe!Seek
<1> QED  BY <1>1, <1>2, <1>3, <1>4, <1>5, <1>6 DEF Call, Pipe!Next

LEMMA StepIsPipeStep ==
  ASSUME Inside, Kept, OpenToWriter, NEW t \in Threads, Step(t) \/ WaitInterrupted(t)
  PROVE  [Pipe!Next]_(Pipe!vars)
<1> USE DEF Inside
<1>1. CASE WaitReturns(t) \/ TryAgain(t) \/ WaitInterrupted(t)
  BY <1>1 DEF WaitReturns, TryAgain, WaitInterrupted, stream, Pipe!vars
<1>2. CASE ReadReturns(t)
  BY <1>2, CopyIsGet DEF ReadReturns, Pipe!Next
<1>3. CASE ReadNonBlockingReturns(t)
  BY <1>3, CopyIsGet DEF ReadNonBlockingReturns, Kept, Pipe!Next
<1>4. CASE WriteLocked(t)
  <2> DEFINE n == requested[t]
  <2>1. /\ n \in Nat \ {0} /\ written \in Nat
        /\ Len(fData_) \in Nat /\ fWriteCursor_ \in 0 .. Len(fData_)
    BY DEF TypeOK
  <2>2. /\ pc[t] = "write"
        /\ fData_' = Overwritten(n)
        /\ fWriteCursor_' = fWriteCursor_ + n
        /\ written' = written + n
        /\ UNCHANGED <<fReadCursor_, fClosedForWrites_, answer>>
    BY <1>4 DEF WriteLocked
  <2>3. ~fClosedForWrites_
    BY <2>2 DEF OpenToWriter
  <2> HIDE DEF n
  <2>4. /\ written' \in Nat /\ written' > written
        /\ written' - written = n
        /\ fWriteCursor_' = fWriteCursor_ + (written' - written)
    BY <2>1, <2>2
  <2>5. (IF Len(fData_) > fWriteCursor_' THEN Len(fData_) ELSE fWriteCursor_')
          = (IF Len(fData_) - fWriteCursor_ < n THEN fWriteCursor_ + n ELSE Len(fData_))
    BY <2>1, <2>2
  <2>6. fData_' = [i \in 1 .. IF Len(fData_) > fWriteCursor_' THEN Len(fData_) ELSE fWriteCursor_' |->
                     IF i \in fWriteCursor_ + 1 .. fWriteCursor_' THEN written + (i - fWriteCursor_)
                     ELSE fData_[i]]
    BY <2>2, <2>5 DEF Overwritten
  <2> QED  BY <2>2, <2>3, <2>4, <2>6 DEF Pipe!Put, Pipe!Next
<1> QED  BY <1>1, <1>2, <1>3, <1>4 DEF Step

(***************************************************************************)
(* While one thread writes and ends the input, whoever reads and seeks,    *)
(* the calls of a SharedMemoryStream are those of SeekablePipe: reads get  *)
(* the next elements, each one reader's, and none only at the end.         *)
(***************************************************************************)
THEOREM ImplementsSeekablePipe == ASSUME OneWriter PROVE Spec => PipeSpec
<1> DEFINE IInv == Inside /\ Kept /\ OpenToWriter
<1>1. Init => IInv
  <2>1. Init => Kept /\ OpenToWriter
    BY DEF Init, Kept, OpenToWriter
  <2> QED  BY <2>1, InitInside
<1>2. IInv /\ [Next]_vars => Kept' /\ OpenToWriter'
  BY OneWriter, KeptNext, OpenToWriterNext
<1>3. Init => Pipe!Init
  BY DEF Init, Pipe!Init
<1>4. IInv /\ [Next]_vars => [Pipe!Next]_(Pipe!vars)
  <2> SUFFICES ASSUME IInv, [Next]_vars PROVE [Pipe!Next]_(Pipe!vars)
    OBVIOUS
  <2>1. CASE Next
    BY <2>1, CallIsPipeStep, StepIsPipeStep DEF Next
  <2>2. CASE UNCHANGED vars
    BY <2>2 DEF vars, stream, Pipe!vars
  <2> QED  BY <2>1, <2>2
<1> QED
  BY <1>1, <1>2, <1>3, <1>4, AlwaysInside, PTL DEF Spec, PipeSpec, Pipe!Spec

=============================================================================
