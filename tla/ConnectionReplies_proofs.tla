----------------------- MODULE ConnectionReplies_proofs -----------------------
(***************************************************************************)
(* Proof that the web server sends each client at most one reply for each  *)
(* request, for any connections, workers and requests: ConnectionManager   *)
(* implements RequestReply.                                                *)
(*                                                                         *)
(* Nothing in the server counts requests.  That its replies are no more    *)
(* rests on what each message takes off the wire: a message that is        *)
(* answered takes a piece with which a request ended.  So the proof keeps  *)
(* books, for each connection: the replies sent, the one that is due, and  *)
(* the requests on the wire are no more than the requests sent.            *)
(***************************************************************************)
EXTENDS ConnectionManager_proofs

Asking == {"request", "post", "rest"}

\* The places on the wire of the pieces with which requests end.
Asks(s) == {i \in 1 .. Len(s) : s[i] \in Asking}

\* What a client sends after a piece.
Rest(p) == IF p = "start" THEN "rest" ELSE IF p = "post" THEN "body" ELSE None

Follows(p, q) ==
  /\ p # "end"
  /\ q # "end" => (p = "start" <=> q = "rest") /\ (p = "post" <=> q = "body")

Grammatical(s, owed) ==
  /\ \A i \in 1 .. Len(s) - 1 : Follows(s[i], s[i + 1])
  /\ s # <<>> => owed = Rest(s[Len(s)])

BodyFirst(s, owed) == IF s = <<>> THEN owed = "body" ELSE s[1] = "body"

-----------------------------------------------------------------------------
LEMMA AsksFinite ==
  ASSUME NEW s \in Seq(Pieces)
  PROVE  IsFiniteSet(Asks(s)) /\ Cardinality(Asks(s)) \in Nat
<1>1. Len(s) \in Int /\ Asks(s) \in SUBSET (1 .. Len(s))
  BY DEF Asks
<1>2. IsFiniteSet(1 .. Len(s))
  BY <1>1, FS_Interval
<1> QED  BY <1>1, <1>2, FS_Subset, FS_CardinalityType

LEMMA AsksOfAppend ==
  ASSUME NEW s \in Seq(Pieces), NEW p \in Pieces
  PROVE  Cardinality(Asks(Append(s, p))) = Cardinality(Asks(s)) + (IF p \in Asking THEN 1 ELSE 0)
<1>1. /\ Len(s) \in Nat /\ Len(Append(s, p)) = Len(s) + 1 /\ Append(s, p)[Len(s) + 1] = p
      /\ \A i \in 1 .. Len(s) : Append(s, p)[i] = s[i]
  BY AppendProperties
<1>2. Len(s) + 1 \notin Asks(s)
  BY <1>1 DEF Asks
<1>3. \A i : i \in 1 .. Len(s) + 1 <=> i \in 1 .. Len(s) \/ i = Len(s) + 1
  BY <1>1
<1>4. \A i : i \in Asks(Append(s, p)) <=> i \in Asks(s) \/ (i = Len(s) + 1 /\ p \in Asking)
  <2> SUFFICES ASSUME NEW i
               PROVE  i \in Asks(Append(s, p)) <=> i \in Asks(s) \/ (i = Len(s) + 1 /\ p \in Asking)
    OBVIOUS
  <2>1. CASE i \in 1 .. Len(s)
    BY <1>1, <1>3, <2>1 DEF Asks
  <2>2. CASE i \notin 1 .. Len(s)
    BY <1>1, <1>3, <2>2 DEF Asks
  <2> QED  BY <2>1, <2>2
<1>5. CASE p \in Asking
  <2>1. Asks(Append(s, p)) = Asks(s) \cup {Len(s) + 1}
    BY <1>4, <1>5
  <2> QED  BY <1>2, <1>5, <2>1, AsksFinite, FS_AddElement
<1>6. CASE p \notin Asking
  <2>1. Asks(Append(s, p)) = Asks(s)
    BY <1>4, <1>6
  <2> QED  BY <1>6, <2>1, AsksFinite
<1> QED  BY <1>5, <1>6

\* What remains when the first piece is taken.
LEMMA FirstTaken ==
  ASSUME NEW s \in Seq(Pieces), s # <<>>
  PROVE  /\ Tail(s) \in Seq(Pieces) /\ Len(s) \in Nat \ {0} /\ Len(Tail(s)) = Len(s) - 1
         /\ \A i \in 1 .. Len(s) - 1 : Tail(s)[i] = s[i + 1] /\ i + 1 \in 1 .. Len(s)
         /\ \A i \in 1 .. Len(s) : i = 1 \/ (i - 1 \in 1 .. Len(s) - 1 /\ s[i] = Tail(s)[i - 1])
<1>1. /\ Tail(s) \in Seq(Pieces) /\ Len(s) \in Nat \ {0} /\ Len(Tail(s)) = Len(s) - 1
      /\ \A i \in 1 .. Len(Tail(s)) : Tail(s)[i] = s[i + 1]
  BY EmptySeq, HeadTailProperties
<1>2. \A i \in 1 .. Len(s) - 1 : i + 1 \in 1 .. Len(s)
  BY <1>1
<1>3. \A i \in 1 .. Len(s) : i = 1 \/ (i - 1 \in 1 .. Len(s) - 1 /\ (i - 1) + 1 = i)
  BY <1>1
<1> QED  BY <1>1, <1>2, <1>3

LEMMA AsksOfTail ==
  ASSUME NEW s \in Seq(Pieces), s # <<>>
  PROVE  Cardinality(Asks(s)) = Cardinality(Asks(Tail(s))) + (IF s[1] \in Asking THEN 1 ELSE 0)
<1> DEFINE t == Tail(s)
           T == Asks(t)
           S == Asks(s) \ {1}
           f == [i \in T |-> i + 1]
<1>1. /\ t \in Seq(Pieces) /\ Len(s) \in Nat \ {0} /\ Len(t) = Len(s) - 1
      /\ \A i \in 1 .. Len(s) - 1 : t[i] = s[i + 1] /\ i + 1 \in 1 .. Len(s)
      /\ \A i \in 1 .. Len(s) : i = 1 \/ (i - 1 \in 1 .. Len(s) - 1 /\ s[i] = t[i - 1])
  BY FirstTaken
<1> HIDE DEF t
<1>2. T \subseteq 1 .. Len(s) - 1 /\ \A i \in T : i \in Nat /\ i # 0
  BY <1>1 DEF Asks
<1>3. \A i \in T : i + 1 \in S
  BY <1>1, <1>2 DEF Asks
<1>4. \A j \in S : j - 1 \in T /\ (j - 1) + 1 = j
  BY <1>1 DEF Asks
<1>5. f \in Bijection(T, S)
  <2>1. f \in [T -> S]
    BY <1>3
  <2>2. \A i, j \in T : f[i] = f[j] => i = j
    BY <1>2
  <2>3. \A j \in S : \E i \in T : f[i] = j
    BY <1>4
  <2> QED  BY <2>1, <2>2, <2>3 DEF Bijection, Injection, Surjection, IsInjective
<1>6. Cardinality(S) = Cardinality(T)
  BY <1>1, <1>5, AsksFinite, FS_Bijection DEF ExistsBijection
<1>7. 1 \in Asks(s) <=> s[1] \in Asking
  BY <1>1 DEF Asks
<1>8. IsFiniteSet(Asks(s)) /\ Cardinality(Asks(s)) \in Nat
  BY AsksFinite
<1>9. Cardinality(S) = IF s[1] \in Asking THEN Cardinality(Asks(s)) - 1 ELSE Cardinality(Asks(s))
  BY <1>7, <1>8, FS_RemoveElement
<1>10. Cardinality(T) = Cardinality(Asks(Tail(s))) /\ Cardinality(T) \in Nat
  BY <1>1, AsksFinite DEF t
<1> QED  BY <1>6, <1>8, <1>9, <1>10

LEMMA GrammarOfTail ==
  ASSUME NEW s \in Seq(Pieces), s # <<>>, NEW owed, Grammatical(s, owed)
  PROVE  /\ Tail(s) \in Seq(Pieces)
         /\ Grammatical(Tail(s), owed)
         /\ s[1] # "end" => (Contains(Tail(s), "end") <=> Contains(s, "end"))
         /\ s[1] # "post" => ~BodyFirst(Tail(s), owed)
         /\ Tail(s) # <<>> => Follows(s[1], Tail(s)[1])
<1> DEFINE t == Tail(s)
<1>1. /\ t \in Seq(Pieces) /\ Len(s) \in Nat \ {0} /\ Len(t) = Len(s) - 1
      /\ \A i \in 1 .. Len(s) - 1 : t[i] = s[i + 1] /\ i + 1 \in 1 .. Len(s)
      /\ \A i \in 1 .. Len(s) : i = 1 \/ (i - 1 \in 1 .. Len(s) - 1 /\ s[i] = t[i - 1])
  BY FirstTaken
<1> HIDE DEF t
<1>2. t = <<>> <=> Len(s) = 1
  BY <1>1, EmptySeq
<1>3. s[1] # "end" => (Contains(t, "end") <=> Contains(s, "end"))
  BY <1>1 DEF Contains
<1>4. \A i \in 1 .. Len(t) - 1 : Follows(t[i], t[i + 1])
  <2> SUFFICES ASSUME NEW i \in 1 .. Len(t) - 1 PROVE Follows(t[i], t[i + 1])
    OBVIOUS
  <2>1. i \in 1 .. Len(s) - 1 /\ i + 1 \in 1 .. Len(s) - 1
    BY <1>1
  <2>2. t[i] = s[i + 1] /\ t[i + 1] = s[(i + 1) + 1]
    BY <1>1, <2>1
  <2> QED  BY <2>1, <2>2 DEF Grammatical
<1>5. t # <<>> => t[Len(t)] = s[Len(s)]
  <2> SUFFICES ASSUME t # <<>> PROVE t[Len(t)] = s[Len(s)]
    OBVIOUS
  <2>1. Len(s) - 1 \in 1 .. Len(s) - 1 /\ (Len(s) - 1) + 1 = Len(s)
    BY <1>1, <1>2
  <2> QED  BY <1>1, <2>1
<1>6. t # <<>> => t[1] = s[2] /\ 1 \in 1 .. Len(s) - 1
  BY <1>1, <1>2
<1>7. Grammatical(t, owed)
  BY <1>4, <1>5 DEF Grammatical
<1>8. t # <<>> => Follows(s[1], t[1])
  BY <1>6 DEF Grammatical
<1>9. s[1] # "post" => ~BodyFirst(t, owed)
  BY <1>2, <1>8, ConnectionAssumption DEF BodyFirst, Grammatical, Rest, Follows, Pieces
<1> QED  BY <1>1, <1>3, <1>7, <1>8, <1>9 DEF t

LEMMA GrammarOfAppend ==
  ASSUME NEW s \in Seq(Pieces), NEW p \in Pieces, NEW owed, Grammatical(s, owed), ~Contains(s, "end"),
         p \in IF owed = None THEN {"request", "post", "start", "end"} ELSE {owed, "end"}
  PROVE  /\ Append(s, p) \in Seq(Pieces)
         /\ Grammatical(Append(s, p), Rest(p))
         /\ Contains(Append(s, p), "end") <=> p = "end"
         /\ ~BodyFirst(s, owed) => ~BodyFirst(Append(s, p), Rest(p))
<1> DEFINE a == Append(s, p)
<1>1. /\ a \in Seq(Pieces) /\ Len(s) \in Nat /\ Len(a) = Len(s) + 1 /\ a[Len(s) + 1] = p
      /\ \A i \in 1 .. Len(s) : a[i] = s[i]
      /\ a # <<>>
  BY AppendProperties
<1>2. s = <<>> <=> Len(s) = 0
  BY EmptySeq
<1> HIDE DEF a
<1>3. \A i \in 1 .. Len(s) + 1 : i \in 1 .. Len(s) \/ i = Len(s) + 1
  BY <1>1
<1>4. Contains(a, "end") <=> p = "end"
  BY <1>1, <1>3 DEF Contains
<1>5. ASSUME s # <<>> PROVE Follows(s[Len(s)], p)
  <2>1. Len(s) \in 1 .. Len(s)
    BY <1>1, <1>2, <1>5
  <2>2. s[Len(s)] \in Pieces /\ s[Len(s)] # "end" /\ owed = Rest(s[Len(s)])
    BY <1>5, <2>1 DEF Contains, Grammatical
  <2> QED  BY <2>2, ConnectionAssumption DEF Follows, Rest, Pieces
<1>6. \A i \in 1 .. Len(a) - 1 : Follows(a[i], a[i + 1])
  <2> SUFFICES ASSUME NEW i \in 1 .. Len(s) PROVE Follows(a[i], a[i + 1])
    BY <1>1
  <2>1. CASE i = Len(s)
    BY <1>1, <1>2, <1>5, <2>1
  <2>2. CASE i # Len(s)
    <3>1. i \in 1 .. Len(s) - 1 /\ i + 1 \in 1 .. Len(s)
      BY <1>1, <2>2
    <3> QED  BY <1>1, <3>1 DEF Grammatical
  <2> QED  BY <2>1, <2>2
<1>7. Grammatical(a, Rest(p))
  BY <1>1, <1>6 DEF Grammatical
<1>8. ~BodyFirst(s, owed) => ~BodyFirst(a, Rest(p))
  <2>1. s # <<>> => a[1] = s[1]
    BY <1>1, <1>2
  <2>2. s = <<>> => a[1] = p
    BY <1>1, <1>2
  <2> QED  BY <1>1, <2>1, <2>2 DEF BodyFirst
<1> QED  BY <1>1, <1>4, <1>7, <1>8 DEF a
-----------------------------------------------------------------------------
(* What a message takes off the wire. *)

Taken(s, n, to, keep) ==
  \/ s = <<"start">> /\ n = 1 /\ to = "remove" /\ keep
  \/ Head(s) = "end" /\ n = 0 /\ to = "remove" /\ ~keep
  \/ Head(s) = "post" /\ n = 1 /\ to \in {"handlePost", "remove"} /\ ~keep
  \/ /\ s # <<"start">> /\ Head(s) \notin {"end", "post"}
     /\ n = IF IsPrefix(<<"start", "rest">>, s) THEN 2 ELSE 1
     /\ to \in {"handle", "remove"} /\ ~keep

LEMMA ReadTaken ==
  ASSUME NEW w \in Workers, ReadHeaders(w)
  PROVE  \E n \in {0, 1, 2}, to \in {"handle", "handlePost", "remove"}, keep \in BOOLEAN :
           Message(w, n, to, keep) /\ Taken(wire[conn[w]], n, to, keep)
<1> DEFINE s == wire[conn[w]]
<1>1. CASE s = <<"start">>
  BY <1>1 DEF ReadHeaders, Taken
<1>2. CASE s # <<"start">> /\ Head(s) = "end"
  BY <1>2 DEF ReadHeaders, Taken
<1>3. CASE s # <<"start">> /\ Head(s) = "post"
  BY <1>3 DEF ReadHeaders, Taken
<1>4. CASE s # <<"start">> /\ Head(s) \notin {"end", "post"}
  <2>1. PICK n \in {1, 2}, to \in {"handle", "remove"} :
          Message(w, n, to, FALSE) /\ n = IF IsPrefix(<<"start", "rest">>, s) THEN 2 ELSE 1
    BY <1>4 DEF ReadHeaders
  <2> QED  BY <1>4, <2>1 DEF Taken
<1> QED  BY <1>1, <1>2, <1>3, <1>4

\* A message that is answered takes the end of a request, unless the client hung up in it.
LEMMA MessageTakes ==
  ASSUME NEW s \in Seq(Pieces), s # <<>>, NEW owed, Grammatical(s, owed), ~BodyFirst(s, owed),
         NEW n, NEW to, NEW keep \in BOOLEAN, Taken(s, n, to, keep)
  PROVE  LET r == SubSeq(s, n + 1, Len(s))
         IN /\ r \in Seq(Pieces)
            /\ Grammatical(r, owed)
            /\ Contains(r, "end") <=> Contains(s, "end")
            /\ ~Contains(s, "end") =>
                 Cardinality(Asks(r)) + (IF keep THEN 0 ELSE 1) <= Cardinality(Asks(s))
            /\ to = "handle" \/ keep => ~BodyFirst(r, owed)
<1> DEFINE t == Tail(s)
           r == SubSeq(s, n + 1, Len(s))
<1>1. /\ t \in Seq(Pieces) /\ Grammatical(t, owed)
      /\ s[1] # "end" => (Contains(t, "end") <=> Contains(s, "end"))
      /\ s[1] # "post" => ~BodyFirst(t, owed)
      /\ t # <<>> => Follows(s[1], t[1])
  BY GrammarOfTail
<1>2. /\ Cardinality(Asks(s)) = Cardinality(Asks(t)) + (IF s[1] \in Asking THEN 1 ELSE 0)
      /\ Cardinality(Asks(s)) \in Nat /\ Cardinality(Asks(t)) \in Nat
  BY <1>1, AsksOfTail, AsksFinite
<1>3. Len(s) \in Nat \ {0} /\ Head(s) = s[1] /\ s[1] \in Pieces \ {"body"}
  BY EmptySeq, FirstTaken, HeadTailProperties DEF BodyFirst
<1>4. Len(t) = Len(s) - 1 /\ \A i \in 1 .. Len(s) - 1 : t[i] = s[i + 1]
  BY FirstTaken
<1>5. /\ n = 0 => r = s
      /\ n = 1 => r = t
      /\ n = 2 /\ Len(s) >= 2 => r = Tail(t)
  BY <1>3, SubSeqFull, TailIsSubSeq, HeadTailOfSubSeq
<1> SUFFICES /\ r \in Seq(Pieces)
             /\ Grammatical(r, owed)
             /\ Contains(r, "end") <=> Contains(s, "end")
             /\ ~Contains(s, "end") =>
                  Cardinality(Asks(r)) + (IF keep THEN 0 ELSE 1) <= Cardinality(Asks(s))
             /\ to = "handle" \/ keep => ~BodyFirst(r, owed)
  OBVIOUS
<1> HIDE DEF r, t
<1>6. CASE n = 0
  <2>1. s[1] = "end" /\ to = "remove" /\ ~keep
    BY <1>3, <1>6 DEF Taken
  <2>2. Contains(s, "end")
    BY <1>3, <2>1 DEF Contains
  <2> QED  BY <1>5, <1>6, <2>1, <2>2
<1>7. CASE n = 1
  <2>1. s[1] # "end" /\ (to = "handle" \/ keep => s[1] # "post")
    BY <1>3, <1>7 DEF Taken
  <2>2. ASSUME ~Contains(s, "end"), ~keep PROVE s[1] \in Asking
    <3> SUFFICES ASSUME s[1] = "start" PROVE FALSE
      BY <1>3, <2>1 DEF Asking, Pieces
    <3>1. s # <<"start">> /\ ~IsPrefix(<<"start", "rest">>, s)
      BY <1>3, <1>7, <2>2 DEF Taken
    <3>2. Len(s) # 1 /\ Len(s) >= 2
      <4>1. Len(s) # 1
        BY <1>3, <3>1
      <4>2. Len(s) \in Nat /\ Len(s) # 0
        BY <1>3
      <4> DEFINE m == Len(s)
      <4> HIDE DEF m
      <4>3. m \in Nat /\ m # 0 /\ m # 1 => m >= 2
        OBVIOUS
      <4> QED  BY <4>1, <4>2, <4>3 DEF m
    <3>3. t # <<>> /\ t[1] = s[2] /\ 1 \in 1 .. Len(t)
      BY <1>3, <1>4, <3>2
    <3>4. t[1] # "rest"
      <4>1. ASSUME s[2] = "rest" PROVE IsPrefix(<<"start", "rest">>, s)
        <5>1. \A i \in 1 .. 2 : s[i] \in {"start", "rest"}
          BY <1>3, <4>1
        <5> DEFINE q == SubSeq(s, 1, 2)
        <5>2. q \in Seq({"start", "rest"}) /\ Len(q) = 2 /\ q[1] = "start" /\ q[2] = "rest"
          BY <1>3, <4>1, <5>1, SubSeqProperties
        <5> DEFINE p == <<"start", "rest">>
        <5>3. p \in Seq({"start", "rest"}) /\ Len(p) = 2 /\ p[1] = "start" /\ p[2] = "rest"
          OBVIOUS
        <5>4. SubSeq(p, 1, Len(p)) = p
          BY <5>3, SubSeqFull
        <5>5. q = p
          <6> HIDE DEF p, q
          <6> QED  BY <5>2, <5>3, SeqEqual
        <5> QED  BY <3>2, <5>3, <5>4, <5>5 DEF IsPrefix
      <4> QED  BY <3>1, <3>3, <4>1
    <3>5. t[1] = "end"
      BY <1>1, <3>3, <3>4 DEF Follows
    <3> QED  BY <1>1, <2>1, <2>2, <3>3, <3>5 DEF Contains
  <2>3. ~Contains(s, "end") => Cardinality(Asks(t)) + (IF keep THEN 0 ELSE 1) <= Cardinality(Asks(s))
    BY <1>2, <2>2
  <2> QED  BY <1>1, <1>5, <1>7, <2>1, <2>3
<1>8. CASE n = 2
  <2>1. IsPrefix(<<"start", "rest">>, s) /\ ~keep
    BY <1>8 DEF Taken
  <2>2. Len(s) >= 2 /\ s[1] = "start" /\ s[2] = "rest"
    BY <1>3, <2>1 DEF IsPrefix
  <2>3. t # <<>> /\ t[1] = "rest"
    BY <1>3, <1>4, <2>2
  <2>4. r = Tail(t)
    BY <1>5, <1>8, <2>2
  <2>5. /\ r \in Seq(Pieces) /\ Grammatical(r, owed)
        /\ Contains(r, "end") <=> Contains(t, "end")
        /\ ~BodyFirst(r, owed)
    BY <1>1, <2>3, <2>4, GrammarOfTail
  <2>6. Cardinality(Asks(t)) = Cardinality(Asks(r)) + 1 /\ Cardinality(Asks(r)) \in Nat
    BY <1>1, <2>3, <2>4, <2>5, AsksOfTail, AsksFinite DEF Asking
  <2> QED  BY <1>1, <1>2, <2>1, <2>2, <2>5, <2>6
<1>9. n \in {0, 1, 2}
  BY DEF Taken
<1> QED  BY <1>6, <1>7, <1>8, <1>9

-----------------------------------------------------------------------------
(* The books of each connection. *)

Replying(w) ==
  \/ pc[w] \in {"handle", "handlePost", "body", "end", "finish"}
  \/ pc[w] = "remove" /\ ~keepAlive[w]

Unanswered(d) ==
  IF fState_[d] = "eInProgress" /\ \E w \in Workers : conn[w] = d /\ Replying(w) THEN 1 ELSE 0

\* The task of w has left no body to be read.
WantsNoBody(w) ==
  \/ pc[w] \in {"read", "handle", "add"}
  \/ pc[w] \in {"end", "remove"} /\ keepAlive[w]

AtRest(d) ==
  \/ d \notin accepted
  \/ d \in Held /\ \A w \in Workers : conn[w] = d => WantsNoBody(w)

Book(d) ==
  /\ Grammatical(wire[d], owes[d])
  /\ AtRest(d) => ~BodyFirst(wire[d], owes[d])
  /\ ~HungUp(d) => answered[d] + Unanswered(d) + Cardinality(Asks(wire[d])) <= asked[d]

\* Whatever is to be read has something to read.
HasInput ==
  /\ \A c \in ready \cup Queued : wire[c] # <<>>
  /\ waiterConn # None => wire[waiterConn] # <<>>
  /\ \A w \in Workers : pc[w] = "read" => wire[conn[w]] # <<>>

Handled == \A w \in Workers : pc[w] \in {"handle", "handlePost"} => fState_[conn[w]] = "eInProgress"

Books == Holding /\ (\A d \in Connections : Book(d)) /\ HasInput /\ Handled

\* A connection of which nothing changes but who has it.
LEMMA BookKept ==
  ASSUME Holding, NEW d \in Connections, Book(d),
         wire'[d] = wire[d], owes'[d] = owes[d], asked'[d] = asked[d],
         fState_'[d] = fState_[d], answered'[d] = answered[d],
         AtRest(d)' => AtRest(d),
         \A w \in Workers : conn'[w] = d /\ Replying(w)' => conn[w] = d /\ Replying(w)
  PROVE  Book(d)'
<1>1. Unanswered(d)' <= Unanswered(d) /\ Unanswered(d) \in Nat /\ Unanswered(d)' \in Nat
  BY DEF Unanswered
<1>2. wire[d] \in Seq(Pieces) /\ answered[d] \in Nat /\ asked[d] \in Nat
  BY DEF Holding, OneHolder, TypeOK
<1>3. Cardinality(Asks(wire[d])) \in Nat
  BY <1>2, AsksFinite
<1>4. (~HungUp(d) => answered[d] + Unanswered(d) + Cardinality(Asks(wire[d])) <= asked[d])'
  BY <1>1, <1>2, <1>3 DEF Book, HungUp
<1> QED  BY <1>4 DEF Book

\* Who has a connection, seen from its task.
LEMMA InTask ==
  ASSUME OneHolder, NEW w \in Workers, NEW d, d # None, conn[w] = d
  PROVE  /\ d \in Connections /\ d \in accepted /\ d \in Held
         /\ AtRest(d) <=> WantsNoBody(w)
         /\ Unanswered(d) = IF fState_[d] = "eInProgress" /\ Replying(w) THEN 1 ELSE 0
<1>1. d \in Connections /\ d \in accepted /\ \A v \in Workers : conn[v] = d => v = w
  BY DEF OneHolder, TypeOK
<1>2. d \in Held
  <2>1. d \in Range(conn)
    BY DEF OneHolder, TypeOK, Range
  <2> QED  BY <2>1 DEF Held
<1> QED  BY <1>1, <1>2 DEF AtRest, Unanswered

-----------------------------------------------------------------------------
(* The steps of the clients, the listener and the polling thread. *)

\* What a client sends goes on with what it has begun.
LEMMA Sent ==
  ASSUME TypeOK, NEW c \in Connections, Client(c)
  PROVE  \E piece \in IF owes[c] = None THEN {"request", "post", "start", "end"} ELSE {owes[c], "end"} :
           /\ piece \in Pieces /\ ~HungUp(c)
           /\ wire' = [wire EXCEPT ![c] = Append(@, piece)]
           /\ owes' = [owes EXCEPT ![c] = Rest(piece)]
           /\ asked' = [asked EXCEPT ![c] = IF piece \in Asking THEN @ + 1 ELSE @]
           /\ UNCHANGED <<sets, waiter, interrupted, workers, replies>>
<1>1. CASE Begin(c)
  <2>1. PICK piece \in Sends[c] :
          Send(c, piece, CASE piece = "request" -> None [] piece = "post" -> "body" [] piece = "start" -> "rest")
    BY <1>1 DEF Begin
  <2>2. owes[c] = None /\ piece \in {"request", "post", "start"}
    BY <1>1, ConnectionAssumption DEF Begin
  <2>3. Send(c, piece, Rest(piece))
    <3>1. CASE piece = "request"
      BY <2>1, <3>1 DEF Rest
    <3>2. CASE piece = "post"
      BY <2>1, <3>2 DEF Rest
    <3>3. CASE piece = "start"
      BY <2>1, <3>3 DEF Rest
    <3> QED  BY <2>2, <3>1, <3>2, <3>3
  <2> QED  BY <2>2, <2>3 DEF Send, Asking, Pieces
<1>2. CASE Complete(c)
  <2>1. owes[c] \in {"rest", "body"} /\ owes[c] # None
    BY <1>2 DEF Complete, TypeOK
  <2>2. Send(c, owes[c], Rest(owes[c]))
    BY <1>2, <2>1 DEF Complete, Rest
  <2> QED  BY <2>1, <2>2 DEF Send, Asking, Pieces
<1>3. CASE HangUp(c)
  <2>1. Send(c, "end", Rest("end"))
    BY <1>3 DEF HangUp, Rest
  <2> QED  BY <2>1 DEF Send, Asking, Pieces
<1> QED  BY <1>1, <1>2, <1>3 DEF Client

LEMMA ClientBooks ==
  ASSUME Books, NEW c \in Connections, Client(c)
  PROVE  Books'
<1>1. Holding'
  BY ClientHolding DEF Books
<1>2. TypeOK /\ ConnectionAssumption
  BY ConnectionAssumption DEF Books, Holding, OneHolder
<1>3. PICK piece \in IF owes[c] = None THEN {"request", "post", "start", "end"} ELSE {owes[c], "end"} :
         /\ piece \in Pieces /\ ~HungUp(c)
         /\ wire' = [wire EXCEPT ![c] = Append(@, piece)]
         /\ owes' = [owes EXCEPT ![c] = Rest(piece)]
         /\ asked' = [asked EXCEPT ![c] = IF piece \in Asking THEN @ + 1 ELSE @]
         /\ UNCHANGED <<sets, waiter, interrupted, workers, replies>>
  BY <1>2, Sent
<1>4. /\ wire'[c] = Append(wire[c], piece) /\ owes'[c] = Rest(piece)
      /\ asked'[c] = asked[c] + (IF piece \in Asking THEN 1 ELSE 0)
      /\ \A d \in Connections \ {c} : wire'[d] = wire[d] /\ owes'[d] = owes[d] /\ asked'[d] = asked[d]
  BY <1>2, <1>3 DEF TypeOK
<1>5. \A d \in Connections : /\ AtRest(d)' <=> AtRest(d)
                             /\ Unanswered(d)' = Unanswered(d)
                             /\ answered'[d] = answered[d] /\ fState_'[d] = fState_[d]
  BY <1>3 DEF AtRest, Unanswered, Replying, WantsNoBody, Held, Queued, sets, waiter, workers, replies
<1>6. Book(c)'
  <2>1. /\ Append(wire[c], piece) \in Seq(Pieces)
        /\ Grammatical(Append(wire[c], piece), Rest(piece))
        /\ ~BodyFirst(wire[c], owes[c]) => ~BodyFirst(Append(wire[c], piece), Rest(piece))
    BY <1>2, <1>3, GrammarOfAppend DEF TypeOK, HungUp, Books, Book
  <2>2. Cardinality(Asks(Append(wire[c], piece))) = Cardinality(Asks(wire[c])) + (IF piece \in Asking THEN 1 ELSE 0)
    BY <1>2, <1>3, AsksOfAppend DEF TypeOK
  <2>3. answered[c] + Unanswered(c) + Cardinality(Asks(wire[c])) <= asked[c]
    BY <1>3 DEF Books, Book
  <2>4. /\ answered[c] \in Nat /\ asked[c] \in Nat /\ Unanswered(c) \in Nat
        /\ Cardinality(Asks(wire[c])) \in Nat
    BY <1>2, AsksFinite DEF TypeOK, Unanswered
  <2>5. answered'[c] + Unanswered(c)' + Cardinality(Asks(wire'[c])) <= asked'[c]
    BY <1>4, <1>5, <2>2, <2>3, <2>4
  <2> QED  BY <1>4, <1>5, <2>1, <2>5 DEF Books, Book
<1>7. ASSUME NEW d \in Connections \ {c} PROVE Book(d)'
  <2>1. Book(d) /\ \A w \in Workers : conn'[w] = conn[w] /\ (Replying(w)' <=> Replying(w))
    BY <1>3 DEF Books, workers, Replying
  <2> QED  BY <1>4, <1>5, <1>7, <2>1, BookKept DEF Books
<1>8. \A d \in Connections : wire[d] # <<>> => wire'[d] # <<>>
  BY <1>2, <1>3, <1>4, AppendProperties DEF TypeOK
<1>9. HasInput'
  <2>1. /\ \A d \in ready \cup Queued : d \in Connections
        /\ waiterConn # None => waiterConn \in Connections
        /\ \A w \in Workers : pc[w] = "read" => conn[w] \in Connections
    BY RangeOfSeq DEF Books, Holding, OneHolder, TypeOK, Queued, Processing
  <2> QED  BY <1>3, <1>8, <2>1 DEF Books, HasInput, Queued, sets, waiter, workers
<1>10. Handled'
  BY <1>3 DEF Books, Handled, workers, replies
<1> QED  BY <1>1, <1>6, <1>7, <1>9, <1>10 DEF Books

\* Connections change hands.
LEMMA BooksPassedOn ==
  ASSUME Books, Holding', UNCHANGED <<client, replies>>, HasInput', Handled',
         \A d \in Connections : AtRest(d)' => AtRest(d),
         \A w \in Workers : Replying(w)' => Replying(w) /\ conn'[w] = conn[w]
  PROVE  Books'
<1>1. ASSUME NEW d \in Connections PROVE Book(d)'
  BY BookKept DEF Books, client, replies
<1> QED  BY <1>1 DEF Books

LEMMA ListenerHeld ==
  ASSUME NEW c \in Connections, onConnect_(c)
  PROVE  Held' = Held \cup {c} /\ accepted' = accepted \cup {c} /\ c \notin accepted
BY DEF onConnect_, Held, Queued, waiter

LEMMA ListenerBooks ==
  ASSUME Books, NEW c \in Connections, onConnect_(c)
  PROVE  Books'
<1>1. Holding'
  BY ListenerHolding DEF Books
<1>2. /\ UNCHANGED <<client, waiter, fPendingTasks_, conn, keepAlive, replies>>
      /\ \A w \in Workers : pc'[w] = pc[w]
  BY ConnectionAssumption DEF onConnect_, Goes, Books, Holding, OneHolder, TypeOK, Threads
<1>3. HasInput' /\ Handled'
  BY <1>2 DEF Books, HasInput, Handled, Queued, client, waiter, replies
<1>4. \A w \in Workers : (Replying(w)' <=> Replying(w)) /\ (WantsNoBody(w)' <=> WantsNoBody(w))
  BY <1>2 DEF Replying, WantsNoBody
<1>5. \A d \in Connections : AtRest(d)' => AtRest(d)
  BY <1>2, <1>4, ListenerHeld DEF AtRest
<1> QED  BY <1>1, <1>2, <1>3, <1>4, <1>5, BooksPassedOn

LEMMA WakesHeld ==
  ASSUME NEW t \in Threads, Wakes(t)
  PROVE  UNCHANGED <<client, sets, ready, waiterConn, conn, keepAlive, replies, Held>>
BY DEF Wakes, Interrupt, Signal, Held, Queued, sets, waiter

LEMMA WakesBooks ==
  ASSUME Books, NEW t \in Threads, Wakes(t)
  PROVE  Books'
<1>1. Holding' /\ UNCHANGED <<client, sets, ready, waiterConn, conn, keepAlive, replies, Held>>
  BY WakesHolding, WakesHeld DEF Books
<1>2. /\ pc[t] \in {"interrupt", "signal"}
      /\ \A w \in Workers : pc'[w] = pc[w] \/ (w = t /\ pc'[w] \in {"signal", "idle"})
  BY DEF Wakes, Interrupt, Signal, Goes, Books, Holding, OneHolder, TypeOK, Threads
<1>3. \A w \in Workers : /\ conn[w] # None => pc'[w] = pc[w]
                         /\ pc'[w] \in Processing \cup {"add", "finish"} => pc'[w] = pc[w]
  BY <1>2 DEF Books, Holding, OneHolder, Processing
<1>4. HasInput' /\ Handled'
  BY <1>1, <1>3 DEF Books, HasInput, Handled, Queued, Processing, client, sets, replies
<1>5. \A w \in Workers : Replying(w)' => Replying(w)
  BY <1>1, <1>3 DEF Replying, Processing
<1>6. \A d \in Connections : AtRest(d)' => AtRest(d)
  BY <1>1, <1>3, ConnectionAssumption DEF AtRest, WantsNoBody, sets
<1> QED  BY <1>1, <1>4, <1>5, <1>6, BooksPassedOn

LEMMA WaiterHeld ==
  ASSUME Holding, WaiterStep \/ SleepReturns
  PROVE  UNCHANGED <<client, accepted, workers, replies, Held>>
<1> USE DEF Held, Queued
<1>1. UNCHANGED <<client, accepted, workers, replies>>
  BY DEF WaiterStep, SleepReturns, Interrupted, Checked, NotInterrupted, Copy, Block, PollReturns,
         RemoveInactive, Activate, AddTask, Dispatched, WaiterGoes, sets
<1>2. CASE Interrupted \/ Checked \/ Copy \/ Block \/ PollReturns \/ Dispatched \/ SleepReturns \/ Activate
  <2>1. UNCHANGED <<fInactiveOpenConnections_, fPendingTasks_, waiterConn>>
    BY <1>2 DEF Interrupted, Checked, Copy, Block, PollReturns, Dispatched, SleepReturns, Activate, WaiterGoes, sets
  <2> QED  BY <1>1, <2>1 DEF workers
<1>3. ASSUME NEW c \in Connections, RemoveInactive(c) PROVE Held' = Held
  <2>1. /\ c \in fInactiveOpenConnections_ /\ waiterConn = None /\ c # None
        /\ fInactiveOpenConnections_' = fInactiveOpenConnections_ \ {c}
        /\ waiterConn' = c /\ UNCHANGED <<fPendingTasks_, conn>>
    BY <1>1, <1>3, ConnectionAssumption DEF RemoveInactive, WaiterGoes, Holding, OneHolder, workers
  <2> QED  BY <2>1
<1>4. CASE AddTask
  <2>1. /\ waiterConn # None /\ waiterConn' = None
        /\ fPendingTasks_' = Append(fPendingTasks_, waiterConn)
        /\ UNCHANGED <<fInactiveOpenConnections_, conn>>
    BY <1>1, <1>4 DEF AddTask, WaiterGoes, Holding, OneHolder, workers
  <2>2. /\ fPendingTasks_ \in Seq(accepted) /\ waiterConn \in accepted \ Range(fPendingTasks_)
        /\ \A i, j \in DOMAIN fPendingTasks_ : fPendingTasks_[i] = fPendingTasks_[j] => i = j
    BY <2>1 DEF Holding, OneHolder, TypeOK
  <2>3. Range(Append(fPendingTasks_, waiterConn)) = Range(fPendingTasks_) \cup {waiterConn}
    BY ONLY <2>2, AppendOnce
  <2>4. Range(fPendingTasks_') = Range(fPendingTasks_) \cup {waiterConn} /\ Range(conn') = Range(conn)
    BY <2>1, <2>3
  <2> QED  BY ONLY <1>1, <2>1, <2>4 DEF Held, Queued
<1> QED  BY <1>1, <1>2, <1>3, <1>4 DEF WaiterStep

LEMMA WaiterBooks ==
  ASSUME Books, WaiterStep \/ SleepReturns
  PROVE  Books'
<1>1. Holding' /\ UNCHANGED <<client, accepted, workers, replies, Held>>
  BY WaiterHolding, WaiterHeld DEF Books
<1>2. wire' = wire /\ workers' = workers /\ replies' = replies
  BY <1>1 DEF client
<1>3. HasInput'
  <2> USE DEF Books, HasInput, Queued
  <2>1. CASE UNCHANGED <<ready, waiterConn, fPendingTasks_>>
    BY <1>2, <2>1 DEF workers
  <2>2. CASE Interrupted
    BY <1>2, <2>2 DEF Interrupted, sets, workers
  <2>3. CASE PollReturns
    BY <1>2, <2>3 DEF PollReturns, Readable, sets, workers
  <2>4. ASSUME NEW c \in Connections, RemoveInactive(c) PROVE HasInput'
    BY <1>2, <2>4 DEF RemoveInactive, workers
  <2>5. CASE AddTask
    <3>1. /\ waiterConn # None /\ waiterConn' = None
          /\ fPendingTasks_' = Append(fPendingTasks_, waiterConn) /\ ready' = ready
      BY <2>5 DEF AddTask, WaiterGoes, Holding, OneHolder
    <3>2. /\ fPendingTasks_ \in Seq(accepted) /\ waiterConn \in accepted \ Range(fPendingTasks_)
          /\ \A i, j \in DOMAIN fPendingTasks_ : fPendingTasks_[i] = fPendingTasks_[j] => i = j
      BY <3>1 DEF Holding, OneHolder, TypeOK
    <3>3. Range(Append(fPendingTasks_, waiterConn)) = Range(fPendingTasks_) \cup {waiterConn}
      BY ONLY <3>2, AppendOnce
    <3> QED  BY <1>2, <3>1, <3>3 DEF workers
  <2>6. CASE Checked \/ Copy \/ Block \/ Activate \/ Dispatched \/ SleepReturns
    BY <2>1, <2>6 DEF Checked, Copy, Block, Activate, Dispatched, SleepReturns, sets
  <2> QED  BY <2>2, <2>3, <2>4, <2>5, <2>6 DEF WaiterStep
<1>4. Handled' /\ \A w \in Workers : (Replying(w)' <=> Replying(w)) /\ (WantsNoBody(w)' <=> WantsNoBody(w))
  BY <1>2 DEF Books, Handled, Replying, WantsNoBody, workers, replies
<1>5. \A d \in Connections : AtRest(d)' => AtRest(d)
  BY <1>1, <1>2, <1>4 DEF AtRest, workers
<1> QED  BY <1>1, <1>2, <1>3, <1>4, <1>5, BooksPassedOn DEF workers

-----------------------------------------------------------------------------
(* The steps of the tasks. *)

LEMMA TakeHeld ==
  ASSUME Holding, NEW w \in Workers, Take(w)
  PROVE  /\ UNCHANGED <<client, accepted, replies, Held>>
         /\ conn[w] = None /\ conn'[w] \in Queued /\ pc'[w] = "read"
         /\ ready' = ready /\ waiterConn' = waiterConn /\ Queued' \subseteq Queued
         /\ \A v \in Workers \ {w} : conn'[v] = conn[v] /\ pc'[v] = pc[v] /\ keepAlive'[v] = keepAlive[v]
<1>1. /\ fPendingTasks_ # <<>> /\ fPendingTasks_' = Tail(fPendingTasks_)
      /\ pc[w] = "idle" /\ pc' = [pc EXCEPT ![w] = "read"]
      /\ conn' = [conn EXCEPT ![w] = Head(fPendingTasks_)]
      /\ UNCHANGED <<client, waiter, accepted, fInactiveOpenConnections_, keepAlive, replies>>
  BY DEF Take, Goes
<1>2. /\ fPendingTasks_ \in Seq(accepted) /\ conn \in [Workers -> accepted \cup {None}]
      /\ \A i, j \in DOMAIN fPendingTasks_ : fPendingTasks_[i] = fPendingTasks_[j] => i = j
      /\ pc \in [Threads -> Processing \cup {"idle", "add", "finish", "interrupt", "signal"}]
      /\ conn[w] = None
  BY <1>1 DEF Holding, OneHolder, TypeOK, Processing
<1>3. Head(fPendingTasks_) \in Queued /\ Queued' = Queued \ {Head(fPendingTasks_)} /\ Queued \subseteq accepted
  BY ONLY <1>1, <1>2, TailOnce, RangeOfSeq DEF Queued
<1>4. /\ conn'[w] = Head(fPendingTasks_) /\ pc'[w] = "read"
      /\ \A v \in Workers \ {w} : conn'[v] = conn[v] /\ pc'[v] = pc[v]
  BY <1>1, <1>2 DEF Threads
<1>5. Range(conn') \ {None} = (Range(conn) \ {None}) \cup {Head(fPendingTasks_)}
  <2>1. Head(fPendingTasks_) # None /\ DOMAIN conn = Workers /\ DOMAIN conn' = Workers
    BY <1>1, <1>2, <1>3, ConnectionAssumption DEF Holding, OneHolder, TypeOK
  <2>2. /\ \A x : x \in Range(conn') <=> \E v \in Workers : conn'[v] = x
        /\ \A x : x \in Range(conn) <=> \E v \in Workers : conn[v] = x
    BY <2>1 DEF Range
  <2> QED  BY <1>2, <1>4, <2>1, <2>2
<1>6. Held' = Held
  <2>1. /\ waiterConn' = waiterConn /\ fInactiveOpenConnections_' = fInactiveOpenConnections_
        /\ Held = fInactiveOpenConnections_ \cup Queued \cup ({waiterConn} \ {None}) \cup (Range(conn) \ {None})
        /\ Held' = fInactiveOpenConnections_' \cup Queued' \cup ({waiterConn'} \ {None}) \cup (Range(conn') \ {None})
    BY <1>1 DEF waiter, Held
  <2> QED  BY <1>3, <1>5, <2>1
<1> QED  BY <1>1, <1>2, <1>3, <1>4, <1>6 DEF waiter

LEMMA TakeBooks ==
  ASSUME Books, NEW w \in Workers, Take(w)
  PROVE  Books'
<1>1. Holding'
  BY TaskHolding DEF Books, TaskStep
<1>2. /\ UNCHANGED <<client, accepted, replies, Held>>
      /\ conn[w] = None /\ conn'[w] \in Queued /\ pc'[w] = "read"
      /\ ready' = ready /\ waiterConn' = waiterConn /\ Queued' \subseteq Queued
      /\ \A v \in Workers \ {w} : conn'[v] = conn[v] /\ pc'[v] = pc[v] /\ keepAlive'[v] = keepAlive[v]
  BY TakeHeld DEF Books
<1>3. HasInput' /\ Handled'
  BY <1>2 DEF Books, HasInput, Handled, client, replies
<1>4. \A v \in Workers : Replying(v)' => Replying(v) /\ conn'[v] = conn[v]
  BY <1>2 DEF Replying
<1>5. \A d \in Connections : AtRest(d)' => AtRest(d)
  BY <1>2, ConnectionAssumption DEF AtRest, WantsNoBody
<1> QED  BY <1>1, <1>2, <1>3, <1>4, <1>5, BooksPassedOn

LEMMA TaskMoves ==
  ASSUME Books, NEW w \in Workers, NEW to, NEW keep,
         NEW from \in {"read", "handle", "handlePost", "body", "end", "remove", "add", "finish"},
         TaskGoes(w, from, to, keep)
  PROVE  /\ pc[w] = from /\ pc'[w] = to /\ keepAlive'[w] = keep
         /\ conn[w] # None /\ conn[w] \in Connections
         /\ UNCHANGED <<owes, asked, accepted, fPendingTasks_, waiter>>
         /\ \A v \in Workers \ {w} : pc'[v] = pc[v] /\ keepAlive'[v] = keepAlive[v] /\ conn[v] # conn[w]
<1>1. Holding /\ from \in Processing \cup {"add", "finish"}
  BY DEF Books, Processing
<1> QED  BY ONLY <1>1, w \in Workers, TaskGoes(w, from, to, keep)
            DEF TaskGoes, Goes, Holding, OneHolder, TypeOK, Threads

LEMMA FlushSets ==
  ASSUME Holding, NEW c \in Connections, NEW state, Flush(c, state)
  PROVE  /\ fState_'[c] = state
         /\ answered'[c] = answered[c] + (IF fState_[c] = "eInProgress" /\ state # "eInProgress" THEN 1 ELSE 0)
         /\ answered' = [answered EXCEPT ![c] = answered'[c]]
         /\ \A d \in Connections \ {c} : fState_'[d] = fState_[d] /\ answered'[d] = answered[d]
<1>1. /\ fState_ \in [Connections -> ResponseStates] /\ answered \in [Connections -> Nat]
      /\ fState_' = [fState_ EXCEPT ![c] = state]
      /\ answered' = IF fState_[c] = "eInProgress" /\ state # "eInProgress"
                       THEN [answered EXCEPT ![c] = @ + 1] ELSE answered
  BY DEF Flush, Holding, OneHolder, TypeOK
<1>2. CASE fState_[c] = "eInProgress" /\ state # "eInProgress"
  <2>1. answered' = [answered EXCEPT ![c] = answered[c] + 1]
    BY <1>1, <1>2
  <2> QED  BY <1>1, <1>2, <2>1
<1>3. CASE ~(fState_[c] = "eInProgress" /\ state # "eInProgress")
  <2>1. answered' = answered
    BY <1>1, <1>3
  <2>2. answered = [answered EXCEPT ![c] = answered[c]] /\ answered[c] + 0 = answered[c]
    BY <1>1
  <2>3. fState_'[c] = state /\ \A d \in Connections \ {c} : fState_'[d] = fState_[d]
    BY <1>1
  <2> QED  BY <1>3, <2>1, <2>2, <2>3
<1> QED  BY <1>2, <1>3

\* What a task does, in each of its steps, is all about its own connection.
Acts(w, d) ==
  /\ conn[w] = d /\ d # None /\ d \in Connections
  /\ UNCHANGED <<owes, asked, accepted, fPendingTasks_, waiter>>
  /\ \A v \in Workers \ {w} :
       pc'[v] = pc[v] /\ keepAlive'[v] = keepAlive[v] /\ conn'[v] = conn[v] /\ conn[v] # d
  /\ \A c \in Connections \ {d} : wire'[c] = wire[c] /\ fState_'[c] = fState_[c] /\ answered'[c] = answered[c]
  /\ pc'[w] # "read"
  /\ pc'[w] \in {"handle", "handlePost"} => fState_'[d] = "eInProgress"
  /\ \/ conn' = conn /\ fInactiveOpenConnections_' = fInactiveOpenConnections_
     \/ conn' = [conn EXCEPT ![w] = None]
        /\ fInactiveOpenConnections_' \in {fInactiveOpenConnections_, fInactiveOpenConnections_ \cup {d}}

LEMMA HeldByOthers ==
  ASSUME Holding, NEW w \in Workers, NEW d, Acts(w, d)
  PROVE  /\ Held' = IF conn' = conn \/ fInactiveOpenConnections_' # fInactiveOpenConnections_
                      THEN Held ELSE Held \ {d}
         /\ d \in Held /\ d \in accepted
<1>1. /\ Queued' = Queued /\ waiterConn' = waiterConn
      /\ conn \in [Workers -> accepted \cup {None}] /\ conn[w] = d /\ d # None
      /\ \A v \in Workers \ {w} : conn[v] # d
      /\ d \notin fInactiveOpenConnections_ \cup Queued \cup {waiterConn}
  BY DEF Acts, Holding, OneHolder, TypeOK, Queued, waiter
<1>2. d \in Held /\ d \in accepted
  BY <1>1, InTask DEF Holding
<1>3. CASE conn' = conn /\ fInactiveOpenConnections_' = fInactiveOpenConnections_
  BY <1>1, <1>2, <1>3 DEF Held
<1>4. CASE conn' = [conn EXCEPT ![w] = None]
           /\ fInactiveOpenConnections_' \in {fInactiveOpenConnections_, fInactiveOpenConnections_ \cup {d}}
  <2>1. Range(conn') \ {None} = (Range(conn) \ {None}) \ {d}
    <3>1. DOMAIN conn = Workers /\ DOMAIN conn' = Workers
      BY <1>1, <1>4
    <3>2. /\ \A x : x \in Range(conn') <=> \E v \in Workers : conn'[v] = x
          /\ \A x : x \in Range(conn) <=> \E v \in Workers : conn[v] = x
      BY <3>1 DEF Range
    <3>3. conn'[w] = None /\ \A v \in Workers \ {w} : conn'[v] = conn[v]
      BY <1>1, <1>4
    <3>4. \A x : x \in Range(conn') /\ x # None <=> x \in Range(conn) /\ x # None /\ x # d
      BY ONLY <1>1, <3>2, <3>3
    <3> QED  BY ONLY <3>4
  <2>2. conn' # conn
    BY <1>1, <1>4
  <2>3. Held = fInactiveOpenConnections_ \cup Queued \cup ({waiterConn} \ {None}) \cup (Range(conn) \ {None})
    BY DEF Held
  <2>4. Held' = fInactiveOpenConnections_' \cup Queued \cup ({waiterConn} \ {None}) \cup (Range(conn') \ {None})
    BY <1>1 DEF Held
  <2>5. d \in Range(conn)
    BY <1>1 DEF Range
  <2>6. CASE fInactiveOpenConnections_' = fInactiveOpenConnections_
    <3>1. Held' = Held \ {d}
      BY <1>1, <2>1, <2>3, <2>4, <2>6
    <3> QED  BY <1>2, <2>2, <2>6, <3>1
  <2>7. CASE fInactiveOpenConnections_' # fInactiveOpenConnections_
    <3>1. fInactiveOpenConnections_' = fInactiveOpenConnections_ \cup {d}
      BY <1>4, <2>7
    <3>2. Held' = Held
      BY <1>1, <2>1, <2>3, <2>4, <2>5, <3>1
    <3> QED  BY <1>2, <2>7, <3>2
  <2> QED  BY <2>6, <2>7
<1> QED  BY <1>3, <1>4 DEF Acts

LEMMA OthersBooks ==
  ASSUME Books, Holding', NEW w \in Workers, NEW d, Acts(w, d), Book(d)'
  PROVE  Books'
<1> USE DEF Acts
<1>1. \A v \in Workers \ {w} : (Replying(v)' <=> Replying(v)) /\ (WantsNoBody(v)' <=> WantsNoBody(v))
  BY DEF Replying, WantsNoBody
<1>2. conn'[w] \in {d, None}
  BY DEF Holding, OneHolder, TypeOK
<1>3. ASSUME NEW c \in Connections \ {d} PROVE Book(c)'
  <2>1. c # None /\ c # d
    BY ConnectionAssumption
  <2>2. AtRest(c)' => AtRest(c)
    BY <1>1, <1>2, <2>1, HeldByOthers DEF AtRest, Books
  <2>3. \A v \in Workers : conn'[v] = c /\ Replying(v)' => conn[v] = c /\ Replying(v)
    BY <1>1, <1>2, <2>1
  <2> QED  BY <2>1, <2>2, <2>3, BookKept DEF Books
<1>4. HasInput'
  <2>1. ready' = ready /\ Queued' = Queued /\ waiterConn' = waiterConn
    BY DEF waiter, Queued
  <2>2. /\ ready \cup Queued \subseteq Connections \ {d}
        /\ waiterConn # None => waiterConn \in Connections \ {d}
    BY RangeOfSeq DEF Books, Holding, OneHolder, TypeOK, Queued
  <2>3. \A v \in Workers : pc'[v] = "read" => v # w /\ pc[v] = "read" /\ conn[v] \in Connections \ {d}
    BY DEF Books, Holding, OneHolder, TypeOK, Processing
  <2> QED  BY <2>1, <2>2, <2>3 DEF Books, HasInput
<1>5. Handled'
  <2>1. \A v \in Workers \ {w} : pc[v] \in {"handle", "handlePost"} => conn[v] \in Connections \ {d}
    BY DEF Books, Holding, OneHolder, TypeOK, Processing
  <2>2. pc'[w] \in {"handle", "handlePost"} => conn'[w] = d
    BY <1>2 DEF Holding, OneHolder, Processing
  <2> QED  BY <2>1, <2>2 DEF Books, Handled
<1> QED  BY <1>3, <1>4, <1>5 DEF Books

\* The book of the connection a task goes on with.
LEMMA OwnBook ==
  ASSUME Holding, Holding', NEW w \in Workers, NEW d, Acts(w, d), conn' = conn,
         Grammatical(wire'[d], owes[d]),
         WantsNoBody(w)' => ~BodyFirst(wire'[d], owes[d]),
         ~HungUp(d)' => answered'[d] + (IF fState_'[d] = "eInProgress" /\ Replying(w)' THEN 1 ELSE 0)
                          + Cardinality(Asks(wire'[d])) <= asked[d]
  PROVE  Book(d)'
<1>1. conn'[w] = d /\ \A v \in Workers : conn'[v] = d => v = w
  BY DEF Acts
<1>2. d \in accepted'
  BY HeldByOthers DEF Acts
<1>3. AtRest(d)' => WantsNoBody(w)'
  BY <1>1, <1>2 DEF AtRest
<1>4. Unanswered(d)' = IF fState_'[d] = "eInProgress" /\ Replying(w)' THEN 1 ELSE 0
  BY <1>1 DEF Unanswered
<1>5. owes'[d] = owes[d] /\ asked'[d] = asked[d]
  BY DEF Acts
<1> QED  BY <1>3, <1>4, <1>5 DEF Book

\* What the books say of the connection of a task.
LEMMA OwnFacts ==
  ASSUME Books, NEW w \in Workers, NEW d, conn[w] = d, d # None
  PROVE  /\ d \in Connections /\ d \in accepted \cap Held
         /\ wire[d] \in Seq(Pieces) /\ Grammatical(wire[d], owes[d])
         /\ WantsNoBody(w) => ~BodyFirst(wire[d], owes[d])
         /\ answered[d] \in Nat /\ asked[d] \in Nat /\ Cardinality(Asks(wire[d])) \in Nat
         /\ ~HungUp(d) => answered[d] + (IF fState_[d] = "eInProgress" /\ Replying(w) THEN 1 ELSE 0)
                            + Cardinality(Asks(wire[d])) <= asked[d]
         /\ pc[w] = "read" => wire[d] # <<>>
         /\ pc[w] \in {"handle", "handlePost"} => fState_[d] = "eInProgress"
<1>1. /\ d \in Connections /\ d \in accepted /\ d \in Held
      /\ AtRest(d) <=> WantsNoBody(w)
      /\ Unanswered(d) = IF fState_[d] = "eInProgress" /\ Replying(w) THEN 1 ELSE 0
  BY InTask DEF Books, Holding
<1>2. wire[d] \in Seq(Pieces) /\ answered[d] \in Nat /\ asked[d] \in Nat
  BY <1>1 DEF Books, Holding, OneHolder, TypeOK
<1>3. Book(d)
  BY <1>1 DEF Books
<1> QED  BY <1>1, <1>2, <1>3, AsksFinite DEF Book, Books, HasInput, Handled

LEMMA ReadHeadersBook ==
  ASSUME Books, Holding', NEW w \in Workers, NEW d, conn[w] = d, ReadHeaders(w)
  PROVE  /\ Acts(w, d) /\ Book(d)'
         /\ conn' = conn /\ answered' = answered
         /\ HungUp(d)' <=> HungUp(d)
<1>1. PICK n \in {0, 1, 2}, to \in {"handle", "handlePost", "remove"}, keep \in BOOLEAN :
         Message(w, n, to, keep) /\ Taken(wire[d], n, to, keep)
  BY ReadTaken
<1>2. /\ pc[w] = "read" /\ pc'[w] = to /\ keepAlive'[w] = keep /\ d # None
      /\ UNCHANGED <<owes, asked, accepted, fPendingTasks_, waiter>>
      /\ \A v \in Workers \ {w} : pc'[v] = pc[v] /\ keepAlive'[v] = keepAlive[v] /\ conn[v] # d
  BY <1>1, TaskMoves DEF Message
<1>3. /\ d \in Connections
      /\ wire[d] \in Seq(Pieces) /\ Grammatical(wire[d], owes[d])
      /\ WantsNoBody(w) => ~BodyFirst(wire[d], owes[d])
      /\ answered[d] \in Nat /\ asked[d] \in Nat /\ Cardinality(Asks(wire[d])) \in Nat
      /\ ~HungUp(d) => answered[d] + (IF fState_[d] = "eInProgress" /\ Replying(w) THEN 1 ELSE 0)
                         + Cardinality(Asks(wire[d])) <= asked[d]
      /\ wire[d] # <<>>
  BY <1>2, OwnFacts
<1>4. /\ wire'[d] = SubSeq(wire[d], n + 1, Len(wire[d])) /\ fState_'[d] = "eInProgress"
      /\ \A c \in Connections \ {d} : wire'[c] = wire[c] /\ fState_'[c] = fState_[c]
      /\ UNCHANGED <<fInactiveOpenConnections_, conn, answered>>
  <2>1. DOMAIN wire = Connections /\ DOMAIN fState_ = Connections
    BY DEF Books, Holding, OneHolder, TypeOK
  <2> QED  BY <1>1, <1>3, <2>1 DEF Message
<1>5. Acts(w, d)
  BY <1>2, <1>3, <1>4 DEF Acts
<1>6. WantsNoBody(w) /\ ~Replying(w) /\ (Replying(w)' => ~keep) /\ (WantsNoBody(w)' => to = "handle" \/ keep)
  BY <1>1, <1>2 DEF WantsNoBody, Replying, Taken
<1>7. /\ wire'[d] \in Seq(Pieces)
      /\ Grammatical(wire'[d], owes[d])
      /\ Contains(wire'[d], "end") <=> Contains(wire[d], "end")
      /\ ~Contains(wire[d], "end") =>
           Cardinality(Asks(wire'[d])) + (IF keep THEN 0 ELSE 1) <= Cardinality(Asks(wire[d]))
      /\ to = "handle" \/ keep => ~BodyFirst(wire'[d], owes[d])
  <2> DEFINE s == wire[d]
             r == SubSeq(s, n + 1, Len(s))
  <2>1. s \in Seq(Pieces) /\ s # <<>> /\ Grammatical(s, owes[d]) /\ ~BodyFirst(s, owes[d]) /\ Taken(s, n, to, keep)
    BY <1>1, <1>3, <1>6
  <2>2. /\ r \in Seq(Pieces)
        /\ Grammatical(r, owes[d])
        /\ Contains(r, "end") <=> Contains(s, "end")
        /\ ~Contains(s, "end") =>
             Cardinality(Asks(r)) + (IF keep THEN 0 ELSE 1) <= Cardinality(Asks(s))
        /\ to = "handle" \/ keep => ~BodyFirst(r, owes[d])
    <3> HIDE DEF s
    <3> QED  BY ONLY <2>1, MessageTakes, keep \in BOOLEAN
  <2> QED  BY <1>4, <2>2
<1>8. HungUp(d)' <=> HungUp(d)
  BY <1>7 DEF HungUp
<1>9. Cardinality(Asks(wire'[d])) \in Nat
  BY <1>7, AsksFinite
<1>10. ~HungUp(d)' => answered'[d] + (IF fState_'[d] = "eInProgress" /\ Replying(w)' THEN 1 ELSE 0)
                        + Cardinality(Asks(wire'[d])) <= asked[d]
  BY <1>3, <1>4, <1>6, <1>7, <1>9 DEF HungUp
<1>11. Book(d)'
  BY <1>4, <1>5, <1>6, <1>7, <1>10, OwnBook DEF Books
<1> QED  BY <1>4, <1>5, <1>8, <1>11

\* If a reply is begun, it is one that is due.
Answers(d) ==
  \/ answered' = answered
  \/ /\ answered[d] < asked[d] \/ HungUp(d)
     /\ answered' = [answered EXCEPT ![d] = @ + 1]

LEMMA FlushAnswers ==
  ASSUME Books, NEW w \in Workers, NEW d, conn[w] = d, d # None, Replying(w),
         NEW state, Flush(d, state), state = "eInProgress" => fState_[d] = "eInProgress"
  PROVE  /\ Answers(d)
         /\ \A c \in Connections \ {d} : fState_'[c] = fState_[c] /\ answered'[c] = answered[c]
         /\ fState_'[d] = state
         /\ ~HungUp(d) => answered'[d] + (IF state = "eInProgress" THEN 1 ELSE 0)
                            + Cardinality(Asks(wire[d])) <= asked[d]
<1>1. /\ d \in Connections
      /\ answered[d] \in Nat /\ asked[d] \in Nat /\ Cardinality(Asks(wire[d])) \in Nat
      /\ ~HungUp(d) => answered[d] + (IF fState_[d] = "eInProgress" /\ Replying(w) THEN 1 ELSE 0)
                         + Cardinality(Asks(wire[d])) <= asked[d]
  BY OwnFacts
<1>2. /\ fState_'[d] = state
      /\ answered'[d] = answered[d] + (IF fState_[d] = "eInProgress" /\ state # "eInProgress" THEN 1 ELSE 0)
      /\ \A c \in Connections \ {d} : fState_'[c] = fState_[c] /\ answered'[c] = answered[c]
  BY <1>1, FlushSets DEF Books
<1>3. Answers(d)
  <2>1. CASE fState_[d] = "eInProgress" /\ state # "eInProgress"
    <3>1. answered' = [answered EXCEPT ![d] = @ + 1]
      BY <2>1 DEF Flush
    <3>2. ~HungUp(d) => answered[d] < asked[d]
      BY <1>1, <2>1
    <3> QED  BY <3>1, <3>2 DEF Answers
  <2>2. CASE ~(fState_[d] = "eInProgress" /\ state # "eInProgress")
    BY <2>2 DEF Flush, Answers
  <2> QED  BY <2>1, <2>2
<1>4. ~HungUp(d) => answered'[d] + (IF state = "eInProgress" THEN 1 ELSE 0)
                     + Cardinality(Asks(wire[d])) <= asked[d]
  BY <1>1, <1>2
<1> QED  BY <1>2, <1>3, <1>4

LEMMA HandleMessageBook ==
  ASSUME Books, Holding', NEW w \in Workers, NEW d, conn[w] = d, HandleMessage(w)
  PROVE  /\ Acts(w, d) /\ Book(d)'
         /\ conn' = conn /\ wire' = wire /\ Answers(d)
<1>1. PICK keep \in BOOLEAN, state \in HandlerLeaves :
         /\ \/ TaskGoes(w, "handle", "end", keep)
            \/ TaskGoes(w, "handlePost", IF keep THEN "body" ELSE "end", keep)
         /\ Flush(d, state)
         /\ UNCHANGED <<wire, fInactiveOpenConnections_, fActiveConnections_, conn>>
  BY DEF HandleMessage
<1>2. /\ pc[w] \in {"handle", "handlePost"} /\ pc'[w] \in {"end", "body"}
      /\ pc[w] = "handlePost" /\ keepAlive'[w] => pc'[w] = "body"
      /\ d # None
      /\ UNCHANGED <<owes, asked, accepted, fPendingTasks_, waiter>>
      /\ \A v \in Workers \ {w} : pc'[v] = pc[v] /\ keepAlive'[v] = keepAlive[v] /\ conn[v] # d
  <2>1. CASE TaskGoes(w, "handle", "end", keep)
    BY <2>1, TaskMoves
  <2>2. CASE TaskGoes(w, "handlePost", IF keep THEN "body" ELSE "end", keep)
    <3>1. PICK to \in {"end", "body"} : TaskGoes(w, "handlePost", to, keep) /\ (keep => to = "body")
      BY <2>2
    <3> QED  BY <3>1, TaskMoves
  <2> QED  BY <1>1, <2>1, <2>2
<1>3. /\ d \in Connections
      /\ wire[d] \in Seq(Pieces) /\ Grammatical(wire[d], owes[d])
      /\ WantsNoBody(w) => ~BodyFirst(wire[d], owes[d])
      /\ fState_[d] = "eInProgress"
  BY <1>2, OwnFacts
<1>4. Replying(w) /\ Replying(w)' /\ (WantsNoBody(w)' => WantsNoBody(w))
  BY <1>2 DEF Replying, WantsNoBody
<1>5. /\ Answers(d)
      /\ \A c \in Connections \ {d} : fState_'[c] = fState_[c] /\ answered'[c] = answered[c]
      /\ fState_'[d] = state
      /\ ~HungUp(d) => answered'[d] + (IF state = "eInProgress" THEN 1 ELSE 0)
                         + Cardinality(Asks(wire[d])) <= asked[d]
  BY <1>1, <1>2, <1>3, <1>4, FlushAnswers
<1>6. Acts(w, d)
  BY <1>1, <1>2, <1>3, <1>5 DEF Acts
<1>7. Book(d)'
  <2>1. wire' = wire /\ (HungUp(d)' <=> HungUp(d))
    BY <1>1 DEF HungUp
  <2> QED  BY <1>1, <1>3, <1>4, <1>5, <1>6, <2>1, OwnBook DEF Books
<1> QED  BY <1>1, <1>5, <1>6, <1>7

LEMMA GetRequestBodyBook ==
  ASSUME Books, Holding', NEW w \in Workers, NEW d, conn[w] = d, GetRequestBody(w)
  PROVE  /\ Acts(w, d) /\ Book(d)'
         /\ conn' = conn /\ answered' = answered
         /\ HungUp(d)' <=> HungUp(d)
<1>1. /\ TaskGoes(w, "body", "end", keepAlive[w])
      /\ wire[d] # <<>>
      /\ wire' = [wire EXCEPT ![d] = IF Head(@) = "body" THEN Tail(@) ELSE @]
      /\ UNCHANGED <<fInactiveOpenConnections_, fActiveConnections_, conn, replies>>
  BY DEF GetRequestBody
<1>2. /\ pc[w] = "body" /\ pc'[w] = "end" /\ d # None
      /\ UNCHANGED <<owes, asked, accepted, fPendingTasks_, waiter>>
      /\ \A v \in Workers \ {w} : pc'[v] = pc[v] /\ keepAlive'[v] = keepAlive[v] /\ conn[v] # d
  BY <1>1, TaskMoves
<1>3. /\ d \in Connections
      /\ wire[d] \in Seq(Pieces) /\ Grammatical(wire[d], owes[d])
      /\ answered[d] \in Nat /\ asked[d] \in Nat /\ Cardinality(Asks(wire[d])) \in Nat
      /\ ~HungUp(d) => answered[d] + (IF fState_[d] = "eInProgress" /\ Replying(w) THEN 1 ELSE 0)
                         + Cardinality(Asks(wire[d])) <= asked[d]
  BY <1>2, OwnFacts
<1>4. /\ wire'[d] = IF Head(wire[d]) = "body" THEN Tail(wire[d]) ELSE wire[d]
      /\ \A c \in Connections \ {d} : wire'[c] = wire[c]
      /\ fState_' = fState_ /\ answered' = answered
  BY <1>1, <1>3 DEF Books, Holding, OneHolder, TypeOK, replies
<1>5. Acts(w, d)
  BY <1>1, <1>2, <1>3, <1>4 DEF Acts
<1>6. Replying(w)
  BY <1>2 DEF Replying
<1>7. Head(wire[d]) = wire[d][1]
  BY <1>1, <1>3
<1>8. /\ Grammatical(wire'[d], owes[d])
      /\ ~BodyFirst(wire'[d], owes[d])
      /\ Contains(wire'[d], "end") <=> Contains(wire[d], "end")
      /\ Cardinality(Asks(wire'[d])) = Cardinality(Asks(wire[d]))
  <2>1. CASE Head(wire[d]) = "body"
    <3>1. wire[d][1] = "body" /\ wire'[d] = Tail(wire[d])
      BY <1>4, <1>7, <2>1
    <3>2. /\ Tail(wire[d]) \in Seq(Pieces)
          /\ Grammatical(Tail(wire[d]), owes[d])
          /\ Contains(Tail(wire[d]), "end") <=> Contains(wire[d], "end")
          /\ ~BodyFirst(Tail(wire[d]), owes[d])
      BY <1>1, <1>3, <3>1, GrammarOfTail
    <3>3. Cardinality(Asks(Tail(wire[d]))) = Cardinality(Asks(wire[d]))
      <4>1. wire[d][1] \notin Asking
        BY <3>1 DEF Asking
      <4>2. Cardinality(Asks(wire[d])) = Cardinality(Asks(Tail(wire[d]))) + (IF wire[d][1] \in Asking THEN 1 ELSE 0)
        BY <1>1, <1>3, AsksOfTail
      <4>3. Cardinality(Asks(Tail(wire[d]))) \in Nat
        BY <3>2, AsksFinite
      <4> QED  BY ONLY <4>1, <4>2, <4>3
    <3> QED  BY <3>1, <3>2, <3>3
  <2>2. CASE Head(wire[d]) # "body"
    BY <1>1, <1>3, <1>4, <1>7, <2>2 DEF BodyFirst
  <2> QED  BY <2>1, <2>2
<1>9. HungUp(d)' <=> HungUp(d)
  BY <1>8 DEF HungUp
<1>10. ~HungUp(d)' => answered'[d] + (IF fState_'[d] = "eInProgress" /\ Replying(w)' THEN 1 ELSE 0)
                        + Cardinality(Asks(wire'[d])) <= asked[d]
  BY <1>3, <1>4, <1>6, <1>8, <1>9
<1>11. Book(d)'
  BY <1>1, <1>5, <1>8, <1>10, OwnBook DEF Books
<1> QED  BY <1>1, <1>4, <1>5, <1>9, <1>11

LEMMA EndBook ==
  ASSUME Books, Holding', NEW w \in Workers, NEW d, conn[w] = d, End(w) \/ EndThrows(w)
  PROVE  /\ Acts(w, d) /\ Book(d)'
         /\ conn' = conn /\ wire' = wire /\ Answers(d)
<1>1. PICK keep \in {keepAlive[w], FALSE} :
         /\ TaskGoes(w, "end", "remove", keep)
         /\ UNCHANGED <<wire, fInactiveOpenConnections_, fActiveConnections_, conn>>
  BY DEF End, EndThrows
<1>2. /\ pc[w] = "end" /\ pc'[w] = "remove" /\ d # None
      /\ keepAlive'[w] = keep
      /\ UNCHANGED <<owes, asked, accepted, fPendingTasks_, waiter>>
      /\ \A v \in Workers \ {w} : pc'[v] = pc[v] /\ keepAlive'[v] = keepAlive[v] /\ conn[v] # d
  BY <1>1, TaskMoves
<1>3. /\ d \in Connections
      /\ Grammatical(wire[d], owes[d])
      /\ WantsNoBody(w) => ~BodyFirst(wire[d], owes[d])
  BY <1>2, OwnFacts
<1>4. Replying(w) /\ (WantsNoBody(w)' => WantsNoBody(w)) /\ (HungUp(d)' <=> HungUp(d))
  BY <1>1, <1>2 DEF Replying, WantsNoBody, HungUp
<1>5. CASE End(w)
  <2>1. Flush(d, "eCompleted")
    BY <1>5 DEF End
  <2>2. /\ Answers(d)
        /\ \A c \in Connections \ {d} : fState_'[c] = fState_[c] /\ answered'[c] = answered[c]
        /\ fState_'[d] = "eCompleted"
        /\ ~HungUp(d) => answered'[d] + 0 + Cardinality(Asks(wire[d])) <= asked[d]
    <3>1. d # None /\ Replying(w)
      BY <1>2, <1>4
    <3> QED  BY <2>1, <3>1, FlushAnswers
  <2>3. Acts(w, d)
    BY <1>1, <1>2, <1>3, <2>2 DEF Acts
  <2> QED  BY <1>1, <1>3, <1>4, <2>2, <2>3, OwnBook DEF Books
<1>6. CASE EndThrows(w)
  <2>1. HungUp(d) /\ UNCHANGED replies
    BY <1>6 DEF EndThrows
  <2>2. Acts(w, d)
    BY <1>1, <1>2, <1>3, <2>1 DEF Acts, replies
  <2> QED  BY <1>1, <1>3, <1>4, <2>1, <2>2, OwnBook DEF Books, Answers, replies
<1> QED  BY <1>5, <1>6

LEMMA RemoveActiveBook ==
  ASSUME Books, Holding', NEW w \in Workers, NEW d, conn[w] = d, RemoveActive(w)
  PROVE  /\ Acts(w, d) /\ Book(d)'
         /\ conn' = conn /\ wire' = wire /\ answered' = answered
<1>1. PICK to \in {"add", "finish"} :
         /\ TaskGoes(w, "remove", to, FALSE)
         /\ to = IF keepAlive[w] THEN "add" ELSE "finish"
         /\ UNCHANGED <<wire, fInactiveOpenConnections_, conn, replies>>
  BY DEF RemoveActive
<1>2. /\ pc[w] = "remove" /\ pc'[w] = to /\ d # None
      /\ UNCHANGED <<owes, asked, accepted, fPendingTasks_, waiter>>
      /\ \A v \in Workers \ {w} : pc'[v] = pc[v] /\ keepAlive'[v] = keepAlive[v] /\ conn[v] # d
  BY <1>1, TaskMoves
<1>3. /\ d \in Connections
      /\ Grammatical(wire[d], owes[d])
      /\ WantsNoBody(w) => ~BodyFirst(wire[d], owes[d])
      /\ ~HungUp(d) => answered[d] + (IF fState_[d] = "eInProgress" /\ Replying(w) THEN 1 ELSE 0)
                         + Cardinality(Asks(wire[d])) <= asked[d]
  BY <1>2, OwnFacts
<1>4. (Replying(w)' <=> Replying(w)) /\ (WantsNoBody(w)' => WantsNoBody(w)) /\ (HungUp(d)' <=> HungUp(d))
  BY <1>1, <1>2 DEF Replying, WantsNoBody, HungUp
<1>5. Acts(w, d)
  BY <1>1, <1>2, <1>3 DEF Acts, replies
<1> QED  BY <1>1, <1>3, <1>4, <1>5, OwnBook DEF Books, replies

LEMMA AddInactiveBook ==
  ASSUME Books, Holding', NEW w \in Workers, NEW d, conn[w] = d, AddInactive(w)
  PROVE  /\ Acts(w, d) /\ Book(d)'
         /\ fInactiveOpenConnections_' # fInactiveOpenConnections_ /\ wire' = wire /\ answered' = answered
<1>1. /\ TaskGoes(w, "add", "interrupt", FALSE)
      /\ fInactiveOpenConnections_' = fInactiveOpenConnections_ \cup {d}
      /\ conn' = [conn EXCEPT ![w] = None]
      /\ UNCHANGED <<wire, replies>>
  BY DEF AddInactive
<1>2. /\ pc[w] = "add" /\ pc'[w] = "interrupt" /\ d # None
      /\ UNCHANGED <<owes, asked, accepted, fPendingTasks_, waiter>>
      /\ \A v \in Workers \ {w} : pc'[v] = pc[v] /\ keepAlive'[v] = keepAlive[v] /\ conn[v] # d
  BY <1>1, TaskMoves
<1>3. d \in Connections /\ d \in accepted \cap Held /\ (WantsNoBody(w) => ~BodyFirst(wire[d], owes[d]))
  BY <1>2, OwnFacts
<1>4. Acts(w, d)
  BY <1>1, <1>2, <1>3 DEF Acts, replies, Books, Holding, OneHolder, TypeOK
<1>5. d \notin fInactiveOpenConnections_
  BY <1>2 DEF Books, Holding, OneHolder
<1>6. AtRest(d)
  BY <1>2, <1>3, InTask DEF WantsNoBody, Books, Holding
<1>7. conn'[w] = None /\ \A v \in Workers \ {w} : conn'[v] = conn[v]
  BY <1>1 DEF Books, Holding, OneHolder, TypeOK
<1>8. \A v \in Workers : conn'[v] = d /\ Replying(v)' => conn[v] = d /\ Replying(v)
  BY <1>2, <1>7
<1>9. Book(d)'
  BY <1>1, <1>2, <1>3, <1>6, <1>8, BookKept DEF Books, replies
<1> QED  BY <1>1, <1>4, <1>5, <1>9 DEF replies

LEMMA FinishBook ==
  ASSUME Books, Holding', NEW w \in Workers, NEW d, conn[w] = d, Finish(w)
  PROVE  /\ Acts(w, d) /\ Book(d)'
         /\ conn' # conn /\ fInactiveOpenConnections_' = fInactiveOpenConnections_
         /\ wire' = wire /\ Answers(d)
<1>1. /\ TaskGoes(w, "finish", "idle", FALSE)
      /\ Flush(d, "eCompleted")
      /\ conn' = [conn EXCEPT ![w] = None]
      /\ UNCHANGED <<wire, fInactiveOpenConnections_>>
  BY DEF Finish
<1>2. /\ pc[w] = "finish" /\ pc'[w] = "idle" /\ d # None
      /\ UNCHANGED <<owes, asked, accepted, fPendingTasks_, waiter>>
      /\ \A v \in Workers \ {w} : pc'[v] = pc[v] /\ keepAlive'[v] = keepAlive[v] /\ conn[v] # d
  BY <1>1, TaskMoves
<1>3. d \in Connections /\ Grammatical(wire[d], owes[d])
  BY <1>2, OwnFacts
<1>4. Replying(w) /\ (HungUp(d)' <=> HungUp(d))
  BY <1>1, <1>2 DEF Replying, HungUp
<1>5. /\ Answers(d)
      /\ \A c \in Connections \ {d} : fState_'[c] = fState_[c] /\ answered'[c] = answered[c]
      /\ fState_'[d] = "eCompleted"
      /\ ~HungUp(d) => answered'[d] + 0 + Cardinality(Asks(wire[d])) <= asked[d]
  <2>1. ("eCompleted" = "eInProgress") = FALSE
    OBVIOUS
  <2> QED  BY ONLY Books, conn[w] = d, w \in Workers, <1>1, <1>2, <1>4, <2>1, FlushAnswers
<1>6. conn'[w] = None /\ conn' # conn /\ \A v \in Workers \ {w} : conn'[v] = conn[v]
  BY <1>1, <1>2 DEF Books, Holding, OneHolder, TypeOK
<1>7. Acts(w, d)
  BY <1>1, <1>2, <1>3, <1>5, <1>6 DEF Acts
<1>8. ~AtRest(d)'
  BY <1>1, <1>2, <1>6, <1>7, HeldByOthers DEF AtRest, Books
<1>9. Unanswered(d)' = 0
  BY <1>5 DEF Unanswered
<1>10. Book(d)'
  BY <1>1, <1>2, <1>3, <1>4, <1>5, <1>8, <1>9 DEF Book
<1> QED  BY <1>1, <1>5, <1>6, <1>7, <1>10

LEMMA TaskBooks ==
  ASSUME Books, NEW w \in Workers, TaskStep(w)
  PROVE  Books'
<1>1. Holding'
  BY TaskHolding DEF Books
<1>2. CASE Take(w)
  BY <1>2, TakeBooks
<1>3. ASSUME NEW d, conn[w] = d, ~Take(w) PROVE Books'
  <2>1. Acts(w, d) /\ Book(d)'
    BY <1>1, <1>3, ReadHeadersBook, HandleMessageBook, GetRequestBodyBook, EndBook, RemoveActiveBook,
       AddInactiveBook, FinishBook DEF TaskStep
  <2> QED  BY <1>1, <2>1, OthersBooks
<1> QED  BY <1>2, <1>3

LEMMA BooksAlways == Spec => []Books
<1>1. Init => Books
  <2> SUFFICES ASSUME Init PROVE Books
    OBVIOUS
  <2>1. Queued = {}
    BY DEF Init, Queued, Range
  <2>2. TypeOK
    BY EmptySeq DEF Init, TypeOK, ResponseStates, Threads
  <2>3. Holding
    BY <2>1, <2>2 DEF Init, Holding, OneHolder, CopyKept, Processing, Threads
  <2>4. Grammatical(<<>>, None) /\ ~BodyFirst(<<>>, None)
    BY ConnectionAssumption DEF Grammatical, BodyFirst, Pieces
  <2>5. Cardinality(Asks(<<>>)) = 0
    <3>1. Asks(<<>>) = {}
      BY DEF Asks
    <3> QED  BY <3>1, FS_EmptySet
  <2>6. ASSUME NEW d \in Connections PROVE Book(d)
    <3>1. wire[d] = <<>> /\ owes[d] = None /\ answered[d] = 0 /\ asked[d] = 0 /\ Unanswered(d) = 0
      BY <2>6 DEF Init, Unanswered
    <3> QED  BY <2>4, <2>5, <3>1 DEF Book
  <2>7. HasInput /\ Handled
    BY <2>1 DEF Init, HasInput, Handled, Threads
  <2> QED  BY <2>3, <2>6, <2>7 DEF Books
<1>2. Books /\ [Next]_vars => Books'
  <2> SUFFICES ASSUME Books, [Next]_vars PROVE Books'
    OBVIOUS
  <2>1. CASE Next
    BY <2>1, ClientBooks, ListenerBooks, WakesBooks, WaiterBooks, TaskBooks DEF Next
  <2>2. CASE UNCHANGED vars
    <3>1. UNCHANGED <<client, sets, waiter, interrupted, workers, replies>>
      BY <2>2 DEF vars
    <3>2. Queued' = Queued /\ Held' = Held
      BY <3>1 DEF sets, waiter, workers, Queued, Held
    <3>3. TypeOK'
      BY <3>1 DEF client, sets, waiter, workers, replies, Books, Holding, OneHolder, TypeOK
    <3>4. Holding'
      BY <3>1, <3>2, <3>3 DEF client, sets, waiter, workers, replies, Books, Holding, OneHolder, CopyKept
    <3>5. HasInput' /\ Handled'
      BY <3>1, <3>2 DEF client, waiter, workers, replies, Books, HasInput, Handled
    <3>6. \A w \in Workers : Replying(w)' => Replying(w) /\ conn'[w] = conn[w]
      BY <3>1 DEF workers, Replying
    <3>7. \A d \in Connections : AtRest(d)' => AtRest(d)
      BY <3>1, <3>2 DEF sets, workers, AtRest, WantsNoBody
    <3> QED  BY <3>1, <3>4, <3>5, <3>6, <3>7, BooksPassedOn
  <2> QED  BY <2>1, <2>2
<1> QED  BY <1>1, <1>2, PTL DEF Spec

-----------------------------------------------------------------------------
(* Each step is one of RequestReply, or none that clients see. *)

ShutDown == {c \in Connections : HungUp(c)}

LEMMA ClientSees ==
  ASSUME Books, NEW c \in Connections, Client(c)
  PROVE  [Replies!Next]_(Replies!vars)
<1>1. TypeOK
  BY DEF Books, Holding, OneHolder
<1>2. PICK piece \in IF owes[c] = None THEN {"request", "post", "start", "end"} ELSE {owes[c], "end"} :
         /\ piece \in Pieces /\ ~HungUp(c)
         /\ wire' = [wire EXCEPT ![c] = Append(@, piece)]
         /\ owes' = [owes EXCEPT ![c] = Rest(piece)]
         /\ asked' = [asked EXCEPT ![c] = IF piece \in Asking THEN @ + 1 ELSE @]
         /\ UNCHANGED <<sets, waiter, interrupted, workers, replies>>
  BY <1>1, Sent
<1>3. UNCHANGED <<accepted, Held, answered>>
  BY <1>2 DEF sets, waiter, workers, replies, Held, Queued
<1>4. Contains(Append(wire[c], piece), "end") <=> piece = "end"
  BY <1>1, <1>2, GrammarOfAppend DEF TypeOK, HungUp, Books, Book
<1>5. /\ HungUp(c)' <=> piece = "end"
      /\ \A d \in Connections \ {c} : HungUp(d)' <=> HungUp(d)
  BY <1>1, <1>2, <1>4 DEF TypeOK, HungUp
<1>6. CASE piece = "end"
  <2>1. ShutDown' = ShutDown \cup {c}
    BY <1>5, <1>6 DEF ShutDown
  <2>2. asked' = asked
    BY <1>1, <1>2, <1>6 DEF TypeOK, Asking
  <2>3. Replies!HangUp(c)
    BY <1>3, <2>1, <2>2 DEF Replies!HangUp, ShutDown
  <2> QED  BY <2>3 DEF Replies!Next
<1>7. CASE piece # "end"
  <2>1. ShutDown' = ShutDown /\ c \notin ShutDown
    BY <1>2, <1>5, <1>7 DEF ShutDown
  <2>2. CASE piece \in Asking
    <3>1. asked' = [asked EXCEPT ![c] = @ + 1]
      BY <1>2, <2>2
    <3>2. Replies!Ask(c)
      BY <1>3, <2>1, <3>1 DEF Replies!Ask, ShutDown
    <3> QED  BY <3>2 DEF Replies!Next
  <2>3. CASE piece \notin Asking
    <3>1. asked' = asked
      BY <1>1, <1>2, <2>3 DEF TypeOK
    <3> QED  BY <1>3, <2>1, <3>1 DEF Replies!vars, ShutDown
  <2> QED  BY <2>2, <2>3
<1> QED  BY <1>6, <1>7

LEMMA TaskSees ==
  ASSUME Books, NEW w \in Workers, TaskStep(w)
  PROVE  [Replies!Next]_(Replies!vars)
<1>1. Holding'
  BY TaskHolding DEF Books
<1>2. CASE Take(w)
  <2>1. UNCHANGED <<client, accepted, replies, Held>>
    BY <1>2, TakeHeld DEF Books
  <2> QED  BY <2>1 DEF Replies!vars, client, replies, HungUp
<1>3. ASSUME NEW d, conn[w] = d, ~Take(w) PROVE [Replies!Next]_(Replies!vars)
  <2>1. /\ Acts(w, d)
        /\ Answers(d)
        /\ HungUp(d)' <=> HungUp(d)
        /\ \/ conn' = conn \/ fInactiveOpenConnections_' # fInactiveOpenConnections_
           \/ conn' # conn /\ fInactiveOpenConnections_' = fInactiveOpenConnections_ /\ Finish(w)
    <3>1. CASE ReadHeaders(w)
      BY <1>1, <1>3, <3>1, ReadHeadersBook DEF Answers
    <3>2. CASE HandleMessage(w)
      BY <1>1, <1>3, <3>2, HandleMessageBook DEF HungUp
    <3>3. CASE GetRequestBody(w)
      BY <1>1, <1>3, <3>3, GetRequestBodyBook DEF Answers
    <3>4. CASE End(w) \/ EndThrows(w)
      BY <1>1, <1>3, <3>4, EndBook DEF HungUp
    <3>5. CASE RemoveActive(w)
      BY <1>1, <1>3, <3>5, RemoveActiveBook DEF Answers, HungUp
    <3>6. CASE AddInactive(w)
      BY <1>1, <1>3, <3>6, AddInactiveBook DEF Answers, HungUp
    <3>7. CASE Finish(w)
      BY <1>1, <1>3, <3>7, FinishBook DEF HungUp
    <3> QED  BY <1>3, <3>1, <3>2, <3>3, <3>4, <3>5, <3>6, <3>7 DEF TaskStep
  <2>2. /\ d \in Connections /\ d # None /\ asked' = asked /\ accepted' = accepted
        /\ \A c \in Connections \ {d} : wire'[c] = wire[c]
    BY <2>1 DEF Acts
  <2>3. ShutDown' = ShutDown /\ (d \in ShutDown <=> HungUp(d))
    BY <2>1, <2>2 DEF ShutDown, HungUp
  <2>4. /\ Held' = IF conn' = conn \/ fInactiveOpenConnections_' # fInactiveOpenConnections_
                     THEN Held ELSE Held \ {d}
        /\ d \in Held /\ d \in accepted
    BY <2>1, HeldByOthers DEF Books
  <2> DEFINE over == accepted \ Held
  <2>5. CASE conn' = conn \/ fInactiveOpenConnections_' # fInactiveOpenConnections_
    <3>1. over' = over /\ d \notin over
      BY <2>2, <2>4, <2>5
    <3>2. Replies!Answer(d) \/ answered' = answered
      BY <2>1, <2>2, <2>3, <3>1 DEF Answers, Replies!Answer, ShutDown
    <3> QED  BY <2>2, <2>3, <3>1, <3>2 DEF Replies!Next, Replies!vars, ShutDown
  <2>6. CASE conn' # conn /\ fInactiveOpenConnections_' = fInactiveOpenConnections_
    <3>1. over' = over \cup {d} /\ d \notin over
      BY <2>2, <2>4, <2>6
    <3>2. Replies!GiveUp(d)
      BY <2>1, <2>2, <2>3, <3>1 DEF Answers, Replies!GiveUp, ShutDown
    <3> QED  BY <2>2, <3>2 DEF Replies!Next
  <2> QED  BY <2>5, <2>6
<1> QED  BY <1>2, <1>3

(***************************************************************************)
(* The server sends each client at most one reply for each request, as it  *)
(* comes, and none once it is through with the connection, whatever the    *)
(* handlers leave of the response and whatever the client has sent by then *)
(* (Connection::ReadAndProcessMessage and Response.cpp).                   *)
(***************************************************************************)
THEOREM ImplementsRequestReply == Spec => RepliesSpec
<1>1. Init => Replies!Init
  <2> SUFFICES ASSUME Init PROVE Replies!Init
    OBVIOUS
  <2>1. \A c \in Connections : ~HungUp(c)
    BY DEF Init, HungUp, Contains
  <2>2. accepted \ Held = {}
    BY DEF Init
  <2> QED  BY <2>1, <2>2 DEF Init, Replies!Init
<1>2. Books /\ [Next]_vars => [Replies!Next]_(Replies!vars)
  <2> SUFFICES ASSUME Books, [Next]_vars PROVE [Replies!Next]_(Replies!vars)
    OBVIOUS
  <2>1. ASSUME NEW c \in Connections, onConnect_(c) PROVE UNCHANGED Replies!vars
    <3>1. Held' = Held \cup {c} /\ accepted' = accepted \cup {c} /\ c \notin accepted
      BY <2>1, ListenerHeld
    <3>2. Held \subseteq accepted
      BY RangeOfSeq DEF Books, Holding, OneHolder, TypeOK, Held, Queued, Range
    <3>3. accepted' \ Held' = accepted \ Held
      BY <3>1, <3>2
    <3>4. UNCHANGED <<client, replies>>
      BY <2>1 DEF onConnect_
    <3> QED  BY <3>3, <3>4 DEF Replies!vars, client, replies, HungUp
  <2>2. ASSUME NEW t \in Threads, Wakes(t) PROVE UNCHANGED Replies!vars
    BY <2>2, WakesHeld DEF Replies!vars, client, sets, replies, HungUp
  <2>3. ASSUME WaiterStep \/ SleepReturns PROVE UNCHANGED Replies!vars
    BY <2>3, WaiterHeld DEF Books, Replies!vars, client, replies, HungUp
  <2>4. CASE UNCHANGED vars
    BY <2>4 DEF vars, client, sets, waiter, workers, replies, Replies!vars, HungUp, Held, Queued
  <2> QED  BY <2>1, <2>2, <2>3, <2>4, ClientSees, TaskSees DEF Next
<1> QED  BY <1>1, <1>2, BooksAlways, PTL DEF Spec, RepliesSpec, Replies!Spec
=============================================================================
