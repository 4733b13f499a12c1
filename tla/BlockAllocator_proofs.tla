------------------------ MODULE BlockAllocator_proofs ------------------------
(* That the free list stays one list of the free blocks, and that the       *)
(* allocator implements BlockPool, for any threads, blocks and chunks.      *)
EXTENDS BlockAllocator, WellFoundedInduction, TLAPS

\* Where thread t, that has the list, keeps its beginning.
Top(t) == IF pc[t] = "take" THEN p[t] ELSE next[t]

\* The list ends in nullptr and the sentinel is not a block.
LEMMA Distinct ==
  /\ nullptr \notin Blocks
  /\ kLockedSentinal_ \notin Pointers
  /\ Junk \notin Pointers
BY BlockAssumption DEF Pointers

LEMMA ChunksTyped ==
  /\ Len(Chunks) \in Nat
  /\ \A c \in 1 .. Len(Chunks) : Chunks[c] \in Seq(Blocks) /\ Chunks[c] # <<>>
BY BlockAssumption

\* While a thread has the list, it alone knows where it begins.
LEMMA TopsOfHolder ==
  ASSUME OneHolder, NEW t \in Threads, HoldsList(t)
  PROVE  Tops = {Top(t)}
BY DEF OneHolder, Tops, Top

LEMMA TopsOfNobody ==
  ASSUME \A t \in Threads : ~HoldsList(t)
  PROVE  Tops = {sHeadLink_} \ {kLockedSentinal_}
BY DEF Tops

\* A head that is not the sentinel is nobody's.
LEMMA NobodyHolds ==
  ASSUME OneHolder, sHeadLink_ # kLockedSentinal_
  PROVE  \A t \in Threads : ~HoldsList(t)
BY DEF OneHolder

-----------------------------------------------------------------------------
LEMMA InitSound == Init => ListSound
<1> SUFFICES ASSUME Init PROVE ListSound
  OBVIOUS
<1>1. TypeOK
  <2>1. mallocs \in 0 .. Len(Chunks)
    BY ChunksTyped DEF Init
  <2>2. /\ sHeadLink_ \in Pointers \cup {kLockedSentinal_}
        /\ link \in [Blocks -> Pointers \cup {Junk}]
        /\ users \in [Blocks -> Nat]
    BY DEF Init, Pointers
  <2>3. /\ pc \in [Threads -> Places]
        /\ p \in [Threads -> Pointers]
        /\ next \in [Threads -> Pointers]
        /\ exhausted \in BOOLEAN
    BY DEF Init, Pointers, Places
  <2> QED  BY <2>1, <2>2, <2>3 DEF TypeOK
<1>2. Given = {}
  BY DEF Init, Given
<1>3. \A t \in Threads : ~HoldsList(t) /\ ~HoldsBlock(t)
  BY DEF Init, HoldsList, HoldsBlock
<1>4. Tops \subseteq {nullptr}
  BY <1>3, TopsOfNobody DEF Init
<1>5. OneHolder
  BY <1>3 DEF OneHolder
<1>6. OneOwner
  BY <1>2, <1>3 DEF OneOwner, Init
<1>7. OneList
  BY <1>2, <1>4 DEF OneList, Free
<1> QED  BY <1>1, <1>5, <1>6, <1>7 DEF ListSound

-----------------------------------------------------------------------------
\* What malloc gives is new: no chunk shares a block with another.
LEMMA ChunkIsNew ==
  ASSUME TypeOK, mallocs < Len(Chunks),
         NEW i \in 1 .. Len(Chunks[mallocs + 1])
  PROVE  Chunks[mallocs + 1][i] \in Blocks \ Given
<1>1. mallocs + 1 \in DOMAIN Chunks /\ mallocs \in Nat
  BY ChunksTyped, BlockAssumption DEF TypeOK
<1>2. Chunks[mallocs + 1] \in Seq(Blocks)
  BY <1>1, ChunksTyped
<1>3. ASSUME NEW c \in 1 .. mallocs, NEW j \in DOMAIN Chunks[c],
             Chunks[c][j] = Chunks[mallocs + 1][i]
      PROVE  FALSE
  <2>1. c \in DOMAIN Chunks /\ i \in DOMAIN Chunks[mallocs + 1]
    BY <1>1, <1>2, BlockAssumption
  <2>2. c = mallocs + 1
    BY <1>1, <1>3, <2>1, BlockAssumption
  <2> QED  BY <1>1, <2>2
<1> QED  BY <1>2, <1>3 DEF Given

\* GetMem_Util_ leaves a chain from the first block of the chunk to the last.
LEMMA ChunkIsLinked ==
  ASSUME TypeOK, NEW t \in Threads, GetMem_Util_(t)
  PROVE  LET chunk == Chunks[mallocs + 1] IN
         /\ \A i \in 1 .. Len(chunk) - 1 : link'[chunk[i]] = chunk[i + 1]
         /\ link'[chunk[Len(chunk)]] = nullptr
         /\ \A b \in Blocks : (\A i \in 1 .. Len(chunk) : b # chunk[i]) => link'[b] = link[b]
<1> DEFINE chunk == Chunks[mallocs + 1]
           Linked(b, c) == \E i \in 1 .. Len(chunk) - 1 : b = chunk[i] /\ c = chunk[i + 1]
<1>1. mallocs + 1 \in DOMAIN Chunks /\ chunk \in Seq(Blocks) /\ chunk # <<>>
  BY ChunksTyped, BlockAssumption DEF GetMem_Util_, TypeOK
<1>2. /\ Len(chunk) \in Nat \ {0}
      /\ DOMAIN chunk = 1 .. Len(chunk)
      /\ \A i \in 1 .. Len(chunk) : chunk[i] \in Blocks
  BY <1>1
<1>3. \A i, j \in 1 .. Len(chunk) : chunk[i] = chunk[j] => i = j
  BY <1>1, <1>2, BlockAssumption
<1>4. \A b \in Blocks :
        link'[b] = IF \E c \in Blocks : Linked(b, c) THEN CHOOSE c \in Blocks : Linked(b, c)
                   ELSE IF b = chunk[Len(chunk)] THEN nullptr ELSE link[b]
  BY DEF GetMem_Util_
<1>5. ASSUME NEW i \in 1 .. Len(chunk) - 1
      PROVE  link'[chunk[i]] = chunk[i + 1]
  <2>1. i \in 1 .. Len(chunk) /\ i + 1 \in 1 .. Len(chunk)
    BY <1>2
  <2>2. chunk[i] \in Blocks /\ chunk[i + 1] \in Blocks
    BY <1>2, <2>1
  <2>3. \A c \in Blocks : Linked(chunk[i], c) <=> c = chunk[i + 1]
    <3> HIDE DEF chunk
    <3>1. Linked(chunk[i], chunk[i + 1])
      OBVIOUS
    <3>2. ASSUME NEW j \in 1 .. Len(chunk) - 1, chunk[i] = chunk[j] PROVE i = j
      BY <1>2, <1>3, <2>1, <3>2
    <3> QED  BY <3>1, <3>2
  <2>4. (CHOOSE c \in Blocks : Linked(chunk[i], c)) = chunk[i + 1]
    BY <2>2, <2>3
  <2>5. \E c \in Blocks : Linked(chunk[i], c)
    BY <2>2, <2>3
  <2> HIDE DEF Linked, chunk
  <2> QED  BY <1>4, <2>2, <2>4, <2>5
<1>6. \A c \in Blocks : ~Linked(chunk[Len(chunk)], c)
  BY <1>2, <1>3
<1>7. link'[chunk[Len(chunk)]] = nullptr
  <2>1. chunk[Len(chunk)] \in Blocks
    BY <1>2
  <2> HIDE DEF Linked, chunk
  <2> QED  BY <1>4, <1>6, <2>1
<1>8. ASSUME NEW b \in Blocks, \A i \in 1 .. Len(chunk) : b # chunk[i]
      PROVE  link'[b] = link[b]
  <2>1. \A c \in Blocks : ~Linked(b, c)
    BY <1>2, <1>8
  <2>2. b # chunk[Len(chunk)]
    BY <1>2, <1>8
  <2> HIDE DEF Linked, chunk
  <2> QED  BY <1>4, <2>1, <2>2
<1> QED  BY <1>5, <1>7, <1>8

-----------------------------------------------------------------------------
\* Steps that give the pool no memory leave Given alone.
LEMMA GivenKept == UNCHANGED mallocs => Given' = Given
BY DEF Given

LEMMA PlaceAfter ==
  ASSUME NEW n \in Nat \ {0}, NEW i \in 1 .. n, i # n
  PROVE  i \in 1 .. n - 1 /\ i + 1 \in 1 .. n /\ i + 1 # 1 /\ 1 \in 1 .. n
OBVIOUS

LEMMA GetMemSound ==
  ASSUME ListSound, NEW t \in Threads, GetMem_Util_(t)
  PROVE  ListSound'
<1> DEFINE chunk == Chunks[mallocs + 1]
           New == {chunk[i] : i \in 1 .. Len(chunk)}
<1> USE DEF ListSound
<1>1. /\ mallocs + 1 \in DOMAIN Chunks /\ chunk \in Seq(Blocks) /\ chunk # <<>>
      /\ mallocs \in Nat /\ mallocs < Len(Chunks)
  BY ChunksTyped, BlockAssumption DEF GetMem_Util_, TypeOK
<1>2. /\ Len(chunk) \in Nat \ {0}
      /\ DOMAIN chunk = 1 .. Len(chunk)
      /\ \A i \in 1 .. Len(chunk) : chunk[i] \in Blocks
  BY <1>1
<1>3. \A i, j \in 1 .. Len(chunk) : chunk[i] = chunk[j] => i = j
  BY <1>1, <1>2, BlockAssumption
<1>4. New \cap Given = {} /\ New \subseteq Blocks
  BY <1>1, ChunkIsNew DEF TypeOK
<1>5. /\ \A i \in 1 .. Len(chunk) - 1 : link'[chunk[i]] = chunk[i + 1]
      /\ link'[chunk[Len(chunk)]] = nullptr
      /\ \A b \in Blocks \ New : link'[b] = link[b]
  BY ChunkIsLinked
<1>6. Given' = Given \cup New
  BY <1>1, <1>2, <1>4 DEF Given, GetMem_Util_
<1>7. /\ pc[t] = "take" /\ p[t] = nullptr
      /\ p' = [p EXCEPT ![t] = chunk[1]]
      /\ mallocs' = mallocs + 1
      /\ UNCHANGED <<sHeadLink_, users, pc, next, exhausted>>
  BY DEF GetMem_Util_
<1>8. \A u \in Threads : HoldsList(u)' = HoldsList(u) /\ HoldsBlock(u)' = HoldsBlock(u)
  BY <1>7 DEF HoldsList, HoldsBlock
<1>9. HoldsList(t) /\ ~HoldsBlock(t)
  BY <1>7 DEF HoldsList, HoldsBlock
<1>10. \A u \in Threads : HoldsBlock(u) => p'[u] = p[u]
  BY <1>7, <1>9 DEF TypeOK
<1>11. chunk[1] \in New
  BY <1>2
<1> HIDE DEF chunk
<1>12. TypeOK'
  <2>1. \A b \in Blocks : link'[b] \in Pointers \cup {Junk}
    <3>1. ASSUME NEW i \in 1 .. Len(chunk) PROVE link'[chunk[i]] \in Pointers
      <4>1. CASE i = Len(chunk)
        BY <1>5, <4>1 DEF Pointers
      <4>2. CASE i # Len(chunk)
        BY <1>2, <1>5, <4>2, PlaceAfter DEF Pointers
      <4> QED  BY <4>1, <4>2
    <3>2. \A b \in Blocks \ New : link'[b] = link[b]
      BY <1>5
    <3> QED  BY <3>1, <3>2 DEF TypeOK
  <2>2. link' \in [Blocks -> Pointers \cup {Junk}]
    BY <2>1 DEF GetMem_Util_
  <2>3. p' \in [Threads -> Pointers]
    BY <1>4, <1>7, <1>11 DEF TypeOK, Pointers
  <2>4. mallocs' \in 0 .. Len(Chunks)
    BY <1>1, <1>7, ChunksTyped
  <2> QED  BY <1>7, <2>2, <2>3, <2>4 DEF TypeOK
<1>13. OneHolder'
  BY <1>7, <1>8 DEF OneHolder
<1>14. OneOwner'
  BY <1>6, <1>7, <1>8, <1>10, <1>4 DEF OneOwner, TypeOK
<1>15. Tops = {nullptr}
  BY <1>7, <1>9, TopsOfHolder DEF Top
<1>16. Tops' = {chunk[1]}
  BY <1>7, <1>8, <1>9, <1>13 DEF Tops, OneHolder, TypeOK
<1>17. Free' = Free \cup New
  BY <1>4, <1>6, <1>7, <1>8, <1>10 DEF Free, OneOwner, TypeOK
<1>18. Free \cap New = {} /\ Free \subseteq Blocks
  BY <1>4 DEF Free, Given
<1>19. OneList'
  <2>1. Tops' \subseteq Free' \cup {nullptr}
    BY <1>11, <1>16, <1>17
  <2>2. \A b \in Free : link'[b] = link[b] /\ link'[b] \in Free \cup {nullptr}
    BY <1>5, <1>18 DEF OneList
  <2>3. \A i \in 1 .. Len(chunk) :
          link'[chunk[i]] = IF i = Len(chunk) THEN nullptr ELSE chunk[i + 1]
    BY <1>2, <1>5, PlaceAfter
  <2>4. \A b \in New : link'[b] \in (New \ {chunk[1]}) \cup {nullptr}
    <3> SUFFICES ASSUME NEW i \in 1 .. Len(chunk), i # Len(chunk)
                 PROVE  chunk[i + 1] \in New \ {chunk[1]}
      BY <2>3
    <3>1. i + 1 \in 1 .. Len(chunk) /\ i + 1 # 1 /\ 1 \in 1 .. Len(chunk)
      BY <1>2, PlaceAfter
    <3> QED  BY <1>3, <3>1
  <2>5. \A b \in Free' : link'[b] \in (Free' \ Tops') \cup {nullptr}
    BY <1>11, <1>16, <1>17, <1>18, <2>2, <2>4
  <2>6. ASSUME NEW i \in 1 .. Len(chunk), NEW j \in 1 .. Len(chunk),
               link'[chunk[i]] = link'[chunk[j]], link'[chunk[i]] # nullptr
        PROVE  chunk[i] = chunk[j]
    <3>1. i # Len(chunk) /\ j # Len(chunk)
      BY <2>3, <2>6
    <3>2. i + 1 \in 1 .. Len(chunk) /\ j + 1 \in 1 .. Len(chunk)
      BY <1>2, <3>1, PlaceAfter
    <3>3. i + 1 = j + 1
      BY <1>3, <2>3, <2>6, <3>1, <3>2
    <3> QED  BY <3>3
  <2>7. \A b, c \in Free' : link'[b] = link'[c] /\ link'[b] # nullptr => b = c
    <3>1. \A b, c \in Free : link'[b] = link'[c] /\ link'[b] # nullptr => b = c
      BY <2>2 DEF OneList
    <3>2. \A b, c \in New : link'[b] = link'[c] /\ link'[b] # nullptr => b = c
      BY <2>6
    <3> QED  BY <1>17, <1>18, <2>2, <2>4, <3>1, <3>2
  <2> QED  BY <2>1, <2>5, <2>7 DEF OneList
<1> QED  BY <1>12, <1>13, <1>14, <1>19

-----------------------------------------------------------------------------
\* A step that moves no block into the list or out of it keeps it one list.
ListStays ==
  /\ Free' = Free
  /\ Tops' \subseteq Tops
  /\ \A b \in Free : link'[b] = link[b]

LEMMA ListKept ==
  ASSUME OneList, ListStays
  PROVE  OneList'
BY DEF OneList, ListStays

\* Where the list begins after a step that leaves it with t.
LEMMA TopsOfHolderAfter ==
  ASSUME OneHolder', NEW t \in Threads, HoldsList(t)'
  PROVE  Tops' = {Top(t)'}
BY DEF OneHolder, Tops, Top

LEMMA TopsOfNobodyAfter ==
  ASSUME \A t \in Threads : ~HoldsList(t)'
  PROVE  Tops' = {sHeadLink_'} \ {kLockedSentinal_}
BY DEF Tops

LEMMA AllocateSound ==
  ASSUME ListSound, NEW t \in Threads, Allocate(t)
  PROVE  ListSound' /\ ListStays
<1> USE DEF ListSound
<1>1. /\ pc[t] = "idle" /\ pc' = [pc EXCEPT ![t] = "allocate"]
      /\ UNCHANGED <<sHeadLink_, link, mallocs, users, p, next, exhausted>>
  BY DEF Allocate, Goes
<1>2. TypeOK'
  BY <1>1 DEF TypeOK, Places
<1>3. \A u \in Threads : HoldsList(u)' = HoldsList(u) /\ HoldsBlock(u)' = HoldsBlock(u)
  BY <1>1 DEF HoldsList, HoldsBlock, TypeOK
<1>4. OneHolder'
  BY <1>1, <1>3 DEF OneHolder
<1>5. Given' = Given
  BY <1>1, GivenKept
<1>6. OneOwner'
  BY <1>1, <1>3, <1>5 DEF OneOwner
<1>7. Free' = Free
  BY <1>1, <1>3, <1>5 DEF Free
<1>8. Tops' = Tops
  BY <1>1, <1>3 DEF Tops, HoldsList, TypeOK
<1>9. ListStays
  BY <1>1, <1>7, <1>8 DEF ListStays
<1>10. OneList'
  BY <1>9, ListKept
<1> QED  BY <1>2, <1>4, <1>6, <1>9, <1>10

LEMMA AllocateExchangeSound ==
  ASSUME ListSound, NEW t \in Threads, AllocateExchange(t)
  PROVE  ListSound' /\ ListStays
<1> USE DEF ListSound
<1>1. /\ sHeadLink_ # kLockedSentinal_
      /\ pc[t] = "allocate" /\ pc' = [pc EXCEPT ![t] = "take"]
      /\ p' = [p EXCEPT ![t] = sHeadLink_]
      /\ sHeadLink_' = kLockedSentinal_
      /\ UNCHANGED <<link, mallocs, users, next, exhausted>>
  BY DEF AllocateExchange, Goes
<1>2. TypeOK'
  BY <1>1 DEF TypeOK, Places
<1>3. \A u \in Threads : ~HoldsList(u)
  BY <1>1, NobodyHolds
<1>4. \A u \in Threads : HoldsList(u)' <=> u = t
  BY <1>1, <1>3 DEF HoldsList, TypeOK
<1>5. \A u \in Threads : HoldsBlock(u)' = HoldsBlock(u) /\ (HoldsBlock(u) => p'[u] = p[u])
  BY <1>1 DEF HoldsBlock, TypeOK
<1>6. OneHolder'
  BY <1>1, <1>4 DEF OneHolder
<1>7. Given' = Given
  BY <1>1, GivenKept
<1>8. OneOwner'
  BY <1>1, <1>5, <1>7 DEF OneOwner
<1>9. Free' = Free
  BY <1>1, <1>5, <1>7 DEF Free
<1>10. Tops' = Tops
  <2>1. Top(t)' = sHeadLink_
    BY <1>1 DEF Top, TypeOK
  <2>2. Tops' = {sHeadLink_}
    BY <1>4, <1>6, <2>1, TopsOfHolderAfter
  <2> QED  BY <1>1, <1>3, <2>2, TopsOfNobody
<1>11. ListStays
  BY <1>1, <1>9, <1>10 DEF ListStays
<1>12. OneList'
  BY <1>11, ListKept
<1> QED  BY <1>2, <1>6, <1>8, <1>11, <1>12

LEMMA MallocFailsSound ==
  ASSUME ListSound, NEW t \in Threads, MallocFails(t)
  PROVE  ListSound' /\ ListStays
<1> USE DEF ListSound
<1>1. /\ pc[t] = "take" /\ pc' = [pc EXCEPT ![t] = "idle"]
      /\ p' = [p EXCEPT ![t] = nullptr]
      /\ next' = [next EXCEPT ![t] = nullptr]
      /\ exhausted' = TRUE
      /\ UNCHANGED <<sHeadLink_, link, mallocs, users>>
  BY DEF MallocFails, Returns, Goes
<1>2. TypeOK'
  BY <1>1 DEF TypeOK, Places, Pointers
<1>3. HoldsList(t) /\ ~HoldsBlock(t)
  BY <1>1 DEF HoldsList, HoldsBlock
<1>4. \A u \in Threads : ~HoldsList(u)'
  BY <1>1, <1>3 DEF HoldsList, OneHolder, TypeOK
<1>5. \A u \in Threads : HoldsBlock(u)' = HoldsBlock(u) /\ (HoldsBlock(u) => p'[u] = p[u])
  BY <1>1 DEF HoldsBlock, TypeOK
<1>6. OneHolder'
  BY <1>4 DEF OneHolder
<1>7. Given' = Given
  BY <1>1, GivenKept
<1>8. OneOwner'
  BY <1>1, <1>5, <1>7 DEF OneOwner
<1>9. Free' = Free
  BY <1>1, <1>5, <1>7 DEF Free
<1>10. Tops' = {}
  BY <1>1, <1>3, <1>4, TopsOfNobodyAfter DEF OneHolder
<1>11. ListStays
  BY <1>1, <1>9, <1>10 DEF ListStays
<1>12. OneList'
  BY <1>11, ListKept
<1> QED  BY <1>2, <1>6, <1>8, <1>11, <1>12

\* The block at the head leaves the list with t, that knows what is after it.
LEMMA LoadNextSound ==
  ASSUME ListSound, NEW t \in Threads, LoadNext(t)
  PROVE  ListSound'
<1> USE DEF ListSound
<1>1. /\ p[t] # nullptr
      /\ pc[t] = "take" /\ pc' = [pc EXCEPT ![t] = "allocated"]
      /\ next' = [next EXCEPT ![t] = link[p[t]]]
      /\ UNCHANGED <<sHeadLink_, link, mallocs, users, p, exhausted>>
  BY DEF LoadNext, Goes
<1>2. HoldsList(t) /\ ~HoldsBlock(t)
  BY <1>1 DEF HoldsList, HoldsBlock
<1>3. Tops = {p[t]}
  BY <1>1, <1>2, TopsOfHolder DEF Top
<1>4. p[t] \in Free /\ p[t] \in Given /\ p[t] \in Blocks /\ users[p[t]] = 0
  BY <1>1, <1>3 DEF OneList, Free, Given
<1>5. link[p[t]] \in (Free \ {p[t]}) \cup {nullptr}
  BY <1>3, <1>4 DEF OneList
<1>6. TypeOK'
  BY <1>1, <1>5 DEF TypeOK, Places, Pointers, Free, Given
<1>7. \A u \in Threads : HoldsList(u)' = HoldsList(u)
  BY <1>1 DEF HoldsList, TypeOK
<1>8. \A u \in Threads : HoldsBlock(u)' <=> (HoldsBlock(u) \/ u = t)
  BY <1>1 DEF HoldsBlock, TypeOK
<1>9. OneHolder'
  BY <1>1, <1>7 DEF OneHolder
<1>10. Given' = Given
  BY <1>1, GivenKept
<1>11. \A u \in Threads : HoldsBlock(u) => p[u] # p[t]
  BY <1>4 DEF Free
<1>12. OneOwner'
  BY <1>1, <1>4, <1>8, <1>10, <1>11 DEF OneOwner
<1>13. Free' = Free \ {p[t]}
  BY <1>1, <1>8, <1>10 DEF Free
<1>14. Tops' = {link[p[t]]}
  <2>1. Top(t)' = link[p[t]]
    BY <1>1 DEF Top, TypeOK
  <2> QED  BY <1>2, <1>7, <1>9, <2>1, TopsOfHolderAfter
<1>15. OneList'
  <2>1. Tops' \subseteq Free' \cup {nullptr}
    BY <1>5, <1>13, <1>14
  <2>2. \A b \in Free' : link[b] \in (Free' \ Tops') \cup {nullptr}
    BY <1>3, <1>4, <1>13, <1>14 DEF OneList
  <2>3. \A b, c \in Free' : link[b] = link[c] /\ link[b] # nullptr => b = c
    BY <1>13 DEF OneList
  <2> QED  BY <1>1, <2>1, <2>2, <2>3 DEF OneList
<1> QED  BY <1>6, <1>9, <1>12, <1>15

LEMMA AllocateReturnsSound ==
  ASSUME ListSound, NEW t \in Threads, AllocateReturns(t)
  PROVE  ListSound' /\ ListStays
<1> USE DEF ListSound
<1>1. /\ pc[t] = "allocated" /\ pc' = [pc EXCEPT ![t] = "idle"]
      /\ p' = [p EXCEPT ![t] = nullptr]
      /\ next' = [next EXCEPT ![t] = nullptr]
      /\ sHeadLink_' = next[t]
      /\ users' = [users EXCEPT ![p[t]] = @ + 1]
      /\ UNCHANGED <<link, mallocs, exhausted>>
  BY DEF AllocateReturns, Returns, Goes
<1>2. HoldsList(t) /\ HoldsBlock(t)
  BY <1>1 DEF HoldsList, HoldsBlock
<1>3. p[t] \in Given /\ users[p[t]] = 0 /\ p[t] \in Blocks
  BY <1>2 DEF OneOwner, Given
<1>4. users' = [users EXCEPT ![p[t]] = 1]
  BY <1>1, <1>3
<1>5. TypeOK'
  <2>1. users' \in [Blocks -> Nat]
    BY <1>3, <1>4 DEF TypeOK
  <2>2. sHeadLink_' \in Pointers /\ link' \in [Blocks -> Pointers \cup {Junk}]
    BY <1>1 DEF TypeOK
  <2>3. pc' \in [Threads -> Places]
    BY <1>1 DEF TypeOK, Places
  <2>4. p' \in [Threads -> Pointers] /\ next' \in [Threads -> Pointers]
    BY <1>1 DEF TypeOK, Pointers
  <2> QED  BY <1>1, <2>1, <2>2, <2>3, <2>4 DEF TypeOK
<1>6. \A u \in Threads : ~HoldsList(u)'
  BY <1>1, <1>2 DEF HoldsList, OneHolder, TypeOK
<1>7. \A u \in Threads : /\ HoldsBlock(u)' <=> (HoldsBlock(u) /\ u # t)
                         /\ HoldsBlock(u)' => p'[u] = p[u] /\ p[u] # p[t]
  BY <1>1, <1>2 DEF HoldsBlock, OneOwner, TypeOK
<1>8. OneHolder'
  BY <1>6 DEF OneHolder
<1>9. Given' = Given
  BY <1>1, GivenKept
<1>10. OneOwner'
  BY <1>3, <1>4, <1>7, <1>9 DEF OneOwner, TypeOK
<1>11. Free' = Free
  <2>1. p[t] \notin Free
    BY <1>2 DEF Free
  <2>2. p[t] \notin Free'
    BY <1>3, <1>4 DEF Free, TypeOK
  <2>3. \A b \in Blocks \ {p[t]} : b \in Free' <=> b \in Free
    BY <1>2, <1>3, <1>4, <1>7, <1>9 DEF Free, TypeOK
  <2> QED  BY <2>1, <2>2, <2>3 DEF Free, Given
<1>12. Tops' \subseteq Tops
  BY <1>1, <1>2, <1>6, TopsOfHolder, TopsOfNobodyAfter DEF Top
<1>13. ListStays
  BY <1>1, <1>11, <1>12 DEF ListStays
<1>14. OneList'
  BY <1>13, ListKept
<1> QED  BY <1>5, <1>8, <1>10, <1>13, <1>14

LEMMA UseSound ==
  ASSUME ListSound, NEW b \in Blocks, Use(b)
  PROVE  ListSound' /\ ListStays
<1> USE DEF ListSound
<1>1. /\ users[b] > 0
      /\ link' = [link EXCEPT ![b] = Junk]
      /\ UNCHANGED <<sHeadLink_, mallocs, users, pc, p, next, exhausted>>
  BY DEF Use
<1>2. TypeOK'
  BY <1>1 DEF TypeOK
<1>3. OneHolder'
  BY <1>1 DEF OneHolder, HoldsList
<1>4. Given' = Given
  BY <1>1, GivenKept
<1>5. OneOwner'
  BY <1>1, <1>4 DEF OneOwner, HoldsBlock
<1>6. Free' = Free
  BY <1>1, <1>4 DEF Free, HoldsBlock
<1>7. Tops' = Tops
  BY <1>1 DEF Tops, HoldsList
<1>8. b \notin Free
  BY <1>1 DEF Free, TypeOK
<1>9. ListStays
  BY <1>1, <1>6, <1>7, <1>8 DEF ListStays, TypeOK
<1>10. OneList'
  BY <1>9, ListKept
<1> QED  BY <1>2, <1>3, <1>5, <1>9, <1>10

LEMMA DeallocateSound ==
  ASSUME ListSound, NEW t \in Threads, NEW b \in Blocks, Deallocate(t, b)
  PROVE  ListSound' /\ ListStays
<1> USE DEF ListSound
<1>1. /\ users[b] > 0
      /\ pc[t] = "idle" /\ pc' = [pc EXCEPT ![t] = "deallocate"]
      /\ p' = [p EXCEPT ![t] = b]
      /\ users' = [users EXCEPT ![b] = @ - 1]
      /\ UNCHANGED <<sHeadLink_, link, mallocs, next, exhausted>>
  BY DEF Deallocate, Goes
<1>2. users[b] = 1 /\ b \in Given
  BY <1>1 DEF OneOwner, TypeOK
<1>3. users' = [users EXCEPT ![b] = 0]
  BY <1>1, <1>2
<1>4. TypeOK'
  BY <1>1, <1>3 DEF TypeOK, Places, Pointers
<1>5. \A u \in Threads : HoldsList(u)' = HoldsList(u)
  BY <1>1 DEF HoldsList, TypeOK
<1>6. \A u \in Threads : HoldsBlock(u) => u # t /\ p[u] # b
  BY <1>1, <1>2 DEF HoldsBlock, OneOwner
<1>7. \A u \in Threads : /\ HoldsBlock(u)' <=> (HoldsBlock(u) \/ u = t)
                         /\ p'[u] = IF u = t THEN b ELSE p[u]
  BY <1>1 DEF HoldsBlock, TypeOK
<1>8. OneHolder'
  BY <1>1, <1>5 DEF OneHolder
<1>9. Given' = Given
  BY <1>1, GivenKept
<1>10. OneOwner'
  BY <1>2, <1>3, <1>6, <1>7, <1>9 DEF OneOwner, TypeOK
<1>11. Free' = Free
  <2>1. b \notin Free /\ b \notin Free'
    BY <1>2, <1>7 DEF Free
  <2>2. \A c \in Blocks \ {b} : c \in Free' <=> c \in Free
    BY <1>3, <1>6, <1>7, <1>9 DEF Free, TypeOK
  <2> QED  BY <2>1, <2>2 DEF Free, Given
<1>12. Tops' = Tops
  <2>1. pc'[t] # "take" /\ ~HoldsList(t) /\ \A u \in Threads \ {t} : pc'[u] = pc[u] /\ p'[u] = p[u]
    BY <1>1 DEF HoldsList, TypeOK
  <2> QED  BY ONLY <1>1, <1>5, <2>1 DEF Tops
<1>13. ListStays
  BY <1>1, <1>11, <1>12 DEF ListStays
<1>14. OneList'
  BY <1>13, ListKept
<1> QED  BY <1>4, <1>8, <1>10, <1>13, <1>14

LEMMA DeallocateExchangeSound ==
  ASSUME ListSound, NEW t \in Threads, DeallocateExchange(t)
  PROVE  ListSound' /\ ListStays
<1> USE DEF ListSound
<1>1. /\ sHeadLink_ # kLockedSentinal_
      /\ pc[t] = "deallocate" /\ pc' = [pc EXCEPT ![t] = "push"]
      /\ next' = [next EXCEPT ![t] = sHeadLink_]
      /\ sHeadLink_' = kLockedSentinal_
      /\ UNCHANGED <<link, mallocs, users, p, exhausted>>
  BY DEF DeallocateExchange, Goes
<1>2. TypeOK'
  BY <1>1 DEF TypeOK, Places
<1>3. \A u \in Threads : ~HoldsList(u)
  BY <1>1, NobodyHolds
<1>4. \A u \in Threads : HoldsList(u)' <=> u = t
  BY <1>1, <1>3 DEF HoldsList, TypeOK
<1>5. \A u \in Threads : HoldsBlock(u)' = HoldsBlock(u)
  BY <1>1 DEF HoldsBlock, TypeOK
<1>6. OneHolder'
  BY <1>1, <1>4 DEF OneHolder
<1>7. Given' = Given
  BY <1>1, GivenKept
<1>8. OneOwner'
  BY <1>1, <1>5, <1>7 DEF OneOwner
<1>9. Free' = Free
  BY <1>1, <1>5, <1>7 DEF Free
<1>10. Tops' = Tops
  <2>1. Top(t)' = sHeadLink_
    BY <1>1 DEF Top, TypeOK
  <2>2. Tops' = {sHeadLink_}
    BY <1>4, <1>6, <2>1, TopsOfHolderAfter
  <2> QED  BY <1>1, <1>3, <2>2, TopsOfNobody
<1>11. ListStays
  BY <1>1, <1>9, <1>10 DEF ListStays
<1>12. OneList'
  BY <1>11, ListKept
<1> QED  BY <1>2, <1>6, <1>8, <1>11, <1>12

\* The block t gives back becomes the head, before the one that was.
LEMMA PushSound ==
  ASSUME ListSound, NEW t \in Threads, Push(t)
  PROVE  ListSound'
<1> USE DEF ListSound
<1>1. /\ pc[t] = "push" /\ pc' = [pc EXCEPT ![t] = "deallocated"]
      /\ link' = [link EXCEPT ![p[t]] = next[t]]
      /\ next' = [next EXCEPT ![t] = p[t]]
      /\ UNCHANGED <<sHeadLink_, mallocs, users, p, exhausted>>
  BY DEF Push, Goes
<1>2. HoldsList(t) /\ HoldsBlock(t)
  BY <1>1 DEF HoldsList, HoldsBlock
<1>3. p[t] \in Given /\ users[p[t]] = 0 /\ p[t] \in Blocks
  BY <1>2 DEF OneOwner, Given
<1>4. Tops = {next[t]}
  BY <1>1, <1>2, TopsOfHolder DEF Top
<1>5. TypeOK'
  BY <1>1, <1>3 DEF TypeOK, Places, Pointers
<1>6. \A u \in Threads : HoldsList(u)' = HoldsList(u)
  BY <1>1 DEF HoldsList, TypeOK
<1>7. \A u \in Threads : HoldsBlock(u)' <=> (HoldsBlock(u) /\ u # t)
  BY <1>1 DEF HoldsBlock, TypeOK
<1>8. OneHolder'
  BY <1>1, <1>6 DEF OneHolder
<1>9. Given' = Given
  BY <1>1, GivenKept
<1>10. OneOwner'
  BY <1>1, <1>7, <1>9 DEF OneOwner
<1>11. p[t] \notin Free
  BY <1>2 DEF Free
<1>12. Free' = Free \cup {p[t]}
  BY <1>1, <1>2, <1>3, <1>7, <1>9 DEF Free, OneOwner
<1>13. Tops' = {p[t]}
  <2>1. Top(t)' = p[t]
    BY <1>1 DEF Top, TypeOK
  <2> QED  BY <1>2, <1>6, <1>8, <2>1, TopsOfHolderAfter
<1>14. link'[p[t]] = next[t] /\ \A b \in Free : link'[b] = link[b]
  BY <1>1, <1>3, <1>11 DEF TypeOK
<1>15. next[t] \in Free \cup {nullptr}
  BY <1>4 DEF OneList
<1>16. OneList'
  <2>1. Tops' \subseteq Free' \cup {nullptr}
    BY <1>12, <1>13
  <2>2. \A b \in Free' : link'[b] \in (Free' \ Tops') \cup {nullptr}
    BY <1>11, <1>12, <1>13, <1>14, <1>15 DEF OneList
  <2>3. \A b \in Free : link'[b] # next[t] \/ next[t] = nullptr
    BY <1>4, <1>14, Distinct DEF OneList
  <2>4. \A b, c \in Free' : link'[b] = link'[c] /\ link'[b] # nullptr => b = c
    BY <1>12, <1>14, <2>3 DEF OneList
  <2> QED  BY <2>1, <2>2, <2>4 DEF OneList
<1> QED  BY <1>5, <1>8, <1>10, <1>16

LEMMA DeallocateReturnsSound ==
  ASSUME ListSound, NEW t \in Threads, DeallocateReturns(t)
  PROVE  ListSound' /\ ListStays
<1> USE DEF ListSound
<1>1. /\ pc[t] = "deallocated" /\ pc' = [pc EXCEPT ![t] = "idle"]
      /\ p' = [p EXCEPT ![t] = nullptr]
      /\ next' = [next EXCEPT ![t] = nullptr]
      /\ sHeadLink_' = next[t]
      /\ UNCHANGED <<link, mallocs, users, exhausted>>
  BY DEF DeallocateReturns, Returns, Goes
<1>2. HoldsList(t) /\ ~HoldsBlock(t)
  BY <1>1 DEF HoldsList, HoldsBlock
<1>3. TypeOK'
  BY <1>1 DEF TypeOK, Places, Pointers
<1>4. \A u \in Threads : ~HoldsList(u)'
  BY <1>1, <1>2 DEF HoldsList, OneHolder, TypeOK
<1>5. \A u \in Threads : HoldsBlock(u)' = HoldsBlock(u) /\ (HoldsBlock(u) => p'[u] = p[u])
  BY <1>1, <1>2 DEF HoldsBlock, TypeOK
<1>6. OneHolder'
  BY <1>4 DEF OneHolder
<1>7. Given' = Given
  BY <1>1, GivenKept
<1>8. OneOwner'
  BY <1>1, <1>5, <1>7 DEF OneOwner
<1>9. Free' = Free
  BY <1>1, <1>5, <1>7 DEF Free
<1>10. Tops' \subseteq Tops
  BY <1>1, <1>2, <1>4, TopsOfHolder, TopsOfNobodyAfter DEF Top
<1>11. ListStays
  BY <1>1, <1>9, <1>10 DEF ListStays
<1>12. OneList'
  BY <1>11, ListKept
<1> QED  BY <1>3, <1>6, <1>8, <1>11, <1>12

-----------------------------------------------------------------------------
LEMMA NextSound == ListSound /\ [Next]_vars => ListSound'
<1> SUFFICES ASSUME ListSound, [Next]_vars PROVE ListSound'
  OBVIOUS
<1>1. CASE \E t \in Threads : Allocate(t)
  BY <1>1, AllocateSound
<1>2. CASE \E t \in Threads : Step(t)
  BY <1>2, AllocateExchangeSound, GetMemSound, MallocFailsSound, LoadNextSound,
     AllocateReturnsSound, DeallocateExchangeSound, PushSound, DeallocateReturnsSound DEF Step
<1>3. CASE \E t \in Threads, b \in Blocks : Deallocate(t, b)
  BY <1>3, DeallocateSound
<1>4. CASE \E b \in Blocks : Use(b)
  BY <1>4, UseSound
<1>5. CASE UNCHANGED vars
  <2>1. Given' = Given
    BY <1>5, GivenKept DEF vars
  <2>2. Free' = Free /\ Tops' = Tops
    BY <1>5, <2>1 DEF vars, Free, Tops, HoldsBlock, HoldsList
  <2> QED
    BY <1>5, <2>1, <2>2
    DEF ListSound, vars, TypeOK, OneHolder, OneOwner, OneList, HoldsList, HoldsBlock
<1> QED  BY <1>1, <1>2, <1>3, <1>4, <1>5 DEF Next

(***************************************************************************)
(* One thread at a time has the free list, a block has one owner, and the  *)
(* list stays one list of the free blocks (Allocate and Deallocate in      *)
(* BlockAllocator.inl).                                                    *)
(***************************************************************************)
THEOREM ListIsSound == Spec => []ListSound
<1>1. Init => ListSound
  BY InitSound
<1>2. ListSound /\ [Next]_vars => ListSound'
  BY NextSound
<1> QED  BY <1>1, <1>2, PTL DEF Spec

-----------------------------------------------------------------------------
(***************************************************************************)
(* NothingLost, by ListSound and itself.  A step that takes the first      *)
(* block out, or puts one in front, moves the head by one link; only the   *)
(* new chunk needs an induction, along its blocks.                         *)
(***************************************************************************)
Less == {pair \in Nat \X Nat : pair[1] < pair[2]}

LEMMA LessIsWellFounded == IsWellFoundedOn(Less, Nat)
BY NatLessThanWellFounded DEF OpToRel, Less

\* Every set of natural numbers has a least one.
LEMMA HasLeast ==
  ASSUME NEW T \in SUBSET Nat, T # {}
  PROVE  \E m \in T : \A k \in T : ~(k < m)
<1>1. \E m \in T : \A k \in T : <<k, m>> \notin Less
  BY LessIsWellFounded, WFMin
<1> QED  BY <1>1 DEF Less

\* It is enough to walk through free blocks: the walk meets no others.
LEMMA WalkIsFree ==
  ASSUME OneList, NEW top \in Tops, NEW S \in SUBSET Blocks,
         top \in S \cup {nullptr},
         \A b \in S \cap Free : link[b] \in S \cup {nullptr},
         NothingLost
  PROVE  Free \subseteq S
<1>1. S \cap Free \in SUBSET Blocks
  OBVIOUS
<1>2. top \in (S \cap Free) \cup {nullptr}
  BY DEF OneList
<1>3. Closed(S \cap Free)
  BY Distinct DEF OneList, Closed
<1> QED  BY <1>1, <1>2, <1>3 DEF NothingLost

\* Steps that leave the free blocks, their links and the head alone.
LEMMA ReachKept ==
  ASSUME OneList, NothingLost, ListStays
  PROVE  NothingLost'
<1> SUFFICES ASSUME NEW top \in Tops', NEW S \in SUBSET Blocks,
                    top \in S \cup {nullptr}, Closed(S)'
             PROVE  Free \subseteq S
  BY DEF NothingLost, ListStays
<1>1. \A b \in S \cap Free : link[b] \in S \cup {nullptr}
  BY DEF Closed, ListStays, OneList, Free, Given
<1>2. top \in Tops
  BY DEF ListStays
<1> QED  BY <1>1, <1>2, WalkIsFree

LEMMA LoadNextReaches ==
  ASSUME ListSound, NothingLost, NEW t \in Threads, LoadNext(t)
  PROVE  NothingLost'
<1> USE DEF ListSound
<1>1. /\ p[t] # nullptr
      /\ pc[t] = "take" /\ pc' = [pc EXCEPT ![t] = "allocated"]
      /\ next' = [next EXCEPT ![t] = link[p[t]]]
      /\ UNCHANGED <<sHeadLink_, link, mallocs, users, p, exhausted>>
  BY DEF LoadNext, Goes
<1>2. HoldsList(t) /\ ~HoldsBlock(t) /\ HoldsList(t)'
  BY <1>1 DEF HoldsList, HoldsBlock, TypeOK
<1>3. Tops = {p[t]}
  BY <1>1, <1>2, TopsOfHolder DEF Top
<1>4. p[t] \in Blocks
  BY <1>1, <1>3 DEF OneList, Free, Given
<1>5. OneHolder'
  BY LoadNextSound
<1>6. Tops' = {link[p[t]]}
  BY <1>1, <1>2, <1>5, TopsOfHolderAfter DEF Top, TypeOK
<1>7. Free' \subseteq Free \ {p[t]}
  BY <1>1, GivenKept DEF Free, HoldsBlock, TypeOK
<1> SUFFICES ASSUME NEW S \in SUBSET Blocks, link[p[t]] \in S \cup {nullptr}, Closed(S)'
             PROVE  Free' \subseteq S
  BY <1>6 DEF NothingLost
<1>8. S \cup {p[t]} \in SUBSET Blocks
  BY <1>4
<1>9. Closed(S \cup {p[t]})
  BY <1>1, Distinct DEF Closed
<1>10. Free \subseteq S \cup {p[t]}
  BY <1>3, <1>8, <1>9 DEF NothingLost
<1> QED  BY <1>7, <1>10

LEMMA PushReaches ==
  ASSUME ListSound, NothingLost, NEW t \in Threads, Push(t)
  PROVE  NothingLost'
<1> USE DEF ListSound
<1>1. /\ pc[t] = "push" /\ pc' = [pc EXCEPT ![t] = "deallocated"]
      /\ link' = [link EXCEPT ![p[t]] = next[t]]
      /\ next' = [next EXCEPT ![t] = p[t]]
      /\ UNCHANGED <<sHeadLink_, mallocs, users, p, exhausted>>
  BY DEF Push, Goes
<1>2. HoldsList(t) /\ HoldsBlock(t) /\ HoldsList(t)'
  BY <1>1 DEF HoldsList, HoldsBlock, TypeOK
<1>3. p[t] \in Blocks /\ p[t] \notin Free
  BY <1>2 DEF OneOwner, Given, Free
<1>4. Tops = {next[t]}
  BY <1>1, <1>2, TopsOfHolder DEF Top
<1>5. OneHolder'
  BY PushSound
<1>6. Tops' = {p[t]}
  BY <1>1, <1>2, <1>5, TopsOfHolderAfter DEF Top, TypeOK
<1>7. Free' \subseteq Free \cup {p[t]}
  BY <1>1, GivenKept DEF Free, HoldsBlock, TypeOK
<1>8. link'[p[t]] = next[t] /\ \A b \in Free : link'[b] = link[b]
  BY <1>1, <1>3 DEF TypeOK
<1> SUFFICES ASSUME NEW S \in SUBSET Blocks, p[t] \in S \cup {nullptr}, Closed(S)'
             PROVE  Free' \subseteq S
  BY <1>6 DEF NothingLost
<1>9. p[t] \in S
  BY <1>3, Distinct
<1>10. next[t] \in S \cup {nullptr}
  BY <1>4, <1>8, <1>9 DEF Closed, OneList, Free, Given
<1>11. \A b \in S \cap Free : link[b] \in S \cup {nullptr}
  BY <1>8 DEF Closed, OneList, Free, Given
<1>12. Free \subseteq S
  BY <1>4, <1>10, <1>11, WalkIsFree
<1> QED  BY <1>7, <1>9, <1>12

\* A walk from the first block of the chunk comes through all of them.
LEMMA GetMemReaches ==
  ASSUME ListSound, NothingLost, NEW t \in Threads, GetMem_Util_(t)
  PROVE  NothingLost'
<1> DEFINE chunk == Chunks[mallocs + 1]
<1> USE DEF ListSound
<1>1. /\ mallocs + 1 \in DOMAIN Chunks /\ chunk \in Seq(Blocks) /\ chunk # <<>>
      /\ mallocs \in Nat
  BY ChunksTyped, BlockAssumption DEF GetMem_Util_, TypeOK
<1>2. /\ Len(chunk) \in Nat \ {0}
      /\ DOMAIN chunk = 1 .. Len(chunk)
      /\ \A i \in 1 .. Len(chunk) : chunk[i] \in Blocks
  BY <1>1
<1>3. \A i \in 1 .. Len(chunk) - 1 : link'[chunk[i]] = chunk[i + 1]
  BY ChunkIsLinked
<1>4. /\ pc[t] = "take" /\ p[t] = nullptr
      /\ p' = [p EXCEPT ![t] = chunk[1]]
      /\ mallocs' = mallocs + 1
      /\ UNCHANGED <<sHeadLink_, users, pc, next, exhausted>>
  BY DEF GetMem_Util_
<1>5. HoldsList(t) /\ HoldsList(t)' /\ ~HoldsBlock(t)
  BY <1>4 DEF HoldsList, HoldsBlock
<1>6. Tops = {nullptr}
  BY <1>4, <1>5, TopsOfHolder DEF Top
<1>7. Free = {}
  <2>1. Closed({}) /\ {} \in SUBSET Blocks
    BY DEF Closed
  <2> QED  BY <1>6, <2>1 DEF NothingLost
<1>8. OneHolder'
  BY GetMemSound
<1>9. Tops' = {chunk[1]}
  BY <1>4, <1>5, <1>8, TopsOfHolderAfter DEF Top, TypeOK
<1>10. Free' \subseteq {chunk[i] : i \in 1 .. Len(chunk)}
  <2>1. Given' \subseteq Given \cup {chunk[i] : i \in 1 .. Len(chunk)}
    BY <1>1, <1>2, <1>4 DEF Given
  <2>2. \A u \in Threads : HoldsBlock(u)' = HoldsBlock(u) /\ (HoldsBlock(u) => p'[u] = p[u])
    BY <1>4, <1>5 DEF HoldsBlock, TypeOK
  <2>3. Free' \cap Given \subseteq Free
    BY <1>4, <2>2 DEF Free
  <2>4. Free' \subseteq Given'
    BY DEF Free
  <2> QED  BY <1>7, <2>1, <2>3, <2>4
<1> HIDE DEF chunk
<1> SUFFICES ASSUME NEW S \in SUBSET Blocks, chunk[1] \in S \cup {nullptr}, Closed(S)'
             PROVE  Free' \subseteq S
  BY <1>9 DEF NothingLost
<1>11. chunk[1] \in S
  BY <1>2, Distinct
<1>12. ASSUME NEW i \in 1 .. Len(chunk) - 1, chunk[i] \in S
       PROVE  chunk[i + 1] \in S
  <2>1. i + 1 \in 1 .. Len(chunk)
    BY <1>2
  <2> QED  BY <1>2, <1>3, <1>12, <2>1 DEF Closed
<1>13. \A i \in 1 .. Len(chunk) : chunk[i] \in S
  <2> DEFINE Left == {i \in 1 .. Len(chunk) : chunk[i] \notin S}
  <2>1. SUFFICES ASSUME Left # {} PROVE FALSE
    OBVIOUS
  <2>2. Left \in SUBSET Nat
    BY <1>2
  <2>3. PICK m \in Left : \A k \in Left : ~(k < m)
    BY <2>1, <2>2, HasLeast
  <2>4. m \in 1 .. Len(chunk) /\ chunk[m] \notin S /\ m # 1
    BY <1>11, <2>3
  <2>5. m - 1 \in 1 .. Len(chunk) - 1 /\ m - 1 \in 1 .. Len(chunk) /\ m - 1 < m
    BY <1>2, <2>4
  <2>6. chunk[m - 1] \in S
    BY <2>3, <2>5
  <2>7. chunk[(m - 1) + 1] \in S
    BY <1>12, <2>5, <2>6
  <2>8. (m - 1) + 1 = m
    BY <1>2, <2>4
  <2> QED  BY <2>4, <2>7, <2>8
<1> QED  BY <1>10, <1>13

LEMMA NextReaches == ListSound /\ NothingLost /\ [Next]_vars => NothingLost'
<1> SUFFICES ASSUME ListSound, NothingLost, [Next]_vars PROVE NothingLost'
  OBVIOUS
<1>1. OneList
  BY DEF ListSound
<1>2. CASE \E t \in Threads : LoadNext(t) \/ Push(t) \/ GetMem_Util_(t)
  BY <1>2, LoadNextReaches, PushReaches, GetMemReaches
<1>3. CASE \E t \in Threads : \/ Allocate(t) \/ AllocateExchange(t) \/ MallocFails(t)
                              \/ AllocateReturns(t) \/ DeallocateExchange(t)
                              \/ DeallocateReturns(t)
  <2>1. ListStays
    BY <1>3, AllocateSound, AllocateExchangeSound, MallocFailsSound, AllocateReturnsSound,
       DeallocateExchangeSound, DeallocateReturnsSound
  <2> QED  BY <1>1, <2>1, ReachKept
<1>4. CASE \E t \in Threads, b \in Blocks : Deallocate(t, b)
  BY <1>1, <1>4, DeallocateSound, ReachKept
<1>5. CASE \E b \in Blocks : Use(b)
  BY <1>1, <1>5, UseSound, ReachKept
<1>6. CASE UNCHANGED vars
  <2>1. ListStays
    BY <1>6, GivenKept DEF vars, ListStays, Free, Tops, HoldsBlock, HoldsList
  <2> QED  BY <1>1, <2>1, ReachKept
<1> QED  BY <1>2, <1>3, <1>4, <1>5, <1>6 DEF Next, Step

(***************************************************************************)
(* No block is ever lost, however many threads take and give back: the     *)
(* walk from the head comes to every free block until an allocation fails  *)
(* with the list held.                                                     *)
(***************************************************************************)
THEOREM NoBlockIsLost == Spec => []NothingLost
<1>1. Init => NothingLost
  <2>1. Init => Free = {}
    BY DEF Init, Free, Given
  <2> QED  BY <2>1 DEF NothingLost
<1>2. ListSound /\ NothingLost /\ [Next]_vars => NothingLost'
  BY NextReaches
<1> QED  BY <1>1, <1>2, ListIsSound, PTL DEF Spec

-----------------------------------------------------------------------------
LEMMA StepIsPoolStep ==
  ASSUME ListSound, [Next]_vars
  PROVE  [Pool!Next]_(Pool!vars)
<1> USE DEF Pool!vars
<1>1. CASE UNCHANGED <<mallocs, users>>
  BY <1>1, GivenKept
<1>2. CASE \E t \in Threads : GetMem_Util_(t)
  <2>1. mallocs' = mallocs + 1 /\ UNCHANGED users /\ mallocs \in Nat
    BY <1>2, ChunksTyped DEF GetMem_Util_, ListSound, TypeOK
  <2>2. Given \subseteq Given' /\ Given' \subseteq Blocks
    BY <2>1 DEF Given
  <2> QED  BY <2>1, <2>2 DEF Pool!Next, Pool!Grow
<1>3. CASE \E t \in Threads : AllocateReturns(t)
  <2>1. PICK t \in Threads : AllocateReturns(t)
    BY <1>3
  <2>2. pc[t] = "allocated" /\ users' = [users EXCEPT ![p[t]] = @ + 1] /\ UNCHANGED mallocs
    BY <2>1 DEF AllocateReturns, Returns, Goes
  <2>3. p[t] \in Given /\ users[p[t]] = 0 /\ p[t] \in Blocks
    BY <2>2 DEF ListSound, OneOwner, HoldsBlock, Given
  <2>4. Pool!GiveOut(p[t])
    BY <2>2, <2>3, GivenKept DEF Pool!GiveOut
  <2> QED  BY <2>3, <2>4 DEF Pool!Next
<1>4. CASE \E t \in Threads, b \in Blocks : Deallocate(t, b)
  <2>1. PICK t \in Threads, b \in Blocks : Deallocate(t, b)
    BY <1>4
  <2>2. users[b] > 0 /\ users' = [users EXCEPT ![b] = @ - 1] /\ UNCHANGED mallocs
    BY <2>1 DEF Deallocate
  <2>3. users[b] = 1
    BY <2>2 DEF ListSound, OneOwner, TypeOK
  <2>4. Pool!TakeBack(b)
    BY <2>2, <2>3, GivenKept DEF Pool!TakeBack
  <2> QED  BY <2>4 DEF Pool!Next
<1> QED
  BY <1>1, <1>2, <1>3, <1>4
  DEF Next, Step, vars, Allocate, AllocateExchange, MallocFails, LoadNext, Use,
      DeallocateExchange, Push, DeallocateReturns, Returns, Goes

(***************************************************************************)
(* A block is given to one caller at a time, and only a block of the pool: *)
(* the lock-free allocator implements BlockPool.                           *)
(***************************************************************************)
THEOREM ImplementsBlockPool == Spec => PoolSpec
<1>1. Init => Pool!Init
  BY DEF Init, Pool!Init, Given
<1>2. ListSound /\ [Next]_vars => [Pool!Next]_(Pool!vars)
  BY StepIsPoolStep
<1> QED  BY <1>1, <1>2, ListIsSound, PTL DEF Spec, PoolSpec, Pool!Spec

=============================================================================
