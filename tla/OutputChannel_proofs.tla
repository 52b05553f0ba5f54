------------------------ MODULE OutputChannel_proofs ------------------------
(***************************************************************************)
(* Proofs about OutputChannel: for any capacities and any reads, what is   *)
(* queued is in order and complete, and the budget counts every byte once. *)
(***************************************************************************)
EXTENDS OutputChannel, WellFoundedInduction, FiniteSetTheorems, TLAPS

-----------------------------------------------------------------------------
(* The bytes of a queue.                                                    *)

\* A set of numbers has a least one: what induction over the positions of a queue rests on.
LEMMA LeastNumber ==
    ASSUME NEW T, T \subseteq Nat, T # {}
    PROVE  \E m \in T : \A k \in T : m <= k
  <1> DEFINE R == OpToRel(<, Nat)
  <1>1. IsWellFoundedOn(R, Nat)
    BY NatLessThanWellFounded
  <1> HIDE DEF R
  <1>2. PICK m \in T : \A k \in T : ~ (<<k, m>> \in R)
    BY <1>1, WFMin, Zenon
  <1>3. ASSUME NEW k \in T
        PROVE  m <= k
    <2>1. <<k, m>> \notin R
      BY <1>2
    <2>2. k < m => <<k, m>> \in R
      BY DEF OpToRel, R
    <2> QED
      BY <2>1, <2>2
  <1> QED
    BY <1>3

\* What a reader may put into the channel.
Event == Chunk \cup Markers

\* f adds up the bytes of the first n events.
AddsUp(f, events, n) ==
    f = [k \in 0..n |-> IF k = 0 THEN 0 ELSE f[k - 1] + BytesIn(events[k])]

\* A read returns a positive number of bytes, no more than the budget can give out.
LEMMA SizesAreNatural ==
    \A n \in Sizes : n \in Nat \ {0} /\ n <= ByteCap
  BY ChannelAssumption

\* An event has a natural number of bytes.
LEMMA BytesAreNatural ==
    ASSUME NEW event \in Event
    PROVE  BytesIn(event) \in Nat
  <1>1. CASE event \in Chunk
    <2>1. event.kind = "Output" /\ event.bytes \in Sizes
      BY <1>1 DEF Chunk
    <2>2. event.bytes \in Nat
      BY <2>1, SizesAreNatural
    <2> QED
      BY <2>1, <2>2 DEF BytesIn, IsChunk
  <1>2. CASE event \in Markers
    <2>1. event.kind # "Output"
      BY <1>2 DEF Markers
    <2> QED
      BY <2>1 DEF BytesIn, IsChunk
  <1> QED
    BY <1>1, <1>2 DEF Event

\* The recursive function of QueuedBytes exists.
LEMMA BytesAddUp ==
    ASSUME NEW events \in Seq(Event), NEW n \in 0..Len(events)
    PROVE  \E f : AddsUp(f, events, n)
  <1> DEFINE Bad == {k \in 0..n : ~ \E f : AddsUp(f, events, k)}
  <1>1. SUFFICES ASSUME Bad # {}
                 PROVE  FALSE
    <2>1. n \in 0..n
      OBVIOUS
    <2> QED
      BY <2>1, Zenon
  <1>2. PICK m \in Bad : \A k \in Bad : m <= k
    <2>1. Bad \subseteq Nat
      OBVIOUS
    <2> HIDE DEF Bad
    <2> QED
      BY <1>1, <2>1, LeastNumber
  <1>3. CASE m = 0
    <2>1. AddsUp([k \in 0..0 |-> 0], events, 0)
      BY DEF AddsUp
    <2> QED
      BY <1>3, <2>1
  <1>4. CASE m # 0
    <2>1. m - 1 \in 0..n /\ m \in 0..n /\ m \in Nat
      BY <1>4
    <2>2. PICK f : AddsUp(f, events, m - 1)
      BY <1>2, <2>1
    <2> DEFINE g == [k \in 0..m |-> IF k < m THEN f[k] ELSE f[m - 1] + BytesIn(events[m])]
    <2>3. g = [k \in 0..m |-> IF k = 0 THEN 0 ELSE g[k - 1] + BytesIn(events[k])]
      <3>1. ASSUME NEW k \in 0..m
            PROVE  g[k] = IF k = 0 THEN 0 ELSE g[k - 1] + BytesIn(events[k])
        <4>1. CASE k < m
          <5>1. k \in 0..(m - 1)
            BY <4>1, <2>1
          <5>2. f[k] = IF k = 0 THEN 0 ELSE f[k - 1] + BytesIn(events[k])
            BY <5>1, <2>2 DEF AddsUp
          <5> QED
            BY <5>2, <4>1, <2>1
        <4>2. CASE k = m
          BY <4>2, <1>4, <2>1
        <4> QED
          BY <4>1, <4>2, <2>1
      <3> HIDE DEF g
      <3>2. g = [k \in 0..m |-> g[k]]
        BY DEF g
      <3> QED
        BY <3>1, <3>2
    <2>4. AddsUp(g, events, m)
      BY <2>3 DEF AddsUp
    <2> QED
      BY <2>4
  <1> QED
    BY <1>3, <1>4
\* QueuedBytes is such a sum over the whole queue.
LEMMA QueuedBytesAddUp ==
    ASSUME NEW events \in Seq(Event)
    PROVE  \E f : AddsUp(f, events, Len(events)) /\ QueuedBytes(events) = f[Len(events)]
  <1> DEFINE IsSum(f) == f = [k \in 0..Len(events) |->
                                IF k = 0 THEN 0 ELSE f[k - 1] + BytesIn(events[k])]
  <1>1. \E f : IsSum(f)
    <2>1. Len(events) \in 0..Len(events)
      OBVIOUS
    <2> QED
      BY <2>1, BytesAddUp DEF AddsUp
  <1>2. IsSum(CHOOSE f : IsSum(f))
    BY <1>1, Zenon
  <1>3. QueuedBytes(events) = (CHOOSE f : IsSum(f))[Len(events)]
    BY Zenon DEF QueuedBytes
  <1> QED
    BY <1>2, <1>3, Zenon DEF AddsUp

\* Sums of the same events agree up to any position, and are natural numbers.
LEMMA SumsAgree ==
    ASSUME NEW events \in Seq(Event), NEW more \in Seq(Event), NEW n \in Nat,
           n <= Len(events), n <= Len(more),
           \A k \in 1..n : events[k] = more[k],
           NEW f, AddsUp(f, events, Len(events)), NEW g, AddsUp(g, more, Len(more))
    PROVE  f[n] = g[n] /\ f[n] \in Nat
  <1> DEFINE Bad == {k \in 0..n : ~ (f[k] = g[k] /\ f[k] \in Nat)}
  <1>1. SUFFICES ASSUME Bad # {}
                 PROVE  FALSE
    OBVIOUS
  <1>2. PICK m \in Bad : \A k \in Bad : m <= k
    <2>1. Bad \subseteq Nat
      OBVIOUS
    <2> HIDE DEF Bad
    <2> QED
      BY <1>1, <2>1, LeastNumber
  <1>3. f[m] = IF m = 0 THEN 0 ELSE f[m - 1] + BytesIn(events[m])
    <2>1. m \in 0..Len(events)
      OBVIOUS
    <2> HIDE DEF Bad
    <2> QED
      BY <2>1 DEF AddsUp
  <1>4. g[m] = IF m = 0 THEN 0 ELSE g[m - 1] + BytesIn(more[m])
    <2>1. m \in 0..Len(more)
      OBVIOUS
    <2> HIDE DEF Bad
    <2> QED
      BY <2>1 DEF AddsUp
  <1>5. CASE m = 0
    BY <1>2, <1>3, <1>4, <1>5
  <1>6. CASE m # 0
    <2>1. m - 1 \in 0..n /\ m \in 1..n /\ m \in 1..Len(events)
      BY <1>6
    <2>2. f[m - 1] = g[m - 1] /\ f[m - 1] \in Nat
      BY <1>2, <2>1
    <2>3. BytesIn(events[m]) \in Nat /\ events[m] = more[m]
      BY <2>1, BytesAreNatural
    <2> QED
      BY <1>2, <1>3, <1>4, <1>6, <2>2, <2>3
  <1> QED
    BY <1>5, <1>6

\* No events, no bytes; in any case a natural number of them.
LEMMA EmptyQueueHasNone == QueuedBytes(<<>>) = 0
  <1>1. <<>> \in Seq(Event) /\ Len(<<>>) = 0
    OBVIOUS
  <1>2. PICK f : AddsUp(f, <<>>, Len(<<>>)) /\ QueuedBytes(<<>>) = f[Len(<<>>)]
    BY <1>1, QueuedBytesAddUp
  <1> QED
    BY <1>1, <1>2 DEF AddsUp

\* The bytes of a queue are a natural number.
LEMMA QueuedBytesAreNatural ==
    ASSUME NEW events \in Seq(Event)
    PROVE  QueuedBytes(events) \in Nat
  <1>1. PICK f : AddsUp(f, events, Len(events)) /\ QueuedBytes(events) = f[Len(events)]
    BY QueuedBytesAddUp
  <1> QED
    BY <1>1, SumsAgree

\* A chunk that is sent adds its bytes.
LEMMA AppendAddsBytes ==
    ASSUME NEW events \in Seq(Event), NEW event \in Event
    PROVE  QueuedBytes(Append(events, event)) = QueuedBytes(events) + BytesIn(event)
  <1> DEFINE longer == Append(events, event)
  <1>1. /\ longer \in Seq(Event)
        /\ Len(longer) = Len(events) + 1
        /\ \A k \in 1..Len(events) : events[k] = longer[k]
        /\ longer[Len(events) + 1] = event
    OBVIOUS
  <1> HIDE DEF longer
  <1>2. PICK f : AddsUp(f, events, Len(events)) /\ QueuedBytes(events) = f[Len(events)]
    BY QueuedBytesAddUp
  <1>3. PICK g : AddsUp(g, longer, Len(longer)) /\ QueuedBytes(longer) = g[Len(longer)]
    BY <1>1, QueuedBytesAddUp
  <1>4. f[Len(events)] = g[Len(events)]
    BY <1>1, <1>2, <1>3, SumsAgree
  <1>5. g[Len(longer)] = g[Len(events)] + BytesIn(event)
    BY <1>1, <1>3 DEF AddsUp
  <1> QED
    BY <1>2, <1>3, <1>4, <1>5 DEF longer

\* An event that is received takes its bytes with it.
LEMMA TailTakesBytes ==
    ASSUME NEW events \in Seq(Event), events # <<>>
    PROVE  QueuedBytes(events) = BytesIn(Head(events)) + QueuedBytes(Tail(events))
  <1> DEFINE rest == Tail(events)
  <1>1. /\ rest \in Seq(Event)
        /\ Len(events) = Len(rest) + 1
        /\ \A k \in 1..Len(rest) : rest[k] = events[k + 1]
        /\ Head(events) = events[1]
        /\ BytesIn(events[1]) \in Nat
    BY BytesAreNatural
  <1> HIDE DEF rest
  <1>2. PICK f : AddsUp(f, events, Len(events)) /\ QueuedBytes(events) = f[Len(events)]
    BY QueuedBytesAddUp
  <1>3. PICK g : AddsUp(g, rest, Len(rest)) /\ QueuedBytes(rest) = g[Len(rest)]
    BY <1>1, QueuedBytesAddUp
  <1> DEFINE Bad == {k \in 0..Len(rest) :
                       ~ (g[k] \in Nat /\ f[k + 1] = BytesIn(events[1]) + g[k])}
  <1>4. Bad = {}
    <2>1. SUFFICES ASSUME Bad # {}
                   PROVE  FALSE
      OBVIOUS
    <2>2. PICK m \in Bad : \A k \in Bad : m <= k
      <3>1. Bad \subseteq Nat
        OBVIOUS
      <3> HIDE DEF Bad
      <3> QED
        BY <2>1, <3>1, LeastNumber
    <2>3. m \in 0..Len(rest) /\ m + 1 \in 0..Len(events) /\ m + 1 \in 1..Len(events)
      BY <1>1
    <2>4. f[m + 1] = f[m] + BytesIn(events[m + 1])
      <3> HIDE DEF Bad
      <3> QED
        BY <1>2, <2>3 DEF AddsUp
    <2>5. CASE m = 0
      <3>1. f[0] = 0 /\ g[0] = 0
        BY <1>1, <1>2, <1>3 DEF AddsUp
      <3> QED
        BY <2>2, <2>4, <2>5, <3>1, <1>1
    <2>6. CASE m # 0
      <3>1. m - 1 \in 0..Len(rest) /\ m \in 1..Len(rest)
        BY <2>3, <2>6
      <3>2. g[m - 1] \in Nat /\ f[m] = BytesIn(events[1]) + g[m - 1]
        BY <2>2, <3>1
      <3>3. g[m] = g[m - 1] + BytesIn(rest[m])
        <4> HIDE DEF Bad
        <4> QED
          BY <1>3, <2>3, <2>6 DEF AddsUp
      <3>4. rest[m] = events[m + 1] /\ BytesIn(rest[m]) \in Nat
        <4>1. rest[m] \in Event
          BY <1>1, <3>1
        <4> QED
          BY <1>1, <3>1, <4>1, BytesAreNatural
      <3> QED
        BY <2>2, <2>4, <3>2, <3>3, <3>4, <1>1
    <2> QED
      BY <2>5, <2>6
  <1>5. g[Len(rest)] \in Nat /\ f[Len(rest) + 1] = BytesIn(events[1]) + g[Len(rest)]
    BY <1>1, <1>4
  <1> QED
    BY <1>1, <1>2, <1>3, <1>5 DEF rest
-----------------------------------------------------------------------------
(* The inductive invariant.                                                 *)

\* How many chunks are queued.
Outstanding == sequence - delivered

\* The chunks are a prefix of the queue, numbered from the next one the owner will get; an
\* end marker follows them only once the reader thread has ended.
Numbered ==
    owner # "dropped" =>
        /\ delivered <= sequence
        /\ Len(queue) \in {Outstanding, Outstanding + 1}
        /\ reader # "done" => Len(queue) = Outstanding
        /\ ChunkPositions = 1..Outstanding
        /\ \A i \in 1..Outstanding : queue[i].sequence = delivered + i - 1

\* A reader that has read something has not used up its chunks; what the owner has
\* not yet given back belongs to a release; without a receiver nothing is queued, and the
\* budget still covers the bytes of a chunk the reader has reserved.
InHand ==
    /\ reader \in {"lock", "test", "park", "wait", "send"} =>
         sequence < MaxChunks /\ size \in Sizes
    /\ owner # "release" => releasing = 0
    /\ owner = "dropped" => queue = <<>> /\ (reader = "send" => size <= used)

ChannelInv == TypeOK /\ Numbered /\ InHand /\ BudgetExact

\* Nothing is queued and nothing is counted.
LEMMA InitEstablishes == Init => ChannelInv
  <1> SUFFICES ASSUME Init
               PROVE  ChannelInv
    OBVIOUS
  <1>1. TypeOK
    <2>1. 0 \in 0..MaxChunks /\ 0 \in 0..ByteCap
      BY ChannelAssumption
    <2>2. <<>> \in Seq(Chunk \cup Markers)
      OBVIOUS
    <2> QED
      BY <2>1, <2>2 DEF Init, TypeOK, ReaderSteps, OwnerSteps
  <1>2. Numbered /\ InHand
    BY DEF Init, Numbered, InHand, Outstanding, ChunkPositions
  <1>3. BudgetExact
    BY EmptyQueueHasNone DEF Init, BudgetExact
  <1> QED
    BY <1>1, <1>2, <1>3 DEF ChannelInv

\* The reader's steps up to the send touch neither the queue nor its numbers.
LEMMA ReadingKeeps ==
    ASSUME ChannelInv,
           \/ ReadChunk \/ ReadEnds \/ TakeLock \/ TestFull \/ Park \/ SpuriousWake
    PROVE  ChannelInv'
  <1> USE DEF ChannelInv
  <1>1. TypeOK'
    BY DEF TypeOK, ReaderSteps, ReadChunk, ReadEnds, TakeLock, TestFull, Park, SpuriousWake
  <1>2. Numbered'
    BY DEF Numbered, Outstanding, ChunkPositions, ReadChunk, ReadEnds, TakeLock, TestFull,
           Park, SpuriousWake
  <1>3. InHand'
    BY DEF InHand, ReadChunk, ReadEnds, TakeLock, TestFull, Park, SpuriousWake
  <1>4. BudgetExact'
    BY DEF BudgetExact, ReadChunk, ReadEnds, TakeLock, TestFull, Park, SpuriousWake
  <1> QED
    BY <1>1, <1>2, <1>3, <1>4

\* reserve() counts the bytes the reader is about to send, within the budget.
LEMMA ReserveKeeps ==
    ASSUME ChannelInv, Reserve
    PROVE  ChannelInv'
  <1> USE DEF ChannelInv
  <1>0. size \in Sizes /\ size \in Nat
    BY SizesAreNatural DEF InHand, Reserve
  <1>1. TypeOK'
    <2>1. closed \/ used + size \in 0..ByteCap
      BY <1>0, ChannelAssumption DEF TypeOK, Reserve, HasRoom
    <2> QED
      BY <1>0, <2>1 DEF TypeOK, ReaderSteps, Reserve
  <1>2. Numbered'
    BY DEF Numbered, Outstanding, ChunkPositions, Reserve
  <1>3. InHand'
    BY <1>0 DEF InHand, Reserve, TypeOK
  <1>4. BudgetExact'
    <2>1. QueuedBytes(queue) \in Nat /\ releasing \in Nat
      BY QueuedBytesAreNatural, SizesAreNatural DEF TypeOK, Event
    <2> QED
      BY <1>0, <2>1 DEF BudgetExact, Reserve, TypeOK
  <1> QED
    BY <1>1, <1>2, <1>3, <1>4

\* A chunk that is sent is the last of the queue and carries the next number; without a
\* receiver its bytes are given back.
LEMMA SendKeeps ==
    ASSUME ChannelInv, Send
    PROVE  ChannelInv'
  <1> USE DEF ChannelInv
  <1> DEFINE chunk == [kind |-> "Output", sequence |-> sequence, bytes |-> size]
  <1>0. reader = "send" /\ size \in Sizes /\ size \in Nat /\ sequence < MaxChunks
    BY SizesAreNatural DEF InHand, Send
  <1>1. CASE owner = "dropped"
    <2>1. used \in Nat /\ size <= used /\ used - size \in 0..ByteCap
      BY <1>0, <1>1, ChannelAssumption DEF TypeOK, InHand
    <2>2. TypeOK'
      BY <1>1, <2>1 DEF TypeOK, ReaderSteps, Send
    <2> QED
      BY <1>1, <2>1, <2>2 DEF Numbered, InHand, BudgetExact, Send
  <1>2. CASE owner # "dropped"
    <2>1. /\ queue' = Append(queue, chunk)
          /\ sequence' = sequence + 1
          /\ reader' = "read"
          /\ size' = 0
          /\ UNCHANGED <<used, lock, blocked, closed, owner, releasing, child, delivered>>
      BY <1>2 DEF Send
    <2>2. chunk \in Event /\ IsChunk(chunk) /\ BytesIn(chunk) = size
      BY <1>0 DEF Event, Chunk, IsChunk, BytesIn, TypeOK
    <2>3. queue \in Seq(Event) /\ queue' \in Seq(Event)
      BY <2>1, <2>2 DEF TypeOK, Event
    <2>4. TypeOK'
      BY <1>0, <2>1, <2>3, ChannelAssumption DEF TypeOK, ReaderSteps, Event
    <2>5. /\ Len(queue) = Outstanding
          /\ Outstanding \in Nat /\ Outstanding' = Outstanding + 1
          /\ ChunkPositions = 1..Outstanding
          /\ \A i \in 1..Outstanding : queue[i].sequence = delivered + i - 1
      BY <1>0, <1>2, <2>1 DEF Numbered, Outstanding, TypeOK
    <2>6. /\ Len(queue') = Outstanding + 1
          /\ \A i \in 1..Outstanding : queue'[i] = queue[i]
          /\ queue'[Outstanding + 1] = chunk
      BY <2>1, <2>3, <2>5
    <2>7. Numbered'
      <3>1. \A i \in 1..(Outstanding + 1) : IsChunk(queue'[i])
        BY <2>2, <2>5, <2>6 DEF ChunkPositions
      <3>2. \A i \in 1..(Outstanding + 1) : queue'[i].sequence = delivered + i - 1
        <4>1. chunk.sequence = delivered + (Outstanding + 1) - 1
          BY DEF Outstanding, TypeOK
        <4> QED
          BY <2>5, <2>6, <4>1
      <3>3. ChunkPositions' = 1..Outstanding'
        BY <2>5, <2>6, <3>1 DEF ChunkPositions
      <3>4. delivered' <= sequence'
        BY <1>2, <2>1 DEF Numbered, TypeOK
      <3> QED
        BY <2>1, <2>5, <2>6, <3>2, <3>3, <3>4 DEF Numbered
    <2>8. InHand'
      BY <1>2, <2>1 DEF InHand
    <2>9. BudgetExact'
      <3>1. QueuedBytes(queue') = QueuedBytes(queue) + size
        BY <2>1, <2>2, <2>3, AppendAddsBytes
      <3>2. QueuedBytes(queue) \in Nat /\ releasing \in Nat
        BY <2>3, QueuedBytesAreNatural, SizesAreNatural DEF TypeOK
      <3> QED
        BY <1>0, <1>2, <2>1, <3>1, <3>2 DEF BudgetExact
    <2> QED
      BY <2>4, <2>7, <2>8, <2>9
  <1> QED
    BY <1>1, <1>2
\* The end marker follows every chunk, once: the thread ends with it.
LEMMA SendEndKeeps ==
    ASSUME ChannelInv, SendEnd
    PROVE  ChannelInv'
  <1> USE DEF ChannelInv
  <1>1. CASE owner = "dropped"
    BY <1>1 DEF SendEnd, TypeOK, ReaderSteps, Numbered, InHand, BudgetExact
  <1>2. CASE owner # "dropped"
    <2>1. PICK marker \in Markers : queue' = Append(queue, marker)
      BY <1>2 DEF SendEnd
    <2>2. marker \in Event /\ ~IsChunk(marker) /\ BytesIn(marker) = 0
      BY DEF Event, Markers, IsChunk, BytesIn
    <2>3. queue \in Seq(Event) /\ queue' \in Seq(Event)
      BY <2>1, <2>2 DEF TypeOK, Event
    <2>4. TypeOK'
      BY <2>3 DEF SendEnd, TypeOK, ReaderSteps, Event
    <2>5. Len(queue) = Outstanding /\ Outstanding \in Nat /\ Outstanding' = Outstanding
      BY <1>2 DEF SendEnd, Numbered, Outstanding, TypeOK
    <2>6. /\ Len(queue') = Outstanding + 1
          /\ \A i \in 1..Outstanding : queue'[i] = queue[i]
          /\ queue'[Outstanding + 1] = marker
      BY <2>1, <2>3, <2>5
    <2>7. Numbered'
      <3>1. ChunkPositions = 1..Outstanding
        BY <1>2 DEF Numbered
      <3>2. \A i \in 1..(Outstanding + 1) : IsChunk(queue'[i]) <=> i \in 1..Outstanding
        BY <2>2, <2>5, <2>6, <3>1 DEF ChunkPositions
      <3>3. ChunkPositions' = 1..Outstanding
        BY <2>5, <2>6, <3>2 DEF ChunkPositions
      <3> QED
        BY <1>2, <2>5, <2>6, <3>3 DEF Numbered, SendEnd
    <2>8. InHand'
      BY <1>2 DEF SendEnd, InHand
    <2>9. BudgetExact'
      <3>1. QueuedBytes(queue') = QueuedBytes(queue) + 0
        BY <2>1, <2>2, <2>3, AppendAddsBytes
      <3>2. QueuedBytes(queue) \in Nat
        BY <2>3, QueuedBytesAreNatural
      <3> QED
        BY <1>2, <3>1, <3>2 DEF SendEnd, BudgetExact
    <2> QED
      BY <2>4, <2>7, <2>8, <2>9
  <1> QED
    BY <1>1, <1>2

\* The owner takes the oldest event; the numbers of the rest now count from the next one.
LEMMA TryReadKeeps ==
    ASSUME ChannelInv, TryRead
    PROVE  ChannelInv'
  <1> USE DEF ChannelInv
  <1> DEFINE event == Head(queue)
  <1>1. /\ queue \in Seq(Event) /\ queue # <<>>
        /\ Head(queue) = queue[1] /\ queue[1] \in Event
        /\ queue' \in Seq(Event)
        /\ Len(queue') = Len(queue) - 1 /\ Len(queue) \in Nat \ {0}
        /\ \A i \in 1..Len(queue') : queue'[i] = queue[i + 1]
    BY DEF TryRead, TypeOK, Event
  <1>2. /\ owner = "held" /\ releasing = 0
        /\ UNCHANGED <<reader, size, sequence, used, lock, blocked, closed, child>>
    BY DEF TryRead, InHand
  <1>3. /\ Outstanding \in Nat /\ Len(queue) \in {Outstanding, Outstanding + 1}
        /\ ChunkPositions = 1..Outstanding
        /\ \A i \in 1..Outstanding : queue[i].sequence = delivered + i - 1
        /\ delivered <= sequence /\ sequence \in Nat /\ delivered \in Nat
        /\ sequence <= MaxChunks /\ MaxChunks \in Nat
    BY <1>2, ChannelAssumption DEF Numbered, Outstanding, TypeOK
  <1>4. /\ QueuedBytes(queue) = BytesIn(queue[1]) + QueuedBytes(queue')
        /\ QueuedBytes(queue') \in Nat
    BY <1>1, TailTakesBytes, QueuedBytesAreNatural DEF TryRead
  <1>5. CASE IsChunk(queue[1])
    <2>1. owner' = "release" /\ releasing' = queue[1].bytes /\ delivered' = delivered + 1
      BY <1>1, <1>5 DEF TryRead
    <2>2. queue[1].bytes \in Sizes /\ BytesIn(queue[1]) = queue[1].bytes
      BY <1>1, <1>5 DEF Event, Chunk, Markers, IsChunk, BytesIn
    <2>3. Outstanding >= 1 /\ Outstanding' = Outstanding - 1
      <3>1. 1 \in ChunkPositions
        BY <1>1, <1>5 DEF ChunkPositions
      <3> QED
        BY <1>2, <1>3, <2>1, <3>1 DEF Outstanding
    <2>4. TypeOK'
      BY <1>1, <1>2, <1>3, <2>1, <2>2, <2>3 DEF TypeOK, OwnerSteps, Event, Outstanding
    <2>5. Numbered'
      <3>1. \A i \in 1..Len(queue') : IsChunk(queue'[i]) <=> i + 1 \in 1..Outstanding
        <4>1. \A i \in 1..Len(queue') : i + 1 \in 1..Len(queue)
          BY <1>1
        <4> QED
          BY <1>1, <1>3, <4>1 DEF ChunkPositions
      <3>2. ChunkPositions' = 1..Outstanding'
        BY <1>1, <1>3, <2>3, <3>1 DEF ChunkPositions
      <3>3. \A i \in 1..Outstanding' : queue'[i].sequence = delivered' + i - 1
        <4> SUFFICES ASSUME NEW i \in 1..Outstanding'
                     PROVE  queue'[i].sequence = delivered' + i - 1
          OBVIOUS
        <4>1. i \in 1..Len(queue') /\ i + 1 \in 1..Outstanding
          BY <1>1, <1>3, <2>3
        <4>2. queue'[i].sequence = delivered + (i + 1) - 1
          BY <1>1, <1>3, <4>1
        <4> QED
          BY <1>3, <2>1, <4>1, <4>2
      <3>4. Len(queue') \in {Outstanding', Outstanding' + 1} /\ delivered' <= sequence'
        BY <1>1, <1>2, <1>3, <2>1, <2>3 DEF Outstanding
      <3>5. reader' # "done" => Len(queue') = Outstanding'
        BY <1>1, <1>2, <1>3, <2>3 DEF Numbered
      <3> QED
        BY <3>2, <3>3, <3>4, <3>5 DEF Numbered
    <2>6. InHand'
      BY <1>2, <2>1 DEF InHand
    <2>7. BudgetExact'
      <3>1. queue[1].bytes \in Nat
        BY <2>2, SizesAreNatural
      <3> QED
        BY <1>2, <1>4, <2>1, <2>2, <3>1 DEF BudgetExact
    <2> QED
      BY <2>4, <2>5, <2>6, <2>7
  <1>6. CASE ~IsChunk(queue[1])
    <2>1. owner' \in {"held", "closing"} /\ releasing' = 0 /\ UNCHANGED delivered
      BY <1>1, <1>2, <1>6 DEF TryRead
    <2>2. Outstanding = 0 /\ Outstanding' = 0 /\ Len(queue') = 0 /\ reader = "done"
      <3>1. 1 \notin ChunkPositions
        BY <1>6 DEF ChunkPositions
      <3> QED
        BY <1>1, <1>2, <1>3, <2>1, <3>1 DEF Outstanding, Numbered
    <2>3. TypeOK'
      BY <1>1, <1>2, <1>3, <2>1 DEF TypeOK, OwnerSteps, Event
    <2>4. Numbered'
      BY <1>2, <1>3, <2>1, <2>2 DEF Numbered, ChunkPositions
    <2>5. InHand'
      BY <1>2, <2>1 DEF InHand
    <2>6. BudgetExact'
      BY <1>2, <1>4, <1>6, <2>1 DEF BudgetExact, BytesIn
    <2> QED
      BY <2>3, <2>4, <2>5, <2>6
  <1> QED
    BY <1>5, <1>6

\* release() gives back exactly what the owner took, and at most wakes the reader.
LEMMA ReleaseKeeps ==
    ASSUME ChannelInv, Release
    PROVE  ChannelInv'
  <1> USE DEF ChannelInv
  <1>1. /\ releasing \in Nat /\ used \in Nat
        /\ QueuedBytes(queue) \in Nat /\ size \in Nat
    BY QueuedBytesAreNatural, SizesAreNatural DEF TypeOK, Event
  <1>2. used' = used - releasing /\ used' \in 0..ByteCap
    BY <1>1, ChannelAssumption DEF Release, BudgetExact, TypeOK
  <1>3. reader' = reader \/ (reader = "wait" /\ reader' = "lock")
    BY DEF Release, Notify
  <1>4. TypeOK'
    BY <1>2, <1>3 DEF TypeOK, ReaderSteps, OwnerSteps, Release
  <1>5. Numbered'
    BY <1>3 DEF Numbered, Outstanding, ChunkPositions, Release
  <1>6. InHand'
    BY <1>3 DEF InHand, Release
  <1>7. BudgetExact'
    BY <1>1, <1>2, <1>3 DEF BudgetExact, Release
  <1> QED
    BY <1>4, <1>5, <1>6, <1>7

\* Drop leaves the queue alone until the receiver goes, and then everything in it goes.
LEMMA DropKeeps ==
    ASSUME ChannelInv,
           \/ BeginDrop \/ CloseFlag \/ CloseNotify \/ Kill \/ DropReceiver \/ ChildExits
    PROVE  ChannelInv'
  <1> USE DEF ChannelInv
  <1>1. CASE BeginDrop \/ CloseFlag \/ CloseNotify \/ Kill \/ ChildExits
    <2>1. /\ reader' = reader \/ (reader = "wait" /\ reader' = "lock")
          /\ owner' = owner \/ owner' \in {"closing", "notifying", "killing", "dropping"}
          /\ owner' = "release" => owner = "release"
          /\ owner' = "dropped" <=> owner = "dropped"
          /\ owner = "release" => owner' = "release"
          /\ closed' \in BOOLEAN /\ child' \in {"alive", "dead"}
          /\ UNCHANGED <<size, sequence, queue, used, lock, blocked, releasing, delivered>>
      BY <1>1 DEF TypeOK, BeginDrop, CloseFlag, CloseNotify, Kill, ChildExits, Notify
    <2>2. TypeOK'
      BY <2>1 DEF TypeOK, ReaderSteps, OwnerSteps
    <2>3. Numbered'
      BY <2>1 DEF Numbered, Outstanding, ChunkPositions
    <2>4. InHand'
      BY <2>1 DEF InHand
    <2>5. BudgetExact'
      BY <2>1 DEF BudgetExact
    <2> QED
      BY <2>2, <2>3, <2>4, <2>5
  <1>2. CASE DropReceiver
    <2>1. reader = "send" => size <= used
      <3>1. QueuedBytes(queue) \in Nat /\ releasing \in Nat /\ size \in Nat
        BY QueuedBytesAreNatural, SizesAreNatural DEF TypeOK, Event
      <3> QED
        BY <1>2, <3>1 DEF DropReceiver, BudgetExact
    <2>2. TypeOK'
      BY <1>2 DEF DropReceiver, TypeOK, OwnerSteps
    <2> QED
      BY <1>2, <2>1, <2>2 DEF DropReceiver, Numbered, InHand, BudgetExact
  <1> QED
    BY <1>1, <1>2

\* Every step keeps the invariant.
LEMMA NextKeeps == ChannelInv /\ [Next]_vars => ChannelInv'
  <1> SUFFICES ASSUME ChannelInv, [Next]_vars
               PROVE  ChannelInv'
    OBVIOUS
  <1>1. CASE Next
    BY <1>1, ReadingKeeps, ReserveKeeps, SendKeeps, SendEndKeeps, TryReadKeeps,
       ReleaseKeeps, DropKeeps DEF Next, Reader, Owner
  <1>2. CASE UNCHANGED vars
    BY <1>2 DEF vars, ChannelInv, TypeOK, Numbered, Outstanding, ChunkPositions, InHand,
                BudgetExact
  <1> QED
    BY <1>1, <1>2

-----------------------------------------------------------------------------
(* The theorems.                                                            *)

\* The channel's invariant holds in every state it can reach: spawn_reader, QueueBudget
\* and PortableProcess, in every interleaving of their atomic steps.
THEOREM ChannelHolds == Spec => []ChannelInv
  BY InitEstablishes, NextKeeps, PTL DEF Spec

\* The counters of the channel and the program counters of its two sides keep their types;
\* above all the budget's counter never leaves 0..ByteCap, so release() never takes it
\* below zero and reserve() never lets it past OUTPUT_QUEUE_BYTES.
THEOREM TypeCorrect == Spec => []TypeOK
  <1>1. ChannelInv => TypeOK
    BY DEF ChannelInv
  <1> QED
    BY <1>1, ChannelHolds, PTL

\* No output is lost, repeated or reordered between the reader thread and try_read, and
\* an end marker comes last.
THEOREM OutputIsInOrder == Spec => []InOrder
  <1>1. ChannelInv => InOrder
    <2> SUFFICES ASSUME ChannelInv, owner # "dropped"
                 PROVE  /\ sequence = delivered + Cardinality(ChunkPositions)
                        /\ \A i \in ChunkPositions : queue[i].sequence = delivered + i - 1
                        /\ \A i \in 1..Len(queue) : IsChunk(queue[i]) \/ i = Len(queue)
      BY DEF InOrder
    <2>1. /\ Outstanding \in Nat /\ ChunkPositions = 1..Outstanding
          /\ Len(queue) \in {Outstanding, Outstanding + 1}
          /\ \A i \in 1..Outstanding : queue[i].sequence = delivered + i - 1
      BY DEF ChannelInv, TypeOK, Numbered, Outstanding
    <2>2. Cardinality(1..Outstanding) = Outstanding
      BY <2>1, FS_Interval
    <2>3. sequence = delivered + Outstanding
      BY DEF ChannelInv, TypeOK, Outstanding
    <2>4. \A i \in 1..Len(queue) : i \in ChunkPositions \/ i = Len(queue)
      BY <2>1
    <2> QED
      BY <2>1, <2>2, <2>3, <2>4 DEF ChunkPositions
  <1> QED
    BY <1>1, ChannelHolds, PTL

\* QueueBudget counts every byte that is queued, reserved or being released exactly once,
\* for any capacities and any sizes of reads.
THEOREM BudgetIsExact == Spec => []BudgetExact
  <1>1. ChannelInv => BudgetExact
    BY DEF ChannelInv
  <1> QED
    BY <1>1, ChannelHolds, PTL
=============================================================================
