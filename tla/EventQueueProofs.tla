--------------------------- MODULE EventQueueProofs ---------------------------
EXTENDS EventQueue, ListLemmas

-----------------------------------------------------------------------------
\* What an operation does to the list, in the terms the invariants need.

\* e is inserted so that it is the k-th element.
Inserted(e, k) ==
    /\ k \in 1 .. Len(queue) + 1
    /\ queue' \in Seq(Event)
    /\ IsInsertion(queue', queue, k, e)

\* The k-th element, e, is removed.
Removed(e, k) ==
    /\ k \in 1 .. Len(queue)
    /\ queue[k] = e
    /\ queue' \in Seq(Event)
    /\ IsRemoval(queue', queue, k)

\* The index of a queued event.
LEMMA IndexOfQueued ==
    ASSUME NEW e, InQueue(e)
    PROVE  Index(e) \in DOMAIN queue /\ queue[Index(e)] = e
  BY DEF InQueue, Index

\* TCL_QUEUE_TAIL: the last pointer is the end of the list, so nothing is cut off.
LEMMA QueueTailEffect ==
    ASSUME TypeOK, PointersValid, NEW e \in Event, QueueTail(e)
    PROVE  Inserted(e, Len(queue) + 1) /\ last' = e /\ marker' = marker
<1>1. CASE queue = <<>>
  <2>1. Len(queue) = 0 /\ queue' = <<e>>
    BY <1>1, EmptySeq DEF QueueTail
  <2>2. queue' \in Seq(Event) /\ Len(queue') = 1 /\ queue'[1] = e
    BY <2>1
  <2>3. last' = e /\ marker' = marker
    BY DEF QueueTail
  <2>4. Inserted(e, Len(queue) + 1)
    BY <2>1, <2>2 DEF Inserted, IsInsertion
  <2> QED BY <2>3, <2>4
<1>2. CASE queue # <<>>
  <2>1. Len(queue) \in DOMAIN queue /\ queue[Len(queue)] = last
    BY <1>2, EmptySeq, LenProperties DEF TypeOK, PointersValid
  <2>2. InQueue(last)
    BY <2>1 DEF InQueue
  <2>3. Index(last) = Len(queue)
    BY <2>1, <2>2, IndexOfQueued DEF PointersValid
  <2>4. queue' = queue \o <<e>>
    BY <1>2, <2>2, <2>3, SubSeqFull DEF QueueTail, TypeOK
  <2> QED
    <3>1. queue \in Seq(Event) /\ <<e>> \in Seq(Event) /\ Len(<<e>>) = 1
      BY DEF TypeOK
    <3>2. /\ queue' \in Seq(Event)
          /\ Len(queue') = Len(queue) + 1
          /\ \A j \in 1 .. Len(queue) + 1 :
               queue'[j] = IF j <= Len(queue) THEN queue[j] ELSE <<e>>[j - Len(queue)]
      BY <2>4, <3>1, ConcatProperties
    <3>3. Len(queue) \in Nat
      BY LenProperties DEF TypeOK
    <3>4. ASSUME NEW j \in 1 .. Len(queue) + 1
          PROVE  queue'[j] = IF j < Len(queue) + 1 THEN queue[j]
                             ELSE IF j = Len(queue) + 1 THEN e ELSE queue[j - 1]
      BY <3>2, <3>3
    <3>5. IsInsertion(queue', queue, Len(queue) + 1, e)
      BY <3>2, <3>4 DEF IsInsertion
    <3> QED
      BY <3>2, <3>3, <3>5 DEF QueueTail, Inserted
<1> QED
  BY <1>1, <1>2

\* TCL_QUEUE_HEAD.
LEMMA QueueHeadEffect ==
    ASSUME TypeOK, NEW e \in Event, QueueHead(e)
    PROVE  /\ Inserted(e, 1)
           /\ last' = IF queue = <<>> THEN e ELSE last
           /\ marker' = marker
<1>1. queue \in Seq(Event) /\ <<e>> \in Seq(Event) /\ Len(<<e>>) = 1
  BY DEF TypeOK
<1>2. /\ queue' \in Seq(Event)
      /\ Len(queue') = Len(queue) + 1
      /\ \A j \in 1 .. Len(queue) + 1 :
           queue'[j] = IF j <= 1 THEN <<e>>[j] ELSE queue[j - 1]
  BY <1>1, ConcatProperties DEF QueueHead
<1>3. Len(queue) \in Nat
  BY <1>1, LenProperties
<1>4. IsInsertion(queue', queue, 1, e)
  BY <1>2, <1>3 DEF IsInsertion
<1> QED
  BY <1>2, <1>3, <1>4 DEF QueueHead, Inserted

\* TCL_QUEUE_MARK: the event follows the marker.
LEMMA QueueMarkEffect ==
    ASSUME TypeOK, PointersValid, NEW e \in Event, QueueMark(e)
    PROVE  \E k \in 1 .. Len(queue) + 1 :
             /\ Inserted(e, k)
             /\ IF marker = NULL THEN k = 1
                ELSE k > 1 /\ queue[k - 1] = marker
             /\ marker' = e
             /\ last' = IF k = Len(queue) + 1 THEN e ELSE last
<1> DEFINE k == IF marker = NULL THEN 1 ELSE Index(marker) + 1
<1>1. Len(queue) \in Nat /\ DOMAIN queue = 1 .. Len(queue)
  BY LenProperties DEF TypeOK
<1>2. /\ k \in 1 .. Len(queue) + 1
      /\ IF marker = NULL THEN k = 1 ELSE k > 1 /\ queue[k - 1] = marker
  BY <1>1, IndexOfQueued DEF PointersValid
<1>3. queue' = InsertAt(queue, k, e) /\ marker' = e
      /\ last' = IF k = Len(queue) + 1 THEN e ELSE last
  BY DEF QueueMark, PointersValid
<1>4. Inserted(e, k)
  <2> HIDE DEF k
  <2>1. queue \in Seq(Event)
    BY DEF TypeOK
  <2>2. InsertAt(queue, k, e) \in Seq(Event)
        /\ IsInsertion(InsertAt(queue, k, e), queue, k, e)
    BY <1>2, <2>1, InsertAtElements
  <2> QED BY <1>2, <1>3, <2>2 DEF Inserted
<1> QED
  BY <1>2, <1>3, <1>4

\* Removal: last and marker fall back to the element before.
LEMMA UnlinkEffect ==
    ASSUME TypeOK, PointersValid, NEW e \in Event, InQueue(e), Unlink(e)
    PROVE  \E k \in 1 .. Len(queue) :
             /\ Removed(e, k)
             /\ last' = IF k = Len(queue) THEN Previous(k) ELSE last
             /\ marker' = IF marker = e THEN Previous(k) ELSE marker
<1> DEFINE k == Index(e)
<1>1. k \in 1 .. Len(queue) /\ queue[k] = e
  BY IndexOfQueued, LenProperties DEF TypeOK
<1>2. /\ queue' = RemoveAt(queue, k)
      /\ last' = IF k = Len(queue) THEN Previous(k) ELSE last
      /\ marker' = IF marker = e THEN Previous(k) ELSE marker
  BY DEF Unlink
<1>3. Removed(e, k)
  <2> HIDE DEF k
  <2>1. queue \in Seq(Event)
    BY DEF TypeOK
  <2>2. RemoveAt(queue, k) \in Seq(Event)
        /\ IsRemoval(RemoveAt(queue, k), queue, k)
    BY <1>1, <2>1, RemoveAtElements
  <2> QED BY <1>1, <1>2, <2>2 DEF Removed
<1> QED
  BY <1>1, <1>2, <1>3

-----------------------------------------------------------------------------
LEMMA InsertedOrigin ==
    ASSUME queue \in Seq(Event), NEW e \in Event, NEW k \in 1 .. Len(queue) + 1,
           Inserted(e, k)
    PROVE  /\ Len(queue) \in Nat
           /\ DOMAIN queue = 1 .. Len(queue)
           /\ DOMAIN queue' = 1 .. Len(queue) + 1
           /\ Len(queue') = Len(queue) + 1
           /\ queue'[k] = e
           /\ \A i \in DOMAIN queue' \ {k} :
                /\ BeforeInsertion(i, k) \in DOMAIN queue
                /\ queue'[i] = queue[BeforeInsertion(i, k)]
           /\ \A i, j \in DOMAIN queue' \ {k} :
                i < j <=> BeforeInsertion(i, k) < BeforeInsertion(j, k)
<1>1. /\ Len(queue) \in Nat
      /\ DOMAIN queue = 1 .. Len(queue)
      /\ DOMAIN queue' = 1 .. Len(queue) + 1
      /\ Len(queue') = Len(queue) + 1
  BY LenProperties DEF Inserted, IsInsertion
<1> QED
  BY <1>1 DEF Inserted, IsInsertion, BeforeInsertion

LEMMA RemovedOrigin ==
    ASSUME queue \in Seq(Event), NEW e \in Event, NEW k \in 1 .. Len(queue),
           Removed(e, k)
    PROVE  /\ Len(queue) \in Nat
           /\ DOMAIN queue = 1 .. Len(queue)
           /\ DOMAIN queue' = 1 .. Len(queue) - 1
           /\ Len(queue') = Len(queue) - 1
           /\ queue[k] = e
           /\ \A i \in DOMAIN queue' :
                /\ BeforeRemoval(i, k) \in DOMAIN queue \ {k}
                /\ queue'[i] = queue[BeforeRemoval(i, k)]
           /\ \A i, j \in DOMAIN queue' :
                i < j <=> BeforeRemoval(i, k) < BeforeRemoval(j, k)
<1>1. /\ Len(queue) \in Nat
      /\ DOMAIN queue = 1 .. Len(queue)
      /\ DOMAIN queue' = 1 .. Len(queue) - 1
      /\ Len(queue') = Len(queue) - 1
  BY LenProperties DEF Removed, IsRemoval
<1> QED
  BY <1>1 DEF Removed, IsRemoval, BeforeRemoval

-----------------------------------------------------------------------------
\* Who is in the list afterwards.

LEMMA InsertedMembers ==
    ASSUME queue \in Seq(Event), NEW e \in Event, NEW k \in 1 .. Len(queue) + 1,
           Inserted(e, k), NEW f
    PROVE  InQueue(f)' <=> InQueue(f) \/ f = e
<1>1. /\ Len(queue) \in Nat
      /\ DOMAIN queue = 1 .. Len(queue)
      /\ DOMAIN queue' = 1 .. Len(queue) + 1
  BY LenProperties DEF Inserted, IsInsertion
<1>2. ASSUME NEW i \in DOMAIN queue, queue[i] = f
      PROVE  InQueue(f)'
  <2>1. CASE i < k
    BY <1>1, <1>2, <2>1 DEF InQueue, Inserted, IsInsertion
  <2>2. CASE i >= k
    <3>1. i + 1 \in DOMAIN queue' /\ queue'[i + 1] = queue[i]
      BY <1>1, <2>2 DEF Inserted, IsInsertion
    <3> QED
      BY <3>1, <1>2 DEF InQueue
  <2> QED
    BY <1>1, <2>1, <2>2
<1>3. ASSUME f = e
      PROVE  InQueue(f)'
  <2>1. k \in DOMAIN queue' /\ queue'[k] = e
    BY <1>1 DEF Inserted, IsInsertion
  <2> QED
    BY <2>1, <1>3 DEF InQueue
<1>4. ASSUME NEW i \in DOMAIN queue', queue'[i] = f
      PROVE  InQueue(f) \/ f = e
  <2>1. \/ i \in DOMAIN queue /\ queue'[i] = queue[i]
        \/ queue'[i] = e
        \/ i - 1 \in DOMAIN queue /\ queue'[i] = queue[i - 1]
    BY <1>1 DEF Inserted, IsInsertion
  <2> QED
    BY <2>1, <1>4 DEF InQueue
<1> QED
  BY <1>2, <1>3, <1>4 DEF InQueue

LEMMA RemovedMembers ==
    ASSUME queue \in Seq(Event), PointersValid, NEW e \in Event,
           NEW k \in 1 .. Len(queue), Removed(e, k), NEW f
    PROVE  InQueue(f)' <=> InQueue(f) /\ f # e
<1>1. /\ Len(queue) \in Nat
      /\ DOMAIN queue = 1 .. Len(queue)
      /\ DOMAIN queue' = 1 .. Len(queue) - 1
  BY LenProperties DEF Removed, IsRemoval
<1>2. ASSUME NEW i \in DOMAIN queue, queue[i] = f, f # e
      PROVE  InQueue(f)'
  <2>1. CASE i < k
    BY <1>1, <1>2, <2>1 DEF InQueue, Removed, IsRemoval
  <2>2. CASE i > k
    <3>1. i - 1 \in DOMAIN queue' /\ queue'[i - 1] = queue[i]
      BY <1>1, <2>2 DEF Removed, IsRemoval
    <3> QED
      BY <3>1, <1>2 DEF InQueue
  <2>3. i # k
    BY <1>2 DEF Removed
  <2> QED
    BY <1>1, <2>1, <2>2, <2>3
<1>3. ASSUME NEW i \in DOMAIN queue', queue'[i] = f
      PROVE  InQueue(f) /\ f # e
  <2> DEFINE j == IF i < k THEN i ELSE i + 1
  <2>1. j \in DOMAIN queue /\ j # k /\ queue'[i] = queue[j]
    BY <1>1 DEF Removed, IsRemoval
  <2>2. queue[j] # queue[k] /\ queue[k] = e
    BY <1>1, <2>1 DEF PointersValid, Removed
  <2> QED
    BY <2>1, <2>2, <1>3 DEF InQueue
<1> QED
  BY <1>2, <1>3 DEF InQueue

-----------------------------------------------------------------------------
\* QueueEvent keeps the list right.

LEMMA QueueEventEffect ==
    ASSUME Inductive, NEW e \in Event, NEW p \in Position, QueueEvent(e, p)
    PROVE  \E k \in 1 .. Len(queue) + 1 :
             /\ Inserted(e, k)
             /\ last' = IF k = Len(queue) + 1 THEN e ELSE last
             /\ \/ p = "TCL_QUEUE_TAIL" /\ k = Len(queue) + 1 /\ marker' = marker
                \/ p = "TCL_QUEUE_HEAD" /\ k = 1 /\ marker' = marker
                \/ /\ p = "TCL_QUEUE_MARK" /\ marker' = e
                   /\ IF marker = NULL THEN k = 1
                      ELSE k > 1 /\ queue[k - 1] = marker
<1> USE DEF Inductive
<1>1. queue \in Seq(Event) /\ Len(queue) \in Nat
  BY LenProperties DEF TypeOK
<1>2. CASE p = "TCL_QUEUE_TAIL" /\ QueueTail(e)
  BY <1>1, <1>2, QueueTailEffect
<1>3. CASE p = "TCL_QUEUE_HEAD" /\ QueueHead(e)
  <2>1. queue = <<>> <=> Len(queue) = 0
    BY <1>1, EmptySeq
  <2> QED
    BY <1>1, <1>3, <2>1, QueueHeadEffect
<1>4. CASE p = "TCL_QUEUE_MARK" /\ QueueMark(e)
  BY <1>1, <1>4, QueueMarkEffect
<1> QED
  BY <1>2, <1>3, <1>4 DEF QueueEvent

LEMMA QueueEventPointers ==
    ASSUME Inductive, NEW e \in Event, NEW p \in Position, QueueEvent(e, p)
    PROVE  PointersValid'
<1> USE DEF Inductive
<1>1. /\ queue \in Seq(Event)
      /\ Len(queue) \in Nat
      /\ DOMAIN queue = 1 .. Len(queue)
      /\ e # NULL
  BY LenProperties, NULLAssumption DEF TypeOK
<1>2. ~ InQueue(e)
  BY DEF QueueEvent, NothingLost
<1>3. PICK k \in 1 .. Len(queue) + 1 :
        /\ Inserted(e, k)
        /\ last' = IF k = Len(queue) + 1 THEN e ELSE last
        /\ marker' = marker \/ marker' = e
  BY QueueEventEffect
<1>4. DOMAIN queue' = 1 .. Len(queue) + 1 /\ Len(queue') = Len(queue) + 1
  BY <1>1, <1>3, LenProperties DEF Inserted, IsInsertion
<1>5. \A i, j \in DOMAIN queue' : queue'[i] = queue'[j] => i = j
  <2>1. \A i \in DOMAIN queue : queue[i] # e
    BY <1>2 DEF InQueue
  <2>2. /\ queue'[k] = e
        /\ \A i \in DOMAIN queue' \ {k} :
             /\ BeforeInsertion(i, k) \in DOMAIN queue
             /\ queue'[i] = queue[BeforeInsertion(i, k)]
        /\ \A i, j \in DOMAIN queue' \ {k} :
             i < j <=> BeforeInsertion(i, k) < BeforeInsertion(j, k)
    BY <1>1, <1>3, InsertedOrigin
  <2>3. ASSUME NEW i \in DOMAIN queue', NEW j \in DOMAIN queue', i < j
        PROVE  queue'[i] # queue'[j]
    <3>1. CASE i = k
      BY <1>4, <2>1, <2>2, <2>3, <3>1
    <3>2. CASE j = k
      BY <1>4, <2>1, <2>2, <2>3, <3>2
    <3>3. CASE i # k /\ j # k
      BY <1>1, <2>2, <2>3, <3>3 DEF PointersValid
    <3> QED
      BY <3>1, <3>2, <3>3
  <2> QED
    BY <1>1, <1>4, <2>3
<1>6. queue' # <<>> /\ last' = queue'[Len(queue')]
  <2>1. queue' # <<>>
    BY <1>1, <1>4, EmptySeq
  <2>2. CASE k = Len(queue) + 1
    BY <1>1, <1>3, <1>4, <2>2 DEF Inserted, IsInsertion
  <2>3. CASE k # Len(queue) + 1
    <3>1. queue # <<>>
      BY <1>1, <1>3, <2>3, EmptySeq
    <3> QED
      BY <1>1, <1>3, <1>4, <2>3, <3>1 DEF Inserted, IsInsertion, PointersValid
  <2> QED
    BY <2>1, <2>2, <2>3
<1>7. marker' = NULL \/ InQueue(marker)'
  <2>1. \A f : InQueue(f)' <=> InQueue(f) \/ f = e
    BY <1>1, <1>3, InsertedMembers
  <2>2. InQueue(marker') => \E i \in DOMAIN queue' : queue'[i] = marker'
    BY <1>3, <2>1 DEF InQueue
  <2>3. \E i \in DOMAIN queue' : queue'[i] = e
    BY <2>1 DEF InQueue
  <2> QED
    BY <1>3, <2>2, <2>3 DEF InQueue, PointersValid
<1> QED
  BY <1>5, <1>6, <1>7 DEF PointersValid

LEMMA QueueEventMarker ==
    ASSUME Inductive, NEW e \in Event, NEW p \in Position, QueueEvent(e, p)
    PROVE  MarkerSplits'
<1> USE DEF Inductive
<1>1. PICK k \in 1 .. Len(queue) + 1 :
        /\ Inserted(e, k)
        /\ \/ p = "TCL_QUEUE_TAIL" /\ k = Len(queue) + 1 /\ marker' = marker
           \/ p = "TCL_QUEUE_HEAD" /\ k = 1 /\ marker' = marker
           \/ /\ p = "TCL_QUEUE_MARK" /\ marker' = e
              /\ IF marker = NULL THEN k = 1 ELSE k > 1 /\ queue[k - 1] = marker
  BY QueueEventEffect
<1> DEFINE o(i) == BeforeInsertion(i, k)
<1>2. /\ Len(queue) \in Nat
      /\ DOMAIN queue = 1 .. Len(queue)
      /\ DOMAIN queue' = 1 .. Len(queue) + 1
      /\ queue'[k] = e
      /\ \A i \in DOMAIN queue' \ {k} :
           o(i) \in DOMAIN queue /\ queue'[i] = queue[o(i)]
      /\ \A i, j \in DOMAIN queue' \ {k} : i < j <=> o(i) < o(j)
  BY <1>1, InsertedOrigin DEF TypeOK
<1>3. \A i \in DOMAIN queue : queue[i] \in Event /\ queue[i] # e
  BY <1>2, ElementOfSeq DEF TypeOK, QueueEvent, NothingLost, InQueue
<1>4. /\ position'[e] = p
      /\ \A i \in DOMAIN queue : position'[queue[i]] = position[queue[i]]
      /\ e # NULL
  BY <1>3, NULLAssumption DEF QueueEvent, TypeOK
<1>5. \A i \in DOMAIN queue' \ {k} :
        /\ queue'[i] # e
        /\ position'[queue'[i]] = position[queue[o(i)]]
  BY <1>2, <1>3, <1>4
<1> HIDE DEF o
<1>6. marker' = NULL =>
        \A i \in DOMAIN queue' : position'[queue'[i]] # "TCL_QUEUE_MARK"
  BY <1>1, <1>2, <1>4, <1>5 DEF MarkerSplits
<1>7. ASSUME NEW i \in DOMAIN queue', NEW j \in DOMAIN queue', queue'[j] = marker'
      PROVE  IF i <= j THEN position'[queue'[i]] # "TCL_QUEUE_TAIL"
                       ELSE position'[queue'[i]] # "TCL_QUEUE_MARK"
  <2>1. CASE p \in {"TCL_QUEUE_TAIL", "TCL_QUEUE_HEAD"}
    <3>1. marker' = marker /\ position'[e] # "TCL_QUEUE_MARK"
      BY <1>1, <1>4, <2>1
    <3>2. marker # e
      BY <1>3, <1>4 DEF PointersValid, InQueue
    <3>3. j # k /\ queue[o(j)] = marker
      BY <1>2, <1>5, <1>7, <3>1, <3>2
    <3>4. CASE i = k
      BY <1>1, <1>2, <1>4, <2>1, <3>1, <3>3, <3>4
    <3>5. CASE i # k
      <4>1. i <= j <=> o(i) <= o(j)
        BY <1>2, <3>3, <3>5
      <4> QED
        BY <1>2, <1>5, <3>3, <3>5, <4>1 DEF MarkerSplits, Ordinary
    <3> QED
      BY <3>4, <3>5
  <2>2. CASE p = "TCL_QUEUE_MARK"
    <3>1. /\ marker' = e
          /\ IF marker = NULL THEN k = 1 ELSE k > 1 /\ queue[k - 1] = marker
      BY <1>1, <2>2
    <3>2. j = k
      BY <1>5, <1>7, <3>1
    <3>3. CASE i = k
      BY <1>2, <1>4, <2>2, <3>2, <3>3
    <3>4. CASE i # k
      <4>1. i < k <=> o(i) <= k - 1
        BY <1>2, <3>4 DEF o, BeforeInsertion
      <4>2. CASE marker = NULL
        BY <1>2, <1>5, <3>1, <3>2, <3>4, <4>1, <4>2 DEF MarkerSplits
      <4>3. CASE marker # NULL
        BY <1>2, <1>5, <3>1, <3>2, <3>4, <4>1, <4>3 DEF MarkerSplits, Ordinary
      <4> QED
        BY <4>2, <4>3
    <3> QED
      BY <3>3, <3>4
  <2> QED
    BY <2>1, <2>2 DEF Position
<1> QED
  BY <1>6, <1>7 DEF MarkerSplits, Ordinary

LEMMA QueueEventOrder ==
    ASSUME Inductive, NEW e \in Event, NEW p \in Position, QueueEvent(e, p)
    PROVE  ServiceOrder'
<1> USE DEF Inductive
<1>1. PICK k \in 1 .. Len(queue) + 1 :
        /\ Inserted(e, k)
        /\ \/ p = "TCL_QUEUE_TAIL" /\ k = Len(queue) + 1 /\ marker' = marker
           \/ p = "TCL_QUEUE_HEAD" /\ k = 1 /\ marker' = marker
           \/ /\ p = "TCL_QUEUE_MARK" /\ marker' = e
              /\ IF marker = NULL THEN k = 1 ELSE k > 1 /\ queue[k - 1] = marker
  BY QueueEventEffect
<1> DEFINE o(i) == BeforeInsertion(i, k)
<1>2. /\ Len(queue) \in Nat
      /\ DOMAIN queue = 1 .. Len(queue)
      /\ DOMAIN queue' = 1 .. Len(queue) + 1
      /\ queue'[k] = e
      /\ \A i \in DOMAIN queue' \ {k} :
           o(i) \in DOMAIN queue /\ queue'[i] = queue[o(i)]
      /\ \A i, j \in DOMAIN queue' \ {k} : i < j <=> o(i) < o(j)
  BY <1>1, InsertedOrigin DEF TypeOK
<1>3. \A i \in DOMAIN queue : queue[i] \in Event /\ queue[i] # e
  BY <1>2, ElementOfSeq DEF TypeOK, QueueEvent, NothingLost, InQueue
<1>4. /\ position'[e] = p /\ born'[e] = clock + 1 /\ clock \in Nat
      /\ \A i \in DOMAIN queue :
           /\ position'[queue[i]] = position[queue[i]]
           /\ born'[queue[i]] = born[queue[i]]
           /\ born[queue[i]] \in 0 .. clock
  BY <1>3 DEF QueueEvent, TypeOK
<1>5. \A i \in DOMAIN queue' \ {k} :
        /\ position'[queue'[i]] = position[queue[o(i)]]
        /\ born'[queue'[i]] = born[queue[o(i)]]
        /\ born[queue[o(i)]] \in 0 .. clock
  BY <1>2, <1>4
<1>6. \A i \in 1 .. k - 1 : i \in DOMAIN queue' \ {k} /\ o(i) = i
  BY <1>2 DEF BeforeInsertion
<1>7. \A i \in k + 1 .. Len(queue) + 1 : i \in DOMAIN queue' \ {k} /\ o(i) = i - 1
  BY <1>2 DEF BeforeInsertion
<1> HIDE DEF o
<1>8. ASSUME NEW i \in DOMAIN queue' \ {k}, NEW j \in DOMAIN queue' \ {k},
             Precedes(queue[i], queue[j])'
      PROVE  i < j
  <2>1. Precedes(queue[o(i)], queue[o(j)])
    BY <1>5, <1>8 DEF Precedes, Ordinary
  <2> QED
    BY <1>2, <2>1 DEF ServiceOrder
<1>9. ASSUME NEW i \in DOMAIN queue' \ {k}, Precedes(e, queue[i])'
      PROVE  k < i
  <2>1. \/ position[queue[o(i)]] = "TCL_QUEUE_TAIL" /\ p # "TCL_QUEUE_TAIL"
        \/ position[queue[o(i)]] = p /\ p = "TCL_QUEUE_HEAD"
    BY <1>4, <1>5, <1>9 DEF Precedes, Ordinary
  <2>2. CASE k = 1
    BY <1>2, <2>2
  <2>3. CASE k # 1
    <3>1. /\ p = "TCL_QUEUE_MARK" /\ k > 1 /\ queue[k - 1] = marker
          /\ position[queue[o(i)]] = "TCL_QUEUE_TAIL"
      BY <1>1, <2>1, <2>3
    <3>2. o(i) > k - 1
      BY <1>2, <3>1 DEF MarkerSplits, Ordinary
    <3> QED
      BY <1>2, <1>6, <3>2
  <2> QED
    BY <2>2, <2>3
<1>10. ASSUME NEW i \in DOMAIN queue' \ {k}, Precedes(queue[i], e)'
       PROVE  i < k
  <2>1. \/ p = "TCL_QUEUE_TAIL"
        \/ p = "TCL_QUEUE_MARK" /\ position[queue[o(i)]] = "TCL_QUEUE_MARK"
    BY <1>4, <1>5, <1>10 DEF Precedes, Ordinary, Position
  <2>2. CASE p = "TCL_QUEUE_TAIL"
    BY <1>1, <1>2, <2>2
  <2>3. CASE p = "TCL_QUEUE_MARK" /\ position[queue[o(i)]] = "TCL_QUEUE_MARK"
    <3>1. k > 1 /\ queue[k - 1] = marker
      BY <1>1, <1>2, <2>3 DEF MarkerSplits
    <3>2. o(i) <= k - 1
      BY <1>2, <2>3, <3>1 DEF MarkerSplits
    <3> QED
      BY <1>2, <1>7, <3>2
  <2> QED
    BY <2>1, <2>2, <2>3
<1>11. ~ Precedes(e, e)'
  BY <1>4 DEF Precedes, Ordinary
<1> QED
  BY <1>2, <1>8, <1>9, <1>10, <1>11 DEF ServiceOrder

-----------------------------------------------------------------------------
\* Removing an event keeps the list right.

LEMMA UnlinkList ==
    ASSUME Inductive, NEW e \in Event, InQueue(e), Unlink(e),
           UNCHANGED <<position, born>>
    PROVE  /\ queue' \in Seq(Event)
           /\ last' \in Pointer /\ marker' \in Pointer
           /\ PointersValid' /\ MarkerSplits' /\ ServiceOrder'
           /\ \A f : InQueue(f)' <=> InQueue(f) /\ f # e
<1> USE DEF Inductive
<1>1. PICK k \in 1 .. Len(queue) :
        /\ Removed(e, k)
        /\ last' = IF k = Len(queue) THEN Previous(k) ELSE last
        /\ marker' = IF marker = e THEN Previous(k) ELSE marker
  BY UnlinkEffect
<1> DEFINE o(i) == BeforeRemoval(i, k)
<1>2. /\ Len(queue) \in Nat
      /\ DOMAIN queue = 1 .. Len(queue)
      /\ DOMAIN queue' = 1 .. Len(queue) - 1
      /\ Len(queue') = Len(queue) - 1
      /\ queue[k] = e
      /\ \A i \in DOMAIN queue' :
           o(i) \in DOMAIN queue \ {k} /\ queue'[i] = queue[o(i)]
      /\ \A i, j \in DOMAIN queue' : i < j <=> o(i) < o(j)
  BY <1>1, RemovedOrigin DEF TypeOK
<1>3. \A i \in DOMAIN queue : queue[i] \in Event /\ queue[i] # NULL
  BY <1>2, ElementOfSeq, NULLAssumption DEF TypeOK
<1>4. \A i \in DOMAIN queue' :
        /\ i < k => o(i) = i
        /\ ~ i < k => o(i) = i + 1
  BY DEF BeforeRemoval
<1>5. \A i \in 1 .. k - 1 : i \in DOMAIN queue'
  BY <1>2
<1> HIDE DEF o
<1>6. queue' \in Seq(Event)
  BY <1>1 DEF Removed
<1>7. \A f : InQueue(f)' <=> InQueue(f) /\ f # e
  BY <1>1, RemovedMembers DEF TypeOK
<1>8. k > 1 => /\ Previous(k) = queue[k - 1]
               /\ queue'[k - 1] = queue[k - 1]
               /\ k - 1 \in DOMAIN queue /\ k - 1 \in DOMAIN queue'
  BY <1>2, <1>4, <1>5 DEF Previous
<1>9. k = 1 => Previous(k) = NULL
  BY DEF Previous
<1>10. last' \in Pointer /\ marker' \in Pointer
  BY <1>1, <1>3, <1>8, <1>9 DEF TypeOK, Pointer
<1>11. PointersValid'
  <2>1. \A i, j \in DOMAIN queue' : queue'[i] = queue'[j] => i = j
    BY <1>2 DEF PointersValid
  <2>2. queue' = <<>> <=> Len(queue) = 1
    BY <1>2, <1>6, EmptySeq
  <2>3. last' = IF queue' = <<>> THEN NULL ELSE queue'[Len(queue')]
    <3>1. CASE k = Len(queue)
      BY <1>1, <1>2, <1>8, <1>9, <2>2, <3>1
    <3>2. CASE k # Len(queue)
      <4>1. k \in Int /\ 1 <= k /\ k < Len(queue)
        <5>1. Len(queue) \in Nat
          BY <1>2
        <5> QED
          BY <5>1, <3>2
      <4>2. last' = last /\ queue # <<>>
        BY <1>1, <3>2, <4>1, EmptySeq DEF TypeOK
      <4>3. last = queue[Len(queue)]
        BY <4>2 DEF PointersValid
      <4>4. Len(queue) - 1 \in DOMAIN queue' /\ ~ (Len(queue) - 1 < k)
        BY <1>2, <4>1
      <4>5. o(Len(queue) - 1) = Len(queue)
        BY <1>2, <1>4, <4>4
      <4>6. queue'[Len(queue) - 1] = queue[Len(queue)]
        BY <1>2, <4>4, <4>5
      <4>7. queue' # <<>>
        BY <1>2, <2>2, <4>1
      <4> QED
        BY <1>2, <4>2, <4>3, <4>6, <4>7
    <3> QED
      BY <3>1, <3>2
  <2>4. marker' = NULL \/ \E i \in DOMAIN queue' : queue'[i] = marker'
    <3>1. CASE marker = e
      BY <1>1, <1>8, <1>9, <3>1
    <3>2. CASE marker # e
      BY <1>1, <1>7, <3>2 DEF PointersValid, InQueue
    <3> QED
      BY <3>1, <3>2
  <2> QED
    BY <2>1, <2>3, <2>4 DEF PointersValid, InQueue
<1>12. MarkerSplits'
  <2>1. ASSUME marker' = NULL, NEW i \in DOMAIN queue'
        PROVE  position[queue'[i]] # "TCL_QUEUE_MARK"
    <3>1. CASE marker = NULL
      BY <1>2, <3>1 DEF MarkerSplits
    <3>2. CASE marker # NULL
      <4>1. marker = e /\ k = 1
        <5>1. marker = e /\ Previous(k) = NULL
          BY <1>1, <2>1, <3>2
        <5>2. k > 1 => Previous(k) # NULL
          BY <1>3, <1>8
        <5> QED
          BY <1>2, <5>1, <5>2
      <4>2. o(i) > k
        BY <1>2, <4>1
      <4> QED
        BY <1>2, <4>1, <4>2 DEF MarkerSplits
    <3> QED
      BY <3>1, <3>2
  <2>2. ASSUME NEW i \in DOMAIN queue', NEW j \in DOMAIN queue', queue'[j] = marker'
        PROVE  IF i <= j THEN ~ Ordinary(queue'[i])
                         ELSE position[queue'[i]] # "TCL_QUEUE_MARK"
    <3>1. CASE marker = e
      <4>1. marker' = Previous(k) /\ queue'[j] # NULL
        BY <1>1, <1>2, <1>3, <3>1
      <4>2. k > 1
        BY <1>9, <2>2, <4>1
      <4>3. queue'[j] = queue'[k - 1] /\ k - 1 \in DOMAIN queue'
        BY <1>8, <2>2, <4>1, <4>2
      <4>4. j = k - 1
        BY <1>11, <4>3 DEF PointersValid
      <4>5. o(i) \in DOMAIN queue /\ (i <= j <=> o(i) <= k)
        BY <1>2, <1>4, <4>4
      <4> QED
        BY <1>2, <3>1, <4>5 DEF MarkerSplits
    <3>2. CASE marker # e
      <4>1. queue[o(j)] = marker
        BY <1>1, <1>2, <2>2, <3>2
      <4>2. o(i) \in DOMAIN queue /\ o(j) \in DOMAIN queue /\ (j < i <=> o(j) < o(i))
        BY <1>2
      <4>3. i <= j <=> o(i) <= o(j)
        BY <1>2, <4>2
      <4> QED
        BY <1>2, <4>1, <4>2, <4>3 DEF MarkerSplits
    <3> QED
      BY <3>1, <3>2
  <2> QED
    BY <2>1, <2>2 DEF MarkerSplits, Ordinary
<1>13. ServiceOrder'
  <2>1. ASSUME NEW i \in DOMAIN queue', NEW j \in DOMAIN queue',
               Precedes(queue[i], queue[j])'
        PROVE  i < j
    <3>1. Precedes(queue[o(i)], queue[o(j)])
      BY <1>2, <2>1 DEF Precedes, Ordinary
    <3> QED
      BY <1>2, <3>1 DEF ServiceOrder
  <2> QED
    BY <2>1 DEF ServiceOrder
<1> QED
  BY <1>6, <1>7, <1>10, <1>11, <1>12, <1>13

-----------------------------------------------------------------------------
\* The frames: what is pushed is not on the stack, what is popped was once on it.

LEMMA FrontElements ==
    ASSUME frames \in Seq(Event), frames # <<>>
    PROVE  /\ Front(frames) \in Seq(Event)
           /\ Len(frames) \in Nat \ {0}
           /\ Len(Front(frames)) = Len(frames) - 1
           /\ DOMAIN Front(frames) = 1 .. Len(frames) - 1
           /\ \A i \in 1 .. Len(frames) - 1 : Front(frames)[i] = frames[i]
           /\ Top \in Event
<1>1. Len(frames) \in Nat /\ Len(frames) # 0 /\ DOMAIN frames = 1 .. Len(frames)
  BY LenProperties, EmptySeq
<1>2. \A i \in 1 .. Len(frames) : frames[i] \in Event
  BY <1>1, ElementOfSeq
<1>3. /\ Front(frames) \in Seq(Event)
      /\ Len(Front(frames)) = Len(frames) - 1
      /\ \A i \in 1 .. Len(frames) - 1 : Front(frames)[i] = frames[i]
  BY <1>1, <1>2, SubSeqProperties DEF Front
<1> QED
  BY <1>1, <1>2, <1>3, LenProperties DEF Top

-----------------------------------------------------------------------------
\* Type correctness and every part of the invariant hold at the start.
LEMMA InitInductive == Init => Inductive
<1> SUFFICES ASSUME Init PROVE Inductive
  OBVIOUS
<1> USE DEF Init
<1>1. TypeOK
  BY DEF TypeOK, Pointer, Position
<1>2. \A e \in Event : ~ InQueue(e)
  BY DEF InQueue
<1> QED
  BY <1>1, <1>2 DEF Inductive, PointersValid, MarkerSplits, ServiceOrder,
       NothingLost, NeverReentered, CellsShared, LiesAt

\* The memory a new event gets is not that of an event in the list, and of the
\* events that lay there before it is the youngest.
LEMMA QueueEventCells ==
    ASSUME Inductive, NEW e \in Event, NEW p \in Position, QueueEvent(e, p),
           \A f : InQueue(f)' <=> InQueue(f) \/ f = e,
           \A i \in DOMAIN frames :
                frames[i] \in Event /\ frames[i] # e /\ born[frames[i]] # 0
    PROVE  CellsShared'
<1> USE DEF Inductive
<1>1. /\ frames' = frames /\ deleted' = deleted
      /\ born[e] = 0 /\ born' = [born EXCEPT ![e] = clock + 1]
      /\ clock \in Nat /\ born \in [Event -> 0 .. clock] /\ cell \in [Event -> Event]
  BY DEF QueueEvent, TypeOK
<1>2. PICK c \in {e} \cup Freed : cell' = [cell EXCEPT ![e] = c]
  BY DEF QueueEvent
<1>3. /\ cell'[e] = c /\ born'[e] = clock + 1
      /\ \A g \in Event : g # e => cell'[g] = cell[g] /\ born'[g] = born[g]
      /\ \A g \in Event : born[g] \in 0 .. clock
  BY <1>1, <1>2
<1>4. ASSUME NEW g \in Event, g # e PROVE cell[g] # e
  BY <1>1, <1>4 DEF CellsShared
<1>5. ASSUME NEW g \in Event, InQueue(g), g # e PROVE cell[g] # c
  <2>1. CASE c = e
    BY <1>4, <1>5, <2>1
  <2>2. CASE c \in Freed
    BY <1>5, <2>2 DEF Freed
  <2> QED
    BY <2>1, <2>2
<1>6. c # e => born[c] # 0 /\ c \in Event
  <2> SUFFICES ASSUME c # e PROVE born[c] # 0 /\ c \in Event
    OBVIOUS
  <2>1. PICK i \in DOMAIN frames : cell[frames[i]] = c
    BY <1>2 DEF Freed
  <2>2. CASE cell[frames[i]] = frames[i]
    BY <2>1, <2>2
  <2>3. CASE cell[frames[i]] # frames[i]
    BY <1>1, <2>1, <2>3 DEF CellsShared
  <2> QED
    BY <2>2, <2>3
<1>7. \A g \in Event : cell'[g] # g => born'[cell'[g]] # 0
  <2> SUFFICES ASSUME NEW g \in Event, cell'[g] # g PROVE born'[cell'[g]] # 0
    OBVIOUS
  <2>1. CASE g = e
    BY <1>3, <1>6, <2>1
  <2>2. CASE g # e
    <3>1. cell[g] # e /\ cell[g] \in Event /\ born[cell[g]] # 0
      BY <1>1, <1>3, <1>4, <2>2 DEF CellsShared
    <3> QED
      BY <1>3, <2>2, <3>1
  <2> QED
    BY <2>1, <2>2
<1>8. ASSUME NEW g \in Event, NEW f \in Event, LiesAt(f, g)', g # f, born'[g] # 0
      PROVE  ~ InQueue(g)' /\ born'[g] < born'[f]
  <2>1. InQueue(f)' /\ cell'[f] = cell'[g]
    BY <1>8 DEF LiesAt
  <2>2. CASE f = e
    <3>1. cell[g] = c /\ born'[g] = born[g] /\ g # e
      BY <1>3, <1>8, <2>1, <2>2
    <3>2. ~ InQueue(g)
      BY <1>5, <3>1
    <3>3. born[g] < clock + 1
      BY <1>1, <1>3
    <3> QED
      BY <1>3, <2>2, <3>1, <3>2, <3>3
  <2>3. CASE f # e /\ g = e
    <3>1. InQueue(f) /\ cell[f] = c
      BY <1>3, <2>1, <2>3
    <3> QED
      BY <1>5, <2>3, <3>1
  <2>4. CASE f # e /\ g # e
    <3>1. InQueue(f) /\ cell[f] = cell[g] /\ born[g] # 0
      BY <1>3, <1>8, <2>1, <2>4
    <3>2. ~ InQueue(g) /\ born[g] < born[f]
      BY <1>8, <3>1 DEF CellsShared, LiesAt
    <3> QED
      BY <1>3, <2>4, <3>2
  <2> QED
    BY <2>2, <2>3, <2>4
<1>9. \A i, j \in DOMAIN frames' : cell'[frames'[i]] = cell'[frames'[j]] /\ i < j =>
        born'[frames'[i]] < born'[frames'[j]]
  BY <1>1, <1>3 DEF CellsShared
<1>10. \A i \in DOMAIN frames' : InQueue(frames[i])' \/ frames'[i] \in deleted'
  BY <1>1 DEF CellsShared
<1> QED
  BY <1>7, <1>8, <1>9, <1>10 DEF CellsShared

LEMMA QueueEventInductive ==
    ASSUME Inductive, NEW e \in Event, NEW p \in Position, QueueEvent(e, p)
    PROVE  Inductive'
<1> USE DEF Inductive
<1>1. PICK k \in 1 .. Len(queue) + 1 :
        /\ Inserted(e, k)
        /\ last' = IF k = Len(queue) + 1 THEN e ELSE last
        /\ marker' = marker \/ marker' = e
  BY QueueEventEffect
<1>2. \A f : InQueue(f)' <=> InQueue(f) \/ f = e
  BY <1>1, InsertedMembers DEF TypeOK
<1>3. TypeOK'
  <2>1. queue' \in Seq(Event) /\ last' \in Pointer /\ marker' \in Pointer
    BY <1>1 DEF Inserted, TypeOK, Pointer
  <2>2. clock' \in Nat /\ born' \in [Event -> 0 .. clock']
    BY DEF QueueEvent, TypeOK
  <2>3. position' \in [Event -> Position]
    BY DEF QueueEvent, TypeOK
  <2> QED
    BY <2>1, <2>2, <2>3 DEF QueueEvent, TypeOK, Freed
<1>4. NothingLost'
  <2>1. born'[e] # 0 /\ e \notin handled \cup deleted /\ ~ InQueue(e)
    BY DEF QueueEvent, NothingLost, TypeOK
  <2>2. \A f \in Event : f # e => born'[f] = born[f] /\ cell'[f] = cell[f]
    BY DEF QueueEvent, TypeOK
  <2>3. ASSUME NEW f \in Event, f # e, TakenForAnother(f)
        PROVE  TakenForAnother(f)'
    BY <2>1, <2>2, <2>3 DEF TakenForAnother, QueueEvent, TypeOK
  <2> QED
    BY <1>2, <2>1, <2>2, <2>3 DEF NothingLost, QueueEvent
<1>5. NeverReentered'
  <2>1. \A i \in DOMAIN frames : frames[i] \in Event
    BY ElementOfSeq, LenProperties DEF TypeOK
  <2>2. \A i \in DOMAIN frames : frames[i] # e /\ born'[frames[i]] = born[frames[i]]
    BY <2>1 DEF NeverReentered, QueueEvent, TypeOK
  <2>3. frames' = frames /\ inService' = inService
    BY DEF QueueEvent
  <2> QED
    BY <1>2, <2>2, <2>3 DEF NeverReentered
<1>6. CellsShared'
  <2>1. \A i \in DOMAIN frames :
          frames[i] \in Event /\ frames[i] # e /\ born[frames[i]] # 0
    BY ElementOfSeq, LenProperties DEF TypeOK, NeverReentered, QueueEvent
  <2> QED
    BY <1>2, <2>1, QueueEventCells
<1> QED
  BY <1>3, <1>4, <1>5, <1>6, QueueEventPointers, QueueEventMarker, QueueEventOrder

\* The cells stay shared rightly when calls return, if an event that leaves the
\* list while a call is active for it is deleted.
LEMMA CellsKept ==
    ASSUME Inductive, UNCHANGED <<cell, born>>, deleted \subseteq deleted',
           \A i \in DOMAIN frames' : i \in DOMAIN frames /\ frames'[i] = frames[i],
           \A f : InQueue(f)' => InQueue(f),
           \A i \in DOMAIN frames' :
                InQueue(frames[i]) => InQueue(frames[i])' \/ frames[i] \in deleted'
    PROVE  CellsShared'
<1> USE DEF Inductive
<1>1. \A e, f \in Event : LiesAt(f, e)' => LiesAt(f, e)
  BY DEF LiesAt
<1>2. \A e, f \in Event : LiesAt(f, e)' /\ e # f /\ born'[e] # 0 =>
        ~ InQueue(e)' /\ born'[e] < born'[f]
  BY <1>1 DEF CellsShared
<1>3. \A i, j \in DOMAIN frames' : cell'[frames'[i]] = cell'[frames'[j]] /\ i < j =>
        born'[frames'[i]] < born'[frames'[j]]
  BY DEF CellsShared
<1>4. \A i \in DOMAIN frames' : InQueue(frames[i])' \/ frames'[i] \in deleted'
  BY DEF CellsShared
<1> QED
  BY <1>2, <1>3, <1>4 DEF CellsShared

\* The part of the invariant that says who is queued, handled and on the stack,
\* when e leaves the list.
LEMMA UnlinkInductive ==
    ASSUME Inductive, NEW e \in Event, InQueue(e), Unlink(e),
           UNCHANGED <<position, born, cell, clock, unwinds>>,
           \/ handled' = handled /\ deleted' = deleted \cup {e}
           \/ handled' = handled \cup {e} /\ deleted' = deleted,
           inService' \subseteq inService
    PROVE  /\ PointersValid' /\ MarkerSplits' /\ ServiceOrder' /\ NothingLost'
           /\ frames' \in Seq(Event) => TypeOK'
           /\ \A f : InQueue(f)' <=> InQueue(f) /\ f # e
<1> USE DEF Inductive
<1>1. /\ queue' \in Seq(Event)
      /\ last' \in Pointer /\ marker' \in Pointer
      /\ PointersValid' /\ MarkerSplits' /\ ServiceOrder'
      /\ \A f : InQueue(f)' <=> InQueue(f) /\ f # e
  BY UnlinkList
<1>2. NothingLost'
  BY <1>1 DEF NothingLost, TakenForAnother
<1>3. frames' \in Seq(Event) => TypeOK'
  BY <1>1 DEF TypeOK
<1> QED
  BY <1>1, <1>2, <1>3

LEMMA DeleteEventsInductive ==
    ASSUME Inductive, NEW e \in Event, DeleteEvents(e)
    PROVE  Inductive'
<1> USE DEF Inductive
<1>1. /\ InQueue(e) /\ Unlink(e) /\ frames' = frames
      /\ UNCHANGED <<position, born, cell, clock, unwinds>>
      /\ handled' = handled /\ deleted' = deleted \cup {e}
      /\ inService' = inService \ {e}
  BY DEF DeleteEvents
<1>2. /\ PointersValid' /\ MarkerSplits' /\ ServiceOrder' /\ NothingLost'
      /\ frames' \in Seq(Event) => TypeOK'
      /\ \A f : InQueue(f)' <=> InQueue(f) /\ f # e
  BY <1>1, UnlinkInductive
<1>3. NeverReentered'
  BY <1>1, <1>2 DEF NeverReentered
<1>4. CellsShared'
  BY <1>1, <1>2, CellsKept
<1> QED
  BY <1>1, <1>2, <1>3, <1>4 DEF TypeOK

\* The steps that leave the list, its pointers and the history alone.
LEMMA ListUnchanged ==
    ASSUME Inductive, UNCHANGED <<queue, last, marker, position, born, cell, clock,
                                  handled, deleted>>
    PROVE  /\ PointersValid' /\ MarkerSplits' /\ ServiceOrder' /\ NothingLost'
           /\ \A f : InQueue(f)' <=> InQueue(f)
<1>1. PointersValid'
  BY DEF Inductive, PointersValid, InQueue
<1>2. MarkerSplits'
  BY DEF Inductive, MarkerSplits, Ordinary
<1>3. ServiceOrder'
  BY DEF Inductive, ServiceOrder, Precedes, Ordinary
<1>4. NothingLost' /\ \A f : InQueue(f)' <=> InQueue(f)
  BY DEF Inductive, NothingLost, InQueue, TakenForAnother
<1> QED
  BY <1>1, <1>2, <1>3, <1>4

\* A frame for an event in the list whose proc was not NULL is pushed.
LEMMA PushedFrame ==
    ASSUME Inductive, NEW s \in Seq(Event), NEW f \in Event,
           DOMAIN s \subseteq DOMAIN frames, \A i \in DOMAIN s : s[i] = frames[i],
           frames' = Append(s, f), InQueue(f), f \notin inService,
           \A i \in DOMAIN s : s[i] \in inService => s[i] \in inService',
           f \in inService',
           UNCHANGED <<queue, last, marker, position, born, cell, clock, handled, deleted>>
    PROVE  frames' \in Seq(Event) /\ NeverReentered' /\ CellsShared'
<1> USE DEF Inductive
<1>1. /\ frames' \in Seq(Event)
      /\ Len(s) \in Nat /\ DOMAIN s = 1 .. Len(s)
      /\ DOMAIN frames' = 1 .. Len(s) + 1
      /\ \A i \in DOMAIN s : frames'[i] = s[i]
      /\ frames'[Len(s) + 1] = f
  BY AppendProperties, LenProperties
<1>2. born[f] # 0
  BY DEF NothingLost
<1>3. \A i \in DOMAIN s : frames'[i] # f
  BY <1>1 DEF NeverReentered
<1>4. \A g : InQueue(g)' <=> InQueue(g)
  BY DEF InQueue
<1>5. \A i, j \in DOMAIN frames' : frames'[i] = frames'[j] => i = j
  BY <1>1, <1>3 DEF NeverReentered
<1>6. \A i \in DOMAIN frames' : born'[frames'[i]] # 0
  BY <1>1, <1>2 DEF NeverReentered
<1>7. \A i \in DOMAIN frames' : InQueue(frames'[i]) => frames'[i] \in inService'
  BY <1>1 DEF NeverReentered
<1>8. \A i \in DOMAIN s :
        s[i] \in Event /\ (cell[s[i]] = cell[f] => born[s[i]] < born[f])
  <2> SUFFICES ASSUME NEW i \in DOMAIN s
               PROVE  s[i] \in Event /\ (cell[s[i]] = cell[f] => born[s[i]] < born[f])
    OBVIOUS
  <2>1. s[i] \in Event /\ s[i] # f /\ born[s[i]] # 0
    BY <1>1, <1>3, ElementOfSeq DEF NeverReentered
  <2> QED
    BY <2>1 DEF CellsShared, LiesAt
<1>9. \A i, j \in DOMAIN frames' : cell'[frames'[i]] = cell'[frames'[j]] /\ i < j =>
        born'[frames'[i]] < born'[frames'[j]]
  <2> SUFFICES ASSUME NEW i \in DOMAIN frames', NEW j \in DOMAIN frames',
                      cell[frames'[i]] = cell[frames'[j]], i < j
               PROVE  born[frames'[i]] < born[frames'[j]]
    OBVIOUS
  <2>1. i \in DOMAIN s
    BY <1>1
  <2>2. CASE j \in DOMAIN s
    BY <1>1, <2>1, <2>2 DEF CellsShared
  <2>3. CASE j \notin DOMAIN s
    BY <1>1, <1>8, <2>1, <2>3
  <2> QED
    BY <2>2, <2>3
<1>10. \A i \in DOMAIN frames' : InQueue(frames[i])' \/ frames'[i] \in deleted'
  BY <1>1, <1>4 DEF CellsShared
<1>11. \A e, g \in Event : LiesAt(g, e)' <=> LiesAt(g, e)
  BY <1>4 DEF LiesAt
<1>12. CellsShared'
  BY <1>4, <1>9, <1>10, <1>11 DEF CellsShared
<1> QED
  BY <1>1, <1>4, <1>5, <1>6, <1>7, <1>12 DEF NeverReentered

LEMMA ServiceEventInductive ==
    ASSUME Inductive, NEW e \in Event, ServiceEvent(e)
    PROVE  Inductive'
<1> USE DEF Inductive
<1>1. InQueue(e) /\ e \notin inService
  BY DEF ServiceEvent, ScanStops, Eligible, InQueue
<1>2. /\ frames' = Append(frames, e)
      /\ inService' = inService \cup {e}
      /\ UNCHANGED <<queue, last, marker, position, born, cell, clock, handled, deleted>>
      /\ unwinds' = unwinds
  BY DEF ServiceEvent
<1>3. frames' \in Seq(Event) /\ NeverReentered' /\ CellsShared'
  <2>1. frames \in Seq(Event)
    BY DEF TypeOK
  <2> QED
    BY <1>1, <1>2, <2>1, PushedFrame
<1>4. TypeOK'
  BY <1>2, <1>3 DEF TypeOK
<1> QED
  BY <1>2, <1>3, <1>4, ListUnchanged

\* The frames that stay when the innermost call returns.
LEMMA PoppedFrames ==
    ASSUME Inductive, frames # <<>>
    PROVE  /\ Front(frames) \in Seq(Event)
           /\ DOMAIN Front(frames) \subseteq DOMAIN frames
           /\ \A i \in DOMAIN Front(frames) :
                Front(frames)[i] = frames[i] /\ frames[i] # Top
           /\ \E i \in DOMAIN frames : frames[i] = Top
<1> USE DEF Inductive
<1>1. frames \in Seq(Event)
  BY DEF TypeOK
<1>2. /\ Front(frames) \in Seq(Event)
      /\ Len(frames) \in Nat \ {0}
      /\ DOMAIN Front(frames) = 1 .. Len(frames) - 1
      /\ \A i \in 1 .. Len(frames) - 1 : Front(frames)[i] = frames[i]
  BY <1>1, FrontElements
<1>3. DOMAIN frames = 1 .. Len(frames)
  BY <1>1, LenProperties
<1>4. \A i \in 1 .. Len(frames) - 1 : frames[i] # frames[Len(frames)]
  BY <1>2, <1>3 DEF NeverReentered
<1> QED
  BY <1>2, <1>3, <1>4 DEF Top

\* Popping the innermost frame keeps the stack right if the others' events that
\* are still in the list keep proc = NULL.
LEMMA PoppedKeeps ==
    ASSUME Inductive, frames # <<>>, frames' = Front(frames), UNCHANGED born,
           \A f : InQueue(f)' => InQueue(f),
           \A f : f # Top /\ f \in inService => f \in inService'
    PROVE  frames' \in Seq(Event) /\ NeverReentered'
<1> USE DEF Inductive
<1>1. /\ Front(frames) \in Seq(Event)
      /\ DOMAIN Front(frames) \subseteq DOMAIN frames
      /\ \A i \in DOMAIN Front(frames) :
           Front(frames)[i] = frames[i] /\ frames[i] # Top
  BY PoppedFrames
<1>2. \A i, j \in DOMAIN frames' : frames'[i] = frames'[j] => i = j
  BY <1>1 DEF NeverReentered
<1>3. \A i \in DOMAIN frames' : born'[frames'[i]] # 0
  BY <1>1 DEF NeverReentered
<1>4. \A i \in DOMAIN frames' : InQueue(frames[i])' => frames'[i] \in inService'
  BY <1>1 DEF NeverReentered
<1> QED
  BY <1>1, <1>2, <1>3, <1>4 DEF NeverReentered

LEMMA HandlerReturns1Inductive ==
    ASSUME Inductive, NEW e \in Event, HandlerReturns1(e)
    PROVE  Inductive'
<1> USE DEF Inductive
<1>1. /\ frames # <<>> /\ Top = e
      /\ frames' = Front(frames)
      /\ handled' = handled \cup {e}
      /\ UNCHANGED <<position, born, cell, clock, deleted, unwinds>>
  BY DEF HandlerReturns1
<1>2. /\ Front(frames) \in Seq(Event)
      /\ DOMAIN Front(frames) \subseteq DOMAIN frames
      /\ \A i \in DOMAIN Front(frames) : Front(frames)[i] = frames[i] /\ frames[i] # e
      /\ \E i \in DOMAIN frames : frames[i] = e
  BY <1>1, PoppedFrames
<1>3. born[e] # 0 /\ (InQueue(e) \/ e \in deleted)
  BY <1>2 DEF NeverReentered, CellsShared
<1>4. ASSUME NEW f \in Event, LiesAt(f, e), Unlink(f), inService' = inService \ {e, f}
      PROVE  Inductive'
  <2>1. /\ queue' \in Seq(Event)
        /\ last' \in Pointer /\ marker' \in Pointer
        /\ PointersValid' /\ MarkerSplits' /\ ServiceOrder'
        /\ \A g : InQueue(g)' <=> InQueue(g) /\ g # f
    BY <1>1, <1>4, UnlinkList DEF LiesAt
  <2>2. f # e => ~ InQueue(e) /\ e \in deleted /\ born[e] < born[f] /\ cell[e] = cell[f]
    BY <1>3, <1>4 DEF CellsShared, LiesAt
  <2>3. \A i \in DOMAIN frames' : frames[i] # f
    <3> SUFFICES ASSUME NEW i \in DOMAIN frames', frames[i] = f PROVE FALSE
      OBVIOUS
    <3>1. i \in DOMAIN frames /\ f # e
      BY <1>1, <1>2
    <3>2. /\ Len(frames) \in Nat \ {0}
          /\ DOMAIN frames = 1 .. Len(frames)
          /\ frames[Len(frames)] = e
          /\ i \in 1 .. Len(frames) - 1
      BY <1>1, FrontElements, LenProperties DEF TypeOK, Top
    <3>3. Len(frames) \in DOMAIN frames /\ i < Len(frames)
      BY <3>2
    <3>4. born[f] < born[e]
      BY <2>2, <3>1, <3>2, <3>3 DEF CellsShared
    <3>5. born[f] \in Nat /\ born[e] \in Nat
      BY DEF TypeOK
    <3> QED
      BY <2>2, <3>1, <3>4, <3>5
  <2>4. TakenForAnother(f)' \/ f = e
    BY <1>1, <2>2 DEF TakenForAnother
  <2>5. \A g \in Event : TakenForAnother(g) => TakenForAnother(g)'
    BY <1>1 DEF TakenForAnother
  <2>6. NothingLost'
    BY <1>1, <1>3, <2>1, <2>2, <2>4, <2>5 DEF NothingLost
  <2>7. frames' \in Seq(Event) /\ NeverReentered'
    <3>1. \A i \in DOMAIN frames' : InQueue(frames[i])' => frames'[i] \in inService'
      BY <1>1, <1>2, <1>4, <2>1, <2>3 DEF NeverReentered
    <3> QED
      BY <1>1, <1>2, <3>1 DEF NeverReentered
  <2>8. TypeOK'
    BY <1>1, <1>4, <2>1, <2>7 DEF TypeOK
  <2>9. CellsShared'
    BY <1>1, <1>2, <2>1, <2>3, CellsKept
  <2> QED
    BY <2>1, <2>6, <2>7, <2>8, <2>9
<1>5. CASE /\ \A f \in Event : ~ LiesAt(f, e)
           /\ inService' = inService \ {e}
           /\ UNCHANGED <<queue, last, marker>>
  <2>1. \A f : InQueue(f)' <=> InQueue(f)
    BY <1>5 DEF InQueue
  <2>2. frames' \in Seq(Event) /\ NeverReentered'
    BY <1>1, <1>5, <2>1, PoppedKeeps
  <2>3. ~ InQueue(e) /\ born[e] # 0
    BY <1>3, <1>5 DEF LiesAt
  <2>4. \A g \in Event : TakenForAnother(g) => TakenForAnother(g)'
    BY <1>1 DEF TakenForAnother
  <2>5. NothingLost'
    BY <1>1, <2>1, <2>3, <2>4 DEF NothingLost
  <2>6. PointersValid'
    BY <1>5, <2>1 DEF PointersValid
  <2>7. MarkerSplits'
    BY <1>1, <1>5 DEF MarkerSplits, Ordinary
  <2>8. ServiceOrder'
    BY <1>1, <1>5 DEF ServiceOrder, Precedes, Ordinary
  <2>9. TypeOK'
    BY <1>1, <1>5, <2>2 DEF TypeOK
  <2>10. CellsShared'
    BY <1>1, <1>2, <2>1, CellsKept
  <2> QED
    BY <2>2, <2>5, <2>6, <2>7, <2>8, <2>9, <2>10
<1> QED
  BY <1>4, <1>5 DEF HandlerReturns1

LEMMA HandlerReturns0Inductive ==
    ASSUME Inductive, NEW e \in Event, HandlerReturns0(e)
    PROVE  Inductive'
<1> USE DEF Inductive
<1>1. /\ frames # <<>> /\ Top = e /\ InQueue(e)
      /\ UNCHANGED <<queue, last, marker, position, born, cell, clock, handled, deleted,
                     unwinds>>
  BY DEF HandlerReturns0
<1>2. /\ frames' \in Seq(Event) /\ inService' \subseteq Event
      /\ NeverReentered' /\ CellsShared'
  <2>1. CASE \E j \in DOMAIN queue :
               /\ ScanStops(Index(e) + 1, j)
               /\ inService' = (inService \ {e}) \cup {queue[j]}
               /\ frames' = Append(Front(frames), queue[j])
    <3>1. PICK j \in DOMAIN queue :
               /\ ScanStops(Index(e) + 1, j)
               /\ inService' = (inService \ {e}) \cup {queue[j]}
               /\ frames' = Append(Front(frames), queue[j])
      BY <2>1
    <3>2. queue[j] \in Event /\ InQueue(queue[j]) /\ queue[j] \notin inService
      BY <3>1, ElementOfSeq, LenProperties
         DEF InQueue, ScanStops, Eligible, TypeOK
    <3>3. /\ Front(frames) \in Seq(Event)
          /\ DOMAIN Front(frames) \subseteq DOMAIN frames
          /\ \A i \in DOMAIN Front(frames) :
               Front(frames)[i] = frames[i] /\ frames[i] # e
      BY <1>1, PoppedFrames
    <3>4. \A i \in DOMAIN Front(frames) :
            Front(frames)[i] \in inService => Front(frames)[i] \in inService'
      BY <3>1, <3>3
    <3>5. frames' \in Seq(Event) /\ NeverReentered' /\ CellsShared'
      BY <1>1, <3>1, <3>2, <3>3, <3>4, PushedFrame
    <3> QED
      BY <3>1, <3>2, <3>5 DEF TypeOK
  <2>2. CASE inService' = inService \ {e} /\ frames' = Front(frames)
    <3>1. \A f : InQueue(f)' <=> InQueue(f)
      BY <1>1 DEF InQueue
    <3>2. frames' \in Seq(Event) /\ NeverReentered'
      BY <1>1, <2>2, <3>1, PoppedKeeps
    <3>3. CellsShared'
      BY <1>1, <2>2, <3>1, PoppedFrames, CellsKept
    <3> QED
      BY <2>2, <3>2, <3>3 DEF TypeOK
  <2> QED
    BY <2>1, <2>2 DEF HandlerReturns0
<1>3. TypeOK'
  BY <1>1, <1>2 DEF TypeOK
<1> QED
  BY <1>1, <1>2, <1>3, ListUnchanged

LEMMA UnwindInductive ==
    ASSUME Inductive, NEW depth \in 0 .. Len(frames), Unwind(depth)
    PROVE  Inductive'
<1> USE DEF Inductive
<1>1. /\ frames' = SubSeq(frames, 1, depth)
      /\ unwinds' = unwinds + 1
      /\ UNCHANGED <<queue, last, marker, inService, position, born, cell, clock, handled,
                     deleted>>
  BY DEF Unwind
<1>2. frames \in Seq(Event) /\ Len(frames) \in Nat /\ DOMAIN frames = 1 .. Len(frames)
  BY LenProperties DEF TypeOK
<1>3. /\ frames' \in Seq(Event)
      /\ DOMAIN frames' = 1 .. depth
      /\ \A i \in 1 .. depth : i \in DOMAIN frames /\ frames'[i] = frames[i]
  <2>1. \A i \in 1 .. depth : frames[i] \in Event
    BY <1>2, ElementOfSeq
  <2> QED
    BY <1>1, <1>2, <2>1, SubSeqProperties, LenProperties
<1>4. TypeOK'
  BY <1>1, <1>3 DEF TypeOK
<1>5. NeverReentered'
  BY <1>1, <1>3 DEF NeverReentered, InQueue
<1>6. CellsShared'
  <2>1. \A i \in DOMAIN frames' : i \in DOMAIN frames /\ frames'[i] = frames[i]
    BY <1>3
  <2>2. \A f : InQueue(f)' <=> InQueue(f)
    BY <1>1 DEF InQueue
  <2> QED
    BY <1>1, <2>1, <2>2, CellsKept
<1> QED
  BY <1>1, <1>4, <1>5, <1>6, ListUnchanged

-----------------------------------------------------------------------------
\* The invariant is inductive: whatever handlers queue, delete, service or throw.
THEOREM InductiveInvariant == Spec => []Inductive
<1>1. Init => Inductive
  BY InitInductive
<1>2. Inductive /\ [Next]_vars => Inductive'
  <2> SUFFICES ASSUME Inductive, [Next]_vars
               PROVE  Inductive'
    OBVIOUS
  <2>1. CASE \E e \in Event, p \in Position : QueueEvent(e, p)
    BY <2>1, QueueEventInductive
  <2>2. CASE \E e \in Event : DeleteEvents(e)
    BY <2>2, DeleteEventsInductive
  <2>3. CASE \E e \in Event : ServiceEvent(e)
    BY <2>3, ServiceEventInductive
  <2>4. CASE \E e \in Event : HandlerReturns1(e)
    BY <2>4, HandlerReturns1Inductive
  <2>5. CASE \E e \in Event : HandlerReturns0(e)
    BY <2>5, HandlerReturns0Inductive
  <2>6. CASE \E depth \in 0 .. Len(frames) : Unwind(depth)
    BY <2>6, UnwindInductive
  <2>7. CASE UNCHANGED vars
    <3>1. TypeOK'
      BY <2>7 DEF vars, Inductive, TypeOK
    <3>2. NeverReentered'
      BY <2>7 DEF vars, Inductive, NeverReentered, InQueue
    <3>3. UNCHANGED <<queue, last, marker, position, born, cell, clock, handled, deleted>>
      BY <2>7 DEF vars
    <3>4. CellsShared'
      BY <2>7 DEF vars, Inductive, CellsShared, LiesAt, InQueue
    <3> QED
      BY <3>1, <3>2, <3>3, <3>4, ListUnchanged DEF Inductive
  <2> QED
    BY <2>1, <2>2, <2>3, <2>4, <2>5, <2>6, <2>7 DEF Next
<1> QED
  BY <1>1, <1>2, PTL DEF Spec

\* Type correctness.
THEOREM TypeCorrect == Spec => []TypeOK
  BY InductiveInvariant, PTL DEF Inductive

\* The last and the marker pointer never dangle.
THEOREM PointersCorrect == Spec => []PointersValid
  BY InductiveInvariant, PTL DEF Inductive

\* Events are served in the order QueueEvent documents, for any number of events.
THEOREM OrderCorrect == Spec => []ServiceOrder
  BY InductiveInvariant, PTL DEF Inductive

\* Every queued event stays until it is handled or deleted, and not longer, unless
\* it lies in the memory of an event deleted under its handler: then the return of
\* that handler takes it.
THEOREM NoEventLost == Spec => []NothingLost
  BY InductiveInvariant, PTL DEF Inductive

\* No nesting depth enters a handler twice for the same event.
THEOREM NoReentry == Spec => []NeverReentered
  BY InductiveInvariant, PTL DEF Inductive

\* Without an exception every event whose proc is NULL has its active call.
THEOREM NoEventStranded == Spec => []NoneStranded
<1>1. Init => NoneStranded
  BY DEF Init, NoneStranded
<1>2. ASSUME Inductive, NoneStranded, [Next]_vars
      PROVE  NoneStranded'
  <2> DEFINE HasFrame(e) == \E i \in DOMAIN frames : frames[i] = e
  <2>1. frames \in Seq(Event) /\ Len(frames) \in Nat /\ DOMAIN frames = 1 .. Len(frames)
    BY <1>2, LenProperties DEF Inductive, TypeOK
  <2>2. CASE \E e \in Event, p \in Position : QueueEvent(e, p)
    BY <1>2, <2>2 DEF QueueEvent, NoneStranded
  <2>3. CASE \E e \in Event : DeleteEvents(e)
    BY <1>2, <2>3 DEF DeleteEvents, NoneStranded
  <2>4. CASE \E e \in Event : ServiceEvent(e)
    <3>1. PICK e \in Event : ServiceEvent(e)
      BY <2>4
    <3>2. /\ DOMAIN frames' = 1 .. Len(frames) + 1
          /\ \A i \in DOMAIN frames : i \in DOMAIN frames' /\ frames'[i] = frames[i]
          /\ frames'[Len(frames) + 1] = e
      BY <2>1, <3>1, AppendProperties, LenProperties DEF ServiceEvent
    <3>3. Len(frames) + 1 \in DOMAIN frames'
      BY <2>1, <3>2
    <3> QED
      BY <1>2, <3>1, <3>2, <3>3 DEF ServiceEvent, NoneStranded
  <2>5. CASE \E e \in Event : HandlerReturns1(e) \/ HandlerReturns0(e)
    <3>1. PICK e \in Event : HandlerReturns1(e) \/ HandlerReturns0(e)
      BY <2>5
    <3>2. frames # <<>> /\ Top = e /\ unwinds' = unwinds
      BY <3>1 DEF HandlerReturns1, HandlerReturns0
    <3>3. /\ Front(frames) \in Seq(Event)
          /\ Len(Front(frames)) \in Nat
          /\ DOMAIN Front(frames) = 1 .. Len(Front(frames))
          /\ \A f : HasFrame(f) /\ f # e =>
                \E i \in DOMAIN Front(frames) : Front(frames)[i] = f
      <4>1. /\ Front(frames) \in Seq(Event)
            /\ Len(frames) \in Nat \ {0}
            /\ Len(Front(frames)) = Len(frames) - 1
            /\ DOMAIN Front(frames) = 1 .. Len(frames) - 1
            /\ \A i \in 1 .. Len(frames) - 1 : Front(frames)[i] = frames[i]
        BY <2>1, <3>2, FrontElements
      <4>2. ASSUME NEW i \in DOMAIN frames, frames[i] # e
            PROVE  i \in DOMAIN Front(frames) /\ Front(frames)[i] = frames[i]
        BY <2>1, <3>2, <4>1, <4>2 DEF Top
      <4> QED
        BY <4>1, <4>2
    <3>4. CASE inService' \subseteq inService \ {e} /\ frames' = Front(frames)
      BY <1>2, <3>2, <3>3, <3>4 DEF NoneStranded
    <3>5. CASE \E j \in DOMAIN queue :
                 /\ inService' = (inService \ {e}) \cup {queue[j]}
                 /\ frames' = Append(Front(frames), queue[j])
      <4>1. PICK j \in DOMAIN queue :
                 /\ inService' = (inService \ {e}) \cup {queue[j]}
                 /\ frames' = Append(Front(frames), queue[j])
        BY <3>5
      <4>2. queue[j] \in Event
        BY <1>2, ElementOfSeq, LenProperties DEF Inductive, TypeOK
      <4>3. /\ DOMAIN frames' = 1 .. Len(Front(frames)) + 1
            /\ \A i \in DOMAIN Front(frames) :
                 i \in DOMAIN frames' /\ frames'[i] = Front(frames)[i]
            /\ frames'[Len(Front(frames)) + 1] = queue[j]
        BY <3>3, <4>1, <4>2, AppendProperties, LenProperties
      <4>4. Len(Front(frames)) + 1 \in DOMAIN frames'
        BY <3>3, <4>3
      <4>5. \A f \in inService' : unwinds' = 0 =>
               \E i \in DOMAIN frames' : frames'[i] = f
        BY <1>2, <3>2, <3>3, <4>1, <4>3, <4>4 DEF NoneStranded
      <4> QED
        BY <4>5 DEF NoneStranded
    <3> QED
      BY <3>1, <3>4, <3>5 DEF HandlerReturns1, HandlerReturns0
  <2>6. CASE \E depth \in 0 .. Len(frames) : Unwind(depth)
    BY <1>2, <2>6 DEF Unwind, NoneStranded, Inductive, TypeOK
  <2>7. CASE UNCHANGED vars
    BY <1>2, <2>7 DEF vars, NoneStranded
  <2> QED
    BY <1>2, <2>2, <2>3, <2>4, <2>5, <2>6, <2>7 DEF Next
<1> QED
  BY <1>1, <1>2, InductiveInvariant, PTL DEF Spec

-----------------------------------------------------------------------------
(***************************************************************************)
(* The list with its pointers implements EventOrder.                       *)
(***************************************************************************)
\* The two parts, element by element.

\* The marker's index is its place in the list, 0 without a marker.
MarkerIndexed ==
    /\ Len(queue) \in Nat
    /\ DOMAIN queue = 1 .. Len(queue)
    /\ MarkerIndex \in 0 .. Len(queue)
    /\ marker = NULL <=> MarkerIndex = 0
    /\ marker # NULL => queue[MarkerIndex] = marker

LEMMA MarkerIndexValue == Inductive => MarkerIndexed
<1> SUFFICES ASSUME Inductive PROVE MarkerIndexed
  OBVIOUS
<1> USE DEF Inductive
<1>1. Len(queue) \in Nat /\ DOMAIN queue = 1 .. Len(queue)
  BY LenProperties DEF TypeOK
<1>2. marker # NULL => /\ Index(marker) \in 1 .. Len(queue)
                       /\ queue[Index(marker)] = marker
  BY <1>1, IndexOfQueued DEF PointersValid
<1> QED
  BY <1>1, <1>2 DEF MarkerIndex, MarkerIndexed

\* A list q cut behind its m-th element.
LEMMA CutElements ==
    ASSUME NEW q \in Seq(Event), NEW m \in 0 .. Len(q)
    PROVE  /\ SubSeq(q, 1, m) \in Seq(Event)
           /\ Len(SubSeq(q, 1, m)) = m
           /\ \A i \in 1 .. m : SubSeq(q, 1, m)[i] = q[i]
           /\ SubSeq(q, m + 1, Len(q)) \in Seq(Event)
           /\ Len(SubSeq(q, m + 1, Len(q))) = Len(q) - m
           /\ \A i \in 1 .. Len(q) - m : SubSeq(q, m + 1, Len(q))[i] = q[m + i]
<1>1. Len(q) \in Nat /\ \A i \in 1 .. Len(q) : q[i] \in Event
  BY LenProperties, ElementOfSeq
<1>2. /\ SubSeq(q, 1, m) \in Seq(Event)
      /\ Len(SubSeq(q, 1, m)) = m
      /\ \A i \in 1 .. m : SubSeq(q, 1, m)[i] = q[i]
  BY <1>1, SubSeqProperties
<1>3. /\ SubSeq(q, m + 1, Len(q)) \in Seq(Event)
      /\ Len(SubSeq(q, m + 1, Len(q))) = Len(q) - m
      /\ \A i \in 1 .. Len(q) - m : SubSeq(q, m + 1, Len(q))[i] = q[m + i]
  <2>1. \A i \in m + 1 .. Len(q) : q[i] \in Event
    BY <1>1
  <2>2. m + 1 \in Int /\ Len(q) \in Int
    BY <1>1
  <2>3. /\ SubSeq(q, m + 1, Len(q)) \in Seq(Event)
        /\ Len(SubSeq(q, m + 1, Len(q))) =
             IF m + 1 <= Len(q) THEN Len(q) - (m + 1) + 1 ELSE 0
        /\ \A i \in 1 .. Len(q) - (m + 1) + 1 :
             SubSeq(q, m + 1, Len(q))[i] = q[(m + 1) + i - 1]
    BY <2>1, <2>2, SubSeqProperties
  <2> DEFINE o == SubSeq(q, m + 1, Len(q))
  <2>4. Len(q) - (m + 1) + 1 = Len(q) - m
    BY <1>1
  <2>5. ASSUME NEW i \in 1 .. Len(q) - m PROVE o[i] = q[m + i]
    <3>1. (m + 1) + i - 1 = m + i /\ i \in 1 .. Len(q) - (m + 1) + 1
      BY <1>1
    <3>2. o[i] = q[(m + 1) + i - 1]
      BY <2>3, <3>1
    <3> QED
      BY <3>1, <3>2
  <2>6. Len(o) = IF m + 1 <= Len(q) THEN Len(q) - (m + 1) + 1 ELSE 0
    BY <2>3
  <2>7. o \in Seq(Event)
    BY <2>3
  <2>8. Len(o) = Len(q) - m
    <3> HIDE DEF o
    <3> QED BY <1>1, <2>6
  <2> QED
    BY <2>5, <2>7, <2>8
<1> QED
  BY <1>2, <1>3

\* An insertion at the cut, or at either end, changes one of the parts.
LEMMA CutOfInsertion ==
    ASSUME NEW q \in Seq(Event), NEW r \in Seq(Event), NEW e \in Event,
           NEW m \in 0 .. Len(q), NEW k \in 1 .. Len(q) + 1, IsInsertion(r, q, k, e)
    PROVE  /\ k > m => SubSeq(r, 1, m) = SubSeq(q, 1, m)
           /\ k = Len(q) + 1 =>
                SubSeq(r, m + 1, Len(r)) = Append(SubSeq(q, m + 1, Len(q)), e)
           /\ k = m + 1 =>
                /\ SubSeq(r, 1, m + 1) = Append(SubSeq(q, 1, m), e)
                /\ SubSeq(r, (m + 1) + 1, Len(r)) = SubSeq(q, m + 1, Len(q))
           /\ k = 1 =>
                /\ SubSeq(r, 1, m + 1) = <<e>> \o SubSeq(q, 1, m)
                /\ SubSeq(r, (m + 1) + 1, Len(r)) = SubSeq(q, m + 1, Len(q))
           /\ k = 1 /\ m = 0 =>
                SubSeq(r, m + 1, Len(r)) = <<e>> \o SubSeq(q, m + 1, Len(q))
<1> DEFINE u == SubSeq(q, 1, m)
           o == SubSeq(q, m + 1, Len(q))
           u0 == SubSeq(r, 1, m)
           o0 == SubSeq(r, m + 1, Len(r))
           u1 == SubSeq(r, 1, m + 1)
           o1 == SubSeq(r, (m + 1) + 1, Len(r))
<1>1. Len(q) \in Nat /\ Len(r) = Len(q) + 1
  BY LenProperties DEF IsInsertion
<1>2. /\ m \in 0 .. Len(r)
      /\ m + 1 \in 0 .. Len(r)
  BY <1>1
<1>3. /\ u \in Seq(Event) /\ Len(u) = m /\ \A i \in 1 .. m : u[i] = q[i]
      /\ o \in Seq(Event) /\ Len(o) = Len(q) - m
      /\ \A i \in 1 .. Len(q) - m : o[i] = q[m + i]
  BY CutElements
<1>4. /\ u0 \in Seq(Event) /\ Len(u0) = m /\ \A i \in 1 .. m : u0[i] = r[i]
      /\ o0 \in Seq(Event) /\ Len(o0) = Len(r) - m
      /\ \A i \in 1 .. Len(r) - m : o0[i] = r[m + i]
  BY <1>2, CutElements
<1>5. /\ u1 \in Seq(Event) /\ Len(u1) = m + 1 /\ \A i \in 1 .. m + 1 : u1[i] = r[i]
      /\ o1 \in Seq(Event) /\ Len(o1) = Len(r) - (m + 1)
      /\ \A i \in 1 .. Len(r) - (m + 1) : o1[i] = r[(m + 1) + i]
  BY <1>2, CutElements
<1>6. /\ Append(u, e) \in Seq(Event) /\ Len(Append(u, e)) = m + 1
      /\ \A i \in 1 .. m + 1 : Append(u, e)[i] = IF i = m + 1 THEN e ELSE u[i]
      /\ Append(o, e) \in Seq(Event) /\ Len(Append(o, e)) = Len(q) - m + 1
      /\ \A i \in 1 .. Len(q) - m + 1 :
           Append(o, e)[i] = IF i = Len(q) - m + 1 THEN e ELSE o[i]
  <2> HIDE DEF u, o
  <2>1. /\ Append(u, e) \in Seq(Event) /\ Len(Append(u, e)) = m + 1
        /\ \A i \in 1 .. m + 1 : Append(u, e)[i] = IF i = m + 1 THEN e ELSE u[i]
    BY <1>3, AppendElements
  <2>2. /\ Append(o, e) \in Seq(Event) /\ Len(Append(o, e)) = Len(q) - m + 1
        /\ \A i \in 1 .. Len(q) - m + 1 :
             Append(o, e)[i] = IF i = Len(q) - m + 1 THEN e ELSE o[i]
    <3>1. /\ Append(o, e) \in Seq(Event) /\ Len(Append(o, e)) = Len(o) + 1
          /\ \A i \in 1 .. Len(o) + 1 :
               Append(o, e)[i] = IF i = Len(o) + 1 THEN e ELSE o[i]
      <4>1. o \in Seq(Event)
        BY <1>3
      <4> QED
        BY <4>1, AppendElements
    <3>2. Len(o) = Len(q) - m
      BY <1>3
    <3> QED
      BY <3>1, <3>2
  <2> QED
    BY <2>1, <2>2
<1>7. /\ <<e>> \o u \in Seq(Event) /\ Len(<<e>> \o u) = m + 1
      /\ \A i \in 1 .. m + 1 : (<<e>> \o u)[i] = IF i = 1 THEN e ELSE u[i - 1]
      /\ <<e>> \o o \in Seq(Event) /\ Len(<<e>> \o o) = Len(q) - m + 1
      /\ \A i \in 1 .. Len(q) - m + 1 :
           (<<e>> \o o)[i] = IF i = 1 THEN e ELSE o[i - 1]
  <2> HIDE DEF u, o
  <2>1. <<e>> \in Seq(Event) /\ Len(<<e>>) = 1 /\ <<e>>[1] = e
    OBVIOUS
  <2>2. ASSUME NEW s \in Seq(Event)
        PROVE  /\ <<e>> \o s \in Seq(Event) /\ Len(<<e>> \o s) = Len(s) + 1
               /\ \A i \in 1 .. Len(s) + 1 :
                    (<<e>> \o s)[i] = IF i = 1 THEN e ELSE s[i - 1]
    <3>1. Len(s) \in Nat
      BY LenProperties
    <3>2. /\ <<e>> \o s \in Seq(Event)
          /\ Len(<<e>> \o s) = Len(<<e>>) + Len(s)
          /\ \A i \in 1 .. Len(<<e>>) + Len(s) : (<<e>> \o s)[i] =
               IF i <= Len(<<e>>) THEN <<e>>[i] ELSE s[i - Len(<<e>>)]
      BY <2>1, ConcatProperties
    <3> QED
      BY <2>1, <3>1, <3>2
  <2> QED
    BY <1>1, <1>3, <2>2
<1>8. \A j \in 1 .. Len(q) + 1 :
        r[j] = IF j < k THEN q[j] ELSE IF j = k THEN e ELSE q[j - 1]
  BY DEF IsInsertion
<1> HIDE DEF u, o, u0, o0, u1, o1
<1>9. ASSUME k > m PROVE u0 = u
  <2>1. \A i \in 1 .. m : u0[i] = u[i]
    BY <1>1, <1>3, <1>4, <1>8, <1>9
  <2> QED
    BY <1>3, <1>4, <2>1, SeqEqual
<1>10. ASSUME k = Len(q) + 1 PROVE o0 = Append(o, e)
  <2>1. ASSUME NEW i \in 1 .. Len(q) - m + 1 PROVE o0[i] = Append(o, e)[i]
    <3>1. o0[i] = r[m + i] /\ m + i \in 1 .. Len(q) + 1
      BY <1>1, <1>4
    <3>2. CASE i = Len(q) - m + 1
      <4>1. m + i = k
        BY <1>1, <1>10, <3>2
      <4> QED
        BY <1>1, <1>6, <1>8, <3>1, <3>2, <4>1
    <3>3. CASE i # Len(q) - m + 1
      <4>1. i \in 1 .. Len(q) - m /\ m + i < k
        BY <1>1, <1>10, <3>3
      <4>2. r[m + i] = q[m + i]
        BY <1>8, <3>1, <4>1
      <4> QED
        BY <1>3, <1>6, <3>1, <3>3, <4>1, <4>2
    <3> QED
      BY <3>2, <3>3
  <2>2. Len(o0) = Len(q) - m + 1
    BY <1>1, <1>4
  <2> QED
    <3> DEFINE oa == Append(o, e)
    <3>1. oa \in Seq(Event) /\ Len(oa) = Len(o0) /\ \A i \in 1 .. Len(o0) : o0[i] = oa[i]
      BY <1>4, <1>6, <2>1, <2>2
    <3> HIDE DEF oa
    <3>2. o0 = oa
      BY <1>4, <3>1, SeqEqual
    <3> QED
      BY <3>2 DEF oa
<1>11. ASSUME k = m + 1 PROVE u1 = Append(u, e)
  <2>1. ASSUME NEW i \in 1 .. m + 1 PROVE u1[i] = Append(u, e)[i]
    BY <1>1, <1>3, <1>5, <1>6, <1>8, <1>11
  <2> DEFINE ua == Append(u, e)
  <2>2. ua \in Seq(Event) /\ Len(ua) = Len(u1) /\ \A i \in 1 .. Len(u1) : u1[i] = ua[i]
    BY <1>5, <1>6, <2>1
  <2> HIDE DEF ua
  <2>3. u1 = ua
    BY <1>5, <2>2, SeqEqual
  <2> QED
    BY <2>3 DEF ua
<1>12. ASSUME k <= m + 1 PROVE o1 = o
  <2>1. ASSUME NEW i \in 1 .. Len(q) - m PROVE o1[i] = o[i]
    <3>1. o1[i] = r[(m + 1) + i] /\ (m + 1) + i \in 1 .. Len(q) + 1 /\ (m + 1) + i > k
      BY <1>1, <1>5, <1>12
    <3>2. r[(m + 1) + i] = q[(m + 1) + i - 1] /\ (m + 1) + i - 1 = m + i
      BY <1>1, <1>8, <3>1
    <3> QED
      BY <1>3, <3>1, <3>2
  <2>2. Len(o1) = Len(o) /\ Len(o) = Len(q) - m
    BY <1>1, <1>3, <1>5
  <2> QED
    BY <1>3, <1>5, <2>1, <2>2, SeqEqual
<1>13. ASSUME k = 1 PROVE u1 = <<e>> \o u
  <2>1. ASSUME NEW i \in 1 .. m + 1 PROVE u1[i] = (<<e>> \o u)[i]
    BY <1>1, <1>3, <1>5, <1>7, <1>8, <1>13
  <2> QED
    <3> DEFINE eu == <<e>> \o u
    <3>1. eu \in Seq(Event) /\ Len(eu) = Len(u1) /\ \A i \in 1 .. Len(u1) : u1[i] = eu[i]
      BY <1>5, <1>7, <2>1
    <3> HIDE DEF eu
    <3>2. u1 = eu
      BY <1>5, <3>1, SeqEqual
    <3> QED
      BY <3>2 DEF eu
<1>14. ASSUME k = 1, m = 0 PROVE o0 = <<e>> \o o
  <2>1. ASSUME NEW i \in 1 .. Len(q) - m + 1 PROVE o0[i] = (<<e>> \o o)[i]
    <3>1. o0[i] = r[i] /\ i \in 1 .. Len(q) + 1
      BY <1>1, <1>4, <1>14
    <3>2. CASE i = 1
      BY <1>7, <1>8, <1>14, <3>1, <3>2
    <3>3. CASE i # 1
      <4>1. i - 1 \in 1 .. Len(q) - m /\ m + (i - 1) = i - 1
        BY <1>1, <1>14, <3>3
      <4>2. o[i - 1] = q[i - 1]
        BY <1>3, <4>1
      <4> QED
        BY <1>1, <1>7, <1>8, <1>14, <3>1, <3>3, <4>2
    <3> QED
      BY <3>2, <3>3
  <2>2. Len(o0) = Len(q) - m + 1
    BY <1>1, <1>4
  <2> QED
    <3> DEFINE eo == <<e>> \o o
    <3>1. eo \in Seq(Event) /\ Len(eo) = Len(q) - m + 1
      BY <1>7
    <3>2. \A i \in 1 .. Len(o0) : o0[i] = eo[i]
      BY <2>1, <2>2
    <3>3. Len(o0) = Len(eo)
      BY <2>2, <3>1
    <3> HIDE DEF eo
    <3>4. o0 = eo
      BY <1>4, <3>1, <3>2, <3>3, SeqEqual
    <3> QED
      BY <3>4 DEF eo
<1>15. 1 <= m + 1 /\ m + 1 <= m + 1
  BY <1>1
<1>16. k > m => SubSeq(r, 1, m) = SubSeq(q, 1, m)
  BY <1>9 DEF u, u0
<1>17. k = Len(q) + 1 =>
         SubSeq(r, m + 1, Len(r)) = Append(SubSeq(q, m + 1, Len(q)), e)
  BY <1>10 DEF o, o0
<1>18. k = m + 1 =>
         /\ SubSeq(r, 1, m + 1) = Append(SubSeq(q, 1, m), e)
         /\ SubSeq(r, (m + 1) + 1, Len(r)) = SubSeq(q, m + 1, Len(q))
  BY <1>11, <1>12, <1>15 DEF u, u1, o, o1
<1>19. k = 1 =>
         /\ SubSeq(r, 1, m + 1) = <<e>> \o SubSeq(q, 1, m)
         /\ SubSeq(r, (m + 1) + 1, Len(r)) = SubSeq(q, m + 1, Len(q))
  BY <1>12, <1>13, <1>15 DEF u, u1, o, o1
<1>20. k = 1 /\ m = 0 =>
         SubSeq(r, m + 1, Len(r)) = <<e>> \o SubSeq(q, m + 1, Len(q))
  BY <1>14 DEF o, o0
<1> QED
  BY <1>16, <1>17, <1>18, <1>19, <1>20

\* A removal before the cut changes the first part, one behind it the second.
LEMMA CutOfRemoval ==
    ASSUME NEW q \in Seq(Event), NEW r \in Seq(Event),
           NEW m \in 0 .. Len(q), NEW k \in 1 .. Len(q), IsRemoval(r, q, k)
    PROVE  /\ k <= m =>
                /\ SubSeq(r, 1, m - 1) = RemoveAt(SubSeq(q, 1, m), k)
                /\ SubSeq(r, (m - 1) + 1, Len(r)) = SubSeq(q, m + 1, Len(q))
           /\ k > m =>
                /\ SubSeq(r, 1, m) = SubSeq(q, 1, m)
                /\ SubSeq(r, m + 1, Len(r)) = RemoveAt(SubSeq(q, m + 1, Len(q)), k - m)
<1> DEFINE u == SubSeq(q, 1, m)
           o == SubSeq(q, m + 1, Len(q))
<1>1. Len(q) \in Nat /\ Len(r) = Len(q) - 1
  BY LenProperties DEF IsRemoval
<1>2. /\ u \in Seq(Event) /\ Len(u) = m /\ \A i \in 1 .. m : u[i] = q[i]
      /\ o \in Seq(Event) /\ Len(o) = Len(q) - m
      /\ \A i \in 1 .. Len(q) - m : o[i] = q[m + i]
  BY CutElements
<1>3. \A j \in 1 .. Len(q) - 1 : r[j] = IF j < k THEN q[j] ELSE q[j + 1]
  BY DEF IsRemoval
<1> HIDE DEF u, o
<1>4. ASSUME k <= m
      PROVE  SubSeq(r, 1, m - 1) = RemoveAt(u, k) /\ SubSeq(r, (m - 1) + 1, Len(r)) = o
  <2> DEFINE u1 == SubSeq(r, 1, m - 1)
             o1 == SubSeq(r, (m - 1) + 1, Len(r))
             ru == RemoveAt(u, k)
  <2>1. m - 1 \in 0 .. Len(r) /\ k \in 1 .. Len(u)
    BY <1>1, <1>2, <1>4
  <2>2. /\ u1 \in Seq(Event) /\ Len(u1) = m - 1 /\ \A i \in 1 .. m - 1 : u1[i] = r[i]
        /\ o1 \in Seq(Event) /\ Len(o1) = Len(r) - (m - 1)
        /\ \A i \in 1 .. Len(r) - (m - 1) : o1[i] = r[(m - 1) + i]
    BY <2>1, CutElements
  <2>3. /\ ru \in Seq(Event) /\ Len(ru) = m - 1
        /\ \A i \in 1 .. m - 1 : ru[i] = IF i < k THEN u[i] ELSE u[i + 1]
    BY <1>2, <2>1, RemoveAtElements DEF IsRemoval
  <2> HIDE DEF u1, o1, ru
  <2>4. ASSUME NEW i \in 1 .. m - 1 PROVE u1[i] = ru[i]
    <3>1. i \in 1 .. Len(q) - 1 /\ i \in 1 .. m /\ i + 1 \in 1 .. m
      BY <1>1
    <3> QED
      BY <1>2, <1>3, <2>2, <2>3, <3>1
  <2>5. u1 = ru
    BY <2>2, <2>3, <2>4, SeqEqual
  <2>6. ASSUME NEW i \in 1 .. Len(q) - m PROVE o1[i] = o[i]
    <3>1. o1[i] = r[(m - 1) + i] /\ (m - 1) + i \in 1 .. Len(q) - 1 /\ ~ ((m - 1) + i < k)
      BY <1>1, <1>4, <2>2
    <3>2. r[(m - 1) + i] = q[(m - 1) + i + 1] /\ (m - 1) + i + 1 = m + i
      BY <1>1, <1>3, <3>1
    <3> QED
      BY <1>2, <3>1, <3>2
  <2>7. Len(o1) = Len(o) /\ Len(o) = Len(q) - m
    BY <1>1, <1>2, <2>2
  <2>8. o1 = o
    BY <1>2, <2>2, <2>6, <2>7, SeqEqual
  <2> QED
    BY <2>5, <2>8 DEF u1, o1, ru
<1>5. ASSUME k > m
      PROVE  SubSeq(r, 1, m) = u /\ SubSeq(r, m + 1, Len(r)) = RemoveAt(o, k - m)
  <2> DEFINE u1 == SubSeq(r, 1, m)
             o1 == SubSeq(r, m + 1, Len(r))
             ro == RemoveAt(o, k - m)
  <2>1. m \in 0 .. Len(r) /\ k - m \in 1 .. Len(o)
    BY <1>1, <1>2, <1>5
  <2>2. /\ u1 \in Seq(Event) /\ Len(u1) = m /\ \A i \in 1 .. m : u1[i] = r[i]
        /\ o1 \in Seq(Event) /\ Len(o1) = Len(r) - m
        /\ \A i \in 1 .. Len(r) - m : o1[i] = r[m + i]
    BY <2>1, CutElements
  <2>3. /\ ro \in Seq(Event) /\ Len(ro) = Len(q) - m - 1
        /\ \A i \in 1 .. Len(q) - m - 1 : ro[i] = IF i < k - m THEN o[i] ELSE o[i + 1]
    <3>1. ro \in Seq(Event) /\ IsRemoval(ro, o, k - m)
      BY <1>2, <2>1, RemoveAtElements
    <3> QED
      BY <1>2, <3>1 DEF IsRemoval
  <2> HIDE DEF u1, o1, ro
  <2>4. ASSUME NEW i \in 1 .. m PROVE u1[i] = u[i]
    <3>1. i < k /\ i \in 1 .. Len(q) - 1
      BY <1>1, <1>5
    <3> QED
      BY <1>2, <1>3, <2>2, <3>1
  <2>5. u1 = u
    BY <1>2, <2>2, <2>4, SeqEqual
  <2>6. ASSUME NEW i \in 1 .. Len(q) - m - 1 PROVE o1[i] = ro[i]
    <3>1. o1[i] = r[m + i] /\ m + i \in 1 .. Len(q) - 1
      BY <1>1, <2>2
    <3>2. CASE i < k - m
      <4>1. r[m + i] = q[m + i] /\ i \in 1 .. Len(q) - m
        BY <1>1, <1>3, <3>1, <3>2
      <4> QED
        BY <1>2, <2>3, <3>1, <3>2, <4>1
    <3>3. CASE ~ (i < k - m)
      <4>1. ~ (m + i < k) /\ i + 1 \in 1 .. Len(q) - m /\ m + i + 1 = m + (i + 1)
        BY <1>1, <3>3
      <4>2. r[m + i] = q[m + (i + 1)]
        BY <1>3, <3>1, <4>1
      <4>3. o[i + 1] = q[m + (i + 1)]
        BY <1>2, <4>1
      <4> QED
        BY <2>3, <3>1, <3>3, <4>2, <4>3
    <3> QED
      BY <3>2, <3>3
  <2>7. Len(o1) = Len(ro) /\ Len(ro) = Len(q) - m - 1
    BY <1>1, <2>2, <2>3
  <2>8. o1 = ro
    BY <2>2, <2>3, <2>6, <2>7, SeqEqual
  <2> QED
    BY <2>5, <2>8 DEF u1, o1, ro
<1> QED
  BY <1>4, <1>5 DEF u, o

-----------------------------------------------------------------------------
\* The operations on the pointers as operations on the two parts.

LEMMA QueueEventRefines ==
    ASSUME Inductive, Inductive', NEW e \in Event, NEW p \in Position,
           QueueEvent(e, p), MarkerIndexed, MarkerIndexed'
    PROVE  Order!Next
<1> DEFINE m == MarkerIndex
           n == MarkerIndex'
<1>1. PICK k \in 1 .. Len(queue) + 1 :
        /\ Inserted(e, k)
        /\ \/ p = "TCL_QUEUE_TAIL" /\ k = Len(queue) + 1 /\ marker' = marker
           \/ p = "TCL_QUEUE_HEAD" /\ k = 1 /\ marker' = marker
           \/ /\ p = "TCL_QUEUE_MARK" /\ marker' = e
              /\ IF marker = NULL THEN k = 1 ELSE k > 1 /\ queue[k - 1] = marker
  BY QueueEventEffect
<1>2. /\ queue \in Seq(Event) /\ queue' \in Seq(Event)
      /\ IsInsertion(queue', queue, k, e)
      /\ m \in 0 .. Len(queue) /\ Len(queue) \in Nat
  BY <1>1 DEF Inserted, Inductive, TypeOK, MarkerIndexed
<1>3. /\ DOMAIN queue = 1 .. Len(queue)
      /\ DOMAIN queue' = 1 .. Len(queue) + 1
      /\ queue'[k] = e
      /\ \A i \in DOMAIN queue' : i < k => queue'[i] = queue[i]
      /\ \A i \in DOMAIN queue' : i > k => queue'[i] = queue[i - 1]
  BY <1>2, LenProperties DEF IsInsertion
<1>4. \A i, j \in DOMAIN queue' : queue'[i] = queue'[j] => i = j
  BY DEF Inductive, PointersValid
<1>5. /\ marker' = NULL <=> n = 0
      /\ marker' # NULL => queue'[n] = marker' /\ n \in DOMAIN queue'
      /\ n \in 0 .. Len(queue) + 1
      /\ marker = NULL <=> m = 0
      /\ marker # NULL => queue[m] = marker
  BY <1>2, <1>3 DEF MarkerIndexed, IsInsertion
<1>6. /\ k > m => SubSeq(queue', 1, m) = SubSeq(queue, 1, m)
      /\ k = Len(queue) + 1 =>
           SubSeq(queue', m + 1, Len(queue')) =
             Append(SubSeq(queue, m + 1, Len(queue)), e)
      /\ k = m + 1 =>
           /\ SubSeq(queue', 1, m + 1) = Append(SubSeq(queue, 1, m), e)
           /\ SubSeq(queue', (m + 1) + 1, Len(queue')) =
                SubSeq(queue, m + 1, Len(queue))
      /\ k = 1 =>
           /\ SubSeq(queue', 1, m + 1) = <<e>> \o SubSeq(queue, 1, m)
           /\ SubSeq(queue', (m + 1) + 1, Len(queue')) =
                SubSeq(queue, m + 1, Len(queue))
      /\ k = 1 /\ m = 0 =>
           SubSeq(queue', m + 1, Len(queue')) =
             <<e>> \o SubSeq(queue, m + 1, Len(queue))
  <2> HIDE DEF m
  <2> QED
    BY <1>2, CutOfInsertion
<1>7. /\ UrgentPart = SubSeq(queue, 1, m)
      /\ OrdinaryPart = SubSeq(queue, m + 1, Len(queue))
      /\ UrgentPart' = SubSeq(queue', 1, n)
      /\ OrdinaryPart' = SubSeq(queue', n + 1, Len(queue'))
  BY DEF UrgentPart, OrdinaryPart
<1>8. UrgentPart = <<>> <=> m = 0
  <2>1. Len(UrgentPart) = m /\ UrgentPart \in Seq(Event)
    BY <1>2, <1>7, CutElements
  <2> QED
    BY <2>1, EmptySeq
<1> HIDE DEF m, n
<1>9. CASE p = "TCL_QUEUE_TAIL"
  <2>1. k = Len(queue) + 1 /\ marker' = marker
    BY <1>1, <1>9
  <2>2. n = m
    <3>1. CASE marker = NULL
      BY <1>5, <2>1, <3>1
    <3>2. CASE marker # NULL
      <4>1. m \in DOMAIN queue' /\ m < k /\ queue'[m] = marker'
        BY <1>2, <1>3, <1>5, <2>1, <3>2
      <4> QED
        BY <1>4, <1>5, <2>1, <3>2, <4>1
    <3> QED
      BY <3>1, <3>2
  <2>3. k > m
    BY <1>2, <2>1
  <2>4. Order!PutAtTail(e)
    BY <1>6, <1>7, <2>1, <2>2, <2>3 DEF Order!PutAtTail
  <2> QED
    BY <2>4 DEF Order!Next
<1>10. CASE p = "TCL_QUEUE_HEAD"
  <2>1. k = 1 /\ marker' = marker
    BY <1>1, <1>10
  <2>2. CASE marker = NULL
    <3>1. m = 0 /\ n = 0
      BY <1>5, <2>1, <2>2
    <3>2. UrgentPart' = UrgentPart /\ OrdinaryPart' = <<e>> \o OrdinaryPart
      BY <1>6, <1>7, <2>1, <3>1
    <3>3. Order!PutAtHead(e)
      BY <1>8, <3>1, <3>2 DEF Order!PutAtHead
    <3> QED
      BY <3>3 DEF Order!Next
  <2>3. CASE marker # NULL
    <3>1. m + 1 \in DOMAIN queue' /\ m + 1 > k /\ (m + 1) - 1 = m /\ m # 0
      BY <1>2, <1>3, <1>5, <2>1, <2>3
    <3>2. queue'[m + 1] = marker'
      BY <1>3, <1>5, <2>1, <2>3, <3>1
    <3>3. n = m + 1
      BY <1>4, <1>5, <2>1, <2>3, <3>1, <3>2
    <3>4. UrgentPart' = <<e>> \o UrgentPart /\ OrdinaryPart' = OrdinaryPart
      BY <1>6, <1>7, <2>1, <3>3
    <3>5. Order!PutAtHead(e)
      BY <1>8, <3>1, <3>4 DEF Order!PutAtHead
    <3> QED
      BY <3>5 DEF Order!Next
  <2> QED
    BY <2>2, <2>3
<1>11. CASE p = "TCL_QUEUE_MARK"
  <2>1. marker' = e /\ IF marker = NULL THEN k = 1 ELSE k > 1 /\ queue[k - 1] = marker
    BY <1>1, <1>11
  <2>2. k = m + 1
    <3>1. CASE marker = NULL
      BY <1>5, <2>1, <3>1
    <3>2. CASE marker # NULL
      <4>1. k > 1 /\ queue[k - 1] = marker /\ k - 1 \in DOMAIN queue /\ m \in DOMAIN queue
        BY <1>2, <1>3, <1>5, <2>1, <3>2
      <4>2. k - 1 = m
        BY <1>5, <3>2, <4>1 DEF Inductive, PointersValid
      <4> QED
        BY <1>2, <4>2
    <3> QED
      BY <3>1, <3>2
  <2>3. n = m + 1
    <3>1. e # NULL /\ k \in DOMAIN queue'
      BY <1>2, <1>3, NULLAssumption
    <3> QED
      BY <1>3, <1>4, <1>5, <2>1, <2>2, <3>1
  <2>4. Order!PutAtMark(e)
    BY <1>6, <1>7, <2>2, <2>3 DEF Order!PutAtMark
  <2> QED
    BY <2>4 DEF Order!Next
<1> QED
  BY <1>9, <1>10, <1>11 DEF Position

LEMMA UnlinkRefines ==
    ASSUME Inductive, Inductive', NEW e \in Event, InQueue(e), Unlink(e),
           MarkerIndexed, MarkerIndexed'
    PROVE  Order!Next
<1> DEFINE m == MarkerIndex
           n == MarkerIndex'
<1>1. PICK k \in 1 .. Len(queue) :
        /\ Removed(e, k)
        /\ marker' = IF marker = e THEN Previous(k) ELSE marker
  BY UnlinkEffect DEF Inductive
<1>2. /\ queue \in Seq(Event) /\ queue' \in Seq(Event)
      /\ IsRemoval(queue', queue, k)
      /\ m \in 0 .. Len(queue) /\ Len(queue) \in Nat
      /\ queue[k] = e /\ e # NULL
  BY <1>1, NULLAssumption DEF Removed, Inductive, TypeOK, MarkerIndexed
<1>3. /\ DOMAIN queue = 1 .. Len(queue)
      /\ DOMAIN queue' = 1 .. Len(queue) - 1
      /\ \A i \in DOMAIN queue' : i < k => queue'[i] = queue[i]
      /\ \A i \in DOMAIN queue' : ~ (i < k) => queue'[i] = queue[i + 1]
  BY <1>2, LenProperties DEF IsRemoval
<1>4. /\ \A i, j \in DOMAIN queue' : queue'[i] = queue'[j] => i = j
      /\ \A i, j \in DOMAIN queue : queue[i] = queue[j] => i = j
  BY DEF Inductive, PointersValid
<1>5. /\ marker' = NULL <=> n = 0
      /\ marker' # NULL => queue'[n] = marker' /\ n \in DOMAIN queue'
      /\ n \in 0 .. Len(queue) - 1
      /\ marker = NULL <=> m = 0
      /\ marker # NULL => queue[m] = marker /\ m \in DOMAIN queue
  BY <1>2, <1>3 DEF MarkerIndexed, IsRemoval
<1>6. /\ k <= m =>
           /\ SubSeq(queue', 1, m - 1) = RemoveAt(SubSeq(queue, 1, m), k)
           /\ SubSeq(queue', (m - 1) + 1, Len(queue')) =
                SubSeq(queue, m + 1, Len(queue))
      /\ k > m =>
           /\ SubSeq(queue', 1, m) = SubSeq(queue, 1, m)
           /\ SubSeq(queue', m + 1, Len(queue')) =
                RemoveAt(SubSeq(queue, m + 1, Len(queue)), k - m)
  <2> HIDE DEF m
  <2> QED
    BY <1>2, CutOfRemoval
<1>7. /\ UrgentPart = SubSeq(queue, 1, m)
      /\ OrdinaryPart = SubSeq(queue, m + 1, Len(queue))
      /\ UrgentPart' = SubSeq(queue', 1, n)
      /\ OrdinaryPart' = SubSeq(queue', n + 1, Len(queue'))
  BY DEF UrgentPart, OrdinaryPart
<1> HIDE DEF m
<1>8. /\ DOMAIN UrgentPart = 1 .. m
      /\ DOMAIN OrdinaryPart = 1 .. Len(queue) - m
  BY <1>2, <1>7, CutElements, LenProperties
<1> HIDE DEF n
<1>9. CASE k <= m
  <2>1. m \in DOMAIN queue /\ marker # NULL /\ queue[m] = marker
    BY <1>2, <1>5, <1>9
  <2>2. n = m - 1
    <3>1. CASE k = m
      <4>1. marker' = Previous(k)
        BY <1>1, <1>2, <2>1, <3>1
      <4>2. CASE k = 1
        BY <1>5, <3>1, <4>1, <4>2 DEF Previous
      <4>3. CASE k # 1
        <5>1. k - 1 \in DOMAIN queue' /\ k - 1 < k
          BY <1>2, <1>3, <4>3
        <5>2. queue[k - 1] \in Event /\ marker' = queue[k - 1]
          BY <1>2, <1>3, <4>1, <4>3, ElementOfSeq DEF Previous
        <5>3. queue'[k - 1] = marker' /\ marker' # NULL
          BY <1>3, <5>1, <5>2, NULLAssumption
        <5> QED
          BY <1>4, <1>5, <3>1, <5>1, <5>3
      <4> QED
        BY <4>2, <4>3
    <3>2. CASE k # m
      <4>1. marker # e
        BY <1>2, <1>3, <1>4, <2>1, <3>2
      <4>2. m - 1 \in DOMAIN queue' /\ ~ (m - 1 < k) /\ (m - 1) + 1 = m
        BY <1>2, <1>3, <1>9, <3>2
      <4>3. marker' = marker /\ queue'[m - 1] = marker
        BY <1>1, <1>3, <2>1, <4>1, <4>2
      <4> QED
        BY <1>4, <1>5, <2>1, <4>2, <4>3
    <3> QED
      BY <3>1, <3>2
  <2>3. Order!TakeUrgent(k)
    BY <1>6, <1>7, <1>9, <2>2 DEF Order!TakeUrgent, RemoveAt, Order!RemoveAt
  <2>4. k \in DOMAIN UrgentPart
    BY <1>2, <1>8, <1>9
  <2> QED
    BY <2>3, <2>4 DEF Order!Next
<1>10. CASE k > m
  <2>1. marker # e
    BY <1>2, <1>3, <1>4, <1>5, <1>10
  <2>2. marker' = marker
    BY <1>1, <2>1
  <2>3. n = m
    <3>1. CASE marker = NULL
      BY <1>5, <2>2, <3>1
    <3>2. CASE marker # NULL
      <4>1. m \in DOMAIN queue' /\ m < k
        BY <1>2, <1>3, <1>5, <1>10, <3>2
      <4>2. queue'[m] = marker'
        BY <1>3, <1>5, <2>2, <3>2, <4>1
      <4> QED
        BY <1>4, <1>5, <2>2, <3>2, <4>1, <4>2
    <3> QED
      BY <3>1, <3>2
  <2>4. Order!TakeOrdinary(k - m)
    BY <1>6, <1>7, <1>10, <2>3 DEF Order!TakeOrdinary, RemoveAt, Order!RemoveAt
  <2>5. k - m \in DOMAIN OrdinaryPart
    BY <1>2, <1>8, <1>10
  <2> QED
    BY <2>4, <2>5 DEF Order!Next
<1>11. k <= m \/ k > m
  BY <1>2
<1> QED
  BY <1>9, <1>10, <1>11

\* A step that leaves the list and the marker alone is a stutter.
LEMMA ListStutters ==
    ASSUME UNCHANGED <<queue, marker>>
    PROVE  UNCHANGED <<UrgentPart, OrdinaryPart>>
  BY DEF UrgentPart, OrdinaryPart, MarkerIndex, Index

-----------------------------------------------------------------------------
\* The list with its pointers implements the two-part order, for every set of
\* events and every nesting of service calls.
THEOREM Refinement == Spec => RefinesEventOrder
<1>1. Init => Order!Init
  <2> SUFFICES ASSUME Init PROVE Order!Init
    OBVIOUS
  <2>1. queue = <<>> /\ MarkerIndex = 0 /\ Len(queue) = 0
    BY EmptySeq DEF Init, MarkerIndex
  <2>2. UrgentPart = <<>> /\ OrdinaryPart = <<>>
    BY <2>1, SubSeqEmpty DEF UrgentPart, OrdinaryPart
  <2> QED
    BY <2>2 DEF Order!Init
<1>2. ASSUME Inductive, Inductive', MarkerIndexed, MarkerIndexed', [Next]_vars
      PROVE  [Order!Next]_<<UrgentPart, OrdinaryPart>>
  <2>1. CASE \E e \in Event, p \in Position : QueueEvent(e, p)
    BY <1>2, <2>1, QueueEventRefines
  <2>2. CASE \E e \in Event : DeleteEvents(e)
    BY <1>2, <2>2, UnlinkRefines DEF DeleteEvents
  <2>3. CASE \E e \in Event : ServiceEvent(e)
    BY <2>3, ListStutters DEF ServiceEvent
  <2>4. CASE \E e \in Event : HandlerReturns1(e)
    <3>1. PICK e \in Event : HandlerReturns1(e)
      BY <2>4
    <3>2. CASE \E f \in Event : LiesAt(f, e) /\ Unlink(f)
      BY <1>2, <3>2, UnlinkRefines DEF LiesAt
    <3>3. CASE UNCHANGED <<queue, last, marker>>
      BY <3>3, ListStutters
    <3> QED
      BY <3>1, <3>2, <3>3 DEF HandlerReturns1
  <2>5. CASE \E e \in Event : HandlerReturns0(e)
    BY <2>5, ListStutters DEF HandlerReturns0
  <2>6. CASE \E depth \in 0 .. Len(frames) : Unwind(depth)
    BY <2>6, ListStutters DEF Unwind
  <2>7. CASE UNCHANGED vars
    BY <2>7, ListStutters DEF vars
  <2> QED
    BY <1>2, <2>1, <2>2, <2>3, <2>4, <2>5, <2>6, <2>7 DEF Next
<1>3. Inductive => MarkerIndexed
  BY MarkerIndexValue
<1> QED
  BY <1>1, <1>2, <1>3, InductiveInvariant, PTL DEF Spec, RefinesEventOrder, Order!Spec
=============================================================================
