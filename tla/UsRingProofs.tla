---------------------------- MODULE UsRingProofs ----------------------------
(***************************************************************************)
(* For every capacity and every set of consumers: the indices of a ring    *)
(* are conserved, the assert() of _release() never fires, no item is       *)
(* written while somebody reads it, and the ring implements a bounded      *)
(* FIFO of contents.                                                       *)
(***************************************************************************)
EXTENDS UsRing, SequenceTheorems, FiniteSetTheorems, TLAPS

\* What us_queue_get() leaves in a queue, element by element.
LEMMA TailElements ==
    ASSUME NEW q \in Seq(Slots), q # <<>>
    PROVE  /\ Tail(q) \in Seq(Slots)
           /\ Len(q) \in Nat \ {0}
           /\ Len(Tail(q)) = Len(q) - 1
           /\ \A i \in 1 .. Len(q) - 1 : Tail(q)[i] = q[i + 1]
           /\ Head(q) = q[1]
           /\ Head(q) \in Slots
  BY HeadTailProperties, EmptySeq

\* Taking the head out of a queue takes nothing else out.
LEMMA TailLosesHeadOnly ==
    ASSUME NEW q \in Seq(Slots), q # <<>>, NEW i \in 1 .. Len(q), q[i] # Head(q)
    PROVE  \E j \in 1 .. Len(Tail(q)) : Tail(q)[j] = q[i]
<1>1. i - 1 \in 1 .. Len(q) - 1 /\ (i - 1) + 1 = i
  BY TailElements
<1>2. Tail(q)[i - 1] = q[i] /\ i - 1 \in 1 .. Len(Tail(q))
  BY <1>1, TailElements
<1> QED
  BY <1>2

\* What us_queue_put() leaves in a queue, element by element.
LEMMA AppendElements ==
    ASSUME NEW q \in Seq(Slots), NEW s \in Slots
    PROVE  /\ Append(q, s) \in Seq(Slots)
           /\ Len(q) \in Nat
           /\ Len(Append(q, s)) = Len(q) + 1
           /\ \A i \in 1 .. Len(q) : Append(q, s)[i] = q[i]
           /\ Append(q, s)[Len(q) + 1] = s
  BY AppendProperties, LenProperties

\* The indices stay in range and a thread is always in one of its states.
THEOREM TypeCorrect == Spec => []TypeOK
<1>1. Init => TypeOK
  BY CapacityAssumption, ThreadsAssumption
     DEF Init, TypeOK, Slots, States, Threads
<1>2. TypeOK /\ [Next]_vars => TypeOK'
  <2> SUFFICES ASSUME TypeOK, [Next]_vars PROVE TypeOK'
    OBVIOUS
  <2> USE ThreadsAssumption DEF TypeOK, States, Threads
  <2>1. ASSUME NEW p \in Producers, ProducerAcquire(p) PROVE TypeOK'
    BY <2>1, TailElements DEF ProducerAcquire
  <2>2. ASSUME NEW p \in Producers, BeginWrite(p) PROVE TypeOK'
    BY <2>2 DEF BeginWrite
  <2>3. ASSUME NEW p \in Producers, NEW v \in Values, EndWrite(p, v) PROVE TypeOK'
    BY <2>3 DEF EndWrite
  <2>4. ASSUME NEW p \in Producers, ProducerRelease(p) PROVE TypeOK'
    BY <2>4, AppendElements DEF ProducerRelease
  <2>5. ASSUME NEW p \in Producers, EndReread(p) PROVE TypeOK'
    BY <2>5 DEF EndReread
  <2>6. ASSUME NEW c \in Consumers, ConsumerAcquire(c) PROVE TypeOK'
    BY <2>6, TailElements DEF ConsumerAcquire
  <2>7. ASSUME NEW c \in Consumers, ConsumerRelease(c) PROVE TypeOK'
    BY <2>7, AppendElements DEF ConsumerRelease
  <2>8. CASE UNCHANGED vars
    BY <2>8 DEF vars
  <2> QED
    BY <2>1, <2>2, <2>3, <2>4, <2>5, <2>6, <2>7, <2>8
       DEF Next, ProducerStep, ConsumerStep
<1> QED
  BY <1>1, <1>2, PTL DEF Spec

-----------------------------------------------------------------------------
\* An index that a thread takes out of a queue, or puts into one, is in no
\* other place before and after.
LEMMA SharedStep ==
    ASSUME TypeOK, NoSlotShared, [Next]_vars
    PROVE  NoSlotShared'
<1> USE ThreadsAssumption DEF TypeOK, Owning, Threads
<1>1. ASSUME NEW p \in Producers, ProducerAcquire(p) PROVE NoSlotShared'
  BY <1>1, TailElements DEF ProducerAcquire, NoSlotShared
<1>2. ASSUME NEW p \in Producers, BeginWrite(p) PROVE NoSlotShared'
  BY <1>2 DEF BeginWrite, NoSlotShared
<1>3. ASSUME NEW p \in Producers, NEW v \in Values, EndWrite(p, v) PROVE NoSlotShared'
  BY <1>3 DEF EndWrite, NoSlotShared
<1>4. ASSUME NEW p \in Producers, ProducerRelease(p) PROVE NoSlotShared'
  BY <1>4, AppendElements DEF ProducerRelease, NoSlotShared
<1>5. ASSUME NEW p \in Producers, EndReread(p) PROVE NoSlotShared'
  BY <1>5 DEF EndReread, NoSlotShared
<1>6. ASSUME NEW c \in Consumers, ConsumerAcquire(c) PROVE NoSlotShared'
  BY <1>6, TailElements DEF ConsumerAcquire, NoSlotShared
<1>7. ASSUME NEW c \in Consumers, ConsumerRelease(c) PROVE NoSlotShared'
  BY <1>7, AppendElements DEF ConsumerRelease, NoSlotShared
<1>8. CASE UNCHANGED vars
  BY <1>8 DEF vars, NoSlotShared
<1> QED
  BY <1>1, <1>2, <1>3, <1>4, <1>5, <1>6, <1>7, <1>8
     DEF Next, ProducerStep, ConsumerStep

LEMMA LostStep ==
    ASSUME TypeOK, NoSlotLost, [Next]_vars
    PROVE  NoSlotLost'
<1> USE ThreadsAssumption DEF TypeOK, Owning, Threads
<1>1. ASSUME NEW p \in Producers, ProducerAcquire(p) PROVE NoSlotLost'
  <2> SUFFICES ASSUME NEW s \in Slots, s # Head(producer)
               PROVE  \/ \E i \in 1 .. Len(producer') : producer'[i] = s
                      \/ \E i \in 1 .. Len(consumer') : consumer'[i] = s
                      \/ \E t \in Threads : pc'[t] \in Owning /\ slot'[t] = s
    BY <1>1 DEF ProducerAcquire, NoSlotLost
  <2>1. CASE \E i \in 1 .. Len(producer) : producer[i] = s
    BY <1>1, <2>1, TailLosesHeadOnly DEF ProducerAcquire
  <2>2. CASE ~ \E i \in 1 .. Len(producer) : producer[i] = s
    BY <1>1, <2>2 DEF ProducerAcquire, NoSlotLost
  <2> QED BY <2>1, <2>2
<1>2. ASSUME NEW p \in Producers, BeginWrite(p) PROVE NoSlotLost'
  BY <1>2 DEF BeginWrite, NoSlotLost
<1>3. ASSUME NEW p \in Producers, NEW v \in Values, EndWrite(p, v) PROVE NoSlotLost'
  BY <1>3 DEF EndWrite, NoSlotLost
<1>4. ASSUME NEW p \in Producers, ProducerRelease(p) PROVE NoSlotLost'
  BY <1>4, AppendElements DEF ProducerRelease, NoSlotLost
<1>5. ASSUME NEW p \in Producers, EndReread(p) PROVE NoSlotLost'
  BY <1>5 DEF EndReread, NoSlotLost
<1>6. ASSUME NEW c \in Consumers, ConsumerAcquire(c) PROVE NoSlotLost'
  <2> SUFFICES ASSUME NEW s \in Slots, s # Head(consumer)
               PROVE  \/ \E i \in 1 .. Len(producer') : producer'[i] = s
                      \/ \E i \in 1 .. Len(consumer') : consumer'[i] = s
                      \/ \E t \in Threads : pc'[t] \in Owning /\ slot'[t] = s
    BY <1>6 DEF ConsumerAcquire, NoSlotLost
  <2>1. CASE \E i \in 1 .. Len(consumer) : consumer[i] = s
    BY <1>6, <2>1, TailLosesHeadOnly DEF ConsumerAcquire
  <2>2. CASE ~ \E i \in 1 .. Len(consumer) : consumer[i] = s
    BY <1>6, <2>2 DEF ConsumerAcquire, NoSlotLost
  <2> QED BY <2>1, <2>2
<1>7. ASSUME NEW c \in Consumers, ConsumerRelease(c) PROVE NoSlotLost'
  BY <1>7, AppendElements DEF ConsumerRelease, NoSlotLost
<1>8. CASE UNCHANGED vars
  BY <1>8 DEF vars, NoSlotLost
<1> QED
  BY <1>1, <1>2, <1>3, <1>4, <1>5, <1>6, <1>7, <1>8
     DEF Next, ProducerStep, ConsumerStep

\* Conservation of the indices: never shared, never lost, in any interleaving
\* of the producer with any number of consumers.
THEOREM SlotsConserved == Spec => [](NoSlotShared /\ NoSlotLost)
<1>1. Init => NoSlotShared /\ NoSlotLost
  <2> SUFFICES ASSUME Init PROVE NoSlotShared /\ NoSlotLost
    OBVIOUS
  <2>1. /\ Len(producer) = Capacity /\ Len(consumer) = 0
        /\ \A i \in 1 .. Capacity : producer[i] = i - 1
        /\ \A t \in Threads : pc[t] \notin Owning
    BY CapacityAssumption DEF Init, Owning
  <2>2. NoSlotShared
    BY <2>1, CapacityAssumption DEF NoSlotShared
  <2>3. ASSUME NEW s \in Slots
        PROVE  \E i \in 1 .. Len(producer) : producer[i] = s
    <3>1. s + 1 \in 1 .. Capacity /\ (s + 1) - 1 = s
      BY CapacityAssumption DEF Slots
    <3> QED
      BY <3>1, <2>1
  <2> QED
    BY <2>2, <2>3 DEF NoSlotLost
<1>2. TypeOK /\ NoSlotShared /\ NoSlotLost /\ [Next]_vars
        => NoSlotShared' /\ NoSlotLost'
  BY SharedStep, LostStep
<1> QED
  BY <1>1, <1>2, TypeCorrect, PTL DEF Spec

-----------------------------------------------------------------------------
\* A queue of distinct indices that lacks one of them is not full.
LEMMA RoomForOwnedSlot ==
    ASSUME NEW q \in Seq(Slots), NEW s \in Slots,
           \A i, j \in 1 .. Len(q) : q[i] = q[j] => i = j,
           \A i \in 1 .. Len(q) : q[i] # s
    PROVE  Len(q) < Capacity
<1> DEFINE Others == Slots \ {s}
<1>1. IsFiniteSet(Slots) /\ Cardinality(Slots) = Capacity
  BY FS_Interval, CapacityAssumption DEF Slots
<1>2. IsFiniteSet(Others) /\ Cardinality(Others) = Capacity - 1
  BY <1>1, FS_RemoveElement
<1>3. Len(q) \in Nat /\ q \in [1 .. Len(q) -> Others]
  BY LenProperties
<1>4. q \in Injection(1 .. Len(q), Others)
  BY <1>3 DEF Injection, IsInjective
<1>5. Cardinality(1 .. Len(q)) <= Cardinality(Others)
  BY <1>2, <1>4, FS_Injection
<1>6. Cardinality(1 .. Len(q)) = Len(q)
  BY <1>3, FS_Interval
<1> QED
  BY <1>2, <1>3, <1>5, <1>6, CapacityAssumption

\* The assert() in _release() never fires, whatever the capacity.
THEOREM ReleaseSafe == Spec => []ReleaseNeverFails
<1>1. TypeOK /\ NoSlotShared => ReleaseNeverFails
  <2> SUFFICES ASSUME TypeOK, NoSlotShared PROVE ReleaseNeverFails
    OBVIOUS
  <2>1. ASSUME NEW p \in Producers, pc[p] = "written"
        PROVE  Len(consumer) < Capacity
    BY <2>1, RoomForOwnedSlot DEF TypeOK, NoSlotShared, Owning, Threads
  <2>2. ASSUME NEW c \in Consumers, pc[c] = "reading"
        PROVE  Len(producer) < Capacity
    BY <2>2, RoomForOwnedSlot DEF TypeOK, NoSlotShared, Owning, Threads
  <2> QED
    BY <2>1, <2>2 DEF ReleaseNeverFails
<1> QED
  BY <1>1, TypeCorrect, SlotsConserved, PTL

-----------------------------------------------------------------------------
\* What makes the reads stable: a released item, and the item of a producer
\* about to release, is complete. Together with the ownership of the slots
\* this is inductive.
FilledIsComplete ==
    /\ \A i \in 1 .. Len(consumer) : contents[consumer[i]] \in Values
    /\ \A p \in Producers : pc[p] = "written" => contents[slot[p]] \in Values

ReadInv == ReadsAreStable /\ FilledIsComplete

LEMMA ReadStep ==
    ASSUME TypeOK, NoSlotShared, ReadInv, [Next]_vars
    PROVE  ReadInv'
<1> USE ThreadsAssumption, OneProducer
    DEF TypeOK, Threads, ReadInv, ReadsAreStable, FilledIsComplete
<1>1. ASSUME NEW p \in Producers, ProducerAcquire(p) PROVE ReadInv'
  BY <1>1 DEF ProducerAcquire
<1>2. ASSUME NEW p \in Producers, BeginWrite(p) PROVE ReadInv'
  BY <1>2 DEF BeginWrite, NoSlotShared, Owning
<1>3. ASSUME NEW p \in Producers, NEW v \in Values, EndWrite(p, v) PROVE ReadInv'
  BY <1>3 DEF EndWrite, NoSlotShared, Owning
<1>4. ASSUME NEW p \in Producers, ProducerRelease(p) PROVE ReadInv'
  BY <1>4, AppendElements DEF ProducerRelease
<1>5. ASSUME NEW p \in Producers, EndReread(p) PROVE ReadInv'
  BY <1>5 DEF EndReread
<1>6. ASSUME NEW c \in Consumers, ConsumerAcquire(c) PROVE ReadInv'
  BY <1>6, TailElements DEF ConsumerAcquire
<1>7. ASSUME NEW c \in Consumers, ConsumerRelease(c) PROVE ReadInv'
  BY <1>7 DEF ConsumerRelease
<1>8. CASE UNCHANGED vars
  BY <1>8 DEF vars
<1> QED
  BY <1>1, <1>2, <1>3, <1>4, <1>5, <1>6, <1>7, <1>8
     DEF Next, ProducerStep, ConsumerStep

\* No data race on the unlocked items, the producer's look at an item it has
\* already released included. This is where OneProducer is needed.
THEOREM ReadsStable == Spec => []ReadsAreStable
<1>1. Init => ReadInv
  BY DEF Init, ReadInv, ReadsAreStable, FilledIsComplete, Threads
<1>2. TypeOK /\ NoSlotShared /\ ReadInv /\ [Next]_vars => ReadInv'
  BY ReadStep
<1>3. ReadInv => ReadsAreStable
  BY DEF ReadInv
<1> QED
  BY <1>1, <1>2, <1>3, TypeCorrect, SlotsConserved, PTL DEF Spec

-----------------------------------------------------------------------------
(* The ring as a FIFO of contents *)

\* Two sequences with the same length and the same elements are the same.
LEMMA SameSequence ==
    ASSUME NEW S, NEW q \in Seq(S), NEW r \in Seq(S), Len(q) = Len(r),
           \A i \in 1 .. Len(q) : q[i] = r[i]
    PROVE  q = r
<1>1. /\ Len(q) \in Nat
      /\ q \in [1 .. Len(q) -> S] /\ r \in [1 .. Len(q) -> S]
  BY LenProperties
<1> QED
  BY <1>1

\* The filled items are as many as the queued indices.
FilledAgrees ==
    /\ Filled \in Seq(Values \cup {Torn, Blank})
    /\ Len(Filled) = Len(consumer) /\ Len(consumer) \in Nat
    /\ \A i \in 1 .. Len(consumer) : Filled[i] = contents[consumer[i]]

LEMMA FilledIsSeq == TypeOK => FilledAgrees
<1> SUFFICES ASSUME TypeOK PROVE FilledAgrees
  OBVIOUS
<1>1. Len(consumer) \in Nat /\ \A i \in 1 .. Len(consumer) : consumer[i] \in Slots
  BY LenProperties, ElementOfSeq DEF TypeOK
<1>2. \A i \in 1 .. Len(consumer) : contents[consumer[i]] \in Values \cup {Torn, Blank}
  BY <1>1 DEF TypeOK
<1>3. Filled \in [1 .. Len(consumer) -> Values \cup {Torn, Blank}]
  BY <1>2 DEF Filled
<1> QED
  BY <1>1, <1>3 DEF Filled, FilledAgrees

LEMMA FilledIsSeqPrimed == TypeOK' => FilledAgrees'
BY FilledIsSeq, PTL

\* A step that leaves the queue of filled items and what is in them alone
LEMMA FilledKept ==
    ASSUME TypeOK, TypeOK', consumer' = consumer,
           \A i \in 1 .. Len(consumer) : contents'[consumer[i]] = contents[consumer[i]],
           \A c \in Consumers : seen'[c] = seen[c]
    PROVE  UNCHANGED Fifo!vars
<1>1. Filled' = Filled
  BY DEF Filled
<1>2. [c \in Consumers |-> seen'[c]] = [c \in Consumers |-> seen[c]]
  OBVIOUS
<1> QED
  BY <1>1, <1>2 DEF Fifo!vars

\* us_ring_producer_release() puts the item behind the others.
LEMMA ReleaseAppends ==
    ASSUME TypeOK, TypeOK', FilledIsComplete, NEW p \in Producers, ProducerRelease(p)
    PROVE  \E v \in Values : Fifo!Enqueue(v)
<1> DEFINE v == contents[slot[p]]
           S == Values \cup {Torn, Blank}
<1>1. /\ p \in Threads /\ slot[p] \in Slots /\ v \in Values
      /\ consumer' = Append(consumer, slot[p]) /\ contents' = contents
      /\ seen' = [seen EXCEPT ![p] = v] /\ Len(consumer) < Capacity
  BY DEF ProducerRelease, FilledIsComplete, TypeOK, Threads
<1>2. /\ Filled \in Seq(S) /\ Len(Filled) = Len(consumer) /\ Len(consumer) \in Nat
      /\ \A i \in 1 .. Len(consumer) : Filled[i] = contents[consumer[i]]
  BY FilledIsSeq DEF FilledAgrees
<1>3. /\ Filled' \in Seq(S) /\ Len(Filled') = Len(consumer')
      /\ \A i \in 1 .. Len(consumer') : Filled'[i] = contents'[consumer'[i]]
  BY FilledIsSeqPrimed DEF FilledAgrees
<1>4. /\ Len(consumer') = Len(consumer) + 1
      /\ \A i \in 1 .. Len(consumer) : consumer'[i] = consumer[i]
      /\ consumer'[Len(consumer) + 1] = slot[p]
  BY <1>1, AppendElements DEF TypeOK
<1>5. /\ Append(Filled, v) \in Seq(S) /\ Len(Append(Filled, v)) = Len(Filled) + 1
      /\ \A i \in 1 .. Len(Filled) : Append(Filled, v)[i] = Filled[i]
      /\ Append(Filled, v)[Len(Filled) + 1] = v
  BY <1>1, <1>2, AppendProperties
<1>6. ASSUME NEW i \in 1 .. Len(Filled')
      PROVE  Filled'[i] = Append(Filled, v)[i]
  <2>1. CASE i = Len(consumer) + 1
    BY <1>1, <1>2, <1>3, <1>4, <1>5, <2>1
  <2>2. CASE i # Len(consumer) + 1
    <3>1. i \in 1 .. Len(consumer)
      BY <1>2, <1>3, <1>4, <2>2
    <3> QED
      BY <1>1, <1>2, <1>3, <1>4, <1>5, <3>1
  <2> QED
    BY <2>1, <2>2
<1>7. Filled' = Append(Filled, v)
  BY <1>2, <1>3, <1>4, <1>5, <1>6, SameSequence
<1>8. [c \in Consumers |-> seen'[c]] = [c \in Consumers |-> seen[c]]
  BY <1>1, ThreadsAssumption DEF TypeOK, Threads
<1> QED
  BY <1>1, <1>2, <1>7, <1>8 DEF Fifo!Enqueue

\* us_ring_consumer_acquire() takes the oldest item.
LEMMA AcquireTakesHead ==
    ASSUME TypeOK, TypeOK', NEW c \in Consumers, ConsumerAcquire(c)
    PROVE  Fifo!Dequeue(c)
<1> DEFINE S == Values \cup {Torn, Blank}
<1>1. /\ consumer # <<>> /\ consumer' = Tail(consumer) /\ contents' = contents
      /\ seen' = [seen EXCEPT ![c] = contents[Head(consumer)]]
      /\ consumer \in Seq(Slots) /\ c \in Threads /\ seen \in [Threads -> S]
  BY DEF ConsumerAcquire, TypeOK, Threads
<1>2. /\ Filled \in Seq(S) /\ Len(Filled) = Len(consumer) /\ Len(consumer) \in Nat
      /\ \A i \in 1 .. Len(consumer) : Filled[i] = contents[consumer[i]]
  BY FilledIsSeq DEF FilledAgrees
<1>3. /\ Filled' \in Seq(S) /\ Len(Filled') = Len(consumer')
      /\ \A i \in 1 .. Len(consumer') : Filled'[i] = contents'[consumer'[i]]
  BY FilledIsSeqPrimed DEF FilledAgrees
<1>4. /\ Len(consumer) \in Nat \ {0} /\ Len(consumer') = Len(consumer) - 1
      /\ \A i \in 1 .. Len(consumer) - 1 : consumer'[i] = consumer[i + 1]
      /\ Head(consumer) = consumer[1]
  BY <1>1, TailElements
<1>5. Filled # <<>>
  BY <1>2, <1>4, EmptySeq
<1>6. /\ Head(Filled) = contents[Head(consumer)]
      /\ Tail(Filled) \in Seq(S) /\ Len(Tail(Filled)) = Len(Filled) - 1
      /\ \A i \in 1 .. Len(Filled) - 1 : Tail(Filled)[i] = Filled[i + 1]
  BY <1>2, <1>4, <1>5, HeadTailProperties
<1>7. ASSUME NEW i \in 1 .. Len(Filled')
      PROVE  Filled'[i] = Tail(Filled)[i]
  <2>1. i \in 1 .. Len(consumer) - 1 /\ i + 1 \in 1 .. Len(consumer)
    BY <1>3, <1>4
  <2>2. Filled'[i] = contents[consumer'[i]] /\ consumer'[i] = consumer[i + 1]
    BY <1>1, <1>3, <1>4, <2>1
  <2>3. Tail(Filled)[i] = Filled[i + 1] /\ Filled[i + 1] = contents[consumer[i + 1]]
    BY <1>2, <1>6, <2>1
  <2> QED
    BY <2>2, <2>3
<1>8. Filled' = Tail(Filled)
  BY <1>2, <1>3, <1>4, <1>6, <1>7, SameSequence
<1>9. [d \in Consumers |-> seen'[d]]
        = [[d \in Consumers |-> seen[d]] EXCEPT ![c] = Head(Filled)]
  BY <1>1, <1>6 DEF Threads
<1> QED
  BY <1>5, <1>8, <1>9 DEF Fifo!Dequeue

\* Every other step leaves the filled items alone: a producer writes only in
\* its own slot, which is not among them.
LEMMA RingStep ==
    ASSUME TypeOK, TypeOK', NoSlotShared, FilledIsComplete, [Next]_vars
    PROVE  [Fifo!Next]_(Fifo!vars)
<1> USE DEF Threads
<1>1. ASSUME NEW p \in Producers, ProducerAcquire(p) PROVE UNCHANGED Fifo!vars
  BY <1>1, FilledKept DEF ProducerAcquire
<1>2. ASSUME NEW p \in Producers, BeginWrite(p) \/ \E v \in Values : EndWrite(p, v)
      PROVE  UNCHANGED Fifo!vars
  <2>1. \A i \in 1 .. Len(consumer) : consumer[i] # slot[p]
    BY <1>2 DEF BeginWrite, EndWrite, NoSlotShared, Owning
  <2>2. \A s \in Slots : s # slot[p] => contents'[s] = contents[s]
    BY <1>2 DEF BeginWrite, EndWrite, TypeOK
  <2>3. \A i \in 1 .. Len(consumer) : consumer[i] \in Slots
    BY ElementOfSeq DEF TypeOK
  <2> QED
    BY <1>2, <2>1, <2>2, <2>3, FilledKept DEF BeginWrite, EndWrite
<1>3. ASSUME NEW p \in Producers, ProducerRelease(p) PROVE Fifo!Next
  BY <1>3, ReleaseAppends DEF Fifo!Next
<1>4. ASSUME NEW p \in Producers, EndReread(p) PROVE UNCHANGED Fifo!vars
  BY <1>4, FilledKept DEF EndReread
<1>5. ASSUME NEW c \in Consumers, ConsumerAcquire(c) PROVE Fifo!Next
  BY <1>5, AcquireTakesHead DEF Fifo!Next
<1>6. ASSUME NEW c \in Consumers, ConsumerRelease(c) PROVE UNCHANGED Fifo!vars
  BY <1>6, FilledKept DEF ConsumerRelease
<1>7. CASE UNCHANGED vars
  BY <1>7, FilledKept DEF vars
<1> QED
  BY <1>1, <1>2, <1>3, <1>4, <1>5, <1>6, <1>7 DEF Next, ProducerStep, ConsumerStep

\* What the consumers read is what the producer wrote, in the order in which it
\* was released, though the items themselves are under no lock.
THEOREM RingImplementsFifo == Spec => ImplementsFifo
<1>1. Init => ReadInv /\ Fifo!Init
  <2> SUFFICES ASSUME Init PROVE ReadInv /\ Fifo!Init
    OBVIOUS
  <2>1. ReadInv
    BY DEF Init, ReadInv, ReadsAreStable, FilledIsComplete, Threads
  <2>2. Filled = <<>>
    BY DEF Init, Filled
  <2>3. [c \in Consumers |-> seen[c]] = [c \in Consumers |-> Blank]
    BY DEF Init, Threads
  <2> QED
    BY <2>1, <2>2, <2>3 DEF Fifo!Init
<1>2. TypeOK /\ NoSlotShared /\ ReadInv /\ [Next]_vars => ReadInv'
  BY ReadStep
<1>3. TypeOK /\ TypeOK' /\ NoSlotShared /\ ReadInv /\ [Next]_vars => [Fifo!Next]_(Fifo!vars)
  BY RingStep DEF ReadInv
<1> QED
  BY <1>1, <1>2, <1>3, TypeCorrect, SlotsConserved, PTL DEF Spec, ImplementsFifo, Fifo!Spec

=============================================================================
