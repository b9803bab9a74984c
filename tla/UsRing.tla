------------------------------- MODULE UsRing -------------------------------
(***************************************************************************)
(* libs/ring.c: a fixed set of preallocated items that circulate by index  *)
(* between a producer and a consumer through two us_queue_s (here the      *)
(* bounded FIFOs that UsQueue implements). The items themselves are not    *)
(* protected by any lock: a slot belongs to whoever took its index out of  *)
(* a queue and has not put it back.                                        *)
(*                                                                         *)
(* The users follow the code's pattern. Producer: acquire, overwrite the   *)
(* item, release, and then look at the item once more (the jpeg sink in    *)
(* _stream_expose_jpeg(), frame->key in _video_sink_thread()). Consumer:   *)
(* acquire, read the item, release.                                        *)
(***************************************************************************)
EXTENDS Integers, Sequences, FiniteSets

CONSTANTS
    Capacity,   \* us_ring_init(capacity)
    Producers,  \* the thread that fills the ring
    Consumers,  \* the threads that empty it
    Values,     \* what an item can hold
    Torn,       \* an item that is being overwritten
    Blank       \* an item as us_frame_init() leaves it

ASSUME CapacityAssumption == Capacity \in Nat \ {0}
ASSUME ThreadsAssumption == Producers \cap Consumers = {}
ASSUME ValuesAssumption == Torn \notin Values /\ Blank \notin Values

\* Every ring of the repository has a single producing thread at a time.
ASSUME OneProducer == \A p, q \in Producers : p = q

VARIABLES
    producer,   \* ring->producer: the indices free to be filled
    consumer,   \* ring->consumer: the indices of filled items
    contents,   \* what ring->items[index] holds
    slot,       \* the index each thread got from its last acquire
    pc,         \* where each thread is, see States
    seen        \* the contents a thread relies on while it reads its slot

vars == <<producer, consumer, contents, slot, pc, seen>>

Slots == 0 .. Capacity - 1
Threads == Producers \cup Consumers

\* idle:      holds no slot
\* acquired:  a producer that owns a slot and has not touched it yet
\* writing:   a producer in the middle of us_frame_copy(frame, dest)
\* written:   a producer that is about to release
\* rereading: a producer that has released the slot but still reads the item
\* reading:   a consumer that owns a slot
States == {"idle", "acquired", "writing", "written", "rereading", "reading"}

\* The producer threads and the consumer threads that own a slot
Owning == {"acquired", "writing", "written", "reading"}

TypeOK ==
    /\ producer \in Seq(Slots)
    /\ consumer \in Seq(Slots)
    /\ contents \in [Slots -> Values \cup {Torn, Blank}]
    /\ slot \in [Threads -> Slots]
    /\ pc \in [Threads -> States]
    /\ \A p \in Producers : pc[p] # "reading"
    /\ \A c \in Consumers : pc[c] \in {"idle", "reading"}
    /\ seen \in [Threads -> Values \cup {Torn, Blank}]

\* Mutated form of Init: the indices start from one.
InitFromOne ==
    /\ producer = [i \in 1 .. Capacity |-> i]
    /\ consumer = <<>>
    /\ contents = [s \in Slots |-> Blank]
    /\ slot = [t \in Threads |-> 0]
    /\ pc = [t \in Threads |-> "idle"]
    /\ seen = [t \in Threads |-> Blank]

\* us_ring_init() and the items of US_RING_INIT_WITH_ITEMS
Init ==
    /\ producer = [i \in 1 .. Capacity |-> i - 1]
    /\ consumer = <<>>
    /\ contents = [s \in Slots |-> Blank]
    /\ slot = [t \in Threads |-> 0]
    /\ pc = [t \in Threads |-> "idle"]
    /\ seen = [t \in Threads |-> Blank]

\* us_ring_producer_acquire(). On an empty queue _acquire() returns -1 and
\* the caller drops its item or tries again: a stuttering step.
ProducerAcquire(p) ==
    /\ pc[p] = "idle"
    /\ producer # <<>>
    /\ slot' = [slot EXCEPT ![p] = Head(producer)]
    /\ producer' = Tail(producer)
    /\ pc' = [pc EXCEPT ![p] = "acquired"]
    /\ UNCHANGED <<consumer, contents, seen>>

\* us_frame_copy() into the slot begins ...
BeginWrite(p) ==
    /\ pc[p] = "acquired"
    /\ contents' = [contents EXCEPT ![slot[p]] = Torn]
    /\ pc' = [pc EXCEPT ![p] = "writing"]
    /\ UNCHANGED <<producer, consumer, slot, seen>>

\* ... and ends.
EndWrite(p, v) ==
    /\ pc[p] = "writing"
    /\ contents' = [contents EXCEPT ![slot[p]] = v]
    /\ pc' = [pc EXCEPT ![p] = "written"]
    /\ UNCHANGED <<producer, consumer, slot, seen>>

\* us_ring_producer_release(): a put with timeout 0 whose success is asserted
ProducerRelease(p) ==
    /\ pc[p] = "written"
    /\ Len(consumer) < Capacity
    /\ consumer' = Append(consumer, slot[p])
    /\ seen' = [seen EXCEPT ![p] = contents[slot[p]]]
    /\ pc' = [pc EXCEPT ![p] = "rereading"]
    /\ UNCHANGED <<producer, contents, slot>>

\* The producer is done with the item it has already released.
EndReread(p) ==
    /\ pc[p] = "rereading"
    /\ pc' = [pc EXCEPT ![p] = "idle"]
    /\ UNCHANGED <<producer, consumer, contents, slot, seen>>

\* us_ring_consumer_acquire()
ConsumerAcquire(c) ==
    /\ pc[c] = "idle"
    /\ consumer # <<>>
    /\ slot' = [slot EXCEPT ![c] = Head(consumer)]
    /\ consumer' = Tail(consumer)
    /\ seen' = [seen EXCEPT ![c] = contents[Head(consumer)]]
    /\ pc' = [pc EXCEPT ![c] = "reading"]
    /\ UNCHANGED <<producer, contents>>

\* Mutated form of ConsumerRelease: the index goes back to the wrong queue.
ConsumerReleaseWrongQueue(c) ==
    /\ pc[c] = "reading"
    /\ Len(consumer) < Capacity
    /\ consumer' = Append(consumer, slot[c])
    /\ pc' = [pc EXCEPT ![c] = "idle"]
    /\ UNCHANGED <<producer, contents, slot, seen>>

\* Mutated form of ConsumerRelease: the index is released while the item is
\* still being read.
ConsumerReleaseEarly(c) ==
    /\ pc[c] = "reading"
    /\ Len(producer) < Capacity
    /\ producer' = Append(producer, slot[c])
    /\ UNCHANGED <<consumer, contents, slot, pc, seen>>

\* Mutated form of ConsumerRelease: an early return forgets the index.
ConsumerForgets(c) ==
    /\ pc[c] = "reading"
    /\ pc' = [pc EXCEPT ![c] = "idle"]
    /\ UNCHANGED <<producer, consumer, contents, slot, seen>>

\* us_ring_consumer_release(): asserted like the producer's
ConsumerRelease(c) ==
    /\ pc[c] = "reading"
    /\ Len(producer) < Capacity
    /\ producer' = Append(producer, slot[c])
    /\ pc' = [pc EXCEPT ![c] = "idle"]
    /\ UNCHANGED <<consumer, contents, slot, seen>>

ProducerStep(p) ==
    \/ ProducerAcquire(p)
    \/ BeginWrite(p)
    \/ \E v \in Values : EndWrite(p, v)
    \/ ProducerRelease(p)
    \/ EndReread(p)

ConsumerStep(c) == ConsumerAcquire(c) \/ ConsumerRelease(c)

Next ==
    \/ \E p \in Producers : ProducerStep(p)
    \/ \E c \in Consumers : ConsumerStep(c)

Spec == Init /\ [][Next]_vars

\* The consumer threads poll the ring for as long as the program runs.
Fairness == \A c \in Consumers : WF_vars(ConsumerStep(c))

FairSpec == Spec /\ Fairness

-----------------------------------------------------------------------------
\* An index is never in two places: it is once in one of the two queues, or
\* one thread owns its slot.
NoSlotShared ==
    /\ \A i, j \in 1 .. Len(producer) : producer[i] = producer[j] => i = j
    /\ \A i, j \in 1 .. Len(consumer) : consumer[i] = consumer[j] => i = j
    /\ \A i \in 1 .. Len(producer), j \in 1 .. Len(consumer) :
            producer[i] # consumer[j]
    /\ \A t \in Threads : pc[t] \in Owning =>
            /\ \A i \in 1 .. Len(producer) : producer[i] # slot[t]
            /\ \A i \in 1 .. Len(consumer) : consumer[i] # slot[t]
            /\ \A u \in Threads : pc[u] \in Owning /\ slot[u] = slot[t] => u = t

\* An index never disappears: after any number of laps each one is still in
\* a queue or in the hands of a thread.
NoSlotLost ==
    \A s \in Slots :
        \/ \E i \in 1 .. Len(producer) : producer[i] = s
        \/ \E i \in 1 .. Len(consumer) : consumer[i] = s
        \/ \E t \in Threads : pc[t] \in Owning /\ slot[t] = s

\* The assert() in _release() never fires: whoever releases finds room in
\* the queue it puts its index in.
ReleaseNeverFails ==
    /\ \A p \in Producers : pc[p] = "written" => Len(consumer) < Capacity
    /\ \A c \in Consumers : pc[c] = "reading" => Len(producer) < Capacity

\* Nobody writes an item that somebody reads. That covers the consumer, and
\* the producer that reads the item after it has given the index away.
ReadsAreStable ==
    \A t \in Threads :
        pc[t] \in {"reading", "rereading"}
            => seen[t] \in Values /\ contents[slot[t]] = seen[t]

\* The filled items in the order in which they will be consumed
Filled == [i \in 1 .. Len(consumer) |-> contents[consumer[i]]]

Fifo == INSTANCE BoundedFifo
            WITH fifo <- Filled,
                 received <- [c \in Consumers |-> seen[c]],
                 Getters <- Consumers,
                 NoItem <- Blank

\* A ring is a bounded FIFO of CONTENTS: what a consumer reads is what the
\* producer wrote, in the order in which it was released.
ImplementsFifo == Fifo!Spec

\* A released slot comes back to the producer, so a producer that retries
\* (as _stream_expose_jpeg() does) gets one.
SlotComesBack ==
    \A s \in Slots :
        (\E i \in DOMAIN consumer : consumer[i] = s)
            ~> (\E i \in DOMAIN producer : producer[i] = s)
=============================================================================
