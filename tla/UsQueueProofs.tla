--------------------------- MODULE UsQueueProofs ---------------------------
(***************************************************************************)
(* For every capacity, every set of putters and getters and every set of   *)
(* items: us_queue_s is type-correct, loses no wake-up and is a bounded    *)
(* FIFO.                                                                   *)
(***************************************************************************)
EXTENDS UsQueue, SequenceTheorems, TLAPS

\* ++queue->in; queue->in %= queue->capacity: the next place, or the first
\* one after the last.
LEMMA AdvanceWraps ==
    ASSUME NEW i \in Places
    PROVE  /\ Advance(i) \in Places
           /\ Advance(i) = IF i + 1 = Capacity THEN 0 ELSE i + 1
  BY CapacityAssumption DEF Advance, Places

\* The (out + i - 1) % capacity of Queued stays within one lap, where the
\* remainder is at most one subtraction.
Wrap(x) == IF x < Capacity THEN x ELSE x - Capacity

LEMMA WithinOneLap ==
    ASSUME NEW x \in 0 .. 2 * Capacity - 1
    PROVE  x % Capacity = Wrap(x)
  BY CapacityAssumption DEF Wrap

\* Type correctness: the indices never leave the array and size never goes
\* below 0 or above the capacity, in any interleaving of the calls.
THEOREM TypeCorrect == Spec => []TypeOK
<1>1. Init => TypeOK
  BY CapacityAssumption DEF Init, TypeOK, Places, States
<1>2. TypeOK /\ [Next]_vars => TypeOK'
  <2> SUFFICES ASSUME TypeOK, [Next]_vars PROVE TypeOK'
    OBVIOUS
  <2>a. Advance(in) \in Places /\ Advance(out) \in Places
    BY AdvanceWraps DEF TypeOK
  <2> USE CapacityAssumption DEF TypeOK, States
  <2>1. ASSUME NEW p \in Putters, NEW v \in Values, TryPut(p, v)
        PROVE  TypeOK'
    BY <2>1, <2>a DEF TryPut, Store, Threads
  <2>2. ASSUME NEW p \in Putters, NEW v \in Values, TimedPut(p, v)
        PROVE  TypeOK'
    BY <2>2, <2>a DEF TimedPut, Store, Block, Threads
  <2>3. ASSUME NEW p \in Putters, ResumePut(p)
        PROVE  TypeOK'
    BY <2>3, <2>a DEF ResumePut, Store, Block, Threads
  <2>4. ASSUME NEW g \in Getters, TimedGet(g)
        PROVE  TypeOK'
    BY <2>4, <2>a DEF TimedGet, Fetch, Block, Threads, Places
  <2>5. ASSUME NEW g \in Getters, ResumeGet(g)
        PROVE  TypeOK'
    BY <2>5, <2>a DEF ResumeGet, Fetch, Block, Threads, Places
  <2>6. ASSUME NEW p \in Putters, NotifyGetters(p)
        PROVE  TypeOK'
    BY <2>6 DEF NotifyGetters, Wake
  <2>7. ASSUME NEW g \in Getters, NotifyPutters(g)
        PROVE  TypeOK'
    BY <2>7 DEF NotifyPutters, Wake
  <2>8. ASSUME NEW t \in Threads, Expire(t) \/ ReturnTimedOut(t) \/ SpuriousWakeup(t)
        PROVE  TypeOK'
    BY <2>8 DEF Expire, ReturnTimedOut, SpuriousWakeup
  <2>9. CASE UNCHANGED vars
    BY <2>9 DEF vars
  <2> QED
    BY <2>1, <2>2, <2>3, <2>4, <2>5, <2>6, <2>7, <2>8, <2>9
       DEF Next, PutterStep, GetterStep
<1> QED
  BY <1>1, <1>2, PTL DEF Spec

-----------------------------------------------------------------------------
\* The two wake-up invariants are inductive together with the types: a thread
\* can block only while the queue is empty (full), the step that ends that
\* state puts its thread in "notify", and only the broadcast leaves "notify".
WakeupInv == NoSleepingGetter /\ NoSleepingPutter

LEMMA WakeupStep ==
    ASSUME TypeOK, WakeupInv, [Next]_vars
    PROVE  WakeupInv'
<1> USE CapacityAssumption, ThreadsAssumption
    DEF TypeOK, WakeupInv, NoSleepingGetter, NoSleepingPutter, Threads
<1>1. ASSUME NEW p \in Putters, NEW v \in Values, TryPut(p, v)
      PROVE  WakeupInv'
  BY <1>1 DEF TryPut, Store
<1>2. ASSUME NEW p \in Putters, NEW v \in Values, TimedPut(p, v)
      PROVE  WakeupInv'
  BY <1>2 DEF TimedPut, Store, Block
<1>3. ASSUME NEW p \in Putters, ResumePut(p)
      PROVE  WakeupInv'
  BY <1>3 DEF ResumePut, Store, Block
<1>4. ASSUME NEW g \in Getters, TimedGet(g)
      PROVE  WakeupInv'
  BY <1>4 DEF TimedGet, Fetch, Block
<1>5. ASSUME NEW g \in Getters, ResumeGet(g)
      PROVE  WakeupInv'
  BY <1>5 DEF ResumeGet, Fetch, Block
<1>6. ASSUME NEW p \in Putters, NotifyGetters(p)
      PROVE  WakeupInv'
  BY <1>6 DEF NotifyGetters, Wake
<1>7. ASSUME NEW g \in Getters, NotifyPutters(g)
      PROVE  WakeupInv'
  BY <1>7 DEF NotifyPutters, Wake
<1>8. ASSUME NEW t \in Threads, Expire(t) \/ ReturnTimedOut(t) \/ SpuriousWakeup(t)
      PROVE  WakeupInv'
  BY <1>8 DEF Expire, ReturnTimedOut, SpuriousWakeup
<1>9. CASE UNCHANGED vars
  BY <1>9 DEF vars
<1> QED
  BY <1>1, <1>2, <1>3, <1>4, <1>5, <1>6, <1>7, <1>8, <1>9
     DEF Next, PutterStep, GetterStep

\* No wake-up is lost on either condition variable, although both broadcasts
\* are issued after the mutex has been released.
THEOREM NoLostWakeup == Spec => [](NoSleepingGetter /\ NoSleepingPutter)
<1>1. Init => WakeupInv
  BY CapacityAssumption
     DEF Init, WakeupInv, NoSleepingGetter, NoSleepingPutter, Threads
<1>2. TypeOK /\ WakeupInv /\ [Next]_vars => WakeupInv'
  BY WakeupStep
<1>3. WakeupInv => NoSleepingGetter /\ NoSleepingPutter
  BY DEF WakeupInv
<1> QED
  BY <1>1, <1>2, <1>3, TypeCorrect, PTL DEF Spec

-----------------------------------------------------------------------------
\* What the refinement needs beyond the types: queue->in is kept in step with
\* queue->out and queue->size, so that the place written is the one after the
\* newest item.
InInStep == in = Wrap(out + size)

\* Append and Tail as functions on an interval, the form Queued has.
LEMMA AppendIsFunction ==
    ASSUME NEW S, NEW s \in Seq(S), NEW v
    PROVE  Append(s, v) = [i \in 1 .. Len(s) + 1 |->
                              IF i = Len(s) + 1 THEN v ELSE s[i]]
<1> DEFINE T == S \cup {v}
<1>1. s \in Seq(T)
  BY SeqMonotonic
<1>2. /\ Append(s, v) \in Seq(T)
      /\ Len(Append(s, v)) = Len(s) + 1
      /\ \A i \in 1 .. Len(s) + 1 :
            Append(s, v)[i] = IF i = Len(s) + 1 THEN v ELSE s[i]
  BY <1>1, AppendProperties
<1>3. Append(s, v) \in [1 .. Len(s) + 1 -> T]
  BY <1>2, LenProperties
<1> QED
  BY <1>2, <1>3

LEMMA TailIsFunction ==
    ASSUME NEW S, NEW s \in Seq(S), s # <<>>
    PROVE  Tail(s) = [i \in 1 .. Len(s) - 1 |-> s[i + 1]]
<1>1. /\ Tail(s) \in Seq(S)
      /\ Len(Tail(s)) = Len(s) - 1
      /\ \A i \in 1 .. Len(s) - 1 : Tail(s)[i] = s[i + 1]
  BY HeadTailProperties
<1>2. Tail(s) \in [1 .. Len(s) - 1 -> S]
  BY <1>1, LenProperties
<1> QED
  BY <1>1, <1>2

\* Queued is a sequence of size items.
LEMMA QueuedIsSeq ==
    ASSUME TypeOK
    PROVE  /\ Queued = [i \in 1 .. size |-> items[Wrap(out + i - 1)]]
           /\ \A i \in 1 .. size : items[Wrap(out + i - 1)] \in Values \cup {NoItem}
           /\ Queued \in Seq(Values \cup {NoItem})
           /\ Len(Queued) = size
<1>1. ASSUME NEW i \in 1 .. size
      PROVE  /\ (out + i - 1) % Capacity = Wrap(out + i - 1)
             /\ items[Wrap(out + i - 1)] \in Values \cup {NoItem}
  <2>1. out + i - 1 \in 0 .. 2 * Capacity - 1
    BY CapacityAssumption DEF TypeOK, Places
  <2>2. Wrap(out + i - 1) \in Places
    BY <2>1, CapacityAssumption DEF Places, Wrap
  <2> QED
    BY <2>1, <2>2, WithinOneLap DEF TypeOK
<1>2. Queued = [i \in 1 .. size |-> items[Wrap(out + i - 1)]]
  BY <1>1 DEF Queued
<1>3. size \in Nat
  BY CapacityAssumption DEF TypeOK
<1> QED
  BY <1>1, <1>2, <1>3

\* Writing items[in] appends to the queued items and overwrites none of them.
LEMMA StoreAppends ==
    ASSUME TypeOK, TypeOK', InInStep, size # Capacity,
           NEW p, NEW v \in Values, Store(p, v)
    PROVE  Queued' = Append(Queued, v) /\ InInStep'
<1> USE CapacityAssumption
<1>1. /\ size' = size + 1 /\ out' = out /\ in' = Advance(in)
      /\ items' = [items EXCEPT ![in] = v]
      /\ in \in Places /\ out \in Places /\ size \in 0 .. Capacity - 1
      /\ items \in [Places -> Values \cup {NoItem}]
  BY DEF Store, TypeOK
<1>2. in' = Wrap(in + 1)
  BY <1>1, AdvanceWraps DEF Wrap, Places
<1>3. ASSUME NEW i \in 1 .. size
      PROVE  items'[Wrap(out + i - 1)] = items[Wrap(out + i - 1)]
  <2>1. Wrap(out + i - 1) # in /\ Wrap(out + i - 1) \in Places
    BY <1>1 DEF InInStep, Wrap, Places
  <2> QED
    BY <1>1, <2>1
<1>4. items'[Wrap(out + (size + 1) - 1)] = v
  <2>1. Wrap(out + (size + 1) - 1) = in
    BY <1>1 DEF InInStep, Wrap, Places
  <2> QED
    BY <1>1, <2>1
<1>5. Queued' = [i \in 1 .. size + 1 |-> items'[Wrap(out + i - 1)]]
  <2>1. ASSUME NEW i \in 1 .. size + 1
        PROVE  (out + i - 1) % Capacity = Wrap(out + i - 1)
    <3>1. out + i - 1 \in 0 .. 2 * Capacity - 1
      BY <1>1 DEF Places
    <3> QED
      BY <3>1, WithinOneLap
  <2> QED
    BY <2>1, <1>1 DEF Queued
<1>6. Append(Queued, v) = [i \in 1 .. size + 1 |->
                              IF i = size + 1 THEN v ELSE items[Wrap(out + i - 1)]]
  <2>1. Append(Queued, v) = [i \in 1 .. size + 1 |->
                                IF i = size + 1 THEN v ELSE Queued[i]]
    BY QueuedIsSeq, AppendIsFunction
  <2>2. \A i \in 1 .. size + 1 : i # size + 1 => Queued[i] = items[Wrap(out + i - 1)]
    BY <1>1, QueuedIsSeq
  <2> QED
    BY <2>1, <2>2
<1>7. Queued' = Append(Queued, v)
  <2>1. ASSUME NEW i \in 1 .. size + 1
        PROVE  items'[Wrap(out + i - 1)]
                 = IF i = size + 1 THEN v ELSE items[Wrap(out + i - 1)]
    <3>1. CASE i = size + 1
      BY <3>1, <1>4
    <3>2. CASE i # size + 1
      <4>1. i \in 1 .. size
        BY <3>2, <1>1
      <4> QED
        BY <3>2, <4>1, <1>3
    <3> QED BY <3>1, <3>2
  <2> QED
    BY <1>5, <1>6, <2>1
<1>8. InInStep'
  <2>1. in' = Wrap(out' + size')
    BY <1>1, <1>2 DEF InInStep, Wrap, Places
  <2> QED
    BY <2>1 DEF InInStep, Wrap
<1> QED
  BY <1>7, <1>8

\* Reading items[out] takes the oldest of the queued items.
LEMMA FetchTakesHead ==
    ASSUME TypeOK, TypeOK', InInStep, size # 0, NEW g \in Getters, Fetch(g)
    PROVE  /\ Queued # <<>>
           /\ Queued' = Tail(Queued)
           /\ received' = [received EXCEPT ![g] = Head(Queued)]
           /\ InInStep'
<1> USE CapacityAssumption
<1>1. /\ size' = size - 1 /\ items' = items /\ out' = Advance(out) /\ in' = in
      /\ received' = [received EXCEPT ![g] = items[out]]
      /\ size \in 1 .. Capacity /\ out \in Places
  BY DEF Fetch, TypeOK
<1>2. out' = Wrap(out + 1)
  BY <1>1, AdvanceWraps DEF Wrap, Places
<1>3. Head(Queued) = items[out] /\ Queued # <<>>
  <2>1. Wrap(out + 1 - 1) = out
    BY <1>1 DEF Wrap, Places
  <2> QED
    BY <1>1, <2>1, QueuedIsSeq
<1>4. Queued' = [i \in 1 .. size - 1 |-> items[Wrap(out + (i + 1) - 1)]]
  <2>1. ASSUME NEW i \in 1 .. size - 1
        PROVE  (Wrap(out + 1) + i - 1) % Capacity = Wrap(out + (i + 1) - 1)
    <3>1. Wrap(out + 1) + i - 1 \in 0 .. 2 * Capacity - 1
      BY <1>1 DEF Wrap, Places
    <3>2. Wrap(Wrap(out + 1) + i - 1) = Wrap(out + (i + 1) - 1)
      BY <1>1 DEF Wrap, Places
    <3> QED
      BY <3>1, <3>2, WithinOneLap
  <2> QED
    BY <2>1, <1>1, <1>2 DEF Queued
<1>5. Tail(Queued) = [i \in 1 .. size - 1 |-> items[Wrap(out + (i + 1) - 1)]]
  <2>1. Tail(Queued) = [i \in 1 .. size - 1 |-> Queued[i + 1]]
    BY <1>3, QueuedIsSeq, TailIsFunction
  <2>2. \A i \in 1 .. size - 1 : Queued[i + 1] = items[Wrap(out + (i + 1) - 1)]
    BY <1>1, QueuedIsSeq
  <2> QED
    BY <2>1, <2>2
<1>6. InInStep'
  <2>1. in' = Wrap(out' + size')
    BY <1>1, <1>2 DEF InInStep, Wrap, Places
  <2> QED
    BY <2>1 DEF InInStep, Wrap
<1> QED
  BY <1>1, <1>3, <1>4, <1>5, <1>6

\* Every step of the queue is a step of the FIFO or leaves it alone.
LEMMA FifoStep ==
    ASSUME TypeOK, TypeOK', InInStep, [Next]_vars
    PROVE  [Fifo!Next]_(Fifo!vars) /\ InInStep'
<1> DEFINE Goal == [Fifo!Next]_(Fifo!vars) /\ InInStep'
<1>a. ASSUME UNCHANGED <<items, size, in, out, received>>
      PROVE  Goal
  BY <1>a DEF Fifo!vars, Queued, InInStep, Wrap
<1>b. ASSUME NEW p \in Putters, NEW v \in Values, size # Capacity, Store(p, v)
      PROVE  Goal
  <2>1. Queued' = Append(Queued, v) /\ InInStep'
    BY <1>b, StoreAppends
  <2>2. Len(Queued) < Capacity
    BY <1>b, QueuedIsSeq, CapacityAssumption DEF TypeOK
  <2>3. received' = received
    BY <1>b DEF Store
  <2>4. Fifo!Enqueue(v)
    BY <2>1, <2>2, <2>3 DEF Fifo!Enqueue
  <2> QED
    BY <2>1, <2>4 DEF Fifo!Next
<1>c. ASSUME NEW g \in Getters, size # 0, Fetch(g)
      PROVE  Goal
  <2>1. Fifo!Dequeue(g) /\ InInStep'
    BY <1>c, FetchTakesHead DEF Fifo!Dequeue
  <2> QED
    BY <2>1 DEF Fifo!Next
<1>1. ASSUME NEW p \in Putters, PutterStep(p)
      PROVE  Goal
  <2>1. ASSUME NEW v \in Values, TryPut(p, v)
        PROVE  Goal
    BY <2>1, <1>b DEF TryPut
  <2>2. ASSUME NEW v \in Values, TimedPut(p, v)
        PROVE  Goal
    BY <2>2, <1>a, <1>b DEF TimedPut, Block
  <2>3. CASE ResumePut(p)
    BY <2>3, <1>a, <1>b DEF ResumePut, Block, TypeOK
  <2>4. CASE NotifyGetters(p)
    BY <2>4, <1>a DEF NotifyGetters
  <2> QED
    BY <1>1, <2>1, <2>2, <2>3, <2>4 DEF PutterStep
<1>2. ASSUME NEW g \in Getters, GetterStep(g)
      PROVE  Goal
  <2>1. CASE TimedGet(g)
    BY <2>1, <1>a, <1>c DEF TimedGet, Block
  <2>2. CASE ResumeGet(g)
    BY <2>2, <1>a, <1>c DEF ResumeGet, Block
  <2>3. CASE NotifyPutters(g)
    BY <2>3, <1>a DEF NotifyPutters
  <2> QED
    BY <1>2, <2>1, <2>2, <2>3 DEF GetterStep
<1>3. ASSUME NEW t \in Threads, Expire(t) \/ ReturnTimedOut(t) \/ SpuriousWakeup(t)
      PROVE  Goal
  BY <1>3, <1>a DEF Expire, ReturnTimedOut, SpuriousWakeup
<1>4. CASE UNCHANGED vars
  BY <1>4, <1>a DEF vars
<1> QED
  BY <1>1, <1>2, <1>3, <1>4 DEF Next

\* us_queue_put() and us_queue_get() implement a bounded FIFO, for every
\* capacity and any number of threads, time-outs and spurious wake-ups
\* included.
THEOREM QueueImplementsFifo == Spec => ImplementsFifo
<1>1. Init => InInStep /\ Fifo!Init
  <2> SUFFICES ASSUME Init PROVE InInStep /\ Fifo!Init
    OBVIOUS
  <2>1. InInStep
    BY CapacityAssumption DEF Init, InInStep, Wrap
  <2>2. Queued = <<>>
    BY DEF Init, Queued
  <2> QED
    BY <2>1, <2>2 DEF Init, Fifo!Init
<1>2. TypeOK /\ TypeOK' /\ InInStep /\ [Next]_vars
        => [Fifo!Next]_(Fifo!vars) /\ InInStep'
  BY FifoStep
<1> QED
  BY <1>1, <1>2, TypeCorrect, PTL DEF Spec, ImplementsFifo, Fifo!Spec

=============================================================================
