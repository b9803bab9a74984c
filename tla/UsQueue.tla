------------------------------ MODULE UsQueue ------------------------------
(***************************************************************************)
(* libs/queue.c: the bounded queue every thread of uStreamer and of the    *)
(* Janus plugin talks through. A ring of pointers guarded by one mutex,    *)
(* with two condition variables (full_cond: putters, empty_cond: getters). *)
(*                                                                         *)
(* A critical section is one action. It ends where the code gives up the   *)
(* mutex: at a return, or inside pthread_cond_timedwait(). The broadcast   *)
(* is issued AFTER the unlock, so it is an action of its own.              *)
(***************************************************************************)
EXTENDS Integers, Sequences, FiniteSets

CONSTANTS
    Capacity,   \* us_queue_init(capacity)
    Putters,    \* threads that call us_queue_put()
    Getters,    \* threads that call us_queue_get()
    Values,     \* the items
    NoItem      \* what an unused place of items[] holds (calloc)

ASSUME CapacityAssumption == Capacity \in Nat \ {0}
ASSUME ThreadsAssumption == Putters \cap Getters = {}
ASSUME ValuesAssumption == NoItem \notin Values

VARIABLES
    items,      \* queue->items
    size,       \* queue->size
    in,         \* queue->in
    out,        \* queue->out
    pc,         \* where each thread is, see States
    item,       \* the item argument of a putter's current call
    received    \* the item a getter's last successful call returned

vars == <<items, size, in, out, pc, item, received>>

Threads == Putters \cup Getters
Places == 0 .. Capacity - 1

\* idle:     outside the queue
\* waiting:  blocked in pthread_cond_timedwait(), the mutex released
\* woken:    the wait returned 0, the mutex not yet re-acquired
\* expired:  the wait will return ETIMEDOUT, the mutex not yet re-acquired
\* notify:   unlocked after a successful call, the broadcast still to be done
States == {"idle", "waiting", "woken", "expired", "notify"}

TypeOK ==
    /\ items \in [Places -> Values \cup {NoItem}]
    /\ size \in 0 .. Capacity
    /\ in \in Places
    /\ out \in Places
    /\ pc \in [Threads -> States]
    /\ item \in [Putters -> Values]
    /\ received \in [Getters -> Values \cup {NoItem}]

\* us_queue_init()
Init ==
    /\ items = [i \in Places |-> NoItem]
    /\ size = 0
    /\ in = 0
    /\ out = 0
    /\ pc = [t \in Threads |-> "idle"]
    /\ item \in [Putters -> Values]
    /\ received = [g \in Getters |-> NoItem]

\* Mutated form of Advance: the wrap-around is forgotten.
AdvanceUnwrapped(place) == place + 1

Advance(place) == (place + 1) % Capacity

\* The tail of us_queue_put(): the mutex is held and there is room.
Store(p, v) ==
    /\ items' = [items EXCEPT ![in] = v]
    /\ size' = size + 1
    /\ in' = Advance(in)
    /\ pc' = [pc EXCEPT ![p] = "notify"]
    /\ UNCHANGED <<out, received>>

\* The tail of us_queue_get(): the mutex is held and there is an item.
Fetch(g) ==
    /\ received' = [received EXCEPT ![g] = items[out]]
    /\ size' = size - 1
    /\ out' = Advance(out)
    /\ pc' = [pc EXCEPT ![g] = "notify"]
    /\ UNCHANGED <<items, in, item>>

\* pthread_cond_timedwait() inside _WAIT_OR_UNLOCK
Block(t) ==
    /\ pc' = [pc EXCEPT ![t] = "waiting"]
    /\ UNCHANGED <<items, size, in, out, received>>

\* us_queue_put(queue, v, 0) that finds room. Without room it returns -1 and
\* leaves every variable alone, which is a stuttering step.
TryPut(p, v) ==
    /\ pc[p] = "idle"
    /\ size # Capacity
    /\ item' = [item EXCEPT ![p] = v]
    /\ Store(p, v)

\* us_queue_put(queue, v, timeout) with timeout > 0, up to its first wait
TimedPut(p, v) ==
    /\ pc[p] = "idle"
    /\ item' = [item EXCEPT ![p] = v]
    /\ IF size = Capacity THEN Block(p) ELSE Store(p, v)

\* The loop of _WAIT_OR_UNLOCK in us_queue_put() after a wake-up
ResumePut(p) ==
    /\ pc[p] = "woken"
    /\ IF size = Capacity THEN Block(p) ELSE Store(p, item[p])
    /\ UNCHANGED item

\* us_queue_get(queue, &item, timeout) up to its first wait
TimedGet(g) ==
    /\ pc[g] = "idle"
    /\ IF size = 0 THEN Block(g) /\ UNCHANGED item ELSE Fetch(g)

\* Mutated form of ResumeGet: "if" instead of "while" in _WAIT_OR_UNLOCK.
ResumeGetUnchecked(g) ==
    /\ pc[g] = "woken"
    /\ Fetch(g)

\* The loop of _WAIT_OR_UNLOCK in us_queue_get() after a wake-up
ResumeGet(g) ==
    /\ pc[g] = "woken"
    /\ IF size = 0 THEN Block(g) /\ UNCHANGED item ELSE Fetch(g)

\* A broadcast: every thread of the set that is blocked is released.
Wake(S, t) ==
    [u \in Threads |-> IF u = t THEN "idle"
                       ELSE IF u \in S /\ pc[u] = "waiting" THEN "woken"
                       ELSE pc[u]]

\* Mutated form of both: the broadcast is forgotten.
NotifyNobody(t) ==
    /\ pc[t] = "notify"
    /\ pc' = [pc EXCEPT ![t] = "idle"]
    /\ UNCHANGED <<items, size, in, out, item, received>>

\* Mutated form of NotifyGetters: a signal, which releases one blocked getter.
NotifyOneGetter(p) ==
    /\ pc[p] = "notify"
    /\ LET Blocked == {g \in Getters : pc[g] = "waiting"} IN
          pc' = [t \in Threads |-> IF t = p THEN "idle"
                                  ELSE IF Blocked # {} /\ t = CHOOSE g \in Blocked : TRUE
                                  THEN "woken"
                                  ELSE pc[t]]
    /\ UNCHANGED <<items, size, in, out, item, received>>

\* US_COND_BROADCAST(queue->empty_cond) and the return of us_queue_put()
NotifyGetters(p) ==
    /\ pc[p] = "notify"
    /\ pc' = Wake(Getters, p)
    /\ UNCHANGED <<items, size, in, out, item, received>>

\* US_COND_BROADCAST(queue->full_cond) and the return of us_queue_get()
NotifyPutters(g) ==
    /\ pc[g] = "notify"
    /\ pc' = Wake(Putters, g)
    /\ UNCHANGED <<items, size, in, out, item, received>>

\* The deadline passes while the thread is blocked, ...
Expire(t) ==
    /\ pc[t] = "waiting"
    /\ pc' = [pc EXCEPT ![t] = "expired"]
    /\ UNCHANGED <<items, size, in, out, item, received>>

\* ... and the call returns -1 once it has the mutex, without looking at the
\* queue again: an item that arrived in between is left for the next call.
ReturnTimedOut(t) ==
    /\ pc[t] = "expired"
    /\ pc' = [pc EXCEPT ![t] = "idle"]
    /\ UNCHANGED <<items, size, in, out, item, received>>

\* POSIX lets a condition wait return without a signal.
SpuriousWakeup(t) ==
    /\ pc[t] = "waiting"
    /\ pc' = [pc EXCEPT ![t] = "woken"]
    /\ UNCHANGED <<items, size, in, out, item, received>>

PutterStep(p) ==
    \/ \E v \in Values : TryPut(p, v) \/ TimedPut(p, v)
    \/ ResumePut(p)
    \/ NotifyGetters(p)

GetterStep(g) ==
    \/ TimedGet(g)
    \/ ResumeGet(g)
    \/ NotifyPutters(g)

Next ==
    \/ \E p \in Putters : PutterStep(p)
    \/ \E g \in Getters : GetterStep(g)
    \/ \E t \in Threads : Expire(t) \/ ReturnTimedOut(t) \/ SpuriousWakeup(t)

Spec == Init /\ [][Next]_vars

\* A thread that is inside a call keeps running; nobody has to call again,
\* no deadline has to pass and no spurious wake-up has to happen.
Fairness ==
    /\ \A p \in Putters : WF_vars(ResumePut(p)) /\ WF_vars(NotifyGetters(p))
    /\ \A g \in Getters : WF_vars(ResumeGet(g)) /\ WF_vars(NotifyPutters(g))

FairSpec == Spec /\ Fairness

-----------------------------------------------------------------------------
\* No lost wake-up on empty_cond: a getter sleeps on a queue that holds an
\* item only while the putter that stored one has still to broadcast (the
\* broadcast comes after the unlock in us_queue_put()).
NoSleepingGetter ==
    (size > 0 /\ \E g \in Getters : pc[g] = "waiting")
        => \E p \in Putters : pc[p] = "notify"

\* The same for full_cond: a putter sleeps on a queue with room only while a
\* getter that made room has still to broadcast.
NoSleepingPutter ==
    (size < Capacity /\ \E p \in Putters : pc[p] = "waiting")
        => \E g \in Getters : pc[g] = "notify"

\* A getter blocked while an item is there is woken, whatever its timeout.
WaiterIsWoken ==
    \A g \in Getters :
        (pc[g] = "waiting" /\ size > 0) ~> (pc[g] # "waiting")

\* The queued items, oldest first: items[out], items[out + 1], ... modulo
\* the capacity.
Queued == [i \in 1 .. size |-> items[(out + i - 1) % Capacity]]

Fifo == INSTANCE BoundedFifo WITH fifo <- Queued

\* The index arithmetic, the waits and the time-outs together implement a
\* bounded FIFO: nothing is lost, duplicated, reordered or overwritten, and a
\* call that fails changes nothing.
ImplementsFifo == Fifo!Spec
=============================================================================
