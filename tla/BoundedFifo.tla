---------------------------- MODULE BoundedFifo ----------------------------
(***************************************************************************)
(* What us_queue_s promises its users: a FIFO of at most Capacity items.   *)
(* An item enters at the tail and leaves at the head, once, to one getter. *)
(* A failed or timed-out call changes nothing (it is a stuttering step).   *)
(***************************************************************************)
EXTENDS Naturals, Sequences

CONSTANTS
    Capacity,   \* us_queue_init(capacity)
    Getters,    \* the threads that call us_queue_get()
    Values,     \* the pointers that are queued
    NoItem      \* a getter that has received nothing yet

VARIABLES
    fifo,       \* the queued items, oldest first
    received    \* [Getters -> item returned by the getter's last us_queue_get()]

vars == <<fifo, received>>

Init == /\ fifo = <<>>
        /\ received = [g \in Getters |-> NoItem]

Enqueue(v) ==
    /\ Len(fifo) < Capacity
    /\ fifo' = Append(fifo, v)
    /\ UNCHANGED received

Dequeue(g) ==
    /\ fifo # <<>>
    /\ fifo' = Tail(fifo)
    /\ received' = [received EXCEPT ![g] = Head(fifo)]

Next == \/ \E v \in Values : Enqueue(v)
        \/ \E g \in Getters : Dequeue(g)

Spec == Init /\ [][Next]_vars
=============================================================================
