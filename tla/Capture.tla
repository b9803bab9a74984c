------------------------------ MODULE Capture ------------------------------
(***************************************************************************)
(* libs/capture.c: opening, using and closing the V4L2 capture device.     *)
(*                                                                         *)
(* us_capture_open() is a chain of calls each of which may fail; whatever  *)
(* the place of the failure, us_capture_close() has to give back exactly   *)
(* what was taken so far. The calls are operators from the runtime record  *)
(* to the set of their outcomes, chained by Then; the whole open or close  *)
(* is one action, because one thread makes it and no other thread looks at *)
(* the record meanwhile. What the process holds of the system (open        *)
(* descriptors, mappings, memory) is kept beside the record, in cap.os,    *)
(* and not derived from it.                                                *)
(*                                                                         *)
(* The error codes of a failed open differ only in what is logged and      *)
(* drawn on the blank picture; here they are all one failure. The device   *)
(* is opened with dv_timings and persistent, as for an HDMI bridge.        *)
(***************************************************************************)
EXTENDS Integers, FiniteSets

CONSTANTS
    BufCounts,    \* how many buffers VIDIOC_REQBUFS may grant
    Geometries,   \* the pictures the device may be set to, [width, height, format]
    IoMethods,    \* what --io-method may be: "MMAP", "USERPTR"
    DmaRequired   \* cap->dma_required

\* There is a largest number of buffers a driver grants.
ASSUME BufCountsAssumption ==
    /\ BufCounts \subseteq Nat \ {0}
    /\ \E n \in BufCounts : \A k \in BufCounts : k <= n
ASSUME GeometriesAssumption == Geometries \subseteq [width : Nat, height : Nat, format : STRING]
ASSUME IoMethodsAssumption == IoMethods \subseteq {"MMAP", "USERPTR"}
ASSUME DmaRequiredAssumption == DmaRequired \in BOOLEAN

VARIABLES
    cap,      \* us_capture_runtime_s, with what the process holds for it
    faulty,   \* system calls may fail now (environment)
    signal    \* the source is on (environment)

captureVars == <<cap, faulty, signal>>

\* A thing held of the system: a descriptor, a mapping, a piece of memory
Held(kind, i) == <<kind, i>>
Stdin == Held("stdin", 0)
NoFd == Held("none", 0)   \* -1

MaxBufs == CHOOSE n \in BufCounts : \A k \in BufCounts : k <= n
Kinds == {"fd", "map", "mem", "planes", "dma", "stdin", "none"}
Holdings == Kinds \X (0 .. MaxBufs)

\* An element of run->bufs as US_CALLOC leaves it: dma_fd is 0, not -1
Calloced == [data |-> NoFd, dma_fd |-> Stdin, grabbed |-> FALSE]
NoGeometry == [width |-> 0, height |-> 0, format |-> "none"]
NoBufs == [i \in {} |-> Calloced]   \* run->bufs == NULL

CaptureInit ==
    /\ cap \in [io_method : IoMethods, open : {FALSE}, streamon : {FALSE}, mplane : {FALSE},
                geometry : {NoGeometry},
                n_bufs : {0}, bufs : {NoBufs}, os : {{Stdin}}]
    /\ faulty = TRUE
    /\ signal \in BOOLEAN

CaptureTypeOK ==
    /\ cap.io_method \in IoMethods
    /\ cap.open \in BOOLEAN /\ cap.streamon \in BOOLEAN /\ cap.mplane \in BOOLEAN
    /\ cap.n_bufs \in 0 .. MaxBufs
    /\ DOMAIN cap.bufs \in {0 .. n - 1 : n \in BufCounts \cup {0}}
    /\ \A i \in DOMAIN cap.bufs :
          cap.bufs[i] \in [data : Holdings, dma_fd : Holdings, grabbed : BOOLEAN]
    /\ cap.os \subseteq Holdings
    /\ faulty \in BOOLEAN /\ signal \in BOOLEAN

-----------------------------------------------------------------------------
(* Outcomes of the calls inside us_capture_open() *)

Ok(c) == [ok |-> TRUE, c |-> c]
Fail(c) == [ok |-> FALSE, c |-> c]

\* A call that may fail without having changed anything
Fallible(c, outcomes) == IF faulty THEN outcomes \cup {Fail(c)} ELSE outcomes

\* The next call of the chain is made only if the last one succeeded.
Then(outcomes, Call(_)) ==
    UNION {IF r.ok THEN Call(r.c) ELSE {r} : r \in outcomes}

\* access() and open()
capture_open_device(c) ==
    Fallible(c, {Ok([c EXCEPT !.open = TRUE, !.os = @ \cup {Held("fd", 0)}])})

\* The cable, signal and sync are there, else the open is given up.
capture_probe(c) == Fallible(c, IF signal THEN {Ok(c)} ELSE {Fail(c)})

\* _capture_open_check_cap(): single- or multi-planar, streaming supported
capture_open_check_cap(c) ==
    Fallible(c, {Ok([c EXCEPT !.mplane = m]) : m \in BOOLEAN})

\* _capture_apply_resolution(): a picture out of range is refused (of the range
\* only the lower end is modelled).
capture_apply_resolution(c, g) ==
    IF g.width > 0 /\ g.height > 0
    THEN {Ok([c EXCEPT !.geometry.width = g.width, !.geometry.height = g.height])}
    ELSE {Fail(c)}

\* _capture_open_dv_timings(): the resolution of the source is applied.
capture_open_dv_timings(c) ==
    Fallible(c, IF signal
                THEN UNION {capture_apply_resolution(c, g) : g \in Geometries}
                ELSE {Fail(c)})

\* _capture_open_format(): the device is asked for that resolution; a driver
\* that answers with another one is asked once more, and whatever it then says
\* is used.
capture_open_format(c) ==
    Fallible(c, UNION {Then(capture_apply_resolution(c, g),
                            LAMBDA d : {Ok([d EXCEPT !.geometry = g])}) : g \in Geometries})

\* "Not enough lanes, hardware can't handle this signal"
capture_open_check_lanes(c) == Fallible(c, {Ok(c)})

\* The first i of n buffers are set up, each with its memory from kind.
Allocated(c, n, i, kind, fd) ==
    [c EXCEPT !.n_bufs = i,
              !.bufs = [b \in 0 .. n - 1 |->
                           IF b < i THEN [Calloced EXCEPT !.data = Held(kind, b),
                                                          !.dma_fd = fd]
                                    ELSE Calloced],
              !.os = @ \cup {Held(kind, b) : b \in 0 .. i - 1}
                       \cup {Held("planes", b) : b \in IF c.mplane THEN 0 .. i - 1
                                                                   ELSE {}}]

\* Mapping may fail at any buffer; run->n_bufs counts the ones that are done.
capture_open_io_method_mmap(c) ==
    UNION {{Ok(Allocated(c, n, n, "map", NoFd))}
              \cup {Fail(Allocated(c, n, i, "map", NoFd)) :
                       i \in IF faulty THEN 0 .. n - 1 ELSE {}}
           : n \in BufCounts}

\* dma_fd is left as US_CALLOC made it.
capture_open_io_method_userptr(c) ==
    {Ok(Allocated(c, n, n, "mem", Stdin)) : n \in BufCounts}

capture_open_io_method(c) ==
    Fallible(c, IF c.io_method = "MMAP" THEN capture_open_io_method_mmap(c)
                                     ELSE capture_open_io_method_userptr(c))

capture_open_queue_buffers(c) == Fallible(c, {Ok(c)})

\* US_CLOSE_FD on the dma_fd of the buffers in set
DmaClosed(c, set) ==
    [c EXCEPT !.bufs = [b \in DOMAIN @ |-> IF b \in set
                                           THEN [@[b] EXCEPT !.dma_fd = NoFd]
                                           ELSE @[b]],
              !.os = @ \ {c.bufs[b].dma_fd : b \in set}]

\* The first i buffers have a descriptor of their own.
Exported(c, i) ==
    [c EXCEPT !.bufs = [b \in DOMAIN @ |-> IF b < i
                                           THEN [@[b] EXCEPT !.dma_fd = Held("dma", b)]
                                           ELSE @[b]],
              !.os = @ \cup {Held("dma", b) : b \in 0 .. i - 1}]

\* Export of the buffers as DMA descriptors, for uncompressed pictures only.
\* Buffers of the process's own memory cannot be exported. Failing is an error
\* only if dma_required is set.
capture_open_export_to_dma(c) ==
    LET failed == {IF DmaRequired THEN Fail(e) ELSE Ok(e) :
                      e \in {DmaClosed(Exported(c, i), 0 .. c.n_bufs - 1) :
                                i \in 0 .. c.n_bufs - 1}}
    IN  IF c.geometry.format = "JPEG" THEN {Ok(c)}
        ELSE IF c.io_method = "USERPTR" THEN failed
        ELSE {Ok(Exported(c, c.n_bufs))} \cup (IF faulty THEN failed ELSE {})

\* VIDIOC_STREAMON
capture_streamon(c) == Fallible(c, {Ok([c EXCEPT !.streamon = TRUE])})

-----------------------------------------------------------------------------
(* The operations *)

\* Mutated form of Released: the descriptors of the DMA buffers are forgotten.
ReleasedNoDma(c) ==
    LET done == 0 .. c.n_bufs - 1
    IN  {c.bufs[b].data : b \in done}
           \cup {Held("planes", b) : b \in IF c.mplane THEN done ELSE {}}

\* What the loop over run->bufs in us_capture_close() gives back
Released(c) ==
    LET done == 0 .. c.n_bufs - 1
    IN  {c.bufs[b].dma_fd : b \in done} \cup {c.bufs[b].data : b \in done}
           \cup {Held("planes", b) : b \in IF c.mplane THEN done ELSE {}}

\* us_capture_close(). The code leaves capture_mplane and the geometry as they
\* are; the next open sets them before they are used for a frame.
Closed(c) ==
    [c EXCEPT !.streamon = FALSE, !.open = FALSE, !.mplane = FALSE,
              !.geometry = NoGeometry, !.n_bufs = 0, !.bufs = NoBufs,
              !.os = @ \ (Released(c) \cup (IF c.open THEN {Held("fd", 0)} ELSE {}))]

\* The frame rate, the JPEG quality and the controls are asked of the driver as
\* well; a refusal never fails the open, so they are no step of the chain.
OpenOutcomes(c) ==
    LET found == Then(Then(Then({Ok(c)}, capture_open_device), capture_probe),
                      capture_open_check_cap)
        set_up == Then(Then(Then(found, capture_open_dv_timings), capture_open_format),
                       capture_open_check_lanes)
        buffered == Then(Then(Then(set_up, capture_open_io_method),
                              capture_open_queue_buffers), capture_open_export_to_dma)
    IN  Then(buffered, capture_streamon)

\* us_capture_open(): on any error what was taken is given back.
us_capture_open(rc) ==
    /\ \E r \in OpenOutcomes(cap) :
          /\ rc = IF r.ok THEN 0 ELSE -1
          /\ cap' = IF r.ok THEN r.c ELSE Closed(r.c)
    /\ UNCHANGED <<faulty, signal>>

us_capture_close ==
    /\ cap' = Closed(cap)
    /\ UNCHANGED <<faulty, signal>>

\* _capture_wait_buffer(): select() runs out of time, or an event says that the
\* source has changed.
WaitFails == ~signal \/ faulty

\* _capture_is_buffer_valid() rejects what came: too small, or a JPEG without an
\* end. Such a buffer goes back to the driver at once.
OnlyBroken == signal /\ faulty

\* The buffers that a grab has taken from the driver when one of its calls fails
\* after that: the best one so far, and the one that just came.
LeftGrabbed ==
    IF signal /\ faulty
    THEN {left \in SUBSET DOMAIN cap.bufs : Cardinality(left) <= 2}
    ELSE {{}}

\* us_capture_hwbuf_grab(): the newest valid frame (rc is its buffer), -7 if
\* only broken frames were there, -1 on a time-out, an event or an error.
us_capture_hwbuf_grab(rc) ==
    /\ \/ /\ rc \in 0 .. cap.n_bufs - 1
          /\ signal /\ ~cap.bufs[rc].grabbed
          /\ cap' = [cap EXCEPT !.bufs[rc].grabbed = TRUE]
       \/ /\ rc = -7
          /\ OnlyBroken
          /\ UNCHANGED cap
       \/ /\ rc = -1
          /\ WaitFails
          /\ \E left \in LeftGrabbed :
                cap' = [cap EXCEPT !.bufs = [b \in DOMAIN cap.bufs |->
                           [cap.bufs[b] EXCEPT !.grabbed = @ \/ b \in left]]]
    /\ UNCHANGED <<faulty, signal>>

\* us_capture_hwbuf_release(): VIDIOC_QBUF
us_capture_hwbuf_release(b, rc) ==
    /\ \/ rc = 0 /\ cap' = [cap EXCEPT !.bufs[b].grabbed = FALSE]
       \/ rc = -1 /\ faulty /\ UNCHANGED cap
    /\ UNCHANGED <<faulty, signal>>

\* The source is switched on or off; the faults end.
SourceSwitched ==
    /\ signal' = ~signal
    /\ faulty
    /\ UNCHANGED <<cap, faulty>>

FaultsEnd ==
    /\ faulty
    /\ faulty' = FALSE
    /\ UNCHANGED <<cap, signal>>

-----------------------------------------------------------------------------
\* us_capture_close() gives back everything, and nothing else: wherever an open
\* failed or a session ended, a closed device holds no descriptor, no mapping
\* and no memory of its own; and with MMAP buffers, whose dma_fd is -1 until it
\* is exported, US_CLOSE_FD never closes a descriptor the device code did not
\* open (a dma_fd of 0 is the standard input).
CaptureHoldsNothing ==
    /\ ~cap.open => cap.os \subseteq {Stdin}
    /\ cap.io_method = "MMAP" => Stdin \in cap.os
=============================================================================
