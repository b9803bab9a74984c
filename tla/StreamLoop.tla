----------------------------- MODULE StreamLoop -----------------------------
(***************************************************************************)
(* ustreamer/stream.c and the buffer half of libs/capture.c: the life of   *)
(* the V4L2 buffers during the capture sessions of us_stream_loop().       *)
(*                                                                         *)
(* The stream thread dequeues a filled buffer, hands it to every consumer  *)
(* thread (JPEG, RAW sink, H264 sink, DRM) with one reference each, and    *)
(* plans its release with the buffer's own releaser thread, which waits    *)
(* for the references to go and gives the buffer back to the driver. The   *)
(* queues are the bounded FIFOs of UsQueue; the encoding pool is the one   *)
(* of WorkersPool, seen as workers that are idle or busy with a buffer.    *)
(* What the consumers do with the picture is left out: only who may look   *)
(* at a buffer, and when, matters here.                                    *)
(***************************************************************************)
EXTENDS Integers, Sequences, FiniteSets

CONSTANTS
    Setups      \* what uStreamer may be started with: the buffers of the device
                \* (cap->run->n_bufs), the workers of the encoder, the memory
                \* sinks in use and whether stream->drm != NULL

ASSUME SetupsAssumption ==
    \A s \in Setups :
        /\ s.sinks \subseteq {"raw", "h264"}
        /\ s.drm \in BOOLEAN
        /\ s.bufs \in Nat \ {0}
        /\ s.workers \in 1 .. s.bufs

VARIABLES
    driver,      \* who has each buffer: the driver (empty or filled) or us
    grabbed,     \* hw->grabbed
    refs,        \* hw->refs
    queue,       \* the queue of each consumer thread
    hw,          \* the buffer each consumer thread works on
    cpc,         \* where each consumer thread is
    prev,        \* prev_hw of _drm_thread()
    slowRet,     \* where _drm_thread() goes after SLOWDOWN
    job,         \* job->hw of each worker
    busy,        \* the workers that are encoding
    picked,      \* the worker us_workers_pool_wait() gave to _jpeg_thread()
    planned,     \* the buffers in their releaser's queue
    rpc,         \* where each releaser thread is
    spc,         \* where the stream thread is
    current,     \* the buffer it has just grabbed
    todo,        \* the consumers it has still to hand the buffer to
    threadsStop, \* threads_stop
    setup,       \* what uStreamer was started with
    lost         \* history: the buffers whose reference nobody will give back
                 \* because of a full RAW queue or of a failed DRM call

driverVars == <<driver, grabbed>>
jpegVars == <<job, busy, picked>>
drmVars == <<prev, slowRet>>
releaserVars == <<planned, rpc>>
streamVars == <<spc, current, todo>>
setupVars == <<setup, lost>>
vars == <<driver, grabbed, refs, queue, hw, cpc, prev, slowRet, job, busy,
          picked, planned, rpc, spc, current, todo, threadsStop, setup, lost>>

Bufs == 0 .. setup.bufs - 1
Workers == 1 .. setup.workers
None == -1   \* NULL

\* The consumer threads: one for the encoder and one for each sink and the DRM
\* output that are in use
Consumers == {"jpeg"} \cup setup.sinks \cup (IF setup.drm THEN {"drm"} ELSE {})

\* CREATE_WORKER and QUEUE_HW, in their order
HandOut ==
    LET With(others, c) == IF c \in Consumers THEN Append(others, c) ELSE others
    IN  With(With(With(<<"jpeg">>, "raw"), "h264"), "drm")

\* Mutated form of QueueCapacity: one slot less than there are buffers.
QueueCapacityShort(c) == IF c = "raw" THEN 2 ELSE setup.bufs - 1

\* The capacities given to us_queue_init() by CREATE_WORKER
QueueCapacity(c) == IF c = "raw" THEN 2 ELSE setup.bufs

\* us_queue_is_empty(): (bool)(capacity - size), as the code computes it
us_queue_is_empty(c) == QueueCapacity(c) - Len(queue[c]) # 0

TypeOK ==
    /\ driver \in [Bufs -> {"empty", "filled", "user"}]
    /\ grabbed \in [Bufs -> BOOLEAN]
    /\ refs \in [Bufs -> Nat]
    /\ queue \in [Consumers -> Seq(Bufs)]
    /\ hw \in [Consumers -> Bufs \cup {None}]
    /\ cpc \in [Consumers -> {"top", "wait", "get", "drain", "use", "open",
                              "vsync", "close", "slow", "exited"}]
    /\ prev \in Bufs \cup {None}
    /\ slowRet \in {"top", "vsync"}
    /\ job \in [Workers -> Bufs \cup {None}]
    /\ busy \in [Workers -> {"idle", "assigned", "running"}]
    /\ picked \in Workers \cup {None}
    /\ planned \subseteq Bufs
    /\ rpc \in [Bufs -> {"get", "spin", "release", "clear", "exited"}]
    /\ spc \in {"grab", "hand", "close", "join", "encoder", "capture", "closed"}
    /\ current \in Bufs \cup {None}
    /\ todo \in Seq(Consumers)
    /\ threadsStop \in BOOLEAN
    /\ setup \in Setups
    /\ lost \subseteq Bufs

\* A session starts: the device is open with every buffer queued to the
\* driver, the encoder has a fresh pool and all threads are created.
Init ==
    /\ setup \in Setups
    /\ lost = {}
    /\ driver = [b \in Bufs |-> "empty"]
    /\ grabbed = [b \in Bufs |-> FALSE]
    /\ refs = [b \in Bufs |-> 0]
    /\ queue = [c \in Consumers |-> <<>>]
    /\ hw = [c \in Consumers |-> None]
    /\ cpc = [c \in Consumers |-> "top"]
    /\ prev = None
    /\ slowRet = "top"
    /\ job = [w \in Workers |-> None]
    /\ busy = [w \in Workers |-> "idle"]
    /\ picked = None
    /\ planned = {}
    /\ rpc = [b \in Bufs |-> "get"]
    /\ spc = "grab"
    /\ current = None
    /\ todo = <<>>
    /\ threadsStop = FALSE

-----------------------------------------------------------------------------
(* The stream thread: the loop of us_stream_loop() *)

\* The driver finishes a frame.
DriverFill(b) ==
    /\ driver[b] = "empty"
    /\ spc \notin {"closed"}
    /\ driver' = [driver EXCEPT ![b] = "filled"]
    /\ UNCHANGED <<grabbed, refs, queue, hw, cpc, threadsStop, setupVars>>
    /\ UNCHANGED <<jpegVars, drmVars, releaserVars, streamVars>>

\* while (!run->stop && !threads_stop): looked at before the call that waits
\* for a frame, so a frame may still be grabbed after threads_stop is set.
LoopCheck == IF threadsStop THEN "close" ELSE "grab"

Filled == {b \in Bufs : driver[b] = "filled"}

\* us_capture_hwbuf_grab(): every filled buffer is dequeued, the newest valid
\* one (b) is kept, the others are queued again at once.
Grab(b) ==
    /\ spc = "grab"
    /\ b \in Filled
    /\ \A f \in Filled : ~grabbed[f]
    /\ driver' = [d \in Bufs |-> IF d = b THEN "user"
                                ELSE IF d \in Filled THEN "empty" ELSE driver[d]]
    /\ grabbed' = [grabbed EXCEPT ![b] = TRUE]
    /\ refs' = [refs EXCEPT ![b] = 0]
    /\ current' = b
    /\ todo' = HandOut
    /\ spc' = "hand"
    /\ UNCHANGED <<queue, hw, cpc, threadsStop, setupVars>>
    /\ UNCHANGED <<jpegVars, drmVars, releaserVars>>

\* US_ERROR_NO_DATA: only broken frames, all of them queued again.
GrabBroken ==
    /\ spc = "grab"
    /\ Filled # {}
    /\ \A f \in Filled : ~grabbed[f]
    /\ driver' = [d \in Bufs |-> IF d \in Filled THEN "empty" ELSE driver[d]]
    /\ spc' = LoopCheck
    /\ UNCHANGED <<grabbed, refs, queue, hw, cpc, threadsStop, setupVars, current, todo>>
    /\ UNCHANGED <<jpegVars, drmVars, releaserVars>>

\* Leaving the loop: run->stop, threads_stop, a time-out, an ioctl error, a
\* source change, or "grabbed HW buffer is already used". What the failed call
\* has dequeued no longer matters: the session is over.
LeaveLoop ==
    /\ spc = "grab"
    /\ spc' = "close"
    /\ UNCHANGED <<refs, queue, hw, cpc, threadsStop, setupVars, current, todo>>
    /\ UNCHANGED <<driverVars, jpegVars, drmVars, releaserVars>>

\* Mutated form of HandToConsumer: the reference is forgotten.
HandWithoutRef ==
    /\ spc = "hand"
    /\ todo # <<>>
    /\ LET c == Head(todo) IN
          queue' = IF Len(queue[c]) = QueueCapacity(c) THEN queue
                   ELSE [queue EXCEPT ![c] = Append(@, current)]
    /\ todo' = Tail(todo)
    /\ UNCHANGED <<refs, hw, cpc, threadsStop, setupVars, spc, current>>
    /\ UNCHANGED <<driverVars, jpegVars, drmVars, releaserVars>>

\* QUEUE_HW: a reference is taken, then the buffer is put with timeout 0. The
\* result of us_queue_put() is ignored: a full queue keeps the reference.
HandToConsumer ==
    /\ spc = "hand"
    /\ todo # <<>>
    /\ refs' = [refs EXCEPT ![current] = @ + 1]
    /\ LET c == Head(todo)
           full == Len(queue[c]) = QueueCapacity(c)
       IN  /\ queue' = IF full THEN queue ELSE [queue EXCEPT ![c] = Append(@, current)]
           /\ lost' = IF full /\ c = "raw" THEN lost \cup {current} ELSE lost
    /\ todo' = Tail(todo)
    /\ UNCHANGED <<hw, cpc, threadsStop, setup, spc, current>>
    /\ UNCHANGED <<driverVars, jpegVars, drmVars, releaserVars>>

\* us_queue_put(releasers[hw->buf.index].queue, hw, 0) on a queue of one
PlanRelease ==
    /\ spc = "hand"
    /\ todo = <<>>
    /\ planned' = planned \cup {current}
    /\ current' = None
    /\ spc' = LoopCheck
    /\ UNCHANGED <<refs, queue, hw, cpc, threadsStop, setupVars, todo, rpc>>
    /\ UNCHANGED <<driverVars, jpegVars, drmVars>>

(* The end of a session: everything is joined before anything is freed *)

StopThreads ==
    /\ spc = "close"
    /\ threadsStop' = TRUE
    /\ spc' = "join"
    /\ UNCHANGED <<setupVars, refs, queue, hw, cpc, current, todo>>
    /\ UNCHANGED <<driverVars, jpegVars, drmVars, releaserVars>>

\* DELETE_WORKER for each consumer, then the releasers; threads_stop is reset.
JoinThreads ==
    /\ spc = "join"
    /\ \A c \in Consumers : cpc[c] = "exited"
    /\ \A b \in Bufs : rpc[b] = "exited"
    /\ threadsStop' = FALSE
    /\ spc' = "encoder"
    /\ UNCHANGED <<setupVars, refs, queue, hw, cpc, current, todo>>
    /\ UNCHANGED <<driverVars, jpegVars, drmVars, releaserVars>>

\* Mutated form of CloseEncoder: the workers are not waited for.
CloseEncoderAtOnce ==
    /\ spc = "encoder"
    /\ spc' = "capture"
    /\ UNCHANGED <<refs, queue, hw, cpc, threadsStop, setupVars, current, todo>>
    /\ UNCHANGED <<driverVars, jpegVars, drmVars, releaserVars>>

\* us_encoder_close(): us_workers_pool_destroy() joins the workers and frees
\* their jobs.
CloseEncoder ==
    /\ spc = "encoder"
    /\ \A w \in Workers : busy[w] # "running"
    /\ busy' = [w \in Workers |-> "idle"]
    /\ job' = [w \in Workers |-> None]
    /\ spc' = "capture"
    /\ UNCHANGED <<refs, queue, hw, cpc, threadsStop, setupVars, current, todo, picked>>
    /\ UNCHANGED <<driverVars, drmVars, releaserVars>>

\* us_capture_close(): the buffers are unmapped.
CloseCapture ==
    /\ spc = "capture"
    /\ spc' = "closed"
    /\ UNCHANGED <<refs, queue, hw, cpc, threadsStop, setupVars, current, todo>>
    /\ UNCHANGED <<driverVars, jpegVars, drmVars, releaserVars>>

\* _stream_init_loop() opens the device and the encoder for a new session.
Reopen ==
    /\ spc = "closed"
    /\ driver' = [b \in Bufs |-> "empty"]
    /\ grabbed' = [b \in Bufs |-> FALSE]
    /\ refs' = [b \in Bufs |-> 0]
    /\ queue' = [c \in Consumers |-> <<>>]
    /\ hw' = [c \in Consumers |-> None]
    /\ cpc' = [c \in Consumers |-> "top"]
    /\ slowRet' = "top"
    /\ planned' = {}
    /\ rpc' = [b \in Bufs |-> "get"]
    /\ spc' = "grab"
    /\ lost' = {}
    /\ UNCHANGED <<prev, job, busy, picked, current, todo, threadsStop, setup>>

-----------------------------------------------------------------------------
(* What the consumer threads share *)

\* while (!atomic_load(ctx->stop)), and what each thread does next
LoopTop(c) ==
    /\ cpc[c] = "top"
    /\ cpc' = [cpc EXCEPT ![c] = IF threadsStop THEN "exited"
                                 ELSE CASE c = "jpeg" -> "wait"
                                        [] c = "drm" -> "open"
                                        [] OTHER -> "get"]
    /\ UNCHANGED <<refs, queue, hw, threadsStop, setupVars>>
    /\ UNCHANGED <<driverVars, jpegVars, drmVars, releaserVars, streamVars>>

\* The inner while of _drm_thread()
DrmInner == IF threadsStop THEN "close" ELSE "vsync"

\* const wr is local to one round of _jpeg_thread().
ForgetPicked(c) == picked' = IF c = "jpeg" THEN None ELSE picked

\* us_queue_get() at the head of _get_latest_hw()
Get(c) ==
    /\ cpc[c] = "get"
    /\ queue[c] # <<>>
    /\ hw' = [hw EXCEPT ![c] = Head(queue[c])]
    /\ queue' = [queue EXCEPT ![c] = Tail(@)]
    /\ cpc' = [cpc EXCEPT ![c] = "drain"]
    /\ UNCHANGED <<refs, threadsStop, setupVars>>
    /\ UNCHANGED <<driverVars, jpegVars, drmVars, releaserVars, streamVars>>

\* The 0.1 seconds pass and _get_latest_hw() returns NULL.
GetTimeout(c) ==
    /\ cpc[c] = "get"
    /\ queue[c] = <<>>
    /\ cpc' = [cpc EXCEPT ![c] = IF c = "drm" THEN DrmInner ELSE "top"]
    /\ ForgetPicked(c)
    /\ UNCHANGED <<refs, queue, hw, threadsStop, setupVars, job, busy>>
    /\ UNCHANGED <<driverVars, drmVars, releaserVars, streamVars>>

\* while (!us_queue_is_empty(queue)): the older frame is dropped.
DrainOne(c) ==
    /\ cpc[c] = "drain"
    /\ ~us_queue_is_empty(c)
    /\ refs' = [refs EXCEPT ![hw[c]] = @ - 1]
    /\ hw' = [hw EXCEPT ![c] = Head(queue[c])]
    /\ queue' = [queue EXCEPT ![c] = Tail(@)]
    /\ UNCHANGED <<cpc, threadsStop, setupVars>>
    /\ UNCHANGED <<driverVars, jpegVars, drmVars, releaserVars, streamVars>>

DrainDone(c) ==
    /\ cpc[c] = "drain"
    /\ us_queue_is_empty(c)
    /\ cpc' = [cpc EXCEPT ![c] = "use"]
    /\ UNCHANGED <<refs, queue, hw, threadsStop, setupVars>>
    /\ UNCHANGED <<driverVars, jpegVars, drmVars, releaserVars, streamVars>>

\* Mutated form of DropRef: the reference is given back twice.
DropTwice(c) ==
    /\ cpc[c] = "use"
    /\ c # "drm"
    /\ refs' = [refs EXCEPT ![hw[c]] = @ - 2]
    /\ hw' = [hw EXCEPT ![c] = None]
    /\ cpc' = [cpc EXCEPT ![c] = "top"]
    /\ ForgetPicked(c)
    /\ UNCHANGED <<queue, threadsStop, setupVars, job, busy>>
    /\ UNCHANGED <<driverVars, drmVars, releaserVars, streamVars>>

\* Mutated form of DropRef: an early continue keeps the reference.
DropNothing(c) ==
    /\ cpc[c] = "use"
    /\ c # "drm"
    /\ UNCHANGED refs
    /\ hw' = [hw EXCEPT ![c] = None]
    /\ cpc' = [cpc EXCEPT ![c] = "top"]
    /\ ForgetPicked(c)
    /\ UNCHANGED <<queue, threadsStop, setupVars, job, busy>>
    /\ UNCHANGED <<driverVars, drmVars, releaserVars, streamVars>>

\* _raw_thread(), _h264_thread(): the frame has been published, or nobody
\* watches, or the FPS limit drops it; _jpeg_thread(): nobody watches or the
\* frame is too early. In each case the reference is given back.
DropRef(c) ==
    /\ cpc[c] = "use"
    /\ c # "drm"
    /\ refs' = [refs EXCEPT ![hw[c]] = @ - 1]
    /\ hw' = [hw EXCEPT ![c] = None]
    /\ cpc' = [cpc EXCEPT ![c] = "top"]
    /\ ForgetPicked(c)
    /\ UNCHANGED <<queue, threadsStop, setupVars, job, busy>>
    /\ UNCHANGED <<driverVars, drmVars, releaserVars, streamVars>>

-----------------------------------------------------------------------------
(* _jpeg_thread() and the workers *)

Idle == {w \in Workers : busy[w] = "idle"}

\* Mutated form of PickWorker: the reference of the finished job is kept.
PickWithoutDecref(w) ==
    /\ cpc["jpeg"] = "wait"
    /\ w \in Idle
    /\ picked' = w
    /\ job' = [job EXCEPT ![w] = None]
    /\ cpc' = [cpc EXCEPT !["jpeg"] = "get"]
    /\ UNCHANGED <<refs, queue, hw, threadsStop, setupVars, busy>>
    /\ UNCHANGED <<driverVars, drmVars, releaserVars, streamVars>>

\* us_workers_pool_wait() gives an idle worker (which one is the business of
\* WorkersPool); the buffer of the job it has finished is given back.
PickWorker(w) ==
    /\ cpc["jpeg"] = "wait"
    /\ w \in Idle
    /\ picked' = w
    /\ refs' = IF job[w] = None THEN refs ELSE [refs EXCEPT ![job[w]] = @ - 1]
    /\ job' = [job EXCEPT ![w] = None]
    /\ cpc' = [cpc EXCEPT !["jpeg"] = "get"]
    /\ UNCHANGED <<queue, hw, threadsStop, setupVars, busy>>
    /\ UNCHANGED <<driverVars, drmVars, releaserVars, streamVars>>

\* job->hw = hw; us_workers_pool_assign()
AssignWorker ==
    /\ cpc["jpeg"] = "use"
    /\ job' = [job EXCEPT ![picked] = hw["jpeg"]]
    /\ busy' = [busy EXCEPT ![picked] = "assigned"]
    /\ hw' = [hw EXCEPT !["jpeg"] = None]
    /\ picked' = None
    /\ cpc' = [cpc EXCEPT !["jpeg"] = "top"]
    /\ UNCHANGED <<refs, queue, threadsStop, setupVars>>
    /\ UNCHANGED <<driverVars, drmVars, releaserVars, streamVars>>

\* A worker begins to read the buffer, ...
WorkerStart(w) ==
    /\ busy[w] = "assigned"
    /\ busy' = [busy EXCEPT ![w] = "running"]
    /\ UNCHANGED <<refs, queue, hw, cpc, threadsStop, setupVars, job, picked>>
    /\ UNCHANGED <<driverVars, drmVars, releaserVars, streamVars>>

\* ... and it ends, with a picture or not.
WorkerDone(w) ==
    /\ busy[w] = "running"
    /\ busy' = [busy EXCEPT ![w] = "idle"]
    /\ UNCHANGED <<refs, queue, hw, cpc, threadsStop, setupVars, job, picked>>
    /\ UNCHANGED <<driverVars, drmVars, releaserVars, streamVars>>

-----------------------------------------------------------------------------
(* _drm_thread() *)

DrmGoto(state) == cpc' = [cpc EXCEPT !["drm"] = state]
NoPrev == refs' = IF prev = None THEN refs ELSE [refs EXCEPT ![prev] = @ - 1]

\* us_drm_open()
DrmOpen ==
    /\ cpc["drm"] = "open"
    /\ DrmGoto(DrmInner) \/ DrmGoto("close")
    /\ UNCHANGED <<refs, queue, hw, threadsStop, setupVars>>
    /\ UNCHANGED <<driverVars, jpegVars, drmVars, releaserVars, streamVars>>

\* us_drm_wait_for_vsync() fails, or it returns, and prev_hw is given back. What
\* has been waited for is the flip to prev_hw itself: the buffer is on the screen
\* from now on, and stays there while the driver may already fill it.
DrmVsync ==
    /\ cpc["drm"] = "vsync"
    /\ \/ /\ DrmGoto("close")
          /\ UNCHANGED <<refs, prev>>
       \/ /\ DrmGoto("get")
          /\ NoPrev
          /\ prev' = None
    /\ UNCHANGED <<queue, hw, threadsStop, setupVars, slowRet>>
    /\ UNCHANGED <<driverVars, jpegVars, releaserVars, streamVars>>

\* Mutated form of DrmShow: the reference is given back at once.
DrmShowDropsRef ==
    /\ cpc["drm"] = "use"
    /\ refs' = [refs EXCEPT ![hw["drm"]] = @ - 1]
    /\ prev' = hw["drm"]
    /\ hw' = [hw EXCEPT !["drm"] = None]
    /\ DrmGoto(DrmInner)
    /\ UNCHANGED <<queue, threadsStop, setupVars, slowRet>>
    /\ UNCHANGED <<driverVars, jpegVars, releaserVars, streamVars>>

\* us_drm_expose_dma() shows the buffer itself: the reference is kept.
DrmShow ==
    /\ cpc["drm"] = "use"
    /\ prev' = hw["drm"]
    /\ hw' = [hw EXCEPT !["drm"] = None]
    /\ DrmGoto(DrmInner)
    /\ UNCHANGED <<refs, queue, threadsStop, setupVars, slowRet>>
    /\ UNCHANGED <<driverVars, jpegVars, releaserVars, streamVars>>

\* us_drm_expose_stub(): the picture cannot be shown, the buffer is dropped.
DrmStub ==
    /\ cpc["drm"] = "use"
    /\ refs' = [refs EXCEPT ![hw["drm"]] = @ - 1]
    /\ hw' = [hw EXCEPT !["drm"] = None]
    /\ slowRet' = "vsync"
    /\ DrmGoto("slow")
    /\ UNCHANGED <<queue, threadsStop, setupVars, prev>>
    /\ UNCHANGED <<driverVars, jpegVars, releaserVars, streamVars>>

\* Either call fails: CHECK jumps to close, past the decref of hw.
DrmShowFails ==
    /\ cpc["drm"] = "use"
    /\ hw' = [hw EXCEPT !["drm"] = None]
    /\ lost' = lost \cup {hw["drm"]}
    /\ DrmGoto("close")
    /\ UNCHANGED <<refs, queue, threadsStop, setup>>
    /\ UNCHANGED <<driverVars, jpegVars, drmVars, releaserVars, streamVars>>

\* us_drm_close() and the previous buffer
DrmClose ==
    /\ cpc["drm"] = "close"
    /\ NoPrev
    /\ prev' = None
    /\ slowRet' = "top"
    /\ DrmGoto("slow")
    /\ UNCHANGED <<queue, hw, threadsStop, setupVars>>
    /\ UNCHANGED <<driverVars, jpegVars, releaserVars, streamVars>>

\* SLOWDOWN: for a second frames are thrown away as they come. It ends with the
\* frame thrown away last, or with a _get_latest_hw() that found none, or early
\* because the session ends.
DrmSlowEnds == DrmGoto(IF slowRet = "top" THEN "top" ELSE DrmInner)

DrmDiscard ==
    /\ cpc["drm"] = "slow"
    /\ queue["drm"] # <<>>
    /\ refs' = [refs EXCEPT ![Head(queue["drm"])] = @ - 1]
    /\ queue' = [queue EXCEPT !["drm"] = Tail(@)]
    /\ UNCHANGED cpc \/ DrmSlowEnds
    /\ UNCHANGED <<hw, threadsStop, setupVars>>
    /\ UNCHANGED <<driverVars, jpegVars, drmVars, releaserVars, streamVars>>

DrmResume ==
    /\ cpc["drm"] = "slow"
    /\ queue["drm"] = <<>> \/ threadsStop
    /\ DrmSlowEnds
    /\ UNCHANGED <<refs, queue, hw, threadsStop, setupVars>>
    /\ UNCHANGED <<driverVars, jpegVars, drmVars, releaserVars, streamVars>>

-----------------------------------------------------------------------------
(* _releaser_thread() of buffer b *)

ReleaserGoto(b, state) == rpc' = [rpc EXCEPT ![b] = state]

ReleaserGet(b) ==
    /\ rpc[b] = "get"
    /\ b \in planned
    /\ planned' = planned \ {b}
    /\ ReleaserGoto(b, "spin")
    /\ UNCHANGED <<refs, queue, hw, cpc, threadsStop, setupVars>>
    /\ UNCHANGED <<driverVars, jpegVars, drmVars, streamVars>>

\* Mutated form of ReleaserSpin: the references are not waited for.
ReleaserNoSpin(b) ==
    /\ rpc[b] = "spin"
    /\ ReleaserGoto(b, "release")
    /\ UNCHANGED <<refs, queue, hw, cpc, threadsStop, setupVars, planned>>
    /\ UNCHANGED <<driverVars, jpegVars, drmVars, streamVars>>

\* while (atomic_load(&hw->refs) > 0)
ReleaserSpin(b) ==
    /\ rpc[b] = "spin"
    /\ refs[b] = 0
    /\ ReleaserGoto(b, "release")
    /\ UNCHANGED <<refs, queue, hw, cpc, threadsStop, setupVars, planned>>
    /\ UNCHANGED <<driverVars, jpegVars, drmVars, streamVars>>

\* us_capture_hwbuf_release(): VIDIOC_QBUF, from here the driver owns it ...
Requeue(b) ==
    /\ rpc[b] = "release"
    /\ driver' = [driver EXCEPT ![b] = "empty"]
    /\ ReleaserGoto(b, "clear")
    /\ UNCHANGED <<grabbed, refs, queue, hw, cpc, threadsStop, setupVars, planned>>
    /\ UNCHANGED <<jpegVars, drmVars, streamVars>>

\* ... and only then hw->grabbed = false, before the loop looks at the stop.
ClearGrabbed(b) ==
    /\ rpc[b] = "clear"
    /\ grabbed' = [grabbed EXCEPT ![b] = FALSE]
    /\ ReleaserGoto(b, IF threadsStop THEN "exited" ELSE "get")
    /\ UNCHANGED <<driver, refs, queue, hw, cpc, threadsStop, setupVars, planned>>
    /\ UNCHANGED <<jpegVars, drmVars, streamVars>>

\* VIDIOC_QBUF fails: "Stop all other guys on error".
RequeueFails(b) ==
    /\ rpc[b] = "release"
    /\ threadsStop' = TRUE
    /\ ReleaserGoto(b, "exited")
    /\ UNCHANGED <<setupVars, refs, queue, hw, cpc, planned>>
    /\ UNCHANGED <<driverVars, jpegVars, drmVars, streamVars>>

\* Mutated form of ReleaserStop: the wait for references ignores the stop.
ReleaserStopIdle(b) ==
    /\ rpc[b] = "get"
    /\ threadsStop
    /\ ReleaserGoto(b, "exited")
    /\ UNCHANGED <<refs, queue, hw, cpc, threadsStop, setupVars, planned>>
    /\ UNCHANGED <<driverVars, jpegVars, drmVars, streamVars>>

\* The session ends while the releaser waits for a buffer or for references.
ReleaserStop(b) ==
    /\ rpc[b] \in {"get", "spin"}
    /\ threadsStop
    /\ ReleaserGoto(b, "exited")
    /\ UNCHANGED <<refs, queue, hw, cpc, threadsStop, setupVars, planned>>
    /\ UNCHANGED <<driverVars, jpegVars, drmVars, streamVars>>

-----------------------------------------------------------------------------
StreamStep ==
    \/ GrabBroken \/ LeaveLoop \/ HandToConsumer \/ PlanRelease
    \/ StopThreads \/ JoinThreads \/ CloseEncoder \/ CloseCapture \/ Reopen
    \/ \E b \in Bufs : Grab(b)

ConsumerStep(c) ==
    \/ LoopTop(c) \/ Get(c) \/ GetTimeout(c) \/ DrainOne(c) \/ DrainDone(c)
    \/ DropRef(c)

JpegStep == AssignWorker \/ \E w \in Workers : PickWorker(w)

WorkerStep(w) == WorkerStart(w) \/ WorkerDone(w)

DrmStep ==
    /\ setup.drm
    /\ DrmOpen \/ DrmVsync \/ DrmShow \/ DrmStub \/ DrmShowFails \/ DrmClose
       \/ DrmDiscard \/ DrmResume

ReleaserStep(b) ==
    \/ ReleaserGet(b) \/ ReleaserSpin(b) \/ Requeue(b) \/ ClearGrabbed(b)
    \/ RequeueFails(b) \/ ReleaserStop(b)

Next ==
    \/ StreamStep
    \/ \E b \in Bufs : DriverFill(b) \/ ReleaserStep(b)
    \/ \E c \in Consumers : ConsumerStep(c)
    \/ JpegStep
    \/ \E w \in Workers : WorkerStep(w)
    \/ DrmStep

Spec == Init /\ [][Next]_vars

AnyBufs == UNION {0 .. s.bufs - 1 : s \in Setups}
AnyWorkers == UNION {1 .. s.workers : s \in Setups}

\* Every thread of the session keeps running and every encoding ends. The
\* driver owes nothing, and the stream thread may stay in the loop.
Fairness ==
    /\ WF_vars(HandToConsumer \/ PlanRelease)
    /\ WF_vars(StopThreads \/ JoinThreads \/ CloseEncoder \/ CloseCapture)
    /\ WF_vars(spc = "grab" /\ threadsStop /\ LeaveLoop)
    /\ \A b \in AnyBufs : WF_vars(b \in Bufs /\ ReleaserStep(b))
    /\ \A c \in {"raw", "h264"} : WF_vars(c \in Consumers /\ ConsumerStep(c))
    /\ WF_vars(ConsumerStep("jpeg") \/ JpegStep)
    /\ WF_vars(setup.drm /\ (ConsumerStep("drm") \/ DrmStep))
    /\ \A w \in AnyWorkers : WF_vars(w \in Workers /\ WorkerStep(w))

FairSpec == Spec /\ Fairness

-----------------------------------------------------------------------------
\* Everyone who may look at buffer b because of a reference
Holders(b) ==
    {<<"queue", c>> : c \in {x \in Consumers : \E i \in 1 .. Len(queue[x]) : queue[x][i] = b}}
    \cup {<<"hw", c>> : c \in {x \in Consumers : hw[x] = b}}
    \cup {<<"job", w>> : w \in {x \in Workers : job[x] = b}}
    \cup (IF prev = b THEN {<<"prev", "drm">>} ELSE {})

Open == spc \notin {"capture", "closed"}

\* The reference count never falls behind the number of threads and queues
\* that have the buffer. (It may run ahead of it: see NoLeakedRef.)
RefsCoverHolders ==
    Open => \A b \in Bufs : Cardinality(Holders(b)) <= refs[b]

\* A buffer that the driver may overwrite is in nobody's hands: no consumer
\* sees one frame turn into the next while it works on it.
NoUseAfterRequeue ==
    Open => \A b \in Bufs :
        driver[b] # "user" => Holders(b) = {} /\ b \notin planned

\* assert(refs == 0) in us_capture_hwbuf_release() holds, and the buffer is
\* released exactly once per grab.
ReleaseIsSafe ==
    \A b \in Bufs : rpc[b] = "release" => refs[b] = 0 /\ driver[b] = "user"

\* The JPEG, H264 and DRM queues and the releaser queues never overflow, so
\* ignoring the result of us_queue_put() is harmless there.
NoOverflow ==
    spc = "hand" =>
        /\ todo # <<>> /\ Head(todo) # "raw"
              => Len(queue[Head(todo)]) < QueueCapacity(Head(todo))
        /\ current \notin planned

\* us_capture_close() unmaps the buffers when no thread and no worker of the
\* session can read them any more.
CloseIsSafe ==
    spc = "closed" =>
        /\ \A c \in Consumers : cpc[c] = "exited"
        /\ \A b \in Bufs : rpc[b] = "exited"
        /\ \A w \in Workers : busy[w] = "idle"

\* "Plan to release": while the releaser of a buffer waits for its references,
\* somebody is left who will give one back. A reference without a holder keeps
\* the buffer out of the driver until the end of the session.
NoLeakedRef ==
    spc \in {"grab", "hand"} =>
        \A b \in Bufs : rpc[b] = "spin" /\ refs[b] > 0 => Holders(b) # {}

\* Every reference has its holder, but for those lost in QUEUE_HW on a full RAW
\* queue and by a CHECK of _drm_thread() that fails: no other path of the five
\* kinds of threads loses one.
OnlyKnownLeaks ==
    spc \in {"grab", "hand"} =>
        \A b \in Bufs \ lost : rpc[b] = "spin" /\ refs[b] > 0 => Holders(b) # {}

\* The end of a session is reached whatever the threads are doing.
CloseTerminates == spc = "close" ~> spc = "closed"

\* The driver never runs dry for good: some buffer always comes back, even
\* though idle workers may sit on the buffers of their finished jobs, unless
\* references have been lost.
NeverStarved ==
    []<>(threadsStop \/ ~Open \/ lost # {} \/ \E b \in Bufs : driver[b] # "user")

\* The buffers that are out of the driver's hands in a session that goes on,
\* with every reference accounted for
Withheld ==
    {b \in Bufs \ lost : driver[b] = "user" /\ ~threadsStop /\ spc \in {"grab", "hand"}}

\* Its worker has finished with it and has not been picked again.
WithIdleWorker(b) == \E w \in Idle : job[w] = b

\* "Plan to release": every buffer that is grabbed goes back to the driver while
\* the session lasts. The only one that never does is with an idle worker that is
\* never picked again, which takes another worker to be picked in its place; a
\* stay with a worker that is picked later excuses nothing.
PlannedIsReleased ==
    \A b \in AnyBufs :
        <>[](b \in Withheld) => Cardinality(Workers) > 1 /\ <>[]WithIdleWorker(b)

\* "Take only the freshest frame": _get_latest_hw() leaves no newer frame in
\* the queue when it returns.
LatestIsFreshest ==
    [][\A c \in Consumers : cpc[c] = "drain" /\ cpc'[c] = "use" => queue[c] = <<>>]_vars

\* "grabbed HW buffer is already used": a buffer that the driver returns is
\* never one that is still marked as grabbed.
GrabbedIsUsed ==
    \A b \in Bufs : spc = "grab" /\ b \in Filled => ~grabbed[b]
=============================================================================
