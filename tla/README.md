# A TLA+ model of TinyPilot KVM and its uStreamer

The repository is a KVM-over-IP appliance packed into containers. Two programs
carry its logic:

- **uStreamer** (`images/ustreamer`, C): captures video from a V4L2 device,
  encodes it to JPEG and H.264 in several threads and hands the frames to HTTP
  clients, to a DRM output and, through shared memory, to other processes, among
  them the Janus WebRTC plugin in `images/ustreamer/janus`.
- **TinyPilot** (`images/tinypilot/app`, Python): the web application that turns
  browser events into USB HID reports, keeps settings and users in SQLite and
  starts updates.

uStreamer is where threads, processes and devices meet, so the model starts
there. All paths below are relative to `src/images/ustreamer` unless they begin
with `app/`, which is `src/images/tinypilot/app`.

## 1. Inventory

| Component | State | Operations | Interacts with | What is hard | What makes it correct |
|---|---|---|---|---|---|
| Queue `src/libs/queue.c` | ring buffer `items`, `size`, `in`, `out`, a mutex, two condition variables | `us_queue_put`, `us_queue_get`, `us_queue_is_empty` | used by rings, stream threads, Janus clients | broadcast after unlock, time-outs, wrap-around | bounded FIFO, no lost wake-up |
| Ring `src/libs/ring.c` | `items`, two queues of indices | acquire and release on both sides | JPEG frames from stream to HTTP, RTP packets and audio in Janus | items are used outside any lock | an index is in one place; nobody reads an item being written |
| Workers pool `src/ustreamer/workers.c` | `workers` list, `free_workers`, per worker `has_job`, `job_failed`, `job_start_ts` | create, `us_workers_pool_wait`, `us_workers_pool_assign`, `_worker_thread`, destroy | driven by `_jpeg_thread`, created by `encoder.c` | counter and flags change in different critical sections; destruction with jobs running | `assert(found != NULL)`, no job shared, destruction ends |
| Stream loop `src/ustreamer/stream.c`, buffers of `src/libs/capture.c` | V4L2 buffers with `refs` and `grabbed`, one queue per consumer thread and per releaser, `threads_stop` | grab, hand out, plan release, consume, release, close and reopen a session | all of the above, driver, DRM | reference counts moved by many threads, ignored results, errors in the middle, shutdown order | no buffer is given back while in use; every buffer comes back; a session can always be closed |
| Memory sink `src/libs/memsink.c`, `janus/src/memsinkfd.c` | one frame in shared memory: `id`, meta, `key_requested`, `last_client_ts`; `flock()` | server check and put, client get, Janus wait and get | uStreamer's H264, RAW and JPEG sides with other processes | processes die anywhere; unlocked reads; server and client wait for each other's sign of life | whole frames, served key requests, nobody ignored |
| HTTP server `src/ustreamer/http/server.c` | stream clients (`need_first_frame`, `updated_prev`), snapshot clients, the exposed frame | requests, refresher timer, exposition, writes, snapshot answers | JPEG ring, `http` part of the stream's runtime | two threads share a ring, a counter and a flag; time-outs; slow clients | no client of the stream is left with an old picture, every snapshot is answered, in time only after a picture was counted for it |
| Janus plugin `janus/src/plugin.c`, `client.c`, `acap.c` | list of sessions under three mutexes, flags for watchers, listeners, speakers and the key request, packet rings, sound devices | callbacks of Janus, sink reader, packer, sound capture and playback, three threads per session | memory sink, Janus core, ALSA | flags read and reset by several threads; sessions destroyed while others walk through the list; joins under locks | flags agree with the sessions, no walk meets a freed one, keys arrive, devices are closed, destruction ends |
| Capture device `src/libs/capture.c` | `us_capture_runtime_s`: descriptor, buffers with mapping and DMA descriptor | open, grab, release, close | V4L2 driver | an open of a dozen calls, each of which may fail | exactly what was taken is given back |
| Display `src/libs/drm/drm.c`, passthrough program `src/v4p/main.c` | `us_drm_runtime_s`, the controller's pending flip, the timer of the blank screen | open, expose, wait for the sync, power off, close; loop over live video, stubs and a busy message | capture device, uStreamer's socket | DMA buffers shared by two devices; failures between a flip and its event | no flip to a buffer the driver fills, no frame buffer without its memory; video or a dark screen comes back |
| Encoders `src/ustreamer/encoder.c`, `m2m.c` | type and number of workers, the array of M2M encoders; the H264 device with its queues | open and close with a session, (re)configuration, compress | capture buffers, stream loop | sessions with other numbers of buffers; outputs that answer to earlier inputs | the frame exposed is the one sent, no buffer stays in the device, key frames come when asked for and after a switch |
| JPEG encoders, GPIO, frame drawing | device handles | I/O and conversion | called by the above | | outcomes appear as choices in the callers |
| uStreamer process `src/ustreamer/main.c` | two threads, signal handlers | start, stop | HTTP server, stream loop | stop while either is blocked | both loops end |
| Update service `app/update` | systemd unit, result files | start, status, result | web API, browser polling | check and start are two steps | one update at a time; its result is the one shown |
| HID output `app/hid`, `app/execute.py` | a file per device, a child process per write | keystroke, mouse event | socket API | time-out while a write hangs | no key stays down |
| Database `app/db` | `user_version`, tables | open and migrate, settings, users | every worker process | two processes migrate together; crash between statements | each migration is applied exactly once |
| Secret key and atomic files `app/secret_key.py`, `app/atomic_file.py` | a file | create, read | start of the application | crash or second process between check and write | one key, complete |
| Web API, request parsers, network and local system, front end, deployment | none of their own, or browser state | translate requests, call scripts | | | not modelled: stateless translation and configuration |

`PROJECT.json` lists the components with their state of coverage, the hazards at
their lines, and the line map of every definition.

## 2. Modules and how they correspond to the code

**`UsQueue`** (refines **`BoundedFifo`**). Variables are the fields of
`us_queue_s`; `pc` says where each caller is. One critical section is one
action. A put is `TryPut` (time-out 0) or `TimedPut`, which stores or goes to
sleep; `ResumePut` re-tests the condition after a wake-up; `NotifyGetters` is the broadcast that the code
issues *after* it has unlocked the mutex. Gets mirror that. `Expire` lets the
deadline of a sleeper pass and `ReturnTimedOut` is the `-1` returned then, with
no second look at the queue. Spurious wake-ups are modelled. `BoundedFifo` is the promise: a sequence
of at most `Capacity` items to which puts append and from which gets take the
head. The refinement maps the array to `Queued`, the items from `out` on.

**`UsRing`** (refines `BoundedFifo` too). The two queues of indices are
sequences, justified by the theorem about `UsQueue`. `contents` says what an
unlocked item holds: a value, `Blank`, or `Torn` while somebody writes it. The
actions follow the users of the ring: acquire, write, release, and, as
`_stream_expose_jpeg()` does, a look at the item after its release.

**`WorkersPool`**. The dispatcher (`_jpeg_thread` with the functions it calls)
and the workers take one action per critical section or access to shared
fields. The list is modelled by `rank`, positions that `DL_DELETE` and
`DL_APPEND` change; the scan of the list reads one `has_job` at a time,
concurrently with the workers. `clock` stamps the jobs; it may stand still,
because two stamps can be equal. Creation and destruction of the pool are part
of the model.

**`StreamLoop`**. Sessions of `us_stream_loop()`. Each buffer belongs to the
driver (`empty`, `filled`) or to us (`user`). The stream thread grabs (dropping
all but the newest filled buffer), hands the buffer to every consumer in the
order of the `QUEUE_HW` calls and plans the release. `Get`, `DrainOne` and
`DrainDone` are `_get_latest_hw()`, with `us_queue_is_empty()` computed exactly
as the code does. `PickWorker`, `AssignWorker`, `WorkerStart`, `WorkerDone` are
`_jpeg_thread()` on top of the pool; the `Drm...` actions are `_drm_thread()`
with each call that can fail; `Releaser...`, `Requeue` and `ClearGrabbed` are
`_releaser_thread()` and `us_capture_hwbuf_release()`. Errors set
`threads_stop`, the session is joined and closed in the code's order, and
`Reopen` starts the next one. Pictures, formats, FPS limits and statistics are
left out: a frame may be dropped where the code may drop it.

**`Memsink`**. One server (uStreamer's H264 side with
`_stream_encode_expose_h264()`) and two kinds of clients: users of
`us_memsink_client_get()` and the Janus plugin's `memsinkfd.c`. `mem->id` is
abstracted to `unread`, the clients whose last id differs from it;
`last_client_ts` to `fresh` (younger than `client_ttl`) and `stamp` (changed
since the server looked). The server's check reads the stamp without the lock,
and while a client is writing it may remember garbage. Every process may die
anywhere, which drops its lock and leaves the memory as it is; another one
starts on the old contents.

**`Capture`**. `us_capture_open()` and `us_capture_close()` on the runtime record
`cap`. Every call inside the open is an operator from the record to the set of
its outcomes (`Ok` or `Fail` with the record as it is by then), chained by `Then`;
what the process really holds of the system is kept apart, in `cap.os`, so that
forgetting and giving back twice can be told apart. Grabbing and releasing are
reduced to the flag `grabbed` and to the three ways they end. `faulty` says that
system calls may fail; the environment may clear it for good.

**`Drm`**. The calls of `drm.c`, written in the same way over the record `drm` and
the display controller `screen`: the frame it shows, the flip it has to do, the
event that waits to be read. A live picture is imported as DMA buffers of
`Capture`; a stub has buffers of its own. The CRTC is saved or not (`WithSaved`,
`drmModeGetCrtc()` may return NULL), and `us_drm_close()` restores it or leaves the screen
as it is without the program's buffers (`ShutScreens`): a failure there is only logged.

**`V4p`** composes the two: the main loop of `v4p/main.c` (one action per library
call, `Check` for `CHECK()`), the thread that follows uStreamer's socket, the
signal handler, the cable, the source and the timer.

**`Encoders`** composes `Capture` with `encoder.c`, `m2m.c` and
`_stream_encode_expose_h264()`. A session opens the capture device and the JPEG
encoder and closes both; the H264 encoder outlives it. A frame is sent (`Send`),
encoded by the device (`DeviceEncodes`) and fetched (`Fetch`), and what the device
hands back is `current`, `earlier` or `empty`, its relation to the frame
being encoded. The two key flags are those of the stream and of the sink. What may come
out as a key frame is `KeyChoices`; the key frame a device begins with (`dev.fresh`) may
be an output that is passed over. Two ghosts say what the code does not keep: `shown`,
whether the last picture encoded was live or blank, and `frame.asked`, whether a request
was pending when the frame was taken up.

**`HttpServer`** composes the HTTP thread (requests, refresher, write callbacks,
broken connections), the stream and JPEG threads as far as they feed it, and the
main thread with the signal handler. The ring of `UsRing` is a
sequence here, because that module shows it to be a FIFO. `_http_refresher()` is
cut in two where it reads what the JPEG thread writes. Clocks are flags that
`Tick` sets. Three ghosts remember who was sent what is exposed (`current`), for whom a
picture has been counted (`counted`) and what was put into the ring last (`newest`). The
signal handler stays installed until the process ends, so a signal may still come when
`main()` has destroyed the objects it uses (`LateSignal`).

**`JanusPlugin`** has one action per critical section of a callback, of the
packer, of the sound threads and of a session's threads. A callback is a record
(operation, session, mutex it is at); `_LOCK_ALL` takes the mutexes one by one.
Walks through the list keep the sessions still to visit, so that a session freed
under a walk is seen. The memory sink is reduced to the life of a key request
(`memKey`). `Visitors` names the host (memory sink only, sound devices, nothing)
and who comes to it.

**`MC*`** modules give names to the instances; the `.cfg` files give the
constants.

**`*Proofs`** modules hold the theorems of the module they are named after;
`CaptureProofs` those of `Capture` and of the two modules composed with it, `V4p` and `Encoders`
(whose specification is called `EncodersSpec`, so that one module can speak of both).

Definitions commented *Mutated form of ...* are wrong versions of an action (a
forgotten reference, a skipped lock). No specification uses them: they exist to
show that each property notices the mistake it is meant to notice.

## 3. Runs

| Run | Instance | Shows |
|---|---|---|
| `queue` | 2 putters, 2 getters, capacity 2, 2 values | no getter sleeps past its chance (`NoSleepingGetter`); whoever can proceed does (`WaiterIsWoken`); a bounded FIFO (`ImplementsFifo`) |
| `ring` | 1 producer, 2 consumers, 3 slots, 2 values | indices are not shared; `assert(!us_queue_put(...))` of `_release()` holds; stable reads; contents travel as through a FIFO; a slot always comes back to the producer |
| `workers` | 2 workers, clock to 2 | `assert(found != NULL)`, the job handover, a failed job is never timely; a wait returns and a destruction ends |
| `stream` | 2 buffers, 2 workers, H264 sink; 1 buffer, 1 worker, DRM | nothing is used after it went back to the driver, references are lost in the known places only (here the failing DRM call, as the setups have no RAW sink), close frees nothing in use; sessions end; planned buffers come back unless an idle worker keeps one for ever |
| `memsink` | 1 server, 2 clients, 1 Janus client | torn frames are seen only after a server died in a put; a key request is served and no `us_memsink_client_get()` client is ignored |
| `http` | 1 stream client with `dual_final_frames`, 1 snapshot client, one picture and the blank one, ring of 1 | a client that waits for nothing has what is exposed; a snapshot answered in time follows a count made since its request and gets the newest picture unless a newer one is in the ring; each is answered; a signal ends both threads; an idle process with `--exit-on-no-clients` ends |
| `v4p` | 2 buffers, 4 geometries (fitting, too large, too small, JPEG), 1 mode | closed devices hold nothing and leave none of the program's pictures on the screen; the assertions of `drm.c`; no buffer is filled while a flip to it is pending, and none is shown without its memory; video comes back after the faults; the display turns off without a signal |
| `encoders` | 1 or 2 buffers, MMAP and USERPTR, 1 worker | the exposed frame is the one sent; no capture buffer stays in the device; nothing is held after a failure; a key request is served |
| `janus` | 1 thread of Janus; 1 session with a sink, 1 with sound, 2 without either; rings of 1 | the flags agree with the sessions; no walk meets a destroyed session; a browser gets its key frame; sound devices are closed; destruction ends |

Three more runs end in a counterexample, each for a statement the repository
makes about itself:

| Run | Statement | What the code does |
|---|---|---|
| `raw_leak` | `// Plan to release` (stream.c:225): `NoLeakedRef` | the RAW queue holds 2; with 3 buffers out the put fails, its result is ignored and the reference is never given back in this session |
| `latest_frame` | "we take only the freshest frame" (stream.c:500, in Russian): `LatestIsFreshest` | `us_queue_is_empty()` is true for every queue that is not *full*, so older frames are dropped only from a full queue |
| `m2ms_fit` | "we start from zero and initialise the rest in later rounds as needed" (encoder.c:143, in Russian): `M2msFit` | the array is allocated once, for the number of workers of the first session; a later session with more workers initialises an encoder beyond it |

### Other deviations met

These are left without a run; the named property is in its module and can be
put into the configuration named in brackets.

- `NoLeakedRef` with DRM (`MCStreamLoop` with its second setup): a failing `CHECK()` of
  `_drm_thread()` jumps to `close`, which gives back `prev_hw` but not `hw`.
- `GrabbedIsUsed` (`MCStreamLoop.cfg`): "grabbed HW buffer=%u is already used"
  (capture.c:391) is meant as an error of V4L2, but `grabbed` is cleared after
  `VIDIOC_QBUF`; a driver that returns the buffer in between ends the session.
- `JanusIsNotIgnored` (`MCMemsink.cfg`): "the client writes its stamp at any action"
  (memsink.c:123, in Russian), but waiting writes none; after `client_ttl` without a
  put the server waits for the client and the client for the server (a blank
  frame, put when the source is lost, ends it).
- `QuietServerExits` (`MCHttpServer.cfg`): the help of `--exit-on-no-clients`
  (options.c:768) speaks of clients and requests; a snapshot that timed out while no
  picture came leaves its request counted, and the process never exits.
- A signal between the start of the HTTP thread and `event_base_dispatch()` is
  forgotten by libevent, so the stop is lost until the next signal (`StopEnds` is
  stated for a running loop).
- With `USERPTR`, `dma_fd` stays the 0 of `US_CALLOC`, so closing closes the standard
  input (the second part of `CaptureHoldsNothing` is stated for MMAP).
- `SnapshotIsFresh` (`MCHttpServer.cfg`): `has_fresh_snapshot` (server.c:875) is derived
  from `snapshot_requested == 0`. The refresher may find the ring empty, the JPEG thread may
  then put a picture into it and count it, and the refresher finds the count at zero: the
  snapshot gets the exposed picture, from before its request, although the new one is in
  the ring.
- `HandlerHasObjects` (`MCHttpServer.cfg`): the signal handler (main.c:71-77) is installed
  before the threads start (main.c:98) and never removed; after `us_server_destroy()` and
  `us_stream_destroy()` (main.c:119-120) it uses freed objects.
- `ShownIsGrabbed` (`MCV4p.cfg`): `prev_hw` is given back to the driver as soon as the flip
  to it is done (v4p/main.c:208-213, stream.c:456-457 in the other program), while it is what the
  display scans out; and `us_drm_open()` shows buffer 0 before anything was captured into it.
- The console does not always come back: if `drmModeGetCrtc()` returned NULL (drm.c:165) nothing
  is restored, and a failure of the restoring `drmModeSetCrtc()` is only logged (drm.c:205-211). The
  screen is then dark, which `DevicesHoldNothing` allows.
- A mapping is kept if the buffer cannot be finished: a stub's in `drm.c` and an
  encoder's in `m2m.c` ("lost" in `drm.os` and `m2m.os`).

### Bounds and why they are enough

Every state space is finite by itself or through the bounds named here. A
capacity of 2 lets the queue be empty, partly filled, full and wrapped; two
callers on each side let a wake-up go to the wrong one. Three slots let two
consumers hold one each while the producer writes. Two workers overtake each
other and let the dispatcher re-assign one that has not yet incremented the
counter; `MaxClock = 2` gives both orders and equal stamps. Two buffers are
enough for one to be in use while the other one is grabbed; the
RAW queue of two needs three. The setups of `stream` keep the kinds of consumers
apart since they meet only in the reference count of a buffer, and each has two
kinds.

The devices need no larger numbers: a failure at the first and one at the second
of two buffers are the two cases of a loop that fails; the geometries are one for
each answer of the display and of the encoder. In `http` a ring of one is full as
soon as the refresher is slow, `MaxRequested = 2` lets a count be left
behind and met by the next snapshot, and `DropSame = 1` gives dropped and
exposed frames; clients do not act on each other except through their number,
which is 0 or not for `has_clients`. In `janus` two sessions are needed for the
flags (one leaves, the other still listens) and one for the locks, because a walk
is endangered by the session it is about to visit; one callback at a time is
enough as `_LOCK_ALL` makes them take turns, and the threads of the plugin supply the
concurrency. Rings of one are full at the second packet.

Deadlock is checked, except in `http`, `v4p` and `janus`, where the process or the plugin
may end for good.

`PlannedIsReleased` names an exception: a worker gives its buffer back only when
it is picked again, and `us_workers_pool_wait()` may pick another one each time.
A buffer may therefore stay out of the driver's hands for the rest of a session, but only
with a worker that stays idle for ever with it, and only if the pool has another
worker; a buffer that merely passes through an idle worker is no excuse.

### Fairness

- *Queue*: a thread inside a call keeps running. Nobody has to call, no
  deadline has to pass, no spurious wake-up has to happen.
- *Ring*: consumers poll for as long as the program runs (the HTTP refresher is
  a timer, the Janus RTP threads are loops).
- *Workers*: threads run and `run_job()` returns: it is a finite computation, or
  device I/O with a time-out.
- *Stream*: the threads of a session run and encodings end. The driver owes
  nothing (it may never fill a buffer), and no error has to happen. The stream
  thread leaves its loop if `threads_stop` is set.
- *Memory sink*: `flock()` is polled with `LOCK_NB`, so a lock that is free
  again and again is got once (strong fairness). Frames keep coming, encoder
  and put do not fail for ever, a dead server is restarted. Clients have to stay
  alive for the promises made to them.
- *HTTP*: the refresher's timer fires, the threads run, time passes, and an opened
  device goes on delivering pictures or fails. Clients, the operator's
  signals and the success of encodings are not assumed.
- *Passthrough*: the program is scheduled, the display finishes its flips, time
  passes. Failures need not end, but the two promises are made for behaviours in which
  they do (`Quiet`).
- *Encoders*: the thread is scheduled and the device encodes what it was given.
  `KeyIsServed` is conditional on frames being exposed again and again.
- *Janus*: the threads are scheduled; mutexes are strongly fair for the callbacks
  and the three walking threads, each of which sleeps or blocks elsewhere between two
  holds. Frames keep coming, uStreamer makes the key frames it is asked
  for, browsers that cannot decode keep sending PLIs (as WebRTC ones do). The
  sound device need not fail or work.

## 4. Proofs

TLAPS checks the following for every value of the constants. Each module has an
inductive invariant, called `IInv` where it has several parts; TLC has checked it on the
instance of section 3.

- **`UsQueueProofs`**: `TypeCorrect`; `NoLostWakeup`, from an invariant that is
  already inductive together with the types (a sleeper past its condition has a
  notifier on its way); `QueueImplementsFifo`, for which `in` has to be the place
  `size` after `out` (`InInStep`): storing at `in` then appends to `Queued`, and
  taking at `out` removes its head. The lemmas `StoreAppends` and
  `FetchTakesHead` carry the arithmetic, `%` being reduced to one subtraction
  within one lap.
- **`UsRingProofs`**: `TypeCorrect`; `SlotsConserved`: no index is shared and none is
  lost, which is inductive as it stands; `ReleaseSafe`: an index in hand
  cannot also be in a queue, so the queue has room for it (counting on finite sets);
  `ReadsStable`, where the strengthening is that released items are complete,
  and which needs the assumption `OneProducer`, as in the code.
  `RingImplementsFifo`: the contents of the items in the queue of filled indices are
  the abstract sequence. A write to an item in hand leaves them alone because the
  index is not in that queue, and what is released is what was written because
  released items are complete; all other steps stutter.
- **`WorkersPoolProofs`**: `PoolInvariant`, the inductive invariant `IInv`. Its
  core is `FreeWorkersCounts`: `free_workers` is the number of flags that are
  clear, corrected by the worker that has yet to increment and the dispatcher
  that has yet to decrement. `ScanInv` (a free worker has been found or is still
  ahead in the list) needs the list to be a permutation and only the dispatcher
  to set flags. `TypeCorrect`, `FreeWorkerFound` and `HandoverSafe` follow.
  `FailedNeverTimely` adds `StampInv`: the newest accepted stamp is never older
  than that of a worker whose last job failed, because such a worker keeps
  the stamp of a success the dispatcher has already seen.
  `PoolEndsSafely` adds `EndInv`: the workers before `scan` are joined, and a worker that has got its
  final job cannot go back to wait for another, because it passes `pool->stop` first.
- **`MemsinkProofs`**: `SinkInvariant`: the lock belongs to the process at work, and
  the memory is torn only while the server writes or after it died doing so.
  `TypeCorrect`, `LockSafe`, `FramesAreWhole` and the action property
  `ReadsAreUndisturbed` (nobody changes what a client is reading) follow. Two more invariants hold with
  it: `RequestInv` (`RequestsAgree`), that the encoder's request and the memory's agree
  through failed encodings, skipped puts and new servers, and `FirstPutInv` (`NothingBeforeFirstPut`), that
  nothing is read, asked for or stamped in a memory no server has finished, and that who has read the
  frame has left a stamp. That the server reacts to stamps is liveness (`NobodyIsIgnored`), and for the
  Janus clients not so.
- **`StreamLoopProofs`**: `StreamInvariant`. `NoUseAfterRequeue` is not inductive:
  that a releaser meets `refs == 0` says something about all places a buffer can be in.
  `CountInv` therefore counts: `HeldBy(b)` is the set of consumers that have the
  buffer (in their queue, in their hands, with a worker, on the screen), and `refs` is at
  least its cardinality, and equal to it during a session unless a reference was lost.
  For a cardinality of consumers to be enough, no consumer may have a buffer
  twice (`PlacesInv`), and those still to be handed the current one may not have it
  (`TodoInv`). `BufferInv` puts each buffer into one stage of its way back, `ThreadsInv` and
  `SessionInv` say what threads have at each place. Every action keeps the holders of a buffer, gives one up
  with its reference or adds one with its reference, and three groups of lemmas say
  so. `NoUseAfterRequeueHolds`, `OnlyKnownLeaksHold`, `CloseIsSafeHolds` and `ReleasedOnce` follow;
  `QueuesHaveRoom` does by the pigeonhole principle: a queue without repetitions that lacks
  the current buffer is shorter than the number of buffers.
- **`HttpServerProofs`**: `ServerInvariant`. `SentInv` states what
  `NoClientLeftBehind` says for the moments inside the refresher too, where a client has been
  looked at and its answer is on the way. `SnapshotsInv`: the counter
  `snapshot_requested` falls to zero only when a picture was counted with all present
  snapshots waiting. `NewestInv`: what was put into the ring last is its last item, or exposed when it is
  empty. `ClientsInv` ties `has_clients` to the connections, `ThreadsInv` the JPEG thread
  to a session of the stream thread.
  `NobodyIsLeftBehind`, `SnapshotsFollowCounts` and `SharedStateAgrees` follow.
- **`JanusPluginProofs`**: `PluginInvariant`. `LockInv` (whoever is past a mutex holds
  it, and callbacks take the three in one order) makes `MutexesExclude` and
  `WalksNeverDangle`: the client a thread is about to visit is on the list, since whoever takes one off holds
  every mutex. `SessionInv` keeps two callbacks from creating or
  destroying the same session. `FlagsAgree` and `NoThreadLeftBehind` follow too.
- **`CaptureProofs`**: the capture device and both programs that hold one, so that what
  is known of the device is proved once.
  - *The device*: `CapInv`, whose core is an account, `Accountable`: all that the process holds
    would be given back by `us_capture_close()`. Each call of the chain that `us_capture_open()` is
    made of keeps the account, so that closing after a failure at any of them, at any buffer,
    leaves nothing.
  - *The passthrough program*: `PassthroughInvariant`. The display has two forms, closed and shown
    (`ClosedInv`, `ShownInv`), and one more fact: while `has_vsync` is set no flip is under way,
    which is why a buffer that goes back to the driver is in no flip. The closed form allows every outcome of
    saving and restoring the console, and says that what is saved is never a picture of the program. `ControlInv` is what the main loop
    knows of both devices at each of its labels. `TypeCorrect`,
    `ClosedDevicesHoldNothing`, `AssertionsHold` and `FlipsAreSafe` follow.
  - *The encoders*: `EncodersInvariant`. None of the three properties is inductive, since what
    the device answers depends on what it was given calls ago. `AnswerInv` counts: while
    `us_m2m_encoder_compress()` waits, the device owes exactly one answer to its frame (the input is
    still there, or exactly one of the outputs is the answer), and before and after it owes none.
    Hence an output that passes for the frame's is the frame's, although the device may begin with
    outputs of its own or hold those of a call that failed. `InputInv`: a DMA input is with
    the device, or done and not taken back, only during the wait. `FrameInv`: the buffer of the frame stays
    grabbed. `ReadyInv`: an encoder not ready has been cleaned up. `PoolInv`
    ties the JPEG pool to the session. `EncodersTypeCorrect`, `EncodingIsOfTheFrame`,
    `BuffersComeBack`, `EncodersHoldNothing`, `AnswerIsOwed` and `PoolLivesWithSession` follow.
    `KeyInv` is about key frames: `last_online` is the kind of the last picture encoded or forgotten (-1,
    which forces a key frame too), a frame taken up with a request pending or after a switch is forced, and a
    forced frame that is encoded is a key frame. Nothing rests on what a device begins with. `RequestIsKey`
    (from a client's request to the key frame and the end of the request) and the action property
    `SwitchIsKey` follow; the first fails if the request is left out of the choice.

**Assumptions**, all stated in the modules of the code: positive sizes; threads that act
in two roles are different ones (`ThreadsAssumption`), and a mark for "nobody" or "no picture" is none of
the things it is told apart from; at most one producer of a ring; sets
of consumers as the options allow; and for the capture device a largest number of
buffers (the driver's counter is bounded) and geometries of natural numbers. None restricts an instance to a size.

**What proving changed in the models.** Two case distinctions had overlapping guards, of which TLC
silently takes the first (`LoopTop` in `StreamLoop`, `CheckEffect` in
`Memsink`); they are now written as the order of the tests in the code. Nothing else was found wrong.

**Only model-checked.** All liveness properties, since fairness and ENABLED are beyond the
prover; the safety they rest on is proved where it says something by itself (`NoLostWakeup` of
the queue and of the pool, `PoolEndsSafely`, `NobodyIsLeftBehind`, `AnswerIsOwed`).
The properties of the runs with a counterexample have no theorem, as they are false.

## 5. Not modelled

Pictures, scaling, drawing and compression are data, and so are RTP packets, SDP, HTTP
headers and the bodies of replies. Of V4L2 the frame rate, the JPEG quality, the
controls and the analog standards are left out: no later call depends on whether they
could be set. Of DRM the search for a CRTC is one outcome. GPIO
follows the state of the threads and has none of its own. Option parsing happens before
any thread exists. Sizes of frames against the size of the shared memory are a choice
(`PutSkips`). `us_workers_pool_get_fluency_delay()` computes a delay; the model
lets any frame be dropped. Removal of the shared object (`sink->rm`) and the RAW and
JPEG sinks' own loops (the same calls as the H264 one, without key frames) are not in
`Memsink`. The M2M encoders of the JPEG pool use the same code as the H264 one and
are represented only by their number. In `JanusPlugin` the message `watch` asks for
sound and microphone together or for neither, a frame is one packet, and
the model starts with the plugin's threads running.

TinyPilot's services (updates, HID reports, database, secret key, configuration) are
short sequential Python functions over systemd, files and SQLite; their
hazards are listed without properties. The web front end, the API's translation of
requests and the deployment have no state to check.

## 6. Plan

Every invariant and every safety property of a passing run is proved for all values of the
constants. What could follow:

1. The safety behind the liveness of `JanusPlugin`: that a request for a key
   frame, once made, is at every moment with one of the parties that pass it on, as `RequestsAgree`
   and `RequestIsKey` say of `Memsink` and `Encoders`.
2. The hazards without a property: the join of a thread that has just been created in the Janus
   plugin, the plugin that stays on an orphaned memory, the update launcher and the release
   report of the keyboard, which need models of their own.
3. An abstract specification of the memory sink (one frame, replaced whole, that each client takes
   at most once), with `Memsink` shown to implement it while no server dies in a put.
