----------------------------- MODULE HttpServer -----------------------------
(***************************************************************************)
(* ustreamer/http/server.c with the JPEG side of ustreamer/stream.c and    *)
(* ustreamer/main.c: from a captured picture to the clients of /stream and *)
(* /snapshot.                                                              *)
(*                                                                         *)
(* Three threads: the main thread, which starts the other two, handles the *)
(* signals and joins; the HTTP thread, whose libevent callbacks run one at *)
(* a time; the stream thread with its JPEG thread, which produce into the  *)
(* ring of UsRing (here a sequence: the ring is a FIFO of its own module). *)
(* Of a callback only _http_refresher() is cut in two, because it reads    *)
(* what the stream thread writes twice: the ring, then the counter of the  *)
(* snapshots. Headers, MIME types and the other handles of the server      *)
(* (their replies have no state) only count as requests.                   *)
(*                                                                         *)
(* Time is two flags that only Tick sets: a snapshot waits too long,       *)
(* nobody asked for N seconds. That nothing was exposed for a second is    *)
(* a choice of the refresher.                                              *)
(***************************************************************************)
EXTENDS Integers, Sequences, FiniteSets

CONSTANTS
    Clients,       \* who may ask for /stream
    DualClients,   \* those of them that give dual_final_frames=1
    Snappers,      \* who may ask for /snapshot
    Pics,          \* what the camera may see
    Blank,         \* run->blank->jpeg, "< NO LIVE VIDEO >"
    RingSize,      \* the items of http->jpeg_ring (4)
    DropSame,      \* server->drop_same_frames
    NWorkers,      \* the encoder's workers
    ExitOnIdle,    \* exit_on_no_clients > 0
    MaxRequested   \* bound of the model on snapshot_requested

ASSUME ClientsAssumption == DualClients \subseteq Clients
ASSUME PicsAssumption == Blank \notin Pics
ASSUME NumbersAssumption ==
    /\ RingSize \in Nat \ {0}
    /\ DropSame \in Nat
    /\ NWorkers \in Nat \ {0}
    /\ ExitOnIdle \in BOOLEAN
    /\ MaxRequested \in Nat \ {0}

VARIABLES
    mpc,         \* the main thread: waiting, in the signal handler, destroying
    stop,        \* stream->run->stop
    broken,      \* event_base_loopbreak() is in force
    hpc,         \* the HTTP thread
    conn,        \* run->stream_clients
    need,        \* those with need_first_frame
    updated,     \* those with updated_prev
    armed,       \* those whose write callback is set
    snaps,       \* run->snapshot_clients
    late,        \* those that wait longer than US_MAX(1, error_delay * 3)
    exposed,     \* ex->frame
    dropped,     \* ex->dropped
    ring,        \* the filled items of http->jpeg_ring
    requested,   \* http->snapshot_requested
    hasClients,  \* http->has_clients
    fresh,       \* http->last_request_ts is younger than exit_on_no_clients
    online,      \* the online flag of http->captured_fpsi
    spc,         \* the stream thread
    jpc,         \* the JPEG thread
    jobs,        \* the pictures its workers encode, oldest first
    out,         \* the picture in _stream_expose_jpeg()
    current,     \* ghost: the clients that were last sent what is exposed
    counted,     \* ghost: the snapshots since whose request a picture was counted
    newest       \* ghost: the picture that was put into the ring last

mainVars == <<mpc, stop, broken>>
clientVars == <<conn, need, updated, armed>>
snapVars == <<snaps, late>>
exposedVars == <<exposed, dropped>>
sharedVars == <<ring, requested, hasClients, fresh, online>>
streamVars == <<spc, jpc, jobs, out>>
ghostVars == <<current, counted, newest>>
vars == <<mainVars, hpc, clientVars, snapVars, exposedVars, sharedVars,
          streamVars, ghostVars>>

Frames == Pics \cup {Blank}

\* us_stream_init(), with the blank picture drawn by us_stream_update_blank()
StreamInit ==
    /\ stop = FALSE
    /\ ring = <<>> /\ requested = 0 /\ hasClients = FALSE
    /\ fresh = TRUE /\ online = FALSE
    /\ spc = "off" /\ jpc = "off" /\ jobs = <<>> /\ out = Blank

\* us_server_init(); the exposed frame is empty until us_server_listen(), and
\* nobody sees it before.
ServerInit ==
    /\ broken = FALSE
    /\ hpc = "off"
    /\ conn = {} /\ need = {} /\ updated = {} /\ armed = {}
    /\ snaps = {} /\ late = {}
    /\ exposed = Blank /\ dropped = 0

Init ==
    /\ mpc = "wait"
    /\ StreamInit
    /\ ServerInit
    /\ current = {} /\ counted = {} /\ newest = Blank

-----------------------------------------------------------------------------
(* The requests: callbacks of the HTTP thread *)

Serving == hpc = "loop" /\ ~broken

\* _http_callback_stream(): the client is appended and gets its first frame
\* from the next pass of the refresher.
AskStream(c) ==
    /\ Serving
    /\ c \notin conn
    /\ fresh' = TRUE
    /\ conn' = conn \cup {c}
    /\ need' = need \cup {c}
    /\ hasClients' = IF Cardinality(conn') = 1 THEN TRUE ELSE hasClients
    /\ UNCHANGED <<mainVars, hpc, updated, armed, snapVars, exposedVars, ring,
                   requested, online, streamVars, ghostVars>>

\* _http_callback_snapshot()
AskSnapshot(s) ==
    /\ Serving
    /\ s \notin snaps
    /\ requested < MaxRequested
    /\ fresh' = TRUE
    /\ requested' = requested + 1
    /\ snaps' = snaps \cup {s}
    /\ UNCHANGED <<mainVars, hpc, clientVars, late, exposedVars, ring,
                   hasClients, online, streamVars, ghostVars>>

\* _http_preprocess_request() comes first in every handler; OPTIONS, HEAD and
\* requests without authorization end there.
Preprocess ==
    /\ fresh' = TRUE
    /\ UNCHANGED <<mainVars, hpc, clientVars, snapVars, exposedVars, ring,
                   requested, hasClients, online, streamVars, ghostVars>>

\* The index page, the icon and static files; action=snapshot and action=stream
\* lead to the handlers above.
AskPage == Serving /\ Preprocess

\* /state only reads. So does a /stream whose connection is already gone.
AskState == Serving /\ Preprocess

\* _http_callback_stream_write(): what is exposed now goes out, even if it is
\* not what the refresher armed the callback for.
Write(c) ==
    /\ Serving
    /\ c \in armed
    /\ armed' = armed \ {c}
    /\ current' = current \cup {c}
    /\ UNCHANGED <<mainVars, hpc, conn, need, updated, snapVars, exposedVars,
                   sharedVars, streamVars, counted, newest>>

\* Mutated form of WatchedAfter: the flag outlives the last client.
WatchedAfterForgotten(left) == hasClients

\* http->has_clients once a client has left
WatchedAfter(left) == hasClients /\ left # {}

\* _http_callback_stream_error(): the connection broke or was closed
Gone(c) ==
    /\ Serving
    /\ c \in conn
    /\ conn' = conn \ {c}
    /\ need' = need \ {c} /\ updated' = updated \ {c} /\ armed' = armed \ {c}
    /\ hasClients' = WatchedAfter(conn')
    /\ current' = current \ {c}
    /\ UNCHANGED <<mainVars, hpc, snapVars, exposedVars, ring, requested,
                   fresh, online, streamVars, counted, newest>>

-----------------------------------------------------------------------------
(* _http_refresher() *)

\* The same frame, dropped by _expose_frame(); frame->online is p # Blank
IsDropped(p) ==
    DropSame > 0 /\ p # Blank /\ dropped < DropSame /\ p = exposed

\* Mutated form of ToSend: need_first_frame is forgotten.
ToSendUpdated(stream_updated, frame_updated) ==
    IF frame_updated THEN conn
    ELSE IF DropSame > 0 /\ stream_updated THEN DualClients \cap updated ELSE {}

\* The clients _http_send_stream() arms; dual_update is the third set.
ToSend(stream_updated, frame_updated) ==
    IF frame_updated THEN conn
    ELSE need \cup (IF DropSame > 0 /\ stream_updated
                    THEN DualClients \cap updated ELSE {})

\* updated_prev of the clients after _http_send_stream(): those it sends to
\* get frame_updated (need_first_frame has been cleared by then), the others
\* lose it if the stream was updated.
UpdatedAfter(stream_updated, frame_updated) ==
    IF frame_updated THEN conn
    ELSE IF stream_updated THEN {}
    ELSE updated \ ToSend(stream_updated, frame_updated)

\* _http_send_stream()
SendStream(stream_updated, frame_updated) ==
    /\ armed' = armed \cup ToSend(stream_updated, frame_updated)
    /\ updated' = UpdatedAfter(stream_updated, frame_updated)
    /\ need' = {}

\* A frame is in the ring: expose it, release the slot, send to the clients.
RefreshExposes ==
    /\ Serving
    /\ ring # <<>>
    /\ LET p == Head(ring)
       IN  /\ IF IsDropped(p)
              THEN /\ dropped' = dropped + 1
                   /\ SendStream(TRUE, FALSE)
                   /\ UNCHANGED <<exposed, current>>
              ELSE /\ exposed' = p
                   /\ dropped' = 0
                   /\ SendStream(TRUE, TRUE)
                   /\ current' = IF p = exposed THEN current ELSE {}
    /\ ring' = Tail(ring)
    /\ hpc' = "snapshots"
    /\ UNCHANGED <<mainVars, conn, snapVars, requested, hasClients, fresh,
                   online, streamVars, counted, newest>>

\* The ring is empty: after a second without frames the exposed one is
\* repeated, otherwise only the newcomers are served.
RefreshRepeats ==
    /\ Serving
    /\ ring = <<>>
    /\ \E quiet \in BOOLEAN : SendStream(quiet, quiet)
    /\ hpc' = "snapshots"
    /\ UNCHANGED <<mainVars, conn, snapVars, exposedVars, sharedVars,
                   streamVars, ghostVars>>

\* Mutated form of Answered: one request may still be counted.
AnsweredEarly == IF requested <= 1 THEN snaps ELSE snaps \cap late

\* Mutated form of Answered: no time-out.
AnsweredOnlyFresh == IF requested = 0 THEN snaps ELSE {}

\* The snapshots _http_send_snapshot() answers. It loads the counter once for
\* each client; one load stands for the pass over the list.
Answered == IF requested = 0 THEN snaps ELSE snaps \cap late

\* _http_send_snapshot()
SendSnapshots ==
    /\ hpc = "snapshots"
    /\ snaps' = snaps \ Answered
    /\ late' = late \ Answered
    /\ counted' = counted \ Answered
    /\ hpc' = "loop"
    /\ UNCHANGED <<mainVars, clientVars, exposedVars, sharedVars, streamVars,
                   current, newest>>

\* us_server_loop(): event_base_dispatch() forgets an earlier loopbreak
Dispatch ==
    /\ hpc = "start"
    /\ hpc' = "loop"
    /\ broken' = FALSE
    /\ UNCHANGED <<mpc, stop, clientVars, snapVars, exposedVars, sharedVars,
                   streamVars, ghostVars>>

LoopEnds ==
    /\ hpc = "loop"
    /\ broken
    /\ hpc' = "ended"
    /\ UNCHANGED <<mainVars, clientVars, snapVars, exposedVars, sharedVars,
                   streamVars, ghostVars>>

httpVars == <<hpc, clientVars, snapVars, exposedVars, current>>

-----------------------------------------------------------------------------
(* The stream thread, as far as it serves the HTTP clients *)

\* _stream_has_any_clients_cached() without sinks and DRM
Watched == hasClients \/ requested > 0

\* _stream_update_captured_fpsi(): what /state and the JPEG thread are told of
\* the picture that goes to the consumers
UpdateCaptured(isOnline) == online' = isOnline

\* us_capture_hwbuf_grab() gets a picture and the consumers have it.
Grab ==
    /\ spc = "grab"
    /\ ~stop
    /\ UpdateCaptured(TRUE)
    /\ spc' = "grabbed"
    /\ UNCHANGED <<mainVars, httpVars, ring, requested, hasClients, fresh,
                   jpc, jobs, out, counted, newest>>

\* _stream_check_suicide(), at the head of _stream_init_loop() and after every
\* picture. us_process_suicide() sends the process a SIGTERM. Its two loads,
\* of last_request_ts and of the clients, are one step here.
CheckSuicide ==
    /\ \/ spc = "load" /\ ~stop /\ spc' = "open"
       \/ spc = "grabbed" /\ spc' = "grab"
    /\ IF ExitOnIdle /\ (Watched \/ ~fresh)
       THEN fresh' = TRUE
       ELSE UNCHANGED fresh
    /\ mpc' = IF ExitOnIdle /\ ~Watched /\ ~fresh /\ mpc = "wait"
              THEN "handler" ELSE mpc
    /\ UNCHANGED <<stop, broken, httpVars, ring, requested, hasClients, online,
                   jpc, jobs, out, counted, newest>>

\* us_capture_open() and us_encoder_open() succeed, the threads are created.
OpenDevice ==
    /\ spc = "open"
    /\ spc' = "grab"
    /\ jpc' = "wait"
    /\ UNCHANGED <<mainVars, httpVars, sharedVars, jobs, out, counted, newest>>

\* us_capture_open() fails: the clients get a blank picture.
NoDevice ==
    /\ spc = "open"
    /\ spc' = "expose"
    /\ UpdateCaptured(FALSE)
    /\ out' = Blank
    /\ UNCHANGED <<mainVars, httpVars, ring, requested, hasClients, fresh,
                   jpc, jobs, counted, newest>>

\* The capture fails or the process stops: threads_stop is set.
SessionEnds ==
    /\ spc = "grab"
    /\ spc' = "join"
    /\ UNCHANGED <<mainVars, httpVars, sharedVars, jpc, jobs, out,
                   counted, newest>>

\* The JPEG thread is joined, the encoder and the device are closed.
SessionClosed ==
    /\ spc = "join"
    /\ jpc = "off"
    /\ spc' = "load"
    /\ jobs' = <<>>
    /\ UNCHANGED <<mainVars, httpVars, sharedVars, jpc, out, counted, newest>>

\* _stream_init_loop() finds the stop, us_stream_loop() returns.
StreamEnds ==
    /\ spc = "load"
    /\ stop
    /\ spc' = "ended"
    /\ UNCHANGED <<mainVars, httpVars, sharedVars, jpc, jobs, out,
                   counted, newest>>

\* Mutated form of MaySkip: the ring is waited for whatever happens.
MaySkipNever == FALSE

\* _stream_expose_jpeg() gives up on a full ring only when the process stops.
MaySkip == stop /\ Len(ring) = RingSize

\* us_ring_producer_acquire() spins, the picture is copied and released.
Expose ==
    /\ out' = Blank
    /\ \/ /\ Len(ring) < RingSize
          /\ ring' = Append(ring, out)
          /\ newest' = out
       \/ /\ MaySkip
          /\ UNCHANGED <<ring, newest>>

ExposeBlank ==
    /\ spc = "expose"
    /\ Expose
    /\ spc' = "load"
    /\ UNCHANGED <<mainVars, httpVars, requested, hasClients, fresh, online,
                   jpc, jobs, counted>>

-----------------------------------------------------------------------------
(* _jpeg_thread() *)

jpegKeeps == <<mainVars, httpVars, hasClients, fresh, online, spc>>

\* A worker has finished: its picture is exposed. What older workers still
\* encode is not timely any more and will be thrown away.
TakeJob(i) ==
    /\ jpc = "wait"
    /\ spc # "join"
    /\ i \in 1 .. Len(jobs)
    /\ out' = jobs[i]
    /\ jobs' = SubSeq(jobs, i + 1, Len(jobs))
    /\ jpc' = "expose"
    /\ UNCHANGED <<jpegKeeps, ring, requested, counted, newest>>

\* A worker has failed: nothing is exposed, nothing is counted.
TakeFailedJob(i) ==
    /\ jpc = "wait"
    /\ spc # "join"
    /\ i \in 1 .. Len(jobs)
    /\ jobs' = SubSeq(jobs, 1, i - 1) \o SubSeq(jobs, i + 1, Len(jobs))
    /\ UNCHANGED <<jpegKeeps, ring, requested, jpc, out, counted, newest>>

ExposeJpeg ==
    /\ jpc = "expose"
    /\ Expose
    /\ jpc' = "count"
    /\ UNCHANGED <<jpegKeeps, requested, jobs, counted>>

\* The load and the subtraction: only this thread subtracts.
CountDown(n) == IF n > 0 THEN n - 1 ELSE n

CountSnapshot ==
    /\ jpc = "count"
    /\ requested' = CountDown(requested)
    /\ counted' = snaps
    /\ jpc' = "wait"
    /\ UNCHANGED <<jpegKeeps, ring, jobs, out, newest>>

\* A worker is free and somebody watches: it gets the latest picture. Passing
\* the frame, because nobody watches or for fluency, changes nothing here.
AssignJob(p) ==
    /\ jpc = "wait"
    /\ spc # "join"
    /\ online
    /\ Watched
    /\ Len(jobs) < NWorkers
    /\ jobs' = Append(jobs, p)
    /\ UNCHANGED <<jpegKeeps, ring, requested, jpc, out, counted, newest>>

JpegEnds ==
    /\ jpc = "wait"
    /\ spc = "join"
    /\ jpc' = "off"
    /\ UNCHANGED <<jpegKeeps, ring, requested, jobs, out, counted, newest>>

-----------------------------------------------------------------------------
(* The main thread and time *)

\* _signal_handler() before the destroys, its two calls in their order; one more
\* signal after both calls changes nothing.
Signal ==
    /\ \/ mpc = "wait" /\ ~(stop /\ broken)
       \/ mpc = "handler"
    /\ stop' = TRUE
    /\ mpc' = "break"
    /\ UNCHANGED <<broken, hpc, clientVars, snapVars, exposedVars, sharedVars,
                   streamVars, ghostVars>>

LoopBreak ==
    /\ mpc = "break"
    /\ broken' = TRUE
    /\ mpc' = "wait"
    /\ UNCHANGED <<stop, hpc, clientVars, snapVars, exposedVars, sharedVars,
                   streamVars, ghostVars>>

\* us_server_listen(), then the two threads are created; if the address cannot
\* be bound the process ends without them. The handler of the signals is already
\* installed.
Listen ==
    /\ mpc = "wait"
    /\ hpc = "off"
    /\ exposed' = Blank
    /\ \/ hpc' = "start" /\ spc' = "load"
       \/ hpc' = "ended" /\ spc' = "ended"
    /\ UNCHANGED <<mainVars, clientVars, snapVars, dropped, sharedVars, jpc, jobs,
                   out, ghostVars>>

\* us_server_destroy(): whoever is still connected or waits is dropped.
ServerDestroyed == conn' = {} /\ snaps' = {}

\* Both threads are joined: the server and the stream are destroyed, and then
\* the process ends.
Exit ==
    /\ mpc = "wait"
    /\ hpc = "ended"
    /\ spc = "ended"
    /\ mpc' = "destroy"
    /\ ServerDestroyed
    /\ UNCHANGED <<stop, broken, hpc, need, updated, armed, late, exposedVars,
                   sharedVars, streamVars, ghostVars>>

\* The handler is installed until the process ends. Run between the destroys
\* and the return of main() it uses the freed server, and perhaps the freed
\* stream: either nothing comes of it (no step) or the process crashes.
LateSignal ==
    /\ mpc = "destroy"
    /\ mpc' = "crashed"
    /\ UNCHANGED <<stop, broken, hpc, clientVars, snapVars, exposedVars,
                   sharedVars, streamVars, ghostVars>>

\* There is nothing left but the main thread.
Over == mpc \in {"destroy", "crashed"}

Tick ==
    /\ ~Over
    /\ late' = snaps
    /\ fresh' = FALSE
    /\ UNCHANGED <<mainVars, hpc, clientVars, snaps, exposedVars, ring,
                   requested, hasClients, online, streamVars, ghostVars>>

-----------------------------------------------------------------------------
Ask ==
    \/ \E c \in Clients : AskStream(c)
    \/ \E s \in Snappers : AskSnapshot(s)
    \/ AskPage \/ AskState

Refresher == RefreshExposes \/ RefreshRepeats \/ SendSnapshots

HttpThread ==
    \/ Ask
    \/ \E c \in Clients : Write(c) \/ Gone(c)
    \/ Refresher
    \/ Dispatch
    \/ LoopEnds

StreamThread ==
    \/ CheckSuicide \/ OpenDevice \/ NoDevice
    \/ Grab \/ SessionEnds \/ SessionClosed \/ StreamEnds \/ ExposeBlank

JpegThread ==
    \/ \E i \in 1 .. NWorkers : TakeJob(i) \/ TakeFailedJob(i)
    \/ ExposeJpeg \/ CountSnapshot
    \/ \E p \in Pics : AssignJob(p)
    \/ JpegEnds

MainThread == Listen \/ Signal \/ LoopBreak \/ Exit \/ LateSignal

Next == HttpThread \/ StreamThread \/ JpegThread \/ MainThread \/ Tick

Spec == Init /\ [][Next]_vars

\* The threads run, the refresher's timer fires, time passes; the JPEG thread
\* does not lose every picture. A signal comes only if the process sent it to
\* itself. Nothing is assumed of the clients or of the device, except that a
\* device that was opened goes on delivering pictures or fails.
Fairness ==
    /\ WF_vars(RefreshExposes \/ RefreshRepeats)
    /\ WF_vars(SendSnapshots)
    /\ WF_vars(Dispatch \/ LoopEnds)
    /\ WF_vars(StreamThread)
    /\ WF_vars(ExposeJpeg \/ CountSnapshot \/ JpegEnds)
    /\ WF_vars(Listen \/ (mpc = "handler" /\ Signal) \/ LoopBreak \/ Exit)
    /\ WF_vars(Tick)

FairSpec == Spec /\ Fairness

-----------------------------------------------------------------------------
(* Properties *)

\* The two threads agree on what they share: has_clients says whether somebody
\* watches, no counter leaves its range and no list names an unknown client.
SharedStateOK ==
    /\ mpc \in {"wait", "handler", "break", "destroy", "crashed"}
    /\ hpc \in {"off", "start", "loop", "snapshots", "ended"}
    /\ ~Over => (hasClients <=> conn # {})
    /\ need \cup updated \cup armed \cup current \subseteq Clients
    /\ late \subseteq snaps \/ Over
    /\ exposed \in Frames
    /\ dropped \in 0 .. DropSame
    /\ requested \in 0 .. MaxRequested
    /\ ring \in Seq(Frames) /\ Len(ring) <= RingSize
    /\ jobs \in Seq(Pics) /\ Len(jobs) <= NWorkers
    /\ spc \in {"off", "load", "open", "grab", "grabbed", "expose",
                "join", "ended"}
    /\ jpc \in {"off", "wait", "expose", "count"}
    /\ jpc # "off" => spc \in {"grab", "grabbed", "join"}

\* Whenever the event loop is idle, a client of /stream that waits for nothing
\* has last been sent what is exposed: dropping same frames, joining between
\* two frames or reading slowly leaves nobody with an old picture.
NoClientLeftBehind ==
    hpc = "loop" => conn \subseteq need \cup armed \cup current

\* A snapshot that is answered before its time-out has seen the JPEG thread
\* count a picture since it asked, however many counts others left behind or took
\* for their own requests; and what it gets is the picture that was put into the
\* ring last, through drops of same frames and blank pictures, unless newer ones
\* wait in the ring. One may have come between the two looks of the refresher,
\* so this does not say that the picture is newer than the request.
SnapshotFollowsACount ==
    [][~Over' => \A s \in snaps \ snaps' :
          s \in late \/ (s \in counted /\ (ring = <<>> => exposed = newest))]_vars

\* The same as has_fresh_snapshot of _http_send_snapshot() names it.
SnapshotIsFresh ==
    [][~Over' => \A s \in snaps \ snaps' : s \in late \/ exposed = newest]_vars

\* The signal handler finds the objects it uses.
HandlerHasObjects == mpc # "crashed"

\* Every /snapshot gets an answer while the server runs, with a device or
\* without one, even if the encoder throws every picture away.
SnapshotIsAnswered == \A s \in Snappers : []<>(s \notin snaps \/ broken)

\* A signal that finds the event loop running ends both threads, although the
\* JPEG thread may be spinning on a ring nobody empties any more.
StopEnds == (broken /\ hpc \notin {"off", "start"}) ~> Over

\* --exit-on-no-clients: when nobody asks any more, the last client has gone
\* and no snapshot is counted, the process stops.
NobodyAsks == <>[][~Ask]_vars
IdleServerExits ==
    (ExitOnIdle /\ NobodyAsks /\ <>[](conn = {} /\ requested = 0))
        => <>(stop \/ Over)

\* The same as the help of --exit-on-no-clients states it ("Exit the program
\* if there have been no stream or sink clients or any HTTP requests in the
\* last N seconds"), without a word about snapshots that are still counted.
QuietServerExits ==
    (ExitOnIdle /\ NobodyAsks /\ <>[](conn = {})) => <>(stop \/ Over)
=============================================================================
