-------------------------- MODULE HttpServerProofs --------------------------
(***************************************************************************)
(* For any number of clients, pictures, workers and ring items: what the   *)
(* HTTP thread and the stream thread share stays in agreement, no client   *)
(* of /stream is left with an old picture, and no /snapshot is let go      *)
(* before its time by the count of another one.                            *)
(***************************************************************************)
EXTENDS HttpServer, FiniteSetTheorems, SequenceTheorems, TLAPS

\* Only clients that Clients names are on the lists, and the flag of the
\* stream thread says whether there are any until the server is destroyed.
ClientsInv ==
    /\ conn \cup need \cup updated \cup armed \cup current \subseteq Clients
    /\ ~Over => (hasClients <=> conn # {})

\* NoClientLeftBehind at every moment, the middle of the refresher included.
SentInv == conn \subseteq need \cup armed \cup current

\* snapshot_requested falls to zero only when the JPEG thread has counted a
\* picture with all the present snapshots waiting.
SnapshotsInv ==
    /\ requested \in 0 .. MaxRequested
    /\ requested = 0 => snaps \subseteq counted
    /\ late \subseteq snaps \/ Over

\* What is exposed, and how often it was dropped since
ExposedInv ==
    /\ exposed \in Frames
    /\ dropped \in 0 .. DropSame
    /\ hpc = "off" => exposed = Blank

\* Every picture on its way is one, and no queue is longer than its ring.
PicturesInv ==
    /\ ring \in Seq(Frames) /\ Len(ring) <= RingSize
    /\ jobs \in Seq(Pics) /\ Len(jobs) <= NWorkers
    /\ out \in Frames

\* Nothing is between the ring and the client: the newest picture is the last of
\* the ring or, when that is empty, the exposed one, even if it was dropped as
\* the same.
NewestInv ==
    newest = IF ring = <<>> THEN exposed ELSE ring[Len(ring)]

\* The JPEG thread lives inside a session of the stream thread, both threads
\* are created together and have ended when the main thread destroys.
ThreadsInv ==
    /\ mpc \in {"wait", "handler", "break", "destroy", "crashed"}
    /\ hpc \in {"off", "start", "loop", "snapshots", "ended"}
    /\ spc \in {"off", "load", "open", "grab", "grabbed", "expose", "join", "ended"}
    /\ jpc \in {"off", "wait", "expose", "count"}
    /\ jpc # "off" => spc \in {"grab", "grabbed", "join"}
    /\ hpc = "off" <=> spc = "off"
    /\ Over => hpc = "ended" /\ spc = "ended"

IInv ==
    /\ ThreadsInv
    /\ ClientsInv
    /\ SentInv
    /\ SnapshotsInv
    /\ ExposedInv
    /\ PicturesInv
    /\ NewestInv

-----------------------------------------------------------------------------
(* Lemmas about the queues of pictures *)

\* Taking the oldest item off a queue, and putting one at its end
LEMMA QueueMoves ==
    ASSUME NEW S, NEW q \in Seq(S)
    PROVE  /\ q # <<>> => /\ Head(q) \in S
                          /\ Tail(q) \in Seq(S)
                          /\ Len(Tail(q)) = Len(q) - 1
           /\ \A x \in S : /\ Append(q, x) \in Seq(S)
                           /\ Len(Append(q, x)) = Len(q) + 1
           /\ Len(q) \in Nat
  OBVIOUS

\* The end of a queue when its oldest item is taken and when one is put there
LEMMA QueueEnds ==
    ASSUME NEW S, NEW q \in Seq(S)
    PROVE  /\ \A x \in S : /\ Append(q, x) # <<>>
                           /\ Append(q, x)[Len(Append(q, x))] = x
           /\ q # <<>> /\ Tail(q) = <<>> => Head(q) = q[Len(q)]
           /\ q # <<>> /\ Tail(q) # <<>> => Tail(q)[Len(Tail(q))] = q[Len(q)]
<1>1. ASSUME NEW x \in S
      PROVE  Append(q, x) # <<>> /\ Append(q, x)[Len(Append(q, x))] = x
  OBVIOUS
<1>2. ASSUME q # <<>>
      PROVE  /\ Len(q) \in Nat \ {0} /\ Len(Tail(q)) = Len(q) - 1
             /\ Head(q) = q[1] /\ Tail(q) \in Seq(S)
             /\ \A i \in 1 .. Len(q) - 1 : Tail(q)[i] = q[i + 1]
  BY <1>2
<1>3. ASSUME q # <<>>, Tail(q) = <<>> PROVE Head(q) = q[Len(q)]
  <2>1. Len(q) - 1 = 0
    <3>1. Len(Tail(q)) = 0
      BY <1>2, <1>3, EmptySeq, Zenon
    <3> QED
      BY <1>2, <1>3, <3>1
  <2> QED
    BY <1>2, <1>3, <2>1
<1>4. ASSUME q # <<>>, Tail(q) # <<>> PROVE Tail(q)[Len(Tail(q))] = q[Len(q)]
  <2>1. Len(Tail(q)) \in 1 .. Len(q) - 1
    BY <1>2, <1>4
  <2> QED
    BY <1>2, <1>4, <2>1
<1> QED
  BY <1>1, <1>3, <1>4

\* A worker's job is one of the queue; without it, and without those before it
\* or with them, the rest is a shorter queue.
LEMMA JobTaken ==
    ASSUME NEW S, NEW q \in Seq(S), NEW i \in 1 .. Len(q)
    PROVE  /\ q[i] \in S
           /\ SubSeq(q, i + 1, Len(q)) \in Seq(S)
           /\ Len(SubSeq(q, i + 1, Len(q))) <= Len(q)
           /\ SubSeq(q, 1, i - 1) \o SubSeq(q, i + 1, Len(q)) \in Seq(S)
           /\ Len(SubSeq(q, 1, i - 1) \o SubSeq(q, i + 1, Len(q))) <= Len(q)
<1>1. q[i] \in S
  OBVIOUS
<1>2. /\ SubSeq(q, i + 1, Len(q)) \in Seq(S)
      /\ Len(SubSeq(q, i + 1, Len(q))) = Len(q) - i
  OBVIOUS
<1>3. /\ SubSeq(q, 1, i - 1) \in Seq(S)
      /\ Len(SubSeq(q, 1, i - 1)) = i - 1
  OBVIOUS
<1>4. /\ SubSeq(q, 1, i - 1) \o SubSeq(q, i + 1, Len(q)) \in Seq(S)
      /\ Len(SubSeq(q, 1, i - 1) \o SubSeq(q, i + 1, Len(q)))
            = Len(SubSeq(q, 1, i - 1)) + Len(SubSeq(q, i + 1, Len(q)))
  BY <1>2, <1>3, ConcatProperties, Zenon
<1>5. Len(q) \in Nat /\ i \in 1 .. Len(q)
  OBVIOUS
<1>6. /\ Len(q) - i <= Len(q)
      /\ (i - 1) + (Len(q) - i) <= Len(q)
  BY <1>5
<1> QED
  BY <1>1, <1>2, <1>3, <1>4, <1>6, Zenon

\* The conditions of _stream_expose_jpeg() leave the ring within its size.
LEMMA ExposeKeepsPictures ==
    ASSUME PicturesInv, Expose
    PROVE  ring' \in Seq(Frames) /\ Len(ring') <= RingSize /\ out' \in Frames
<1> USE NumbersAssumption DEF PicturesInv
<1>1. CASE ring' = ring
  BY <1>1 DEF Expose, Frames
<1>2. CASE Len(ring) < RingSize /\ ring' = Append(ring, out)
  BY <1>2, QueueMoves DEF Expose, Frames
<1> QED
  BY <1>1, <1>2 DEF Expose

-----------------------------------------------------------------------------
(* The invariant is inductive: one lemma for each of its parts *)

LEMMA InvInit == Init => IInv
  BY NumbersAssumption
     DEF Init, StreamInit, ServerInit, IInv, ThreadsInv, ClientsInv, SentInv,
         SnapshotsInv, ExposedInv, PicturesInv, NewestInv, Frames, Over

\* The life of the four threads
LEMMA ThreadsStep ==
    ASSUME IInv, [Next]_vars
    PROVE  ThreadsInv'
<1> USE DEF IInv, ThreadsInv, Over
<1>1. CASE HttpThread
  BY <1>1 DEF HttpThread, Ask, AskStream, AskSnapshot, AskPage, AskState,
              Preprocess, Write, Gone, Refresher, RefreshExposes,
              RefreshRepeats, SendSnapshots, Dispatch, LoopEnds, Serving,
              mainVars, streamVars
<1>2. CASE StreamThread
  BY <1>2 DEF StreamThread, CheckSuicide, OpenDevice, NoDevice, Grab,
              SessionEnds, SessionClosed, StreamEnds, ExposeBlank,
              mainVars, httpVars
<1>3. CASE JpegThread
  BY <1>3 DEF JpegThread, TakeJob, TakeFailedJob, ExposeJpeg, CountSnapshot,
              AssignJob, JpegEnds, jpegKeeps, mainVars, httpVars
<1>4. CASE MainThread
  BY <1>4 DEF MainThread, Listen, Signal, LoopBreak, Exit, LateSignal, mainVars,
              streamVars
<1>5. CASE Tick
  BY <1>5 DEF Tick, mainVars, streamVars
<1>6. CASE UNCHANGED vars
  BY <1>6 DEF vars, mainVars, streamVars
<1> QED
  BY <1>1, <1>2, <1>3, <1>4, <1>5, <1>6 DEF Next

\* When both threads are joined nobody is left but the main thread, on which
\* the signal handler may still run.
LEMMA OverIsTheEnd ==
    ASSUME IInv, [Next]_vars, Over
    PROVE  LateSignal \/ UNCHANGED vars
<1> USE DEF IInv, ThreadsInv, Over
<1>1. ASSUME HttpThread PROVE FALSE
  BY <1>1 DEF HttpThread, Ask, AskStream, AskSnapshot, AskPage, AskState, Write,
              Gone, Refresher, RefreshExposes, RefreshRepeats, SendSnapshots,
              Dispatch, LoopEnds, Serving
<1>2. ASSUME StreamThread PROVE FALSE
  BY <1>2 DEF StreamThread, CheckSuicide, OpenDevice, NoDevice, Grab,
              SessionEnds, SessionClosed, StreamEnds, ExposeBlank
<1>3. ASSUME JpegThread PROVE FALSE
  BY <1>3 DEF JpegThread, TakeJob, TakeFailedJob, ExposeJpeg, CountSnapshot,
              AssignJob, JpegEnds
<1>4. ASSUME MainThread \/ Tick, ~LateSignal PROVE FALSE
  BY <1>4 DEF MainThread, Listen, Signal, LoopBreak, Exit, Tick
<1> QED
  BY <1>1, <1>2, <1>3, <1>4 DEF Next

\* The main thread does not come back from the destroys.
LEMMA OverStays ==
    ASSUME IInv, [Next]_vars, Over
    PROVE  Over'
<1>1. LateSignal \/ UNCHANGED vars
  BY OverIsTheEnd
<1> QED
  BY <1>1 DEF LateSignal, Over, vars, mainVars

\* A step of the stream thread, of its JPEG thread, or of the HTTP thread
\* between two callbacks leaves the lists of clients as they are.
LEMMA ClientsKept ==
    ASSUME \/ StreamThread \/ JpegThread \/ Tick \/ Listen \/ Signal \/ LoopBreak
           \/ LateSignal \/ Dispatch \/ LoopEnds \/ SendSnapshots \/ AskPage \/ AskState
           \/ \E s \in Snappers : AskSnapshot(s)
           \/ UNCHANGED vars
    PROVE  UNCHANGED <<conn, need, updated, armed, current, hasClients>>
<1>1. CASE StreamThread
  BY <1>1 DEF StreamThread, CheckSuicide, OpenDevice, NoDevice, Grab,
              SessionEnds, SessionClosed, StreamEnds, ExposeBlank,
              httpVars, clientVars, sharedVars
<1>2. CASE JpegThread
  BY <1>2 DEF JpegThread, TakeJob, TakeFailedJob, ExposeJpeg, CountSnapshot,
              AssignJob, JpegEnds, jpegKeeps, httpVars, clientVars
<1>3. CASE ~StreamThread /\ ~JpegThread
  BY <1>3 DEF Tick, Listen, Signal, LoopBreak, LateSignal, Dispatch, LoopEnds, SendSnapshots,
              AskPage, AskState, Preprocess, AskSnapshot, vars, clientVars,
              sharedVars, ghostVars
<1> QED
  BY <1>1, <1>2, <1>3

\* The lists of clients, has_clients and who has been sent what is exposed
LEMMA ClientsStep ==
    ASSUME IInv, [Next]_vars
    PROVE  ClientsInv' /\ SentInv'
<1> USE ClientsAssumption DEF IInv, ThreadsInv, ClientsInv, SentInv
<1>1. CASE UNCHANGED <<conn, need, updated, armed, current, hasClients>>
  <2>1. ~Over' => ~Over
    BY OverStays
  <2> QED
    BY <1>1, <2>1
<1>2. ASSUME NEW c \in Clients, AskStream(c) PROVE ClientsInv' /\ SentInv'
  <2>1. conn = {} => Cardinality(conn') = 1
    <3>1. conn = {} => conn' = {c}
      BY <1>2 DEF AskStream
    <3> QED
      BY <3>1, FS_Singleton
  <2> QED
    BY <1>2, <2>1 DEF AskStream, Serving, Over, mainVars, ghostVars
<1>3. ASSUME NEW c \in Clients, Write(c) PROVE ClientsInv' /\ SentInv'
  BY <1>3 DEF Write, Over, mainVars, sharedVars
<1>4. ASSUME NEW c \in Clients, Gone(c) PROVE ClientsInv' /\ SentInv'
  BY <1>4 DEF Gone, Serving, WatchedAfter, Over, mainVars
<1>5. ASSUME NEW stream_updated \in BOOLEAN, NEW frame_updated \in BOOLEAN,
             SendStream(stream_updated, frame_updated)
      PROVE  /\ armed' \cup updated' \cup need' \subseteq Clients
             /\ armed \subseteq armed'
             /\ ~frame_updated => need \subseteq armed'
             /\ frame_updated => conn \subseteq armed'
  <2>1. /\ conn \cup need \cup updated \cup armed \subseteq Clients
        /\ need' = {}
        /\ armed' = armed \cup ToSend(stream_updated, frame_updated)
        /\ updated' = UpdatedAfter(stream_updated, frame_updated)
    BY <1>5 DEF SendStream
  <2>2. CASE frame_updated
    BY <2>1, <2>2 DEF ToSend, UpdatedAfter
  <2>3. CASE ~frame_updated
    <3>1. /\ ToSend(stream_updated, frame_updated) \subseteq need \cup updated
          /\ need \subseteq ToSend(stream_updated, frame_updated)
      BY <2>3, Zenon DEF ToSend
    <3>2. UpdatedAfter(stream_updated, frame_updated) \subseteq updated
      BY <2>3, Zenon DEF UpdatedAfter
    <3> QED
      BY <2>1, <2>3, <3>1, <3>2
  <2> QED
    BY <2>2, <2>3
<1>6. CASE RefreshExposes
  <2>1. CASE SendStream(TRUE, FALSE) /\ UNCHANGED current
    BY <1>5, <1>6, <2>1 DEF RefreshExposes, Over, mainVars
  <2>2. CASE SendStream(TRUE, TRUE) /\ current' \subseteq current
    BY <1>5, <1>6, <2>2 DEF RefreshExposes, Over, mainVars
  <2> QED
    BY <1>6, <2>1, <2>2 DEF RefreshExposes
<1>7. CASE RefreshRepeats
  BY <1>5, <1>7 DEF RefreshRepeats, Over, mainVars, sharedVars, ghostVars
<1>8. CASE Exit
  BY <1>8 DEF Exit, ServerDestroyed, Over, ghostVars
<1> QED
  BY <1>1, <1>2, <1>3, <1>4, <1>6, <1>7, <1>8, ClientsKept
     DEF Next, HttpThread, Ask, Refresher, MainThread

\* Nothing but a new request, the refresher, the count of the JPEG thread, the
\* end of the process and time touch the snapshots.
LEMMA SnapshotsKept ==
    ASSUME \/ StreamThread \/ Listen \/ Signal \/ LoopBreak \/ LateSignal
           \/ Dispatch \/ LoopEnds \/ AskPage \/ AskState
           \/ \E c \in Clients : AskStream(c) \/ Write(c) \/ Gone(c)
           \/ RefreshExposes \/ RefreshRepeats
           \/ JpegThread /\ ~CountSnapshot
           \/ UNCHANGED vars
    PROVE  UNCHANGED <<snaps, late, requested, counted>>
<1>1. CASE StreamThread
  BY <1>1 DEF StreamThread, CheckSuicide, OpenDevice, NoDevice, Grab,
              SessionEnds, SessionClosed, StreamEnds, ExposeBlank,
              httpVars, snapVars, sharedVars
<1>2. CASE JpegThread /\ ~CountSnapshot
  BY <1>2 DEF JpegThread, TakeJob, TakeFailedJob, ExposeJpeg, AssignJob, JpegEnds,
              jpegKeeps, httpVars, snapVars
<1>3. CASE \E c \in Clients : AskStream(c) \/ Write(c) \/ Gone(c)
  BY <1>3 DEF AskStream, Write, Gone, snapVars, sharedVars, ghostVars
<1>4. CASE RefreshExposes \/ RefreshRepeats
  BY <1>4 DEF RefreshExposes, RefreshRepeats, snapVars, sharedVars, ghostVars
<1>5. CASE \/ Listen \/ Signal \/ LoopBreak \/ LateSignal \/ Dispatch \/ LoopEnds
           \/ AskPage \/ AskState \/ UNCHANGED vars
  BY <1>5 DEF Listen, Signal, LoopBreak, LateSignal, Dispatch, LoopEnds, AskPage, AskState,
              Preprocess, vars, snapVars, sharedVars, ghostVars
<1> QED
  BY <1>1, <1>2, <1>3, <1>4, <1>5

\* The snapshots and their counter
LEMMA SnapshotsStep ==
    ASSUME IInv, [Next]_vars
    PROVE  SnapshotsInv'
<1> USE NumbersAssumption DEF IInv, SnapshotsInv
<1>1. CASE UNCHANGED <<snaps, late, requested, counted>>
  <2>1. Over => Over'
    BY OverStays
  <2> QED
    BY <1>1, <2>1
<1>2. ASSUME NEW s \in Snappers, AskSnapshot(s) PROVE SnapshotsInv'
  BY <1>2 DEF AskSnapshot, Over, mainVars, ghostVars
<1>3. CASE SendSnapshots
  BY <1>3 DEF SendSnapshots, Over, mainVars, sharedVars
<1>4. CASE CountSnapshot
  <2>1. requested' \in 0 .. MaxRequested
    BY <1>4 DEF CountSnapshot, CountDown
  <2> QED
    BY <1>4, <2>1 DEF CountSnapshot, jpegKeeps, Over, mainVars, httpVars, snapVars
<1>5. CASE Tick
  BY <1>5 DEF Tick, Over, ghostVars
<1>6. CASE Exit
  BY <1>6 DEF Exit, ServerDestroyed, Over, sharedVars, ghostVars
<1> QED
  BY <1>1, <1>2, <1>3, <1>4, <1>5, <1>6, SnapshotsKept
     DEF Next, HttpThread, Ask, Refresher, MainThread

\* What is exposed: a picture of the ring, which may be dropped at most
\* drop_same_frames times in a row.
LEMMA ExposedStep ==
    ASSUME IInv, [Next]_vars
    PROVE  ExposedInv'
<1> USE NumbersAssumption DEF IInv, ExposedInv
<1>1. CASE UNCHANGED exposedVars
  <2>1. hpc' = "off" => hpc = "off"
    BY DEF Next, vars, HttpThread, Ask, AskStream, AskSnapshot, AskPage, AskState,
           Preprocess, Write, Gone, Refresher, RefreshExposes, RefreshRepeats,
           SendSnapshots, Dispatch, LoopEnds, StreamThread, CheckSuicide,
           OpenDevice, NoDevice, Grab, SessionEnds, SessionClosed, StreamEnds,
           ExposeBlank, JpegThread, TakeJob, TakeFailedJob, ExposeJpeg,
           CountSnapshot, AssignJob, JpegEnds, httpVars, jpegKeeps, MainThread,
           Listen, Signal, LoopBreak, Exit, LateSignal, Tick
  <2> QED
    BY <1>1, <2>1 DEF exposedVars
<1>2. CASE RefreshExposes
  <2>1. Head(ring) \in Frames
    BY <1>2, QueueMoves DEF RefreshExposes, PicturesInv
  <2>2. CASE IsDropped(Head(ring))
    BY <1>2, <2>2 DEF RefreshExposes, IsDropped
  <2>3. CASE ~IsDropped(Head(ring))
    BY <1>2, <2>1, <2>3 DEF RefreshExposes
  <2> QED
    BY <2>2, <2>3
<1>3. CASE Listen
  BY <1>3 DEF Listen, Frames
<1>4. CASE StreamThread \/ JpegThread
  BY <1>4, <1>1
     DEF StreamThread, CheckSuicide, OpenDevice, NoDevice, Grab, SessionEnds,
         SessionClosed, StreamEnds, ExposeBlank, JpegThread, TakeJob,
         TakeFailedJob, ExposeJpeg, CountSnapshot, AssignJob, JpegEnds,
         jpegKeeps, httpVars
<1>5. CASE HttpThread /\ ~RefreshExposes
  BY <1>5, <1>1
     DEF HttpThread, Ask, AskStream, AskSnapshot, AskPage, AskState, Preprocess,
         Write, Gone, Refresher, RefreshRepeats, SendSnapshots, Dispatch, LoopEnds
<1>6. CASE (MainThread /\ ~Listen) \/ Tick \/ UNCHANGED vars
  BY <1>6, <1>1 DEF MainThread, Signal, LoopBreak, Exit, LateSignal, Tick, vars
<1> QED
  BY <1>2, <1>3, <1>4, <1>5, <1>6 DEF Next

\* The pictures on their way from the workers to the refresher
LEMMA PicturesStep ==
    ASSUME IInv, [Next]_vars
    PROVE  PicturesInv'
<1> USE NumbersAssumption DEF IInv, PicturesInv
<1>1. CASE UNCHANGED <<ring, jobs, out>>
  BY <1>1
<1>2. CASE RefreshExposes
  BY <1>2, QueueMoves DEF RefreshExposes, streamVars
<1>3. CASE ExposeBlank \/ ExposeJpeg
  <2>1. Expose /\ jobs' = jobs
    BY <1>3 DEF ExposeBlank, ExposeJpeg
  <2> QED
    BY <2>1, ExposeKeepsPictures
<1>4. ASSUME NEW i \in 1 .. NWorkers, TakeJob(i) PROVE PicturesInv'
  <2>1. i \in 1 .. Len(jobs) /\ ring' = ring
    BY <1>4 DEF TakeJob
  <2>2. out' \in Pics /\ jobs' \in Seq(Pics) /\ Len(jobs') <= Len(jobs)
    BY <1>4, <2>1, JobTaken DEF TakeJob
  <2> QED
    BY <2>1, <2>2, QueueMoves DEF Frames
<1>5. ASSUME NEW i \in 1 .. NWorkers, TakeFailedJob(i) PROVE PicturesInv'
  <2>1. i \in 1 .. Len(jobs) /\ ring' = ring /\ out' = out
    BY <1>5 DEF TakeFailedJob
  <2>2. jobs' \in Seq(Pics) /\ Len(jobs') <= Len(jobs)
    BY <1>5, <2>1, JobTaken DEF TakeFailedJob
  <2> QED
    BY <2>1, <2>2, QueueMoves
<1>6. ASSUME NEW p \in Pics, AssignJob(p) PROVE PicturesInv'
  BY <1>6, QueueMoves DEF AssignJob
<1>7. CASE NoDevice \/ SessionClosed
  <2>1. /\ ring' = ring
        /\ jobs' = jobs \/ jobs' = <<>>
        /\ out' = out \/ out' = Blank
    BY <1>7 DEF NoDevice, SessionClosed, sharedVars
  <2>2. <<>> \in Seq(Pics) /\ Len(<<>>) <= NWorkers
    OBVIOUS
  <2> QED
    BY <2>1, <2>2 DEF Frames
<1>8. CASE StreamThread /\ ~ExposeBlank /\ ~NoDevice /\ ~SessionClosed
  BY <1>8, <1>1 DEF StreamThread, CheckSuicide, OpenDevice, Grab, SessionEnds,
                    StreamEnds, sharedVars
<1>9. CASE CountSnapshot \/ JpegEnds
  BY <1>9, <1>1 DEF CountSnapshot, JpegEnds
<1>10. CASE HttpThread /\ ~RefreshExposes
  BY <1>10, <1>1
     DEF HttpThread, Ask, AskStream, AskSnapshot, AskPage, AskState, Preprocess,
         Write, Gone, Refresher, RefreshRepeats, SendSnapshots, Dispatch,
         LoopEnds, sharedVars, streamVars
<1>11. CASE MainThread \/ Tick \/ UNCHANGED vars
  BY <1>11, <1>1 DEF MainThread, Listen, Signal, LoopBreak, Exit, LateSignal, Tick, vars,
                     sharedVars, streamVars
<1> QED
  BY <1>2, <1>3, <1>4, <1>5, <1>6, <1>7, <1>8, <1>9, <1>10, <1>11
     DEF Next, JpegThread

\* What was put into the ring last is followed to the client: it is appended,
\* comes to the head, and is exposed or found to be what is exposed.
LEMMA NewestStep ==
    ASSUME IInv, [Next]_vars
    PROVE  NewestInv'
<1> USE DEF IInv, NewestInv
<1>1. CASE UNCHANGED <<ring, exposed, newest>>
  BY <1>1
<1>2. CASE RefreshExposes
  <2>1. /\ ring # <<>> /\ ring \in Seq(Frames)
        /\ ring' = Tail(ring) /\ newest' = newest
        /\ exposed' = Head(ring)
    BY <1>2 DEF RefreshExposes, IsDropped, PicturesInv
  <2> QED
    BY <2>1, QueueEnds
<1>3. CASE ExposeBlank \/ ExposeJpeg
  <2>1. Expose /\ exposed' = exposed
    BY <1>3 DEF ExposeBlank, ExposeJpeg, httpVars, jpegKeeps, exposedVars
  <2>2. ring \in Seq(Frames) /\ out \in Frames
    BY DEF PicturesInv
  <2>3. CASE ring' = Append(ring, out) /\ newest' = out
    BY <2>1, <2>2, <2>3, QueueEnds
  <2> QED
    BY <1>1, <2>1, <2>3 DEF Expose
<1>4. CASE Listen
  BY <1>4, <1>1 DEF Listen, ExposedInv, sharedVars, ghostVars
<1>5. CASE (StreamThread /\ ~ExposeBlank) \/ (JpegThread /\ ~ExposeJpeg)
  BY <1>5, <1>1
     DEF StreamThread, CheckSuicide, OpenDevice, NoDevice, Grab, SessionEnds,
         SessionClosed, StreamEnds, JpegThread, TakeJob, TakeFailedJob,
         CountSnapshot, AssignJob, JpegEnds, jpegKeeps, httpVars, exposedVars,
         sharedVars
<1>6. CASE HttpThread /\ ~RefreshExposes
  BY <1>6, <1>1
     DEF HttpThread, Ask, AskStream, AskSnapshot, AskPage, AskState, Preprocess,
         Write, Gone, Refresher, RefreshRepeats, SendSnapshots, Dispatch, LoopEnds,
         exposedVars, sharedVars, ghostVars
<1>7. CASE (MainThread /\ ~Listen) \/ Tick \/ UNCHANGED vars
  BY <1>7, <1>1 DEF MainThread, Signal, LoopBreak, Exit, LateSignal, Tick, vars,
                    exposedVars, sharedVars, ghostVars
<1> QED
  BY <1>2, <1>3, <1>4, <1>5, <1>6, <1>7 DEF Next

\* The inductive invariant holds in every state of the server.
THEOREM ServerInvariant == Spec => []IInv
<1>1. IInv /\ [Next]_vars => IInv'
  BY ThreadsStep, ClientsStep, SnapshotsStep, ExposedStep, PicturesStep, NewestStep
     DEF IInv
<1> QED
  BY InvInit, <1>1, PTL DEF Spec

-----------------------------------------------------------------------------
(* What it says of the server *)

\* has_clients agrees with the list, the counters and rings of server.c and
\* stream.c stay in their ranges: the type invariant.
THEOREM SharedStateAgrees == Spec => []SharedStateOK
<1>1. IInv => SharedStateOK
  BY DEF IInv, SharedStateOK, ThreadsInv, ClientsInv, SnapshotsInv, ExposedInv,
         PicturesInv
<1> QED
  BY <1>1, ServerInvariant, PTL

\* Dropped same frames, newcomers and slow readers together: nobody who waits
\* for nothing has been sent anything but what is exposed.
THEOREM NobodyIsLeftBehind == Spec => []NoClientLeftBehind
<1>1. IInv => NoClientLeftBehind
  BY DEF IInv, SentInv, NoClientLeftBehind
<1> QED
  BY <1>1, ServerInvariant, PTL

\* _http_send_snapshot() answers before the time-out only those for whom the
\* JPEG thread has counted a picture since they asked, and with the newest picture
\* unless newer ones wait in the ring: drop_same_frames and the blank picture put
\* nothing else in its place. (It is not said that the picture is newer than the
\* request.)
THEOREM SnapshotsFollowCounts == Spec => SnapshotFollowsACount
<1>1. IInv /\ [Next]_vars
      => [~Over' => \A s \in snaps \ snaps' :
             s \in late \/ (s \in counted /\ (ring = <<>> => exposed = newest))]_vars
  <2> SUFFICES ASSUME IInv, Next, ~Over', NEW s \in snaps \ snaps'
               PROVE  /\ s \in late \cup counted
                      /\ ring = <<>> => exposed = newest
    OBVIOUS
  <2>1. CASE UNCHANGED <<snaps, late, requested, counted>>
    BY <2>1
  <2>2. CASE SendSnapshots
    <3>1. s \in late \cup counted
      BY <2>2 DEF SendSnapshots, Answered, IInv, SnapshotsInv
    <3>2. ring = <<>> => exposed = newest
      BY DEF IInv, NewestInv
    <3> QED
      BY <3>1, <3>2
  <2>3. CASE \E x \in Snappers : AskSnapshot(x)
    BY <2>3 DEF AskSnapshot
  <2>4. CASE CountSnapshot \/ Tick
    BY <2>4 DEF CountSnapshot, Tick, jpegKeeps, httpVars, snapVars
  <2>5. CASE Exit
    BY <2>5 DEF Exit, Over
  <2> QED
    BY <2>1, <2>2, <2>3, <2>4, <2>5, SnapshotsKept
       DEF Next, HttpThread, Ask, Refresher, MainThread
<1> QED
  BY <1>1, ServerInvariant, PTL DEF Spec, SnapshotFollowsACount
=============================================================================
