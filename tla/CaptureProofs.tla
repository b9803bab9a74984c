-------------------------- MODULE CaptureProofs ---------------------------
(***************************************************************************)
(* What the two programs that hold a capture device do with it, for any    *)
(* number of capture buffers, any pictures and any display modes.          *)
(*                                                                         *)
(* - The device, shared by both: CapInv accounts for what it holds, and    *)
(*   every call of an opening that fails half-way preserves the account.   *)
(* - The passthrough program holds nothing it has closed, keeps the        *)
(*   assertions of drm.c and never flips to a buffer the driver may fill.  *)
(*   None of the three is inductive: IInv adds the two forms of the        *)
(*   display's record, closed and opened; that a display that is not       *)
(*   waiting for the sync has no flip under way, which is why a buffer can *)
(*   go back after a wait; and what main.c knows of both devices at each   *)
(*   of its labels.                                                        *)
(* - The encoders of uStreamer expose the frame they were given, keep no   *)
(*   buffer and give back what they hold. EncodersInv adds what makes it   *)
(*   inductive: while a call waits, the device owes exactly one answer to  *)
(*   its frame, and the frame's buffer is the one the device has.          *)
(***************************************************************************)
EXTENDS V4p, Encoders, TLAPS

\* The types of the capture device's record
Geometry == [width : Nat, height : Nat,
             format : {g.format : g \in Geometries} \cup {"none"}]
Buffer == [data : Holdings, dma_fd : Holdings, grabbed : BOOLEAN]
BufferLists == UNION {[0 .. n - 1 -> Buffer] : n \in BufCounts \cup {0}}
Runtime == [io_method : IoMethods, open : BOOLEAN, streamon : BOOLEAN, mplane : BOOLEAN,
            geometry : Geometry, n_bufs : 0 .. MaxBufs, bufs : BufferLists,
            os : SUBSET Holdings]

\* What an open device is held by
Device(c) == IF c.open THEN {Held("fd", 0)} ELSE {}

\* All that is held would be given back by us_capture_close(), and with MMAP the
\* standard input, which is not its own, would not.
Accountable(c) ==
    /\ c \in Runtime
    /\ 0 .. c.n_bufs - 1 \subseteq DOMAIN c.bufs
    /\ c.os \subseteq {Stdin} \cup Released(c) \cup Device(c)
    /\ c.io_method = "MMAP" => Stdin \in c.os \ Released(c)

\* An opened device has set up each of its buffers.
Opened(c) ==
    /\ c.open
    /\ c.n_bufs \in BufCounts
    /\ DOMAIN c.bufs = 0 .. c.n_bufs - 1

CapInv ==
    /\ Accountable(cap)
    /\ ~cap.open => cap.os \subseteq {Stdin} /\ cap.n_bufs = 0
    /\ cap.open => Opened(cap)
    /\ faulty \in BOOLEAN /\ signal \in BOOLEAN

\* A screen without anything of the program: the console, or dark, and no flip
Left(s) == s.front \in {Console, NoFrame} /\ s.next = NoFrame /\ s.event = FALSE

\* A closed display
ClosedInv(d, s) ==
    /\ d.opened < 0 /\ d.crtc = Unsaved /\ d.has_vsync /\ ~d.exposing
    /\ d.source = "none" /\ d.os \subseteq {"lost"}
    /\ Left(s)

\* An opened one shows live video or a stub, whose buffers are its own; what is
\* held for the saved CRTC can be found.
ShownInv(d) ==
    /\ d.crtc = Unsaved => "crtc" \notin d.os
    /\ d.opened \in 0 .. 3
    /\ d.opened = 0 => d.source = "dma"
    /\ d.opened > 0 => d.source = "stub" /\ d.n_bufs = StubBufs

\* The record and the screen: a flip is under way or its event is unread only
\* while has_vsync is FALSE.
DisplayInv(d, s) ==
    /\ ~d.fd => ClosedInv(d, s)
    /\ d.fd => ShownInv(d)
    /\ s.event => s.next = NoFrame
    /\ d.has_vsync => s.next = NoFrame /\ ~s.event
    /\ s.front[1] = "dma" => d.source = "dma"
    /\ s.next[1] = "dma" => d.source = "dma"

\* The frame buffers of live video are those of the open capture device, what is
\* shown is one of them, and the one about to be shown is grabbed.
ShownNow ==
    /\ drm.source = "dma" => cap.open /\ drm.n_bufs = cap.n_bufs
    /\ screen.front[1] = "dma" => screen.front[2] \in 0 .. cap.n_bufs - 1
    /\ screen.next[1] = "dma" =>
          screen.next[2] \in 0 .. cap.n_bufs - 1 /\ cap.bufs[screen.next[2]].grabbed

\* What _main_loop() knows at its labels
ControlInv ==
    /\ vpc \in {"top", "stub", "busy", "busy_expose", "no_signal", "done"} =>
          ~cap.open /\ drm.opened # 0
    /\ vpc = "stub" => ~drm.fd
    /\ vpc \in {"busy", "busy_expose", "no_signal"} => drm.fd
    /\ vpc = "reopen" => cap.open /\ drm.opened > 0
    /\ vpc \in {"live", "release", "grab", "expose", "give_back"} => cap.open /\ drm.fd
    /\ vpc = "closed" => ~drm.fd
    /\ vpc \in {"busy_expose", "release", "grab", "expose"} => drm.has_vsync
    /\ vpc = "give_back" => drm.opened > 0
    /\ vpc \in {"expose", "give_back"} =>
          hw \in 0 .. cap.n_bufs - 1 /\ cap.bufs[hw].grabbed
    /\ vpc \notin {"live", "release", "grab", "expose", "give_back", "close"} =>
          prev_hw = -1
    /\ prev_hw >= 0 => cap.open /\ prev_hw < cap.n_bufs

-----------------------------------------------------------------------------
(* The capture device *)

\* The numbers of buffers are natural numbers up to the largest of them.
LEMMA BufCountsBounded ==
  MaxBufs \in BufCounts /\ MaxBufs \in Nat \ {0} /\ \A n \in BufCounts : n \in 1 .. MaxBufs
  <1>1. MaxBufs \in BufCounts /\ \A k \in BufCounts : k <= MaxBufs
    BY BufCountsAssumption DEF MaxBufs
  <1>2. QED
    BY <1>1, BufCountsAssumption

\* The things that can be held.
LEMMA HoldingTypes ==
  /\ NoFd \in Holdings /\ Stdin \in Holdings /\ Held("fd", 0) \in Holdings
  /\ \A b \in 0 .. MaxBufs, k \in {"map", "mem", "planes", "dma"} :
        Held(k, b) \in Holdings /\ Held(k, b) # Stdin
  /\ NoFd # Stdin /\ Held("fd", 0) # Stdin
  BY BufCountsBounded DEF Holdings, Kinds, NoFd, Stdin, Held

\* The records an opening goes through: a device without buffers, ...
Empty(c) ==
    /\ Accountable(c)
    /\ c.open /\ c.n_bufs = 0
    /\ c.os \subseteq {Stdin, Held("fd", 0)}

\* The memory of the buffers, and of their planes
Memory(c) == {c.bufs[b].data : b \in 0 .. c.n_bufs - 1}
Planes(c) == {Held("planes", b) : b \in IF c.mplane THEN 0 .. c.n_bufs - 1 ELSE {}}

\* ... and one with buffers that are not exported.
Buffered(c) ==
    /\ Accountable(c) /\ Opened(c)
    /\ c.os \subseteq {Stdin, Held("fd", 0)} \cup Memory(c) \cup Planes(c)

\* A set of outcomes: whichever it is, what is held can be given back; one that
\* succeeds has got so far.
FindsDevice(S) == \A r \in S : Accountable(r.c) /\ (r.ok => Empty(r.c))
HasBuffers(S) == \A r \in S : Accountable(r.c) /\ (r.ok => Buffered(r.c))
HasOpened(S) == \A r \in S : Accountable(r.c) /\ (r.ok => Opened(r.c))

\* A device before us_capture_open()
Idle(c) == Accountable(c) /\ ~c.open /\ c.os \subseteq {Stdin} /\ c.n_bufs = 0

\* The parts of an outcome
LEMMA OutcomeOf ==
  \A c : /\ Ok(c).ok = TRUE /\ Ok(c).c = c
         /\ Fail(c).ok = FALSE /\ Fail(c).c = c
  BY DEF Ok, Fail

\* One lemma for each call of the chain: what its outcomes hold is accounted for.
LEMMA OpenDeviceFinds == \A c : Idle(c) => FindsDevice(capture_open_device(c))
  <1> SUFFICES ASSUME NEW c, Idle(c) PROVE FindsDevice(capture_open_device(c))
    OBVIOUS
  <1> DEFINE d == [c EXCEPT !.open = TRUE, !.os = @ \cup {Held("fd", 0)}]
  <1>1. d \in Runtime
    BY HoldingTypes DEF Idle, Accountable, Runtime
  <1>2. Released(d) = Released(c)
    BY DEF Idle, Accountable, Runtime, Released
  <1>3. Empty(d)
    BY <1>1, <1>2, HoldingTypes DEF Idle, Accountable, Runtime, Empty, Device
  <1>4. Accountable(c) /\ Accountable(d)
    BY <1>3 DEF Idle, Empty
  <1>5. \A r \in capture_open_device(c) : r = Ok(d) \/ r = Fail(c)
    BY DEF capture_open_device, Fallible
  <1>6. QED
    BY <1>3, <1>4, <1>5, OutcomeOf DEF FindsDevice

\* The signal is only looked at.
LEMMA ProbeFinds == \A c : Empty(c) => FindsDevice(capture_probe(c))
  BY OutcomeOf DEF Empty, Accountable, FindsDevice, capture_probe, Fallible

\* So are the lanes.
LEMMA CheckLanesFinds == \A c : Empty(c) => FindsDevice(capture_open_check_lanes(c))
  BY OutcomeOf DEF Empty, Accountable, FindsDevice, capture_open_check_lanes, Fallible

\* Whether planes will be held is known before the first of them is.
LEMMA CheckCapFinds == \A c : Empty(c) => FindsDevice(capture_open_check_cap(c))
  <1> SUFFICES ASSUME NEW c, Empty(c) PROVE FindsDevice(capture_open_check_cap(c))
    OBVIOUS
  <1>1. ASSUME NEW m \in BOOLEAN PROVE Empty([c EXCEPT !.mplane = m])
    <2> DEFINE d == [c EXCEPT !.mplane = m]
    <2>1. d \in Runtime
      BY DEF Empty, Accountable, Runtime
    <2>2. Released(d) = Released(c)
      BY DEF Empty, Accountable, Runtime, Released
    <2>3. QED
      BY <2>1, <2>2 DEF Empty, Accountable, Runtime, Device
  <1>2. \A r \in capture_open_check_cap(c) :
           r = Fail(c) \/ \E m \in BOOLEAN : r = Ok([c EXCEPT !.mplane = m])
    BY DEF capture_open_check_cap, Fallible
  <1>3. Accountable(c) /\ \A m \in BOOLEAN : Accountable([c EXCEPT !.mplane = m])
    BY <1>1 DEF Empty
  <1>4. QED
    BY <1>1, <1>2, <1>3, OutcomeOf DEF FindsDevice

\* The geometry is nobody's resource.
LEMMA GeometryKeeps ==
  \A c, g : Empty(c) /\ g \in Geometry => Empty([c EXCEPT !.geometry = g])
  <1> SUFFICES ASSUME NEW c, NEW g, Empty(c), g \in Geometry
               PROVE  Empty([c EXCEPT !.geometry = g])
    OBVIOUS
  <1> DEFINE d == [c EXCEPT !.geometry = g]
  <1>1. d \in Runtime
    BY DEF Empty, Accountable, Runtime
  <1>2. Released(d) = Released(c)
    BY DEF Empty, Accountable, Runtime, Released
  <1>3. QED
    BY <1>1, <1>2 DEF Empty, Accountable, Runtime, Device

\* The resolution of the source, and then the one the driver answers with
LEMMA ResolutionFinds ==
  \A c, g : Empty(c) /\ g \in Geometries => FindsDevice(capture_apply_resolution(c, g))
  <1> SUFFICES ASSUME NEW c, NEW g \in Geometries, Empty(c)
               PROVE  FindsDevice(capture_apply_resolution(c, g))
    OBVIOUS
  <1> DEFINE h == [c.geometry EXCEPT !.width = g.width, !.height = g.height]
             d == [c EXCEPT !.geometry.width = g.width, !.geometry.height = g.height]
  <1>1. h \in Geometry
    BY GeometriesAssumption DEF Empty, Accountable, Runtime, Geometry
  <1>2. d = [c EXCEPT !.geometry = h]
    BY DEF Empty, Accountable, Runtime, Geometry
  <1>3. Empty(d)
    BY <1>1, <1>2, GeometryKeeps
  <1>4. QED
    BY <1>3, OutcomeOf DEF Empty, Accountable, FindsDevice, capture_apply_resolution

\* _capture_open_dv_timings() changes the resolution only.
LEMMA DvTimingsFinds == \A c : Empty(c) => FindsDevice(capture_open_dv_timings(c))
  <1> SUFFICES ASSUME NEW c, Empty(c) PROVE FindsDevice(capture_open_dv_timings(c))
    OBVIOUS
  <1>1. FindsDevice({Fail(c)})
    BY OutcomeOf DEF Empty, Accountable, FindsDevice
  <1>2. FindsDevice(UNION {capture_apply_resolution(c, g) : g \in Geometries})
    BY ResolutionFinds, OutcomeOf DEF FindsDevice
  <1>3. QED
    BY <1>1, <1>2 DEF FindsDevice, capture_open_dv_timings, Fallible

\* _capture_open_format() changes the geometry only.
LEMMA FormatFinds == \A c : Empty(c) => FindsDevice(capture_open_format(c))
  <1> SUFFICES ASSUME NEW c, Empty(c) PROVE FindsDevice(capture_open_format(c))
    OBVIOUS
  <1>1. FindsDevice({Fail(c)})
    BY OutcomeOf DEF Empty, Accountable, FindsDevice
  <1>2. ASSUME NEW g \in Geometries
        PROVE  FindsDevice(Then(capture_apply_resolution(c, g),
                                LAMBDA d : {Ok([d EXCEPT !.geometry = g])}))
    <2>1. FindsDevice(capture_apply_resolution(c, g))
      BY ResolutionFinds
    <2>2. g \in Geometry
      BY GeometriesAssumption DEF Geometry
    <2> DEFINE Set(d) == {Ok([d EXCEPT !.geometry = g])}
    <2>3. ASSUME NEW d, Empty(d) PROVE FindsDevice(Set(d))
      <3>1. Empty([d EXCEPT !.geometry = g])
        BY <2>2, <2>3, GeometryKeeps
      <3>2. QED
        BY <3>1, OutcomeOf DEF FindsDevice, Empty
    <2> HIDE DEF Set
    <2>4. FindsDevice(UNION {IF r.ok THEN Set(r.c) ELSE {r} :
                                r \in capture_apply_resolution(c, g)})
      BY <2>1, <2>3 DEF FindsDevice
    <2>5. QED
      BY <2>4 DEF Then, Set
  <1>3. QED
    BY <1>1, <1>2, OutcomeOf DEF FindsDevice, capture_open_format, Fallible

-----------------------------------------------------------------------------
(* The buffers *)

\* Wherever setting up the buffers stops, the ones that are done can be released.
LEMMA AllocatedHolds ==
  ASSUME NEW c, Empty(c), NEW n \in BufCounts, NEW i \in 0 .. n,
         NEW kind \in {"map", "mem"}, NEW fd \in {NoFd, Stdin},
         c.io_method = "MMAP" => fd = NoFd
  PROVE  LET d == Allocated(c, n, i, kind, fd)
         IN  Accountable(d) /\ (i = n => Buffered(d))
  <1> DEFINE d == Allocated(c, n, i, kind, fd)
             bufs == [b \in 0 .. n - 1 |->
                         IF b < i THEN [Calloced EXCEPT !.data = Held(kind, b),
                                                        !.dma_fd = fd]
                                  ELSE Calloced]
             memory == {Held(kind, b) : b \in 0 .. i - 1}
             planes == {Held("planes", b) : b \in IF c.mplane THEN 0 .. i - 1 ELSE {}}
  <1>1. n \in 1 .. MaxBufs /\ MaxBufs \in Nat /\ i \in 0 .. MaxBufs
    BY BufCountsBounded
  <1>2. \A b \in 0 .. i - 1 : Held(kind, b) \in Holdings /\ Held(kind, b) # Stdin
    BY <1>1, HoldingTypes
  <1>3. Calloced \in Buffer /\ fd \in Holdings
    BY HoldingTypes DEF Calloced, Buffer
  <1> DEFINE filled(b) == [Calloced EXCEPT !.data = Held(kind, b), !.dma_fd = fd]
  <1>4. \A b \in 0 .. i - 1 :
            filled(b) \in Buffer /\ filled(b).data = Held(kind, b) /\ filled(b).dma_fd = fd
    BY <1>2, <1>3 DEF Buffer
  <1> HIDE DEF filled
  <1>5. bufs = [b \in 0 .. n - 1 |-> IF b < i THEN filled(b) ELSE Calloced]
    BY DEF filled
  <1> HIDE DEF bufs
  <1>6. \A b \in 0 .. i - 1 : bufs[b].data = Held(kind, b) /\ bufs[b].dma_fd = fd
    BY <1>1, <1>4, <1>5
  <1>7. bufs \in [0 .. n - 1 -> Buffer]
    BY <1>1, <1>3, <1>4, <1>5
  <1>8. bufs \in BufferLists
    BY <1>7 DEF BufferLists
  <1>9. memory \subseteq Holdings /\ planes \subseteq Holdings
    BY <1>1, HoldingTypes
  <1>10. d = [c EXCEPT !.n_bufs = i, !.bufs = bufs, !.os = @ \cup memory \cup planes]
    BY DEF Allocated, bufs
  <1> HIDE DEF d, memory, planes
  <1>11. d \in Runtime
    BY <1>1, <1>8, <1>9, <1>10 DEF Empty, Accountable, Runtime
  <1>12. /\ d.n_bufs = i /\ d.bufs = bufs /\ d.os = c.os \cup memory \cup planes
        /\ d.open = c.open /\ d.mplane = c.mplane /\ d.io_method = c.io_method
    BY <1>10 DEF Empty, Accountable, Runtime
  <1>13. Memory(d) = memory /\ Planes(d) = planes
    BY <1>12, <1>6 DEF Memory, Planes, memory, planes
  <1>14. Released(d) = memory \cup planes \cup {fd : b \in 0 .. i - 1}
    BY <1>12, <1>6 DEF Released, memory, planes
  <1>15. Stdin \notin memory \cup planes
    BY <1>1, <1>2, HoldingTypes DEF memory, planes
  <1>16. Accountable(d)
    <2>1. 0 .. d.n_bufs - 1 \subseteq DOMAIN d.bufs
      BY <1>1, <1>7, <1>12
    <2>2. d.os \subseteq {Stdin} \cup Released(d) \cup Device(d)
      BY <1>12, <1>14 DEF Empty, Device
    <2>3. d.io_method = "MMAP" => Stdin \in d.os \ Released(d)
      BY <1>12, <1>14, <1>15, HoldingTypes DEF Empty, Accountable
    <2>4. QED
      BY <1>11, <2>1, <2>2, <2>3 DEF Accountable
  <1>17. ASSUME i = n PROVE Buffered(d)
    <2>1. Opened(d)
      BY <1>17, <1>7, <1>12 DEF Opened, Empty
    <2>2. d.os \subseteq {Stdin, Held("fd", 0)} \cup Memory(d) \cup Planes(d)
      BY <1>12, <1>13 DEF Empty
    <2>3. QED
      BY <1>16, <2>1, <2>2 DEF Buffered
  <1>18. QED
    BY <1>16, <1>17 DEF d

\* Mapped buffers
LEMMA MmapHasBuffers ==
  ASSUME NEW c, Empty(c), c.io_method = "MMAP"
  PROVE  HasBuffers(capture_open_io_method_mmap(c))
  <1>1. \A n \in BufCounts : \A i \in 0 .. n :
           /\ Accountable(Allocated(c, n, i, "map", NoFd))
           /\ i = n => Buffered(Allocated(c, n, i, "map", NoFd))
    BY AllocatedHolds
  <1>2. \A n \in BufCounts : n \in 0 .. n /\ 0 .. n - 1 \subseteq 0 .. n
    BY BufCountsBounded
  <1>3. \A r \in capture_open_io_method_mmap(c) : \E n \in BufCounts :
           \/ r = Ok(Allocated(c, n, n, "map", NoFd))
           \/ \E i \in 0 .. n - 1 : r = Fail(Allocated(c, n, i, "map", NoFd))
    BY DEF capture_open_io_method_mmap
  <1>4. QED
    BY <1>1, <1>2, <1>3, OutcomeOf DEF HasBuffers

\* The process's own memory
LEMMA UserptrHasBuffers ==
  ASSUME NEW c, Empty(c), c.io_method # "MMAP"
  PROVE  HasBuffers(capture_open_io_method_userptr(c))
  <1>1. \A n \in BufCounts : \A i \in 0 .. n :
           /\ Accountable(Allocated(c, n, i, "mem", Stdin))
           /\ i = n => Buffered(Allocated(c, n, i, "mem", Stdin))
    BY AllocatedHolds
  <1>2. \A n \in BufCounts : n \in 0 .. n
    BY BufCountsBounded
  <1>3. QED
    BY <1>1, <1>2, OutcomeOf DEF HasBuffers, capture_open_io_method_userptr

\* Either of them, or a failure before the first buffer
LEMMA IoMethodHasBuffers == \A c : Empty(c) => HasBuffers(capture_open_io_method(c))
  <1> SUFFICES ASSUME NEW c, Empty(c) PROVE HasBuffers(capture_open_io_method(c))
    OBVIOUS
  <1>1. HasBuffers({Fail(c)})
    BY OutcomeOf DEF HasBuffers, Empty
  <1>2. QED
    BY <1>1, MmapHasBuffers, UserptrHasBuffers
       DEF HasBuffers, capture_open_io_method, Fallible

\* Queueing them changes nothing that is held.
LEMMA QueueHasBuffers == \A c : Buffered(c) => HasBuffers(capture_open_queue_buffers(c))
  BY OutcomeOf DEF Buffered, HasBuffers, capture_open_queue_buffers, Fallible

\* Exporting all buffers gives each a descriptor of its own; if it stops at one of
\* them, closing the descriptors made so far leaves the memory alone.
LEMMA ExportedHolds ==
  ASSUME NEW c, Buffered(c), NEW i \in 0 .. c.n_bufs
  PROVE  LET e == Exported(c, i)
             f == DmaClosed(e, 0 .. c.n_bufs - 1)
         IN  /\ Accountable(f) /\ Opened(f)
             /\ i = c.n_bufs => Accountable(e) /\ Opened(e)
  <1> DEFINE N == 0 .. c.n_bufs - 1
             e == Exported(c, i)
             f == DmaClosed(e, N)
             own(b) == [c.bufs[b] EXCEPT !.dma_fd = Held("dma", b)]
             dmas == {Held("dma", b) : b \in 0 .. i - 1}
             bufs == [b \in N |-> IF b < i THEN own(b) ELSE c.bufs[b]]
             fds == {bufs[b].dma_fd : b \in N}
             shut(b) == [bufs[b] EXCEPT !.dma_fd = NoFd]
             closed == [b \in N |-> shut(b)]
  <1>1. /\ c \in Runtime /\ c.open /\ c.n_bufs \in BufCounts /\ DOMAIN c.bufs = N
        /\ c.n_bufs \in 1 .. MaxBufs /\ MaxBufs \in Nat
        /\ c.bufs \in [N -> Buffer] /\ c.os \subseteq Holdings
    BY BufCountsBounded DEF Buffered, Opened, Accountable, Runtime, BufferLists
  <1>2. /\ \A b \in N : c.bufs[b] \in Buffer
        /\ \A b \in N : Held("dma", b) \in Holdings /\ Held("dma", b) # Stdin
        /\ 0 .. i - 1 \subseteq N
        /\ NoFd \in Holdings /\ NoFd # Stdin
    BY <1>1, HoldingTypes
  <1>3. \A b \in N : /\ own(b) \in Buffer /\ own(b).dma_fd = Held("dma", b)
                     /\ own(b).data = c.bufs[b].data
    BY <1>2 DEF Buffer
  <1>4. /\ e = [c EXCEPT !.bufs = bufs, !.os = @ \cup dmas]
    BY <1>1 DEF Exported
  <1> HIDE DEF own
  <1>5. \A b \in N : /\ bufs[b] \in Buffer /\ bufs[b].data = c.bufs[b].data
                     /\ bufs[b].dma_fd = IF b < i THEN Held("dma", b) ELSE c.bufs[b].dma_fd
    BY <1>2, <1>3
  <1>6. bufs \in [N -> Buffer] /\ DOMAIN bufs = N
    BY <1>5
  <1> HIDE DEF bufs
  <1>7. bufs \in BufferLists
    BY <1>1, <1>6 DEF BufferLists
  <1>8. dmas \subseteq Holdings /\ Stdin \notin dmas
    BY <1>2
  <1> HIDE DEF dmas
  <1>9. /\ e \in Runtime /\ e.bufs = bufs /\ e.os = c.os \cup dmas
        /\ e.n_bufs = c.n_bufs /\ e.open = c.open /\ e.mplane = c.mplane
        /\ e.io_method = c.io_method
    BY <1>1, <1>4, <1>7, <1>8 DEF Runtime
  <1> HIDE DEF e
  <1>10. \A b \in N : shut(b) \in Buffer /\ shut(b).dma_fd = NoFd /\ shut(b).data = c.bufs[b].data
    BY <1>2, <1>5 DEF Buffer
  <1>11. f = [e EXCEPT !.bufs = closed, !.os = @ \ fds]
    BY <1>6, <1>9 DEF DmaClosed
  <1> HIDE DEF shut, fds
  <1>12. closed \in [N -> Buffer] /\ \A b \in N : closed[b] = shut(b)
    BY <1>10
  <1> HIDE DEF closed
  <1>13. closed \in BufferLists
    BY <1>1, <1>12 DEF BufferLists
  <1>14. /\ f \in Runtime /\ f.bufs = closed /\ f.os = (c.os \cup dmas) \ fds
         /\ f.n_bufs = c.n_bufs /\ f.open = c.open /\ f.mplane = c.mplane
         /\ f.io_method = c.io_method
    BY <1>9, <1>11, <1>13 DEF Runtime
  <1> HIDE DEF f
  <1>15. Memory(e) = Memory(c) /\ Planes(e) = Planes(c)
    BY <1>5, <1>9 DEF Memory, Planes
  <1>16. Memory(f) = Memory(c) /\ Planes(f) = Planes(c)
    BY <1>10, <1>12, <1>14 DEF Memory, Planes
  <1>17. \A x \in {c, e, f} :
            Released(x) = {x.bufs[b].dma_fd : b \in N} \cup Memory(x) \cup Planes(x)
    BY <1>9, <1>14 DEF Released, Memory, Planes
  <1>18. c.io_method = "MMAP" =>
            /\ Stdin \in c.os /\ Stdin \notin Memory(c) \cup Planes(c)
            /\ \A b \in N : c.bufs[b].dma_fd # Stdin
    BY <1>17 DEF Buffered, Accountable
  <1>19. c.io_method = "MMAP" => Stdin \notin fds
    BY <1>2, <1>5, <1>18 DEF fds
  <1>20. dmas \subseteq fds
    BY <1>2, <1>5 DEF dmas, fds
  <1>21. c.os \subseteq {Stdin, Held("fd", 0)} \cup Memory(c) \cup Planes(c)
    BY DEF Buffered
  <1>22. Accountable(f)
    <2>1. f.os \subseteq {Stdin} \cup Released(f) \cup Device(f)
      BY <1>1, <1>14, <1>16, <1>17, <1>20, <1>21 DEF Device
    <2>2. Stdin \notin {f.bufs[b].dma_fd : b \in N}
      BY <1>2, <1>10, <1>12, <1>14
    <2>3. f.io_method = "MMAP" => Stdin \in f.os \ Released(f)
      BY <2>2, <1>14, <1>16, <1>17, <1>18, <1>19
    <2>4. QED
      BY <1>12, <1>14, <2>1, <2>3 DEF Accountable
  <1>23. Opened(f)
    BY <1>1, <1>12, <1>14 DEF Opened
  <1>24. ASSUME i = c.n_bufs PROVE Accountable(e) /\ Opened(e)
    <2>1. {e.bufs[b].dma_fd : b \in N} = dmas
      BY <1>1, <1>5, <1>9, <1>24 DEF dmas
    <2>2. e.os \subseteq {Stdin} \cup Released(e) \cup Device(e)
      BY <1>1, <1>9, <1>15, <1>17, <1>21, <2>1 DEF Device
    <2>3. e.io_method = "MMAP" => Stdin \in e.os \ Released(e)
      BY <2>1, <1>8, <1>9, <1>15, <1>17, <1>18
    <2>4. QED
      BY <1>1, <1>6, <1>9, <2>2, <2>3 DEF Accountable, Opened
  <1>25. QED
    BY <1>22, <1>23, <1>24 DEF e, f

\* Exported or not, an opened device is left.
LEMMA ExportHasOpened == \A c : Buffered(c) => HasOpened(capture_open_export_to_dma(c))
  <1> SUFFICES ASSUME NEW c, Buffered(c) PROVE HasOpened(capture_open_export_to_dma(c))
    OBVIOUS
  <1> DEFINE gone(i) == DmaClosed(Exported(c, i), 0 .. c.n_bufs - 1)
  <1>1. c.n_bufs \in Nat
    BY BufCountsAssumption DEF Buffered, Opened
  <1>2. \A i \in 0 .. c.n_bufs : Accountable(gone(i)) /\ Opened(gone(i))
    BY ExportedHolds
  <1>3. Accountable(Exported(c, c.n_bufs)) /\ Opened(Exported(c, c.n_bufs))
    BY <1>1, ExportedHolds
  <1>4. Accountable(c) /\ Opened(c)
    BY DEF Buffered
  <1>5. \A r \in capture_open_export_to_dma(c) :
           \/ r = Ok(c) \/ r = Ok(Exported(c, c.n_bufs))
           \/ \E i \in 0 .. c.n_bufs - 1 : r = Fail(gone(i)) \/ r = Ok(gone(i))
    BY DEF capture_open_export_to_dma
  <1> HIDE DEF gone
  <1>6. QED
    BY <1>1, <1>2, <1>3, <1>4, <1>5, OutcomeOf DEF HasOpened

\* VIDIOC_STREAMON changes nothing that is held.
LEMMA StreamonHasOpened ==
  \A c : Accountable(c) /\ Opened(c) => HasOpened(capture_streamon(c))
  <1> SUFFICES ASSUME NEW c, Accountable(c), Opened(c) PROVE HasOpened(capture_streamon(c))
    OBVIOUS
  <1> DEFINE d == [c EXCEPT !.streamon = TRUE]
  <1>1. /\ d \in Runtime /\ d.open = c.open /\ d.n_bufs = c.n_bufs /\ d.bufs = c.bufs
        /\ d.os = c.os /\ d.io_method = c.io_method /\ d.mplane = c.mplane
    BY DEF Accountable, Runtime
  <1>2. \A r \in capture_streamon(c) : r = Ok(d) \/ r = Fail(c)
    BY DEF capture_streamon, Fallible
  <1> HIDE DEF d
  <1>3. Released(d) = Released(c) /\ Device(d) = Device(c)
    BY <1>1 DEF Released, Device
  <1>4. Accountable(d) /\ Opened(d)
    BY <1>1, <1>3 DEF Accountable, Opened
  <1>5. QED
    BY <1>2, <1>4, OutcomeOf DEF HasOpened

\* The whole chain
LEMMA OpenHasOpened == \A c : Idle(c) => HasOpened(OpenOutcomes(c))
  <1> SUFFICES ASSUME NEW c, Idle(c) PROVE HasOpened(OpenOutcomes(c))
    OBVIOUS
  <1> DEFINE s1 == Then({Ok(c)}, capture_open_device)
             s2 == Then(s1, capture_probe)
             s3 == Then(s2, capture_open_check_cap)
             s4 == Then(s3, capture_open_dv_timings)
             s5 == Then(s4, capture_open_format)
             s6 == Then(s5, capture_open_check_lanes)
             s7 == Then(s6, capture_open_io_method)
             s8 == Then(s7, capture_open_queue_buffers)
             s9 == Then(s8, capture_open_export_to_dma)
  <1>1. OpenOutcomes(c) = Then(s9, capture_streamon)
    BY DEF OpenOutcomes
  <1> HIDE DEF s9
  <1>2. FindsDevice(s1)
    BY OpenDeviceFinds, OutcomeOf DEF Then, FindsDevice
  <1> HIDE DEF s1
  <1>3. FindsDevice(s2)
    BY <1>2, ProbeFinds DEF Then, FindsDevice
  <1> HIDE DEF s2
  <1>4. FindsDevice(s3)
    BY <1>3, CheckCapFinds DEF Then, FindsDevice
  <1> HIDE DEF s3
  <1>5. FindsDevice(s4)
    BY <1>4, DvTimingsFinds DEF Then, FindsDevice
  <1> HIDE DEF s4
  <1>6. FindsDevice(s5)
    BY <1>5, FormatFinds DEF Then, FindsDevice
  <1> HIDE DEF s5
  <1>7. FindsDevice(s6)
    BY <1>6, CheckLanesFinds DEF Then, FindsDevice
  <1> HIDE DEF s6
  <1>8. HasBuffers(s7)
    BY <1>7, IoMethodHasBuffers DEF Then, FindsDevice, HasBuffers
  <1> HIDE DEF s7
  <1>9. HasBuffers(s8)
    BY <1>8, QueueHasBuffers DEF Then, HasBuffers
  <1> HIDE DEF s8
  <1>10. HasOpened(s9)
    BY <1>9, ExportHasOpened DEF Then, HasBuffers, HasOpened, s9
  <1>11. QED
    BY <1>1, <1>10, StreamonHasOpened DEF Then, HasOpened

\* Closing gives back what was taken, wherever an opening stopped.
LEMMA ClosedIsIdle == \A c : Accountable(c) => Idle(Closed(c))
  <1> SUFFICES ASSUME NEW c, Accountable(c) PROVE Idle(Closed(c))
    OBVIOUS
  <1> DEFINE d == Closed(c)
  <1>1. NoBufs \in BufferLists
    <2>1. NoBufs \in [0 .. 0 - 1 -> Buffer]
      BY DEF NoBufs
    <2>2. QED
      BY <2>1 DEF BufferLists
  <1>2. NoGeometry \in Geometry
    BY DEF NoGeometry, Geometry
  <1> DEFINE os == c.os \ (Released(c) \cup Device(c))
  <1>3. /\ d = [c EXCEPT !.streamon = FALSE, !.open = FALSE, !.mplane = FALSE,
                         !.geometry = NoGeometry, !.n_bufs = 0, !.bufs = NoBufs, !.os = os]
        /\ os \in SUBSET Holdings
    BY DEF Closed, Accountable, Runtime, Device
  <1> HIDE DEF NoBufs, NoGeometry, d, os
  <1>4. 0 \in 0 .. MaxBufs
    BY BufCountsBounded
  <1>5. /\ d \in Runtime /\ d.open = FALSE /\ d.n_bufs = 0 /\ d.bufs = NoBufs
        /\ d.mplane = FALSE /\ d.io_method = c.io_method
        /\ d.os = c.os \ (Released(c) \cup Device(c))
    BY <1>1, <1>2, <1>3, <1>4 DEF Accountable, Runtime, os
  <1>6. Released(d) = {}
    BY <1>5 DEF Released
  <1>7. d.os \subseteq {Stdin}
    BY <1>5 DEF Accountable
  <1>8. d.io_method = "MMAP" => Stdin \in d.os \ Released(d)
    BY <1>5, <1>6, HoldingTypes DEF Accountable, Device
  <1>9. 0 .. d.n_bufs - 1 \subseteq DOMAIN d.bufs
    BY <1>5
  <1>10. Idle(d)
    BY <1>5, <1>7, <1>8, <1>9 DEF Idle, Accountable
  <1>11. QED
    BY <1>10 DEF d

\* us_capture_open() opens the device or leaves it closed.
LEMMA OpenKeeps ==
  \A rc : CapInv /\ ~cap.open /\ us_capture_open(rc)
             => CapInv' /\ rc \in {0, -1} /\ (cap'.open <=> rc = 0)
  <1> SUFFICES ASSUME NEW rc, CapInv, ~cap.open, us_capture_open(rc)
               PROVE  CapInv' /\ rc \in {0, -1} /\ (cap'.open <=> rc = 0)
    OBVIOUS
  <1>1. HasOpened(OpenOutcomes(cap))
    BY OpenHasOpened DEF CapInv, Idle
  <1>2. PICK r \in OpenOutcomes(cap) :
           /\ rc = IF r.ok THEN 0 ELSE -1
           /\ cap' = IF r.ok THEN r.c ELSE Closed(r.c)
    BY DEF us_capture_open
  <1>3. faulty' \in BOOLEAN /\ signal' \in BOOLEAN
    BY DEF us_capture_open, CapInv
  <1>4. CASE r.ok
    <2>1. cap' = r.c /\ rc = 0 /\ Accountable(r.c) /\ Opened(r.c)
      BY <1>1, <1>2, <1>4 DEF HasOpened
    <2>2. cap'.open
      BY <2>1 DEF Opened
    <2>3. QED
      BY <1>3, <2>1, <2>2 DEF CapInv
  <1>5. CASE ~r.ok
    <2>1. cap' = Closed(r.c) /\ rc = -1 /\ Accountable(r.c)
      BY <1>1, <1>2, <1>5 DEF HasOpened
    <2>2. Idle(cap')
      BY <2>1, ClosedIsIdle
    <2>3. QED
      BY <1>3, <2>1, <2>2 DEF CapInv, Idle
  <1>6. QED
    BY <1>4, <1>5

\* us_capture_close() leaves the device closed.
LEMMA CloseKeeps ==
  CapInv /\ us_capture_close => CapInv' /\ ~cap'.open
  <1> SUFFICES ASSUME CapInv, us_capture_close PROVE CapInv' /\ ~cap'.open
    OBVIOUS
  <1>1. Idle(cap')
    BY ClosedIsIdle DEF us_capture_close, CapInv
  <1>2. QED
    BY <1>1 DEF us_capture_close, CapInv, Idle

\* Marking buffers as grabbed or not leaves alone what is held.
SameMemory(c, bufs) ==
    /\ bufs \in [DOMAIN c.bufs -> Buffer]
    /\ \A b \in DOMAIN c.bufs :
          bufs[b].data = c.bufs[b].data /\ bufs[b].dma_fd = c.bufs[b].dma_fd

\* A step that marks buffers keeps the account.
LEMMA MarkingKeeps ==
  ASSUME CapInv, cap.open, NEW bufs, SameMemory(cap, bufs), cap' = [cap EXCEPT !.bufs = bufs],
         UNCHANGED <<faulty, signal>>
  PROVE  CapInv' /\ cap'.open /\ cap'.n_bufs = cap.n_bufs /\ cap'.bufs = bufs
  <1>1. DOMAIN cap.bufs = 0 .. cap.n_bufs - 1 /\ cap.n_bufs \in BufCounts
    BY DEF CapInv, Opened
  <1>2. bufs \in BufferLists
    BY <1>1 DEF SameMemory, BufferLists
  <1>3. /\ cap' \in Runtime /\ cap'.open = cap.open /\ cap'.n_bufs = cap.n_bufs
        /\ cap'.bufs = bufs /\ cap'.os = cap.os /\ cap'.mplane = cap.mplane
        /\ cap'.io_method = cap.io_method
    BY <1>2 DEF CapInv, Accountable, Runtime
  <1>4. DOMAIN cap'.bufs = 0 .. cap'.n_bufs - 1
    BY <1>1, <1>3 DEF SameMemory
  <1>5. Released(cap') = Released(cap) /\ Device(cap') = Device(cap)
    BY <1>1, <1>3 DEF Released, Device, SameMemory
  <1>6. Accountable(cap') /\ Opened(cap')
    BY <1>1, <1>3, <1>4, <1>5 DEF CapInv, Accountable, Opened
  <1>7. QED
    BY <1>3, <1>6 DEF CapInv

\* us_capture_hwbuf_grab() marks buffers and unmarks none.
LEMMA GrabKeeps ==
  ASSUME CapInv, cap.open, NEW rc, us_capture_hwbuf_grab(rc)
  PROVE  /\ CapInv' /\ cap'.open /\ cap'.n_bufs = cap.n_bufs
         /\ rc \in {-1, -7} \cup (0 .. cap.n_bufs - 1)
         /\ \A b \in 0 .. cap.n_bufs - 1 :
               cap.bufs[b].grabbed \/ b = rc => cap'.bufs[b].grabbed
  <1>1. DOMAIN cap.bufs = 0 .. cap.n_bufs - 1 /\ cap.bufs \in [DOMAIN cap.bufs -> Buffer]
        /\ cap \in Runtime /\ cap.n_bufs \in Nat
    BY BufCountsAssumption DEF CapInv, Opened, Accountable, Runtime, BufferLists
  <1>2. UNCHANGED <<faulty, signal>>
    BY DEF us_capture_hwbuf_grab
  <1>3. CASE rc \in 0 .. cap.n_bufs - 1 /\ cap' = [cap EXCEPT !.bufs[rc].grabbed = TRUE]
    <2> DEFINE bufs == [cap.bufs EXCEPT ![rc] = [@ EXCEPT !.grabbed = TRUE]]
    <2>1. cap' = [cap EXCEPT !.bufs = bufs]
      BY <1>1, <1>3 DEF Runtime
    <2>2. SameMemory(cap, bufs)
      BY <1>1 DEF SameMemory, Buffer
    <2>3. \A b \in 0 .. cap.n_bufs - 1 : cap.bufs[b].grabbed \/ b = rc => bufs[b].grabbed
      BY <1>1 DEF Buffer
    <2> HIDE DEF bufs
    <2>4. QED
      BY <1>2, <1>3, <2>1, <2>2, <2>3, MarkingKeeps
  <1>4. CASE rc = -7 /\ UNCHANGED cap
    BY <1>1, <1>2, <1>4 DEF CapInv
  <1>5. CASE rc = -1 /\ \E left \in LeftGrabbed :
                cap' = [cap EXCEPT !.bufs = [b \in DOMAIN cap.bufs |->
                           [cap.bufs[b] EXCEPT !.grabbed = @ \/ b \in left]]]
    <2>1. PICK left \in LeftGrabbed :
                cap' = [cap EXCEPT !.bufs = [b \in DOMAIN cap.bufs |->
                           [cap.bufs[b] EXCEPT !.grabbed = @ \/ b \in left]]]
      BY <1>5
    <2> DEFINE bufs == [b \in DOMAIN cap.bufs |->
                           [cap.bufs[b] EXCEPT !.grabbed = cap.bufs[b].grabbed \/ b \in left]]
    <2>2. cap' = [cap EXCEPT !.bufs = bufs]
      BY <2>1, Zenon
    <2>3. SameMemory(cap, bufs)
      BY <1>1 DEF SameMemory, Buffer
    <2>4. \A b \in 0 .. cap.n_bufs - 1 : cap.bufs[b].grabbed => bufs[b].grabbed
      BY <1>1 DEF Buffer
    <2> HIDE DEF bufs
    <2>5. CapInv' /\ cap'.open /\ cap'.n_bufs = cap.n_bufs /\ cap'.bufs = bufs
      BY <1>2, <2>2, <2>3, MarkingKeeps
    <2>6. rc \notin 0 .. cap.n_bufs - 1
      BY <1>1, <1>5
    <2>7. QED
      BY <1>5, <2>4, <2>5, <2>6
  <1>6. QED
    BY <1>3, <1>4, <1>5 DEF us_capture_hwbuf_grab

\* us_capture_hwbuf_release() unmarks one buffer at most.
LEMMA ReleaseKeeps ==
  ASSUME CapInv, cap.open, NEW b \in 0 .. cap.n_bufs - 1, NEW rc,
         us_capture_hwbuf_release(b, rc)
  PROVE  /\ CapInv' /\ cap'.open /\ cap'.n_bufs = cap.n_bufs
         /\ \A x \in (0 .. cap.n_bufs - 1) \ {b} : cap'.bufs[x].grabbed = cap.bufs[x].grabbed
         /\ rc \in {0, -1}
  <1>1. DOMAIN cap.bufs = 0 .. cap.n_bufs - 1 /\ cap.bufs \in [DOMAIN cap.bufs -> Buffer]
        /\ cap \in Runtime /\ cap.n_bufs \in Nat
    BY BufCountsAssumption DEF CapInv, Opened, Accountable, Runtime, BufferLists
  <1>2. UNCHANGED <<faulty, signal>>
    BY DEF us_capture_hwbuf_release
  <1>3. CASE rc = 0 /\ cap' = [cap EXCEPT !.bufs[b].grabbed = FALSE]
    <2> DEFINE bufs == [cap.bufs EXCEPT ![b] = [@ EXCEPT !.grabbed = FALSE]]
    <2>1. cap' = [cap EXCEPT !.bufs = bufs]
      BY <1>1, <1>3 DEF Runtime
    <2>2. SameMemory(cap, bufs)
      BY <1>1 DEF SameMemory, Buffer
    <2>3. \A x \in (0 .. cap.n_bufs - 1) \ {b} : bufs[x] = cap.bufs[x]
      BY <1>1
    <2> HIDE DEF bufs
    <2>4. QED
      BY <1>2, <1>3, <2>1, <2>2, <2>3, MarkingKeeps
  <1>4. CASE rc = -1 /\ UNCHANGED cap
    BY <1>1, <1>2, <1>4 DEF CapInv
  <1>5. QED
    BY <1>3, <1>4 DEF us_capture_hwbuf_release

\* The device is closed when the program starts.
LEMMA CaptureStarts == CaptureInit => CapInv
  <1> SUFFICES ASSUME CaptureInit PROVE CapInv
    OBVIOUS
  <1>1. NoBufs \in BufferLists
    <2>1. NoBufs \in [0 .. 0 - 1 -> Buffer]
      BY DEF NoBufs
    <2>2. QED
      BY <2>1 DEF BufferLists
  <1>2. NoGeometry \in Geometry
    BY DEF NoGeometry, Geometry
  <1>3. /\ cap.io_method \in IoMethods /\ cap.open = FALSE /\ cap.streamon = FALSE
        /\ cap.mplane = FALSE /\ cap.geometry = NoGeometry /\ cap.n_bufs = 0
        /\ cap.bufs = NoBufs /\ cap.os = {Stdin}
        /\ faulty = TRUE /\ signal \in BOOLEAN
    BY DEF CaptureInit
  <1>4. cap \in Runtime
    <2>1. cap \in [io_method : IoMethods, open : BOOLEAN, streamon : BOOLEAN,
                   mplane : BOOLEAN, geometry : {NoGeometry}, n_bufs : {0},
                   bufs : {NoBufs}, os : {{Stdin}}]
      BY DEF CaptureInit
    <2>2. 0 \in 0 .. MaxBufs
      BY BufCountsBounded
    <2>3. QED
      BY <1>1, <1>2, <2>1, <2>2, HoldingTypes DEF Runtime
  <1>5. Released(cap) = {}
    BY <1>3 DEF Released
  <1>6. Accountable(cap)
    BY <1>3, <1>4, <1>5 DEF Accountable
  <1>7. QED
    BY <1>3, <1>6 DEF CapInv

\* The types of the device's record are those of the model.
LEMMA CaptureTypes == CapInv => CaptureTypeOK
  <1> SUFFICES ASSUME CapInv PROVE CaptureTypeOK
    OBVIOUS
  <1>1. cap \in Runtime /\ faulty \in BOOLEAN /\ signal \in BOOLEAN
    BY DEF CapInv, Accountable
  <1>2. PICK n \in BufCounts \cup {0} : cap.bufs \in [0 .. n - 1 -> Buffer]
    BY <1>1 DEF Runtime, BufferLists
  <1>3. DOMAIN cap.bufs \in {0 .. k - 1 : k \in BufCounts \cup {0}}
    BY <1>2
  <1>4. \A i \in DOMAIN cap.bufs : cap.bufs[i] \in Buffer
    BY <1>2
  <1>5. QED
    BY <1>1, <1>3, <1>4 DEF CaptureTypeOK, Runtime, Buffer

\* An account with a closed device: nothing is held.
LEMMA HoldsNothing == CapInv => CaptureHoldsNothing
  BY DEF CapInv, Accountable, CaptureHoldsNothing

\* The source is switched, the faults end.
LEMMA SourceAccounts ==
  CapInv /\ (SourceSwitched \/ FaultsEnd) => CapInv' /\ UNCHANGED cap
  BY DEF CapInv, SourceSwitched, FaultsEnd

\* Steps that leave the capture device alone
LEMMA CapStays == CapInv /\ UNCHANGED captureVars => CapInv'
  BY DEF CapInv, captureVars

-----------------------------------------------------------------------------
(* The display *)

\* The types of the display's record and of the screen
Frames == {"dma", "stub", "console", "none"} \X Nat

DisplayRuntime ==
    [fd : BOOLEAN, status : BOOLEAN, opened : -2 .. 3, has_vsync : BOOLEAN,
     exposing : BOOLEAN, source : {"none", "stub", "dma"}, n_bufs : Nat,
     crtc : {Unsaved, Console, NoFrame},
     dpms : -1 .. 1, blank : {"unset", "armed", "expired"},
     stub_n_buf : 0 .. StubBufs - 1, os : SUBSET {"fd", "status", "crtc", "lost"}]

Screens == [front : Frames, next : Frames, event : BOOLEAN]

\* A display in a possible state
Display(d, s) == d \in DisplayRuntime /\ s \in Screens /\ DisplayInv(d, s)

\* What the calls that show something leave as it is
SameDevice(d, e) ==
    /\ e.fd = d.fd /\ e.opened = d.opened /\ e.crtc = d.crtc
    /\ e.source = d.source /\ e.n_bufs = d.n_bufs
    /\ "crtc" \in e.os => "crtc" \in d.os

\* An outcome of such a call on an open device
Runs(d, s, o) ==
    /\ Display(o.drm, o.screen)
    /\ SameDevice(d, o.drm)
    /\ o.screen.front = s.front
    /\ o.rc \in -2 .. 0

\* The parts of an outcome
LEMMA OutcomeParts ==
  \A rc, d, s : /\ Outcome(rc, d, s).rc = rc
                /\ Outcome(rc, d, s).drm = d
                /\ Outcome(rc, d, s).screen = s
  BY DEF Outcome

\* The status file is no part of what is shown.
LEMMA StatusRuns ==
  ASSUME NEW d, NEW s, Display(d, s), d.fd
  PROVE  \A o \in drm_check_status(d, s) :
            /\ Runs(d, s, o) /\ o.screen = s
            /\ o.drm.has_vsync = d.has_vsync /\ o.drm.exposing = d.exposing
  <1> DEFINE opened == [d EXCEPT !.status = TRUE, !.os = @ \cup {"status"}]
             closed == [d EXCEPT !.status = FALSE, !.os = @ \ {"status"}]
             Same(e) == e \in DisplayRuntime /\ SameDevice(d, e)
                           /\ e.has_vsync = d.has_vsync /\ e.exposing = d.exposing
  <1>1. Same(opened)
    BY DEF Display, DisplayRuntime, SameDevice
  <1>2. Same(closed)
    BY DEF Display, DisplayRuntime, SameDevice
  <1>3. \A o \in drm_check_status(d, s) : \E rc \in {0, -1, -2} :
           o = Outcome(rc, opened, s) \/ o = Outcome(rc, closed, s)
    BY DEF drm_check_status, NO_DEVICE
  <1> HIDE DEF opened, closed
  <1>4. \A e : Same(e) => Display(e, s)
    BY DEF Display, DisplayInv, ShownInv, SameDevice
  <1>5. QED
    BY <1>1, <1>2, <1>3, <1>4, OutcomeParts DEF Runs

\* Nor is the power.
LEMMA PowerRuns ==
  ASSUME NEW d, NEW s, Display(d, s), d.fd, NEW on \in 0 .. 1
  PROVE  LET p == drm_ensure_dpms_power(d, on)
         IN  /\ Display(p, s) /\ SameDevice(d, p)
             /\ p.has_vsync = d.has_vsync /\ p.exposing = d.exposing
  <1> DEFINE p == drm_ensure_dpms_power(d, on)
  <1>1. on \in -1 .. 1
    OBVIOUS
  <1>2. /\ p \in DisplayRuntime /\ SameDevice(d, p)
        /\ p.has_vsync = d.has_vsync /\ p.exposing = d.exposing
    BY <1>1 DEF Display, DisplayRuntime, SameDevice, drm_ensure_dpms_power
  <1> HIDE DEF p
  <1>3. Display(p, s)
    BY <1>2 DEF Display, DisplayInv, ShownInv, SameDevice
  <1>4. QED
    BY <1>2, <1>3 DEF p

\* Nor is the timer.
LEMMA TimerRuns ==
  ASSUME NEW d, NEW s, Display(d, s), d.fd, NEW timer \in {"unset", "armed", "expired"}
  PROVE  LET q == [d EXCEPT !.blank = timer]
         IN  /\ Display(q, s) /\ SameDevice(d, q)
             /\ q.has_vsync = d.has_vsync /\ q.exposing = d.exposing
  <1> DEFINE q == [d EXCEPT !.blank = timer]
  <1>1. /\ q \in DisplayRuntime /\ SameDevice(d, q)
        /\ q.has_vsync = d.has_vsync /\ q.exposing = d.exposing
    BY DEF Display, DisplayRuntime, SameDevice
  <1> HIDE DEF q
  <1>2. Display(q, s)
    BY <1>1 DEF Display, DisplayInv, ShownInv, SameDevice
  <1>3. QED
    BY <1>1, <1>2 DEF q

\* A wait that succeeds has seen the flip: nothing is about to be shown.
LEMMA WaitRuns ==
  ASSUME NEW d, NEW s, Display(d, s), d.fd
  PROVE  \A o \in us_drm_wait_for_vsync(d, s) :
            Runs(d, s, o) /\ o.screen.next = s.next /\ (o.rc = 0 => o.drm.has_vsync)
  <1> DEFINE r == [d EXCEPT !.blank = "unset"]
  <1>1. Display(r, s) /\ SameDevice(d, r) /\ r.fd
    <2>1. Display(r, s) /\ SameDevice(d, r)
      BY TimerRuns
    <2>2. QED
      BY <2>1 DEF SameDevice
  <1> HIDE DEF r
  <1>2. ASSUME NEW o \in us_drm_wait_for_vsync(d, s)
        PROVE  \E c \in drm_check_status(r, s) :
                  LET on == drm_ensure_dpms_power(c.drm, 1)
                  IN  \/ c.rc # 0 /\ o = c
                      \/ on.has_vsync /\ o = Outcome(0, on, c.screen)
                      \/ ~on.has_vsync /\ o \in VsyncArrived(on, c.screen)
                      \/ ~on.has_vsync /\ o = Outcome(-1, on, c.screen)
    BY <1>2 DEF us_drm_wait_for_vsync, IfPlugged, r
  <1>3. SUFFICES ASSUME NEW o \in us_drm_wait_for_vsync(d, s)
                 PROVE  Runs(d, s, o) /\ o.screen.next = s.next /\ (o.rc = 0 => o.drm.has_vsync)
    OBVIOUS
  <1>4. PICK c \in drm_check_status(r, s) :
                  LET on == drm_ensure_dpms_power(c.drm, 1)
                  IN  \/ c.rc # 0 /\ o = c
                      \/ on.has_vsync /\ o = Outcome(0, on, c.screen)
                      \/ ~on.has_vsync /\ o \in VsyncArrived(on, c.screen)
                      \/ ~on.has_vsync /\ o = Outcome(-1, on, c.screen)
    BY <1>2
  <1>5. Display(c.drm, s) /\ SameDevice(d, c.drm) /\ c.screen = s /\ c.rc \in -2 .. 0 /\ c.drm.fd
    <2>1. Runs(r, s, c) /\ c.screen = s
      BY <1>1, StatusRuns
    <2>2. QED
      BY <1>1, <2>1 DEF Runs, SameDevice
  <1> DEFINE on == drm_ensure_dpms_power(c.drm, 1)
  <1>6. Display(on, s) /\ SameDevice(d, on)
    <2>1. Display(on, s) /\ SameDevice(c.drm, on)
      BY <1>5, PowerRuns
    <2>2. QED
      BY <1>5, <2>1 DEF SameDevice
  <1>7. CASE c.rc # 0 /\ o = c
    BY <1>5, <1>7 DEF Runs
  <1> HIDE DEF on
  <1>8. CASE on.has_vsync /\ o = Outcome(0, on, s)
    BY <1>6, <1>8, OutcomeParts DEF Runs
  <1>9. CASE ~on.has_vsync /\ o \in VsyncArrived(on, s)
    <2> DEFINE e == [on EXCEPT !.has_vsync = TRUE, !.exposing = FALSE]
               t == [s EXCEPT !.event = FALSE]
    <2>1. s.event /\ o = Outcome(0, e, t)
      BY <1>9 DEF VsyncArrived
    <2>2. e \in DisplayRuntime /\ SameDevice(d, e) /\ e.has_vsync /\ ~e.exposing
      BY <1>6 DEF Display, DisplayRuntime, SameDevice
    <2>3. t \in Screens /\ t.next = s.next /\ t.event = FALSE /\ t.front = s.front
      BY <1>6 DEF Display, Screens
    <2> HIDE DEF e, t
    <2>4. DisplayInv(e, t)
      BY <1>5, <1>6, <2>1, <2>2, <2>3 DEF Display, DisplayInv, ShownInv, SameDevice
    <2>5. QED
      BY <2>1, <2>2, <2>3, <2>4, OutcomeParts DEF Runs, Display
  <1>10. CASE ~on.has_vsync /\ o = Outcome(-1, on, s)
    BY <1>6, <1>10, OutcomeParts DEF Runs
  <1>11. QED
    BY <1>4, <1>5, <1>7, <1>8, <1>9, <1>10 DEF on

\* A flip that is asked for after the last one is over
LEMMA FlipRuns ==
  ASSUME NEW d, NEW s, Display(d, s), d.fd, d.has_vsync,
         NEW e \in DisplayRuntime, SameDevice(d, e), ~e.has_vsync,
         NEW f \in Frames, f[1] = "dma" => d.source = "dma"
  PROVE  \A o \in drmModePageFlip(e, s, f) :
            Runs(d, s, o) /\ o.screen.next \in {s.next, f}
  <1> DEFINE t == [s EXCEPT !.next = f]
  <1>1. s.next = NoFrame /\ ~s.event
    BY DEF Display, DisplayInv
  <1>2. t \in Screens /\ t.next = f /\ t.event = s.event /\ t.front = s.front
    BY DEF Display, Screens
  <1> HIDE DEF t
  <1>3. Display(e, s)
    BY DEF Display, DisplayInv, ShownInv, SameDevice
  <1>4. Display(e, t)
    BY <1>1, <1>2, <1>3 DEF Display, DisplayInv, SameDevice
  <1>5. \A o \in drmModePageFlip(e, s, f) : o = Outcome(0, e, t) \/ o = Outcome(-1, e, s)
    BY DEF drmModePageFlip, t
  <1>6. QED
    BY <1>2, <1>3, <1>4, <1>5, OutcomeParts DEF Runs

\* us_drm_expose_stub() never shows a captured buffer.
LEMMA ExposeStubRuns ==
  ASSUME NEW d, NEW s, Display(d, s), d.fd, d.has_vsync, d.opened > 0
  PROVE  \A o \in us_drm_expose_stub(d, s) : Runs(d, s, o)
  <1> DEFINE r == [d EXCEPT !.blank = "unset"]
             flipped(c) == [drm_ensure_dpms_power(c, 1)
                               EXCEPT !.has_vsync = FALSE,
                                      !.stub_n_buf = (@ + 1) % c.n_bufs]
  <1>1. Display(r, s) /\ SameDevice(d, r) /\ r.fd /\ r.has_vsync
    <2>1. Display(r, s) /\ SameDevice(d, r) /\ r.has_vsync = d.has_vsync
      BY TimerRuns
    <2>2. QED
      BY <2>1 DEF SameDevice
  <1>2. \A o \in us_drm_expose_stub(d, s) : \E c \in drm_check_status(r, s) :
           \/ c.rc # 0 /\ o = c
           \/ o \in drmModePageFlip(flipped(c.drm), c.screen, Frame("stub", c.drm.stub_n_buf))
    BY DEF us_drm_expose_stub, IfPlugged
  <1> HIDE DEF r
  <1> SUFFICES ASSUME NEW c \in drm_check_status(r, s)
               PROVE  /\ Runs(d, s, c)
                      /\ \A o \in drmModePageFlip(flipped(c.drm), c.screen,
                                                  Frame("stub", c.drm.stub_n_buf)) :
                            Runs(d, s, o)
    BY <1>2
  <1>3. Runs(r, s, c) /\ c.screen = s /\ c.drm.has_vsync
    BY <1>1, StatusRuns
  <1>4. Runs(d, s, c) /\ Display(c.drm, s) /\ SameDevice(d, c.drm) /\ c.drm.fd
    BY <1>1, <1>3 DEF Runs, SameDevice
  <1> DEFINE on == drm_ensure_dpms_power(c.drm, 1)
             e == [on EXCEPT !.has_vsync = FALSE, !.stub_n_buf = (@ + 1) % c.drm.n_bufs]
  <1>5. Display(on, s) /\ SameDevice(c.drm, on)
    BY <1>4, PowerRuns
  <1> HIDE DEF on
  <1>6. c.drm.n_bufs = StubBufs
    BY <1>4 DEF SameDevice, Display, DisplayInv, ShownInv, DisplayRuntime
  <1>7. (on.stub_n_buf + 1) % c.drm.n_bufs \in 0 .. StubBufs - 1
    BY <1>5, <1>6 DEF StubBufs, Display, DisplayRuntime
  <1>8. e \in DisplayRuntime /\ SameDevice(c.drm, e) /\ ~e.has_vsync
    BY <1>5, <1>7 DEF Display, DisplayRuntime, SameDevice
  <1> HIDE DEF e
  <1>9. Frame("stub", c.drm.stub_n_buf) \in Frames /\ Frame("stub", c.drm.stub_n_buf)[1] # "dma"
    BY <1>4 DEF Display, DisplayRuntime, StubBufs, Frame, Frames
  <1>10. \A o \in drmModePageFlip(e, s, Frame("stub", c.drm.stub_n_buf)) : Runs(c.drm, s, o)
    BY <1>3, <1>4, <1>8, <1>9, FlipRuns
  <1>11. \A o : Runs(c.drm, s, o) => Runs(d, s, o)
    BY <1>4 DEF Runs, SameDevice
  <1>12. QED
    BY <1>3, <1>4, <1>10, <1>11 DEF on, e

\* us_drm_expose_dma() shows the buffer, or leaves the screen as it was.
LEMMA ExposeDmaRuns ==
  ASSUME NEW d, NEW s, Display(d, s), d.fd, d.has_vsync, d.source = "dma", NEW b \in Nat
  PROVE  \A o \in us_drm_expose_dma(d, s, b) :
            Runs(d, s, o) /\ o.screen.next \in {s.next, Frame("dma", b)}
  <1> DEFINE r == [d EXCEPT !.blank = "unset"]
             flipped(c) == [drm_ensure_dpms_power(c, 1)
                               EXCEPT !.has_vsync = FALSE, !.exposing = TRUE]
  <1>1. Display(r, s) /\ SameDevice(d, r) /\ r.fd /\ r.has_vsync
    <2>1. Display(r, s) /\ SameDevice(d, r) /\ r.has_vsync = d.has_vsync
      BY TimerRuns
    <2>2. QED
      BY <2>1 DEF SameDevice
  <1>2. \A o \in us_drm_expose_dma(d, s, b) : \E c \in drm_check_status(r, s) :
           \/ c.rc # 0 /\ o = c
           \/ o \in drmModePageFlip(flipped(c.drm), c.screen, Frame("dma", b))
    BY DEF us_drm_expose_dma, IfPlugged
  <1> HIDE DEF r
  <1> SUFFICES ASSUME NEW c \in drm_check_status(r, s)
               PROVE  /\ Runs(d, s, c) /\ c.screen.next = s.next
                      /\ \A o \in drmModePageFlip(flipped(c.drm), c.screen, Frame("dma", b)) :
                            Runs(d, s, o) /\ o.screen.next \in {s.next, Frame("dma", b)}
    BY <1>2
  <1>3. Runs(r, s, c) /\ c.screen = s /\ c.drm.has_vsync
    BY <1>1, StatusRuns
  <1>4. Runs(d, s, c) /\ Display(c.drm, s) /\ SameDevice(d, c.drm) /\ c.drm.fd
        /\ c.drm.source = "dma"
    BY <1>1, <1>3 DEF Runs, SameDevice
  <1> DEFINE on == drm_ensure_dpms_power(c.drm, 1)
             e == [on EXCEPT !.has_vsync = FALSE, !.exposing = TRUE]
  <1>5. Display(on, s) /\ SameDevice(c.drm, on)
    BY <1>4, PowerRuns
  <1> HIDE DEF on
  <1>6. e \in DisplayRuntime /\ SameDevice(c.drm, e) /\ ~e.has_vsync
    BY <1>5 DEF Display, DisplayRuntime, SameDevice
  <1> HIDE DEF e
  <1>7. Frame("dma", b) \in Frames
    BY DEF Frame, Frames
  <1>8. \A o \in drmModePageFlip(e, s, Frame("dma", b)) :
           Runs(c.drm, s, o) /\ o.screen.next \in {s.next, Frame("dma", b)}
    BY <1>3, <1>4, <1>6, <1>7, FlipRuns
  <1>9. \A o : Runs(c.drm, s, o) => Runs(d, s, o)
    BY <1>4 DEF Runs, SameDevice
  <1>10. QED
    BY <1>3, <1>4, <1>8, <1>9 DEF on, e

\* us_drm_dpms_power_off()
LEMMA PowerOffRuns ==
  ASSUME NEW d, NEW s, Display(d, s), d.fd
  PROVE  \A o \in us_drm_dpms_power_off(d, s) : Runs(d, s, o)
  <1> SUFFICES ASSUME NEW c \in drm_check_status(d, s)
               PROVE  Runs(d, s, Outcome(IF c.rc = NO_DEVICE THEN 0 ELSE c.rc,
                                         IF c.rc = 0 THEN drm_ensure_dpms_power(c.drm, 0)
                                                     ELSE c.drm,
                                         c.screen))
    BY DEF us_drm_dpms_power_off
  <1> DEFINE on == drm_ensure_dpms_power(c.drm, 0)
  <1>1. Runs(d, s, c) /\ c.screen = s
    BY StatusRuns
  <1>2. Display(c.drm, s) /\ SameDevice(d, c.drm) /\ c.drm.fd /\ c.rc \in -2 .. 0
    BY <1>1 DEF Runs, SameDevice
  <1>3. Display(on, s) /\ SameDevice(c.drm, on)
    BY <1>2, PowerRuns
  <1> HIDE DEF on
  <1>4. SameDevice(d, on)
    BY <1>2, <1>3 DEF SameDevice
  <1>5. \A k \in -2 .. 0 : Runs(d, s, Outcome(k, on, s)) /\ Runs(d, s, Outcome(k, c.drm, s))
    BY <1>2, <1>3, <1>4, OutcomeParts DEF Runs
  <1>6. (IF c.rc = NO_DEVICE THEN 0 ELSE c.rc) \in -2 .. 0
    BY <1>2
  <1>7. QED
    BY <1>1, <1>5, <1>6 DEF on

\* The message, and after a while the power
LEMMA NoSignalRuns ==
  ASSUME NEW d, NEW s, Display(d, s), d.fd, d.opened > 0
  PROVE  \A o \in us_drm_ensure_no_signal(d, s) : Runs(d, s, o)
  <1> DEFINE timer == IF d.blank = "unset" THEN "armed" ELSE d.blank
             said == UNION {IF o.rc = 0 THEN us_drm_expose_stub(o.drm, o.screen) ELSE {o} :
                               o \in us_drm_wait_for_vsync(d, s)}
  <1>1. timer \in {"unset", "armed", "expired"}
    BY DEF Display, DisplayRuntime
  <1>2. \A o \in said : Runs(d, s, o)
    <2>1. ASSUME NEW c \in us_drm_wait_for_vsync(d, s)
          PROVE  /\ Runs(d, s, c)
                 /\ c.rc = 0 => \A o \in us_drm_expose_stub(c.drm, c.screen) : Runs(d, s, o)
      <3>1. Runs(d, s, c) /\ (c.rc = 0 => c.drm.has_vsync) /\ c.screen.front = s.front
        BY WaitRuns DEF Runs
      <3>2. Display(c.drm, c.screen) /\ SameDevice(d, c.drm) /\ c.drm.fd /\ c.drm.opened > 0
        BY <3>1 DEF Runs, SameDevice
      <3>3. c.rc = 0 => \A o \in us_drm_expose_stub(c.drm, c.screen) : Runs(c.drm, c.screen, o)
        BY <3>1, <3>2, ExposeStubRuns
      <3>4. \A o : Runs(c.drm, c.screen, o) => Runs(d, s, o)
        BY <3>1, <3>2 DEF Runs, SameDevice
      <3>5. QED
        BY <3>1, <3>3, <3>4
    <2>2. QED
      BY <2>1
  <1> HIDE DEF said
  <1>3. \A o \in us_drm_dpms_power_off(d, s) : Runs(d, s, o)
    BY PowerOffRuns
  <1> DEFINE outcomes == IF timer = "armed" THEN said ELSE us_drm_dpms_power_off(d, s)
  <1>4. us_drm_ensure_no_signal(d, s) = WithTimer(outcomes, timer)
    BY DEF us_drm_ensure_no_signal, said
  <1>5. \A o \in outcomes : Runs(d, s, o)
    BY <1>2, <1>3
  <1> HIDE DEF outcomes, timer
  <1>6. ASSUME NEW o \in outcomes
        PROVE  Runs(d, s, Outcome(o.rc, [o.drm EXCEPT !.blank = timer], o.screen))
    <2> DEFINE e == [o.drm EXCEPT !.blank = timer]
    <2>1. /\ Display(o.drm, o.screen) /\ SameDevice(d, o.drm) /\ o.rc \in -2 .. 0
          /\ o.drm.fd /\ o.screen.front = s.front
      BY <1>5 DEF Runs, SameDevice
    <2>2. Display(e, o.screen) /\ SameDevice(o.drm, e)
      BY <1>1, <2>1, TimerRuns
    <2> HIDE DEF e
    <2>3. SameDevice(d, e)
      BY <2>1, <2>2 DEF SameDevice
    <2>4. Runs(d, s, Outcome(o.rc, e, o.screen))
      BY <2>1, <2>2, <2>3, OutcomeParts DEF Runs
    <2>5. QED
      BY <2>4 DEF e
  <1>7. QED
    BY <1>4, <1>6 DEF WithTimer

\* What the display's record holds can be given up.
Closable(e) == e \in DisplayRuntime /\ (e.crtc = Unsaved => "crtc" \notin e.os)

\* What may be left on the screen when the display is closed
LEMMA ShutScreensLeft ==
  ASSUME NEW d \in DisplayRuntime, NEW s, NEW t \in ShutScreens(d, s)
  PROVE  Left(t) /\ t \in Screens
  <1> DEFINE fronts == {WithoutBuffers(s)} \cup (IF d.crtc # Unsaved THEN {d.crtc} ELSE {})
  <1>1. d.crtc # Unsaved => d.crtc \in {Console, NoFrame}
    BY DEF DisplayRuntime
  <1>2. fronts \subseteq {Console, NoFrame}
    BY <1>1 DEF WithoutBuffers
  <1> HIDE DEF fronts
  <1>3. t \in [front : fronts, next : {NoFrame}, event : {FALSE}]
    BY DEF ShutScreens, fronts
  <1>4. Left(t)
    BY <1>2, <1>3 DEF Left
  <1>5. Console \in Frames /\ NoFrame \in Frames
    BY DEF Frames, Console, NoFrame, Frame
  <1>6. t \in Screens
    BY <1>2, <1>3, <1>5 DEF Screens
  <1>7. QED
    BY <1>4, <1>6

\* A display that is closed, whatever the state it was left in
LEMMA ShutIsClosed ==
  ASSUME NEW d, Closable(d), NEW s
  PROVE  LET e == Shut(d)
         IN  /\ e \in DisplayRuntime /\ ~e.fd /\ e.n_bufs = 0
             /\ \A t \in ShutScreens(d, s) : ClosedInv(e, t) /\ t \in Screens
  <1> DEFINE os == d.os \ ({"fd", "status"} \cup (IF d.crtc # Unsaved THEN {"crtc"} ELSE {}))
             e == [d EXCEPT !.fd = FALSE, !.status = FALSE, !.exposing = FALSE,
                            !.crtc = Unsaved, !.source = "none", !.n_bufs = 0,
                            !.stub_n_buf = 0, !.dpms = -1, !.opened = -1,
                            !.has_vsync = TRUE, !.os = os]
  <1>1. e = Shut(d)
    BY DEF Shut
  <1>2. os \subseteq {"lost"} /\ os \in SUBSET {"fd", "status", "crtc", "lost"}
    BY DEF DisplayRuntime, Closable
  <1> HIDE DEF os
  <1>3. /\ e \in DisplayRuntime /\ e.fd = FALSE /\ e.n_bufs = 0 /\ e.opened = -1
        /\ e.crtc = Unsaved /\ e.has_vsync = TRUE /\ e.exposing = FALSE /\ e.source = "none"
        /\ e.os = os
    <2>1. 0 \in 0 .. StubBufs - 1 /\ -1 \in -2 .. 3 /\ -1 \in -1 .. 1 /\ 0 \in Nat
      BY DEF StubBufs
    <2>2. d \in DisplayRuntime
      BY DEF Closable
    <2>3. e.fd = FALSE /\ e.n_bufs = 0 /\ e.opened = -1 /\ e.crtc = Unsaved
      BY <2>2 DEF DisplayRuntime
    <2>4. e.has_vsync = TRUE /\ e.exposing = FALSE /\ e.source = "none" /\ e.os = os
      BY <2>2 DEF DisplayRuntime
    <2> DEFINE f == [d EXCEPT !.fd = FALSE, !.status = FALSE, !.exposing = FALSE,
                              !.crtc = Unsaved, !.source = "none", !.n_bufs = 0]
    <2>5. f \in DisplayRuntime
      BY <2>1, <2>2 DEF DisplayRuntime
    <2>6. e = [f EXCEPT !.stub_n_buf = 0, !.dpms = -1, !.opened = -1, !.has_vsync = TRUE,
                        !.os = os]
      OBVIOUS
    <2> HIDE DEF f
    <2>7. [f EXCEPT !.stub_n_buf = 0, !.dpms = -1, !.opened = -1, !.has_vsync = TRUE,
                    !.os = os] \in DisplayRuntime
      BY <2>1, <2>5, <1>2 DEF DisplayRuntime
    <2>8. QED
      BY <2>3, <2>4, <2>6, <2>7
  <1> HIDE DEF e
  <1>4. ASSUME NEW t \in ShutScreens(d, s) PROVE ClosedInv(e, t) /\ t \in Screens
    <2>1. Left(t) /\ t \in Screens
      BY ShutScreensLeft DEF Closable
    <2>2. QED
      BY <1>2, <1>3, <2>1 DEF ClosedInv
  <1>5. QED
    BY <1>1, <1>3, <1>4

\* us_drm_close()
LEMMA CloseIsClosed ==
  ASSUME NEW d, NEW s, Display(d, s)
  PROVE  \A o \in us_drm_close(d, s) :
            /\ Display(o.drm, o.screen) /\ ~o.drm.fd
            /\ o.screen.next = NoFrame /\ o.rc = 0
  <1>1. Closable(d)
    BY DEF Display, DisplayInv, ClosedInv, ShownInv, DisplayRuntime, Closable
  <1>2. /\ Shut(d) \in DisplayRuntime /\ ~Shut(d).fd
        /\ \A t \in ShutScreens(d, s) : ClosedInv(Shut(d), t) /\ t \in Screens
    BY <1>1, ShutIsClosed
  <1>3. NoFrame[1] # "dma" /\ Console[1] # "dma"
    BY DEF NoFrame, Console, Frame
  <1>4. \A t \in ShutScreens(d, s) : Display(Shut(d), t) /\ t.next = NoFrame
    BY <1>2, <1>3 DEF Display, DisplayInv, ClosedInv, Left
  <1>5. QED
    BY <1>2, <1>4, OutcomeParts DEF us_drm_close

\* What us_drm_open() leaves
Opens(live, o) ==
    /\ Display(o.drm, o.screen) /\ o.screen.next = NoFrame
    /\ o.screen.front[1] = "dma" => o.screen.front[2] = 0
    /\ o.rc \in -2 .. 3 /\ o.drm.opened = o.rc
    /\ o.drm.fd <=> o.rc >= 0
    /\ o.drm.source = "dma" => o.drm.n_bufs = cap.n_bufs
    /\ o.rc = 0 => live

\* Giving up closes the display.
LEMMA GiveUpOpens ==
  ASSUME NEW e, NEW s, Closable(e), NEW rc \in {-1, -2}, NEW live,
         NEW t \in ShutScreens(e, s)
  PROVE  Opens(live, Outcome(rc, [Shut(e) EXCEPT !.opened = rc], t))
  <1> DEFINE f == Shut(e)
             g == [f EXCEPT !.opened = rc]
  <1>1. f \in DisplayRuntime /\ ~f.fd /\ ClosedInv(f, t) /\ t \in Screens
    BY ShutIsClosed
  <1> HIDE DEF f
  <1>2. /\ g \in DisplayRuntime /\ g.opened = rc /\ g.fd = f.fd /\ g.crtc = f.crtc
        /\ g.has_vsync = f.has_vsync /\ g.exposing = f.exposing /\ g.source = f.source
        /\ g.os = f.os
    BY <1>1 DEF DisplayRuntime
  <1> HIDE DEF g
  <1>3. ClosedInv(g, t)
    BY <1>1, <1>2 DEF ClosedInv
  <1>4. t.next = NoFrame /\ t.event = FALSE /\ t.next[1] # "dma" /\ t.front[1] # "dma"
    BY <1>3 DEF ClosedInv, Left, Console, NoFrame, Frame
  <1>5. DisplayInv(g, t)
    BY <1>1, <1>2, <1>3, <1>4 DEF DisplayInv
  <1>6. g.source = "none"
    BY <1>3 DEF ClosedInv
  <1>7. Opens(live, Outcome(rc, g, t))
    BY <1>1, <1>2, <1>4, <1>5, <1>6, OutcomeParts DEF Opens, Display
  <1>8. QED
    BY <1>7 DEF f, g

\* us_drm_open(): opened for live video or a stub, or closed again
LEMMA DrmOpens ==
  ASSUME CapInv, NEW d, NEW s, Display(d, s), ~d.fd, NEW live \in BOOLEAN
  PROVE  \A o \in us_drm_open(d, s, live) : Opens(live, o)
  <1> DEFINE device == [d EXCEPT !.status = TRUE, !.fd = TRUE, !.os = @ \cup {"status", "fd"}]
             with(stub) == drm_init_buffers(device, stub)
             ready(stub) == WithSaved(with(stub), s)
             stubs == {StubFor(live, m) : m \in drm_find_sink(live)}
  <1>1. /\ d \in DisplayRuntime /\ s \in Screens /\ s.next = NoFrame /\ s.event = FALSE
        /\ d.crtc = Unsaved /\ d.has_vsync /\ "crtc" \notin d.os /\ s.front \in {Console, NoFrame}
    BY DEF Display, DisplayInv, ClosedInv, Left, DisplayRuntime
  <1>2. /\ device \in DisplayRuntime /\ device.fd = TRUE /\ device.crtc = Unsaved
        /\ device.has_vsync /\ "crtc" \notin device.os
    BY <1>1 DEF DisplayRuntime
  <1> HIDE DEF device
  <1>3. cap.n_bufs \in Nat
    BY BufCountsBounded DEF CapInv, Accountable, Runtime
  <1>4. \A k \in stubs : k \in 0 .. 3 /\ (k = 0 => live)
    BY DEF StubFor, STUB_USER, STUB_BAD_FORMAT, STUB_BAD_RESOLUTION
  <1> HIDE DEF stubs
  <1>5. ASSUME NEW stub \in stubs
        PROVE  /\ with(stub) \in DisplayRuntime /\ with(stub).fd = TRUE /\ with(stub).has_vsync
               /\ with(stub).crtc = Unsaved /\ "crtc" \notin with(stub).os
               /\ with(stub).source = IF stub > 0 THEN "stub" ELSE "dma"
               /\ with(stub).n_bufs = IF stub > 0 THEN StubBufs ELSE cap.n_bufs
    <2>1. /\ (IF stub > 0 THEN StubBufs ELSE cap.n_bufs) \in Nat
          /\ (IF stub > 0 THEN "stub" ELSE "dma") \in {"none", "stub", "dma"}
      BY <1>3 DEF StubBufs
    <2>2. QED
      BY <1>2, <2>1 DEF drm_init_buffers, DisplayRuntime
  <1> HIDE DEF with
  <1>6. ASSUME NEW stub \in stubs, NEW e \in ready(stub)
        PROVE  /\ Closable(e) /\ e.fd = TRUE /\ e.has_vsync
               /\ e.source = with(stub).source /\ e.n_bufs = with(stub).n_bufs
    <2> DEFINE w == with(stub)
    <2>1. w \in DisplayRuntime /\ w.fd = TRUE /\ w.has_vsync
          /\ w.crtc = Unsaved /\ "crtc" \notin w.os
      BY <1>5
    <2>2. e = w \/ e = [w EXCEPT !.crtc = s.front, !.os = @ \cup {"crtc"}]
      BY <1>6 DEF WithSaved
    <2>3. Console # Unsaved /\ NoFrame # Unsaved
      BY DEF Console, NoFrame, Unsaved, Frame
    <2> HIDE DEF w
    <2>4. /\ Closable(e) /\ e.fd = TRUE /\ e.has_vsync
          /\ e.source = w.source /\ e.n_bufs = w.n_bufs
      <3>1. CASE e = w
        BY <2>1, <3>1 DEF Closable
      <3>2. CASE e = [w EXCEPT !.crtc = s.front, !.os = @ \cup {"crtc"}]
        BY <1>1, <2>1, <2>3, <3>2 DEF Closable, DisplayRuntime
      <3>3. QED
        BY <2>2, <3>1, <3>2
    <2>5. QED
      BY <2>4 DEF w
  <1> HIDE DEF ready
  <1>7. ASSUME NEW stub \in stubs, NEW e \in ready(stub)
        PROVE  Opens(live, FirstShown(stub, e, s))
    <2> DEFINE x == [e EXCEPT !.opened = stub, !.exposing = FALSE, !.blank = "unset"]
               t == [s EXCEPT !.front = Frame(e.source, 0)]
    <2>1. stub \in 0 .. 3 /\ stub \in -2 .. 3
      BY <1>4
    <2>2. e \in DisplayRuntime /\ e.fd = TRUE
      BY <1>6 DEF Closable
    <2>3. /\ x \in DisplayRuntime /\ x.opened = stub /\ x.fd = TRUE /\ x.crtc = e.crtc
          /\ x.source = e.source /\ x.n_bufs = e.n_bufs /\ x.os = e.os
      BY <2>1, <2>2 DEF DisplayRuntime
    <2>4. e.source \in {"stub", "dma"}
      BY <1>5, <1>6
    <2>5. /\ Frame(e.source, 0) \in Frames
          /\ Frame(e.source, 0)[1] = e.source /\ Frame(e.source, 0)[2] = 0
      BY <2>4 DEF Frame, Frames
    <2>6. /\ t \in Screens /\ t.next = NoFrame /\ t.event = FALSE
          /\ t.front[1] = e.source /\ t.front[2] = 0
      BY <1>1, <2>5 DEF Screens
    <2> HIDE DEF x, t
    <2>7. NoFrame[1] # "dma"
      BY DEF NoFrame, Frame
    <2>8. /\ stub = 0 => x.source = "dma" /\ x.n_bufs = cap.n_bufs
          /\ stub > 0 => x.source = "stub" /\ x.n_bufs = StubBufs
      <3> DEFINE w == with(stub)
      <3>1. w.source = (IF stub > 0 THEN "stub" ELSE "dma")
            /\ w.n_bufs = IF stub > 0 THEN StubBufs ELSE cap.n_bufs
        BY <1>5
      <3>2. x.source = w.source /\ x.n_bufs = w.n_bufs
        BY <1>6, <2>3
      <3> HIDE DEF w
      <3>3. QED
        BY <2>1, <3>1, <3>2
    <2>9. x.crtc = Unsaved => "crtc" \notin x.os
      BY <1>6, <2>3 DEF Closable
    <2>10. DisplayInv(x, t)
      BY <2>1, <2>3, <2>6, <2>7, <2>8, <2>9 DEF DisplayInv, ShownInv
    <2>11. Display(x, t)
      BY <2>3, <2>6, <2>10 DEF Display
    <2>12. x.source = "dma" => x.n_bufs = cap.n_bufs
      BY <2>1, <2>8
    <2>13. stub = 0 => live
      BY <1>4
    <2>14. Opens(live, Outcome(stub, x, t))
      BY <2>1, <2>3, <2>6, <2>11, <2>12, <2>13, OutcomeParts DEF Opens
    <2>15. QED
      BY <2>14 DEF x, t, FirstShown
  <1>8. Closable(d) /\ Closable(device)
        /\ \A stub \in stubs : \A e \in ready(stub) : Closable(e)
    BY <1>1, <1>2, <1>6 DEF Closable
  <1>9. ASSUME NEW stub \in stubs, NEW e \in drm_init_buffers_fails(device, stub)
        PROVE  Closable(e)
    <2> DEFINE n == IF stub > 0 THEN StubBufs ELSE cap.n_bufs
               after == IF stub > 0 THEN {device.os, device.os \cup {"lost"}} ELSE {device.os}
    <2>1. n \in Nat /\ after \subseteq {device.os, device.os \cup {"lost"}}
      BY <1>3 DEF StubBufs
    <2>2. \E i \in 0 .. n - 1, os \in after : e = WithBuffers(device, i, os)
      BY <1>9 DEF drm_init_buffers_fails
    <2> HIDE DEF n, after
    <2>3. ASSUME NEW i \in Nat, NEW os \in {device.os, device.os \cup {"lost"}}
          PROVE  Closable(WithBuffers(device, i, os))
      BY <1>1, <1>2 DEF WithBuffers, Closable, DisplayRuntime
    <2>4. PICK i \in 0 .. n - 1, os \in after : e = WithBuffers(device, i, os)
      BY <2>2
    <2>5. i \in Nat /\ os \in {device.os, device.os \cup {"lost"}}
      BY <2>1
    <2>6. QED
      BY <2>3, <2>4, <2>5
  <1>10. ASSUME NEW e, Closable(e), NEW rc \in {-1, -2}
         PROVE  \A o \in GiveUp(rc, e, s) : Opens(live, o)
    <2>1. ASSUME NEW o \in GiveUp(rc, e, s)
          PROVE  \E t \in ShutScreens(e, s) :
                    o = Outcome(rc, [Shut(e) EXCEPT !.opened = rc], t)
      <3>1. PICK c \in us_drm_close(e, s) :
                    o = Outcome(rc, [c.drm EXCEPT !.opened = rc], c.screen)
        BY <2>1 DEF GiveUp
      <3>2. PICK t \in ShutScreens(e, s) : c = Outcome(0, Shut(e), t)
        BY DEF us_drm_close
      <3>3. c.drm = Shut(e) /\ c.screen = t
        BY <3>2, OutcomeParts
      <3>4. QED
        BY <3>1, <3>3
    <2>2. \A t \in ShutScreens(e, s) :
             Opens(live, Outcome(rc, [Shut(e) EXCEPT !.opened = rc], t))
      BY <1>10, GiveUpOpens
    <2>3. QED
      BY <2>1, <2>2
  <1>11. ASSUME NEW o \in us_drm_open(d, s, live)
         PROVE  \/ o \in GiveUp(NO_DEVICE, device, s)
                \/ o \in GiveUp(-1, d, s) \/ o \in GiveUp(-1, device, s)
                \/ \E stub \in stubs :
                      \/ \E e \in ready(stub) : \/ o = FirstShown(stub, e, s)
                                                \/ o \in GiveUp(-1, e, s)
                      \/ \E e \in drm_init_buffers_fails(device, stub) : o \in GiveUp(-1, e, s)
    <2> DEFINE failed == {d, device}
                            \cup UNION {ready(stub) \cup drm_init_buffers_fails(device, stub) :
                                           stub \in stubs}
    <2>1. us_drm_open(d, s, live) =
             IF ~plugged \/ drm_find_sink(live) = {}
             THEN GiveUp(NO_DEVICE, device, s)
             ELSE (UNION {IF CanImport(stub) THEN {FirstShown(stub, e, s) : e \in ready(stub)}
                                             ELSE GiveUp(-1, device, s) : stub \in stubs})
                  \cup (IF faulty THEN UNION {GiveUp(-1, e, s) : e \in failed} ELSE {})
      BY DEF us_drm_open, stubs, device, with, ready
    <2>2. \A e \in failed : \/ e = d \/ e = device
                            \/ \E stub \in stubs : \/ e \in ready(stub)
                                                   \/ e \in drm_init_buffers_fails(device, stub)
      OBVIOUS
    <2> HIDE DEF failed
    <2>3. \/ o \in GiveUp(NO_DEVICE, device, s)
          \/ \E stub \in stubs : \/ \E e \in ready(stub) : o = FirstShown(stub, e, s)
                                 \/ o \in GiveUp(-1, device, s)
          \/ \E e \in failed : o \in GiveUp(-1, e, s)
      BY <1>11, <2>1
    <2>4. QED
      BY <2>2, <2>3
  <1>12. NO_DEVICE = -2
    BY DEF NO_DEVICE
  <1>13. QED
    BY <1>7, <1>8, <1>9, <1>10, <1>11, <1>12

-----------------------------------------------------------------------------
(* The program *)

\* The types of the main thread's variables
MainTypes ==
    /\ vpc \in {"top", "stub", "busy", "busy_expose", "capture", "no_signal",
                "reopen", "live", "release", "grab", "expose", "give_back",
                "close", "closed", "done"}
    /\ prev_hw \in -1 .. MaxBufs - 1 /\ hw \in -1 .. MaxBufs - 1
    /\ online \in BOOLEAN /\ stop \in BOOLEAN /\ plugged \in BOOLEAN

IInv == CapInv /\ Display(drm, screen) /\ MainTypes /\ ShownNow /\ ControlInv

\* The program starts with both devices closed.
LEMMA InitSafe == Init => IInv
  <1> SUFFICES ASSUME Init PROVE IInv
    OBVIOUS
  <1>1. CapInv
    BY CaptureStarts DEF Init
  <1>2. Display(drm, screen)
    <2>1. Console[1] = "console" /\ NoFrame[1] = "none" /\ Console \in Frames /\ NoFrame \in Frames
      BY DEF Console, NoFrame, Frame, Frames
    <2>2. drm \in DisplayRuntime
      BY DEF Init, DrmInit, DisplayRuntime, StubBufs
    <2>3. screen \in Screens
      BY <2>1 DEF Init, DrmInit, Screens
    <2>4. DisplayInv(drm, screen)
      BY <2>1 DEF Init, DrmInit, DisplayInv, ClosedInv, Left
    <2>5. QED
      BY <2>2, <2>3, <2>4 DEF Display
  <1>3. MainTypes
    <2>1. -1 \in -1 .. MaxBufs - 1
      BY BufCountsBounded
    <2>2. QED
      BY <2>1 DEF Init, DrmInit, MainTypes
  <1>4. ShownNow
    BY DEF Init, DrmInit, ShownNow, Console, NoFrame, Frame
  <1>5. ControlInv
    <2>1. cap.open = FALSE /\ drm.opened = -1 /\ drm.fd = FALSE /\ vpc = "top" /\ prev_hw = -1
      BY DEF Init, CaptureInit, DrmInit
    <2>2. QED
      BY <2>1 DEF ControlInv
  <1>6. QED
    BY <1>1, <1>2, <1>3, <1>4, <1>5 DEF IInv

\* run->opened says which of the two the display is opened for.
LEMMA OpenedAgrees ==
  \A d, s : Display(d, s) =>
     /\ d.opened \in -2 .. 3 /\ d.fd \in BOOLEAN
     /\ d.fd => d.opened >= 0
     /\ ~d.fd => d.opened < 0 /\ d.source = "none"
     /\ d.opened > 0 => d.fd /\ d.source = "stub"
     /\ d.opened = 0 => d.fd /\ d.source = "dma"
     /\ d.has_vsync => s.next = NoFrame
     /\ s.front[1] = "dma" => d.source = "dma"
  BY DEF Display, DisplayInv, ClosedInv, ShownInv, DisplayRuntime

\* What is shown stays what it was if the device does and the capture device is
\* left alone: a flip to a captured buffer is the one that was under way already.
LEMMA ShownStays ==
  ASSUME IInv, Display(drm', screen'), SameDevice(drm, drm'), UNCHANGED cap,
         screen'.front = screen.front, screen'.next = screen.next \/ drm.opened > 0
  PROVE  ShownNow'
  <1>1. drm'.source = drm.source /\ drm'.n_bufs = drm.n_bufs
    BY DEF SameDevice
  <1>2. drm.source = "dma" => cap'.open /\ drm'.n_bufs = cap'.n_bufs
    BY <1>1 DEF IInv, ShownNow
  <1>3. CASE screen'.next = screen.next
    BY <1>1, <1>2, <1>3 DEF IInv, ShownNow
  <1>4. CASE drm.opened > 0
    <2>1. drm.source = "stub"
      BY <1>4 DEF IInv, Display, DisplayInv, ClosedInv, ShownInv, DisplayRuntime
    <2>2. screen'.next[1] # "dma" /\ screen'.front[1] # "dma"
      BY <1>1, <2>1 DEF Display, DisplayInv
    <2>3. QED
      BY <1>1, <1>2, <2>1, <2>2 DEF ShownNow
  <1>5. QED
    BY <1>3, <1>4

\* A call of the display library that shows something on an open device
LEMMA DrmCallKeeps ==
  ASSUME IInv, NEW pc, NEW outcomes, NEW next, DrmCall(pc, outcomes, next),
         \A o \in outcomes : Runs(drm, screen, o)
  PROVE  \E o \in outcomes :
            /\ vpc = pc /\ vpc' = IF o.rc < 0 THEN "close" ELSE next
            /\ drm' = o.drm /\ screen' = o.screen
            /\ Display(drm', screen') /\ SameDevice(drm, drm')
            /\ screen'.front = screen.front
            /\ UNCHANGED <<captureVars, plugged, prev_hw, hw, flagVars>>
  BY DEF DrmCall, Does, Check, Runs

\* Waiting on an open device
LEMMA WaitKeeps ==
  ASSUME IInv, drm.fd, NEW pc, NEW next,
         DrmCall(pc, us_drm_wait_for_vsync(drm, screen), next)
  PROVE  /\ CapInv' /\ Display(drm', screen') /\ ShownNow' /\ SameDevice(drm, drm')
         /\ UNCHANGED <<captureVars, plugged, prev_hw, hw, flagVars>>
         /\ vpc = pc /\ vpc' \in {"close", next} /\ (vpc' # "close" => drm'.has_vsync)
  <1>1. \A o \in us_drm_wait_for_vsync(drm, screen) :
           Runs(drm, screen, o) /\ o.screen.next = screen.next /\ (o.rc = 0 => o.drm.has_vsync)
    BY WaitRuns DEF IInv
  <1>2. PICK o \in us_drm_wait_for_vsync(drm, screen) :
            /\ vpc = pc /\ vpc' = IF o.rc < 0 THEN "close" ELSE next
            /\ drm' = o.drm /\ screen' = o.screen
            /\ Display(drm', screen') /\ SameDevice(drm, drm')
            /\ screen'.front = screen.front
            /\ UNCHANGED <<captureVars, plugged, prev_hw, hw, flagVars>>
    BY <1>1, DrmCallKeeps
  <1>3. ShownNow'
    BY <1>1, <1>2, ShownStays DEF captureVars
  <1>4. o.rc \in -2 .. 0
    BY <1>1 DEF Runs
  <1>5. CapInv'
    BY <1>2, CapStays DEF IInv
  <1>6. QED
    BY <1>1, <1>2, <1>3, <1>4, <1>5

\* Drawing a message on a device opened for one
LEMMA DrawKeeps ==
  ASSUME IInv, drm.fd, drm.opened > 0, NEW pc, NEW outcomes, NEW next,
         \A o \in outcomes : Runs(drm, screen, o),
         DrmCall(pc, outcomes, next)
  PROVE  /\ CapInv' /\ Display(drm', screen') /\ ShownNow' /\ SameDevice(drm, drm')
         /\ UNCHANGED <<captureVars, plugged, prev_hw, hw, flagVars>>
         /\ vpc = pc /\ vpc' \in {"close", next}
  <1>1. PICK o \in outcomes :
            /\ vpc = pc /\ vpc' = IF o.rc < 0 THEN "close" ELSE next
            /\ drm' = o.drm /\ screen' = o.screen
            /\ Display(drm', screen') /\ SameDevice(drm, drm')
            /\ screen'.front = screen.front
            /\ UNCHANGED <<captureVars, plugged, prev_hw, hw, flagVars>>
    BY DrmCallKeeps
  <1>2. ShownNow'
    BY <1>1, ShownStays DEF captureVars
  <1>3. CapInv'
    BY <1>1, CapStays DEF IInv
  <1>4. QED
    BY <1>1, <1>2, <1>3

\* The head of _main_loop()
LEMMA TopKeeps == IInv /\ Top => IInv'
  <1> SUFFICES ASSUME IInv, Top PROVE IInv'
    OBVIOUS
  <1>1. UNCHANGED <<cap, faulty, signal, drm, screen, plugged, prev_hw, hw, online, stop>>
    BY DEF Top, captureVars, drmVars, flagVars
  <1>2. CapInv'
    BY <1>1, CapStays DEF IInv, captureVars
  <1>3. Display(drm', screen') /\ ShownNow'
    BY <1>1 DEF IInv, ShownNow
  <1>4. vpc = "top" /\ vpc' = IF stop THEN "done" ELSE IF drm.opened <= 0 THEN "stub" ELSE "busy"
    BY DEF Top
  <1>5. MainTypes'
    BY <1>1, <1>4 DEF IInv, MainTypes
  <1>6. ControlInv'
    BY <1>1, <1>4, OpenedAgrees DEF IInv, ControlInv
  <1>7. QED
    BY <1>2, <1>3, <1>5, <1>6 DEF IInv

\* Opening the display, for a message or for the capture
LEMMA OpenStubKeeps == IInv /\ OpenStub => IInv'
  <1> SUFFICES ASSUME IInv, OpenStub PROVE IInv'
    OBVIOUS
  <1>1. vpc = "stub" /\ ~drm.fd
    BY DEF OpenStub, DrmCall, IInv, ControlInv
  <1>2. \A o \in us_drm_open(drm, screen, FALSE) : Opens(FALSE, o)
    BY <1>1, DrmOpens DEF IInv
  <1>3. PICK o \in us_drm_open(drm, screen, FALSE) :
           /\ drm' = o.drm /\ screen' = o.screen
           /\ vpc' = IF o.rc < 0 THEN "close" ELSE "busy"
    BY DEF OpenStub, DrmCall, Does, Check
  <1>4. UNCHANGED <<cap, faulty, signal, plugged, prev_hw, hw, online, stop>>
    BY DEF OpenStub, DrmCall, captureVars, flagVars
  <1>5. /\ Display(drm', screen') /\ screen'.next = NoFrame /\ o.rc \in -2 .. 3
        /\ drm'.opened = o.rc /\ (drm'.fd <=> o.rc >= 0) /\ o.rc # 0
    BY <1>2, <1>3 DEF Opens
  <1>6. CapInv'
    BY <1>4, CapStays DEF IInv, captureVars
  <1>7. ShownNow'
    BY <1>5, OpenedAgrees DEF ShownNow, NoFrame, Frame
  <1>8. MainTypes'
    BY <1>3, <1>4 DEF IInv, MainTypes
  <1>9. ControlInv'
    BY <1>1, <1>3, <1>4, <1>5 DEF IInv, ControlInv
  <1>10. QED
    BY <1>5, <1>6, <1>7, <1>8, <1>9 DEF IInv

\* The display is opened again, now for the capture device.
LEMMA ReopenKeeps == IInv /\ Reopen => IInv'
  <1> SUFFICES ASSUME IInv, Reopen PROVE IInv'
    OBVIOUS
  <1>1. vpc = "reopen" /\ cap.open /\ prev_hw = -1
    BY DEF Reopen, DrmCall, IInv, ControlInv
  <1>2. PICK c \in us_drm_close(drm, screen) :
           \E o \in us_drm_open(c.drm, c.screen, TRUE) :
              /\ drm' = o.drm /\ screen' = o.screen
              /\ vpc' = IF o.rc < 0 THEN "close" ELSE "live"
    BY DEF Reopen, DrmCall, Does, Check
  <1>3. Display(c.drm, c.screen) /\ ~c.drm.fd
    BY CloseIsClosed DEF IInv
  <1>4. \A o \in us_drm_open(c.drm, c.screen, TRUE) : Opens(TRUE, o)
    BY <1>3, DrmOpens DEF IInv
  <1>5. PICK o \in us_drm_open(c.drm, c.screen, TRUE) :
           /\ drm' = o.drm /\ screen' = o.screen
           /\ vpc' = IF o.rc < 0 THEN "close" ELSE "live"
    BY <1>2
  <1>6. UNCHANGED <<cap, faulty, signal, plugged, prev_hw, hw, online, stop>>
    BY DEF Reopen, DrmCall, captureVars, flagVars
  <1>7. /\ Display(drm', screen') /\ screen'.next = NoFrame /\ o.rc \in -2 .. 3
        /\ screen'.front[1] = "dma" => screen'.front[2] = 0
        /\ drm'.opened = o.rc /\ (drm'.fd <=> o.rc >= 0)
        /\ drm'.source = "dma" => drm'.n_bufs = cap.n_bufs
    BY <1>4, <1>5 DEF Opens
  <1>8. CapInv' /\ 0 \in 0 .. cap.n_bufs - 1
    <2>1. CapInv'
      BY <1>6, CapStays DEF IInv, captureVars
    <2>2. cap.n_bufs \in BufCounts
      BY <1>1 DEF IInv, CapInv, Opened
    <2>3. cap.n_bufs \in 1 .. MaxBufs /\ MaxBufs \in Nat
      BY <2>2, BufCountsBounded
    <2>4. QED
      BY <2>1, <2>3
  <1>9. ShownNow'
    BY <1>1, <1>6, <1>7, <1>8 DEF ShownNow, NoFrame, Frame
  <1>10. MainTypes'
    BY <1>5, <1>6 DEF IInv, MainTypes
  <1>11. ControlInv'
    BY <1>1, <1>5, <1>6, <1>7 DEF IInv, ControlInv
  <1>12. QED
    BY <1>7, <1>8, <1>9, <1>10, <1>11 DEF IInv

\* The message while uStreamer is online or there is no signal
LEMMA WaitBusyKeeps == IInv /\ WaitBusy => IInv'
  <1> SUFFICES ASSUME IInv, WaitBusy PROVE IInv'
    OBVIOUS
  <1>1. DrmCall("busy", us_drm_wait_for_vsync(drm, screen), "busy_expose")
    BY DEF WaitBusy
  <1>2. vpc = "busy" /\ drm.fd /\ ~cap.open /\ drm.opened # 0 /\ prev_hw = -1
    BY <1>1 DEF DrmCall, IInv, ControlInv
  <1>3. /\ CapInv' /\ Display(drm', screen') /\ ShownNow' /\ SameDevice(drm, drm')
        /\ UNCHANGED <<captureVars, plugged, prev_hw, hw, flagVars>>
        /\ vpc' \in {"close", "busy_expose"} /\ (vpc' # "close" => drm'.has_vsync)
    BY <1>1, <1>2, WaitKeeps
  <1>4. UNCHANGED <<cap, plugged, prev_hw, hw, online, stop>> /\ drm'.fd /\ drm'.opened # 0
    BY <1>2, <1>3 DEF captureVars, flagVars, SameDevice
  <1>5. MainTypes'
    BY <1>3, <1>4 DEF IInv, MainTypes
  <1>6. ControlInv'
    BY <1>2, <1>3, <1>4 DEF ControlInv
  <1>7. QED
    BY <1>3, <1>5, <1>6 DEF IInv

\* The message is drawn after the sync.
LEMMA ExposeBusyKeeps == IInv /\ ExposeBusy => IInv'
  <1> SUFFICES ASSUME IInv, ExposeBusy PROVE IInv'
    OBVIOUS
  <1>1. DrmCall("busy_expose", us_drm_expose_stub(drm, screen), "top")
    BY DEF ExposeBusy
  <1>2. /\ vpc = "busy_expose" /\ drm.fd /\ ~cap.open /\ drm.opened > 0 /\ prev_hw = -1
        /\ drm.has_vsync
    BY <1>1, OpenedAgrees DEF DrmCall, IInv, ControlInv
  <1>3. \A o \in us_drm_expose_stub(drm, screen) : Runs(drm, screen, o)
    BY <1>2, ExposeStubRuns DEF IInv
  <1>4. /\ CapInv' /\ Display(drm', screen') /\ ShownNow' /\ SameDevice(drm, drm')
        /\ UNCHANGED <<captureVars, plugged, prev_hw, hw, flagVars>>
        /\ vpc' \in {"close", "top"}
    BY <1>1, <1>2, <1>3, DrawKeeps
  <1>5. UNCHANGED <<cap, plugged, prev_hw, hw, online, stop>> /\ drm'.opened > 0
    BY <1>2, <1>4 DEF captureVars, flagVars, SameDevice
  <1>6. MainTypes'
    BY <1>4, <1>5 DEF IInv, MainTypes
  <1>7. ControlInv'
    BY <1>2, <1>4, <1>5 DEF ControlInv
  <1>8. QED
    BY <1>4, <1>6, <1>7 DEF IInv

\* The message that there is no signal
LEMMA NoSignalKeeps == IInv /\ NoSignal => IInv'
  <1> SUFFICES ASSUME IInv, NoSignal PROVE IInv'
    OBVIOUS
  <1>1. DrmCall("no_signal", us_drm_ensure_no_signal(drm, screen), "top")
    BY DEF NoSignal
  <1>2. vpc = "no_signal" /\ drm.fd /\ ~cap.open /\ drm.opened > 0 /\ prev_hw = -1
    BY <1>1, OpenedAgrees DEF DrmCall, IInv, ControlInv
  <1>3. \A o \in us_drm_ensure_no_signal(drm, screen) : Runs(drm, screen, o)
    BY <1>2, NoSignalRuns DEF IInv
  <1>4. /\ CapInv' /\ Display(drm', screen') /\ ShownNow' /\ SameDevice(drm, drm')
        /\ UNCHANGED <<captureVars, plugged, prev_hw, hw, flagVars>>
        /\ vpc' \in {"close", "top"}
    BY <1>1, <1>2, <1>3, DrawKeeps
  <1>5. UNCHANGED <<cap, plugged, prev_hw, hw, online, stop>> /\ drm'.opened > 0
    BY <1>2, <1>4 DEF captureVars, flagVars, SameDevice
  <1>6. MainTypes'
    BY <1>4, <1>5 DEF IInv, MainTypes
  <1>7. ControlInv'
    BY <1>2, <1>4, <1>5 DEF ControlInv
  <1>8. QED
    BY <1>4, <1>6, <1>7 DEF IInv

\* The capture device is opened while a stub is shown.
LEMMA OpenCaptureKeeps == IInv /\ OpenCapture => IInv'
  <1> SUFFICES ASSUME IInv, OpenCapture PROVE IInv'
    OBVIOUS
  <1>1. vpc = "busy" /\ drm.fd /\ ~cap.open /\ drm.opened > 0 /\ prev_hw = -1
    BY OpenedAgrees DEF OpenCapture, IInv, ControlInv
  <1>2. PICK rc \in {0, -1} : /\ us_capture_open(rc)
                              /\ vpc' = IF rc < 0 THEN "no_signal" ELSE "reopen"
    BY DEF OpenCapture
  <1>3. CapInv' /\ (cap'.open <=> rc = 0)
    BY <1>1, <1>2, OpenKeeps DEF IInv
  <1>4. UNCHANGED <<drm, screen, plugged, prev_hw, hw, online, stop>>
    BY DEF OpenCapture, drmVars, flagVars
  <1>5. Display(drm', screen')
    BY <1>4 DEF IInv
  <1>6. ShownNow'
    BY <1>1, <1>4, OpenedAgrees DEF IInv, ShownNow, Display, DisplayInv
  <1>7. MainTypes'
    BY <1>2, <1>4 DEF IInv, MainTypes
  <1>8. ControlInv'
    BY <1>1, <1>2, <1>3, <1>4 DEF ControlInv
  <1>9. QED
    BY <1>3, <1>5, <1>6, <1>7, <1>8 DEF IInv

\* Live video
LEMMA LeaveLiveKeeps == IInv /\ LeaveLive => IInv'
  <1> SUFFICES ASSUME IInv, LeaveLive PROVE IInv'
    OBVIOUS
  <1>1. /\ vpc = "live" /\ vpc' = "close"
        /\ UNCHANGED <<cap, faulty, signal, drm, screen, plugged, prev_hw, hw, online, stop>>
    BY DEF LeaveLive, captureVars, drmVars, flagVars
  <1>2. CapInv'
    BY <1>1, CapStays DEF IInv, captureVars
  <1>3. Display(drm', screen') /\ ShownNow' /\ MainTypes'
    BY <1>1 DEF IInv, ShownNow, MainTypes
  <1>4. ControlInv'
    BY <1>1 DEF IInv, ControlInv
  <1>5. QED
    BY <1>2, <1>3, <1>4 DEF IInv

\* A wait that succeeds leaves no flip under way.
LEMMA WaitLiveKeeps == IInv /\ WaitLive => IInv'
  <1> SUFFICES ASSUME IInv, WaitLive PROVE IInv'
    OBVIOUS
  <1>1. DrmCall("live", us_drm_wait_for_vsync(drm, screen), "release")
    BY DEF WaitLive
  <1>2. /\ vpc = "live" /\ drm.fd /\ cap.open /\ (prev_hw >= 0 => prev_hw < cap.n_bufs)
    BY <1>1 DEF DrmCall, IInv, ControlInv
  <1>3. /\ CapInv' /\ Display(drm', screen') /\ ShownNow' /\ SameDevice(drm, drm')
        /\ UNCHANGED <<captureVars, plugged, prev_hw, hw, flagVars>>
        /\ vpc' \in {"close", "release"} /\ (vpc' # "close" => drm'.has_vsync)
    BY <1>1, <1>2, WaitKeeps
  <1>4. UNCHANGED <<cap, plugged, prev_hw, hw, online, stop>> /\ drm'.fd
    BY <1>2, <1>3 DEF captureVars, flagVars, SameDevice
  <1>5. MainTypes'
    BY <1>3, <1>4 DEF IInv, MainTypes
  <1>6. ControlInv'
    BY <1>2, <1>3, <1>4 DEF ControlInv
  <1>7. QED
    BY <1>3, <1>5, <1>6 DEF IInv

\* A buffer goes back while nothing of the capture device is about to be shown.
LEMMA ReleaseShows ==
  ASSUME IInv, cap.open, NEW b \in 0 .. cap.n_bufs - 1, NEW rc,
         us_capture_hwbuf_release(b, rc), UNCHANGED <<drm, screen>>,
         screen.next[1] # "dma"
  PROVE  /\ CapInv' /\ Display(drm', screen') /\ ShownNow'
         /\ cap'.open /\ cap'.n_bufs = cap.n_bufs /\ rc \in {0, -1}
  <1>1. CapInv' /\ cap'.open /\ cap'.n_bufs = cap.n_bufs /\ rc \in {0, -1}
    BY ReleaseKeeps DEF IInv
  <1>2. QED
    BY <1>1 DEF IInv, ShownNow

\* So the buffer waited for goes back to the driver: no flip to it is pending.
LEMMA ReleasePreviousKeeps == IInv /\ ReleasePrevious => IInv'
  <1> SUFFICES ASSUME IInv, ReleasePrevious PROVE IInv'
    OBVIOUS
  <1>1. /\ vpc = "release" /\ drm.fd /\ cap.open /\ drm.has_vsync
        /\ prev_hw >= 0 => prev_hw < cap.n_bufs
    BY DEF ReleasePrevious, IInv, ControlInv
  <1>2. UNCHANGED <<drm, screen, plugged, hw, online, stop>>
    BY DEF ReleasePrevious, drmVars, flagVars
  <1>3. screen.next[1] # "dma" /\ prev_hw \in Int /\ cap.n_bufs \in Nat
    BY <1>1, OpenedAgrees, BufCountsBounded
       DEF IInv, NoFrame, Frame, MainTypes, CapInv, Accountable, Runtime
  <1>4. CASE prev_hw >= 0
    <2>1. PICK rc \in {0, -1} :
             /\ us_capture_hwbuf_release(prev_hw, rc)
             /\ vpc' = IF rc < 0 THEN "close" ELSE "grab"
             /\ prev_hw' = IF rc < 0 THEN prev_hw ELSE -1
      BY <1>4 DEF ReleasePrevious, Check
    <2>2. prev_hw \in 0 .. cap.n_bufs - 1
      BY <1>1, <1>3, <1>4
    <2>3. /\ CapInv' /\ Display(drm', screen') /\ ShownNow'
          /\ cap'.open /\ cap'.n_bufs = cap.n_bufs
      BY <1>1, <1>2, <1>3, <2>1, <2>2, ReleaseShows
    <2>4. MainTypes'
      BY <1>2, <2>1, BufCountsBounded DEF IInv, MainTypes
    <2>5. ControlInv'
      BY <1>1, <1>2, <2>1, <2>3 DEF ControlInv
    <2>6. QED
      BY <2>3, <2>4, <2>5 DEF IInv
  <1>5. CASE ~(prev_hw >= 0)
    <2>1. vpc' = "grab" /\ UNCHANGED <<cap, faulty, signal, prev_hw>>
      BY <1>5 DEF ReleasePrevious, captureVars
    <2>2. CapInv'
      BY <2>1, CapStays DEF IInv, captureVars
    <2>3. Display(drm', screen') /\ ShownNow' /\ MainTypes'
      BY <1>2, <2>1 DEF IInv, ShownNow, MainTypes
    <2>4. ControlInv'
      BY <1>1, <1>2, <2>1 DEF ControlInv
    <2>5. QED
      BY <2>2, <2>3, <2>4 DEF IInv
  <1>6. QED
    BY <1>4, <1>5

\* The next one is grabbed, ...
LEMMA GrabActionKeeps == IInv /\ Grab => IInv'
  <1> SUFFICES ASSUME IInv, Grab PROVE IInv'
    OBVIOUS
  <1>1. /\ vpc = "grab" /\ drm.fd /\ cap.open /\ drm.has_vsync
        /\ prev_hw >= 0 => prev_hw < cap.n_bufs
    BY DEF Grab, IInv, ControlInv
  <1>2. UNCHANGED <<drm, screen, plugged, prev_hw, online, stop>>
    BY DEF Grab, drmVars, flagVars
  <1>3. PICK rc : /\ us_capture_hwbuf_grab(rc)
                  /\ vpc' = CASE rc >= 0 -> "expose" [] rc = -7 -> "live" [] OTHER -> "close"
                  /\ hw' = IF rc >= 0 THEN rc ELSE -1
    BY DEF Grab
  <1>4. /\ CapInv' /\ cap'.open /\ cap'.n_bufs = cap.n_bufs
        /\ rc \in {-1, -7} \cup (0 .. cap.n_bufs - 1)
        /\ \A b \in 0 .. cap.n_bufs - 1 :
              cap.bufs[b].grabbed \/ b = rc => cap'.bufs[b].grabbed
    BY <1>1, <1>3, GrabKeeps DEF IInv
  <1>5. cap.n_bufs \in 0 .. MaxBufs /\ MaxBufs \in Nat
    BY BufCountsBounded DEF IInv, CapInv, Accountable, Runtime
  <1>6. \/ rc \in 0 .. cap.n_bufs - 1 /\ vpc' = "expose" /\ hw' = rc
        \/ hw' = -1 /\ vpc' \in {"live", "close"}
    BY <1>3, <1>4, <1>5
  <1>7. Display(drm', screen')
    BY <1>2 DEF IInv
  <1>8. ShownNow'
    BY <1>2, <1>4 DEF IInv, ShownNow
  <1>9. MainTypes'
    BY <1>2, <1>5, <1>6 DEF IInv, MainTypes
  <1>10. ControlInv'
    BY <1>1, <1>2, <1>4, <1>6 DEF ControlInv
  <1>11. QED
    BY <1>4, <1>7, <1>8, <1>9, <1>10 DEF IInv

\* ... and shown while it is,
LEMMA ExposeLiveKeeps == IInv /\ ExposeLive => IInv'
  <1> SUFFICES ASSUME IInv, ExposeLive PROVE IInv'
    OBVIOUS
  <1>1. /\ vpc = "expose" /\ drm.fd /\ cap.open /\ drm.has_vsync /\ drm.source = "dma"
        /\ drm.n_bufs = cap.n_bufs /\ hw \in 0 .. cap.n_bufs - 1 /\ cap.bufs[hw].grabbed
        /\ prev_hw >= 0 => prev_hw < cap.n_bufs
    BY OpenedAgrees DEF ExposeLive, IInv, ControlInv, ShownNow
  <1>2. UNCHANGED <<cap, faulty, signal, plugged, online, stop>> /\ hw' = -1
    BY DEF ExposeLive, captureVars, flagVars
  <1>3. hw \in Nat /\ cap.n_bufs \in 0 .. MaxBufs /\ MaxBufs \in Nat
    BY <1>1, BufCountsBounded DEF IInv, CapInv, Accountable, Runtime
  <1>4. PICK rc \in -2 .. 0 :
           /\ Does(us_drm_expose_dma(drm, screen, hw), rc)
           /\ vpc' = IF rc < 0 THEN "close" ELSE "live"
           /\ prev_hw' = IF rc < 0 THEN prev_hw ELSE hw
    BY DEF ExposeLive, Check
  <1>5. PICK o \in us_drm_expose_dma(drm, screen, hw) : drm' = o.drm /\ screen' = o.screen
    BY <1>4 DEF Does
  <1>6. Runs(drm, screen, o) /\ o.screen.next \in {screen.next, Frame("dma", hw)}
    BY <1>1, <1>3, ExposeDmaRuns DEF IInv
  <1>7. /\ Display(drm', screen') /\ drm'.fd = drm.fd /\ drm'.source = drm.source
        /\ drm'.n_bufs = drm.n_bufs /\ screen'.front = screen.front
    BY <1>5, <1>6 DEF Runs, SameDevice
  <1>8. CapInv'
    BY <1>2, CapStays DEF IInv, captureVars
  <1>9. ShownNow'
    <2>1. CASE screen'.next = screen.next
      BY <1>1, <1>2, <1>7, <2>1 DEF IInv, ShownNow
    <2>2. CASE screen'.next = Frame("dma", hw)
      BY <1>1, <1>2, <1>7, <2>2 DEF IInv, ShownNow, Frame
    <2>3. QED
      BY <1>5, <1>6, <2>1, <2>2
  <1>10. MainTypes'
    BY <1>1, <1>2, <1>3, <1>4 DEF IInv, MainTypes
  <1>11. ControlInv'
    BY <1>1, <1>2, <1>3, <1>4, <1>7 DEF ControlInv
  <1>12. QED
    BY <1>7, <1>8, <1>9, <1>10, <1>11 DEF IInv

\* ... or the display cannot show it,
LEMMA ExposeStubKeeps == IInv /\ ExposeStub => IInv'
  <1> SUFFICES ASSUME IInv, ExposeStub PROVE IInv'
    OBVIOUS
  <1>1. DrmCall("expose", us_drm_expose_stub(drm, screen), "give_back")
    BY DEF ExposeStub
  <1>2. /\ vpc = "expose" /\ drm.fd /\ cap.open /\ drm.opened > 0 /\ drm.has_vsync
        /\ hw \in 0 .. cap.n_bufs - 1 /\ cap.bufs[hw].grabbed
        /\ prev_hw >= 0 => prev_hw < cap.n_bufs
    BY <1>1, OpenedAgrees DEF ExposeStub, DrmCall, IInv, ControlInv
  <1>3. \A o \in us_drm_expose_stub(drm, screen) : Runs(drm, screen, o)
    BY <1>2, ExposeStubRuns DEF IInv
  <1>4. /\ CapInv' /\ Display(drm', screen') /\ ShownNow' /\ SameDevice(drm, drm')
        /\ UNCHANGED <<captureVars, plugged, prev_hw, hw, flagVars>>
        /\ vpc' \in {"close", "give_back"}
    BY <1>1, <1>2, <1>3, DrawKeeps
  <1>5. UNCHANGED <<cap, plugged, prev_hw, hw, online, stop>> /\ drm'.opened > 0 /\ drm'.fd
    BY <1>2, <1>4 DEF captureVars, flagVars, SameDevice
  <1>6. MainTypes'
    BY <1>4, <1>5 DEF IInv, MainTypes
  <1>7. ControlInv'
    BY <1>2, <1>4, <1>5 DEF ControlInv
  <1>8. QED
    BY <1>4, <1>6, <1>7 DEF IInv

\* ... and it goes back at once; the screen shows a stub.
LEMMA GiveBackKeeps == IInv /\ GiveBack => IInv'
  <1> SUFFICES ASSUME IInv, GiveBack PROVE IInv'
    OBVIOUS
  <1>1. /\ vpc = "give_back" /\ drm.fd /\ cap.open /\ drm.opened > 0
        /\ hw \in 0 .. cap.n_bufs - 1 /\ (prev_hw >= 0 => prev_hw < cap.n_bufs)
    BY DEF GiveBack, IInv, ControlInv
  <1>2. UNCHANGED <<drm, screen, plugged, prev_hw, online, stop>> /\ hw' = -1
    BY DEF GiveBack, drmVars, flagVars
  <1>3. screen.next[1] # "dma"
    BY <1>1, OpenedAgrees DEF IInv, Display, DisplayInv
  <1>4. PICK rc \in {0, -1} : /\ us_capture_hwbuf_release(hw, rc)
                              /\ vpc' = IF rc < 0 THEN "close" ELSE "live"
    BY DEF GiveBack, Check
  <1>5. /\ CapInv' /\ Display(drm', screen') /\ ShownNow'
        /\ cap'.open /\ cap'.n_bufs = cap.n_bufs
    BY <1>1, <1>2, <1>3, <1>4, ReleaseShows
  <1>6. -1 \in -1 .. MaxBufs - 1
    BY BufCountsBounded
  <1>7. MainTypes'
    BY <1>2, <1>4, <1>6 DEF IInv, MainTypes
  <1>8. ControlInv'
    BY <1>1, <1>2, <1>4, <1>5 DEF ControlInv
  <1>9. QED
    BY <1>5, <1>7, <1>8 DEF IInv

\* The end of a session: the display first, then the capture device
LEMMA CloseFirstKeeps == IInv /\ CloseFirst => IInv'
  <1> SUFFICES ASSUME IInv, CloseFirst PROVE IInv'
    OBVIOUS
  <1>1. CloseOrder[1] = "drm"
    BY DEF CloseOrder
  <1>2. /\ Does(us_drm_close(drm, screen), 0) /\ UNCHANGED <<captureVars, plugged, flagVars>>
        /\ vpc' = "closed" /\ prev_hw' = -1 /\ hw' = -1
    BY <1>1 DEF CloseFirst, CloseDevice
  <1>3. \E o \in us_drm_close(drm, screen) : drm' = o.drm /\ screen' = o.screen
    BY <1>2 DEF Does
  <1>4. Display(drm', screen') /\ ~drm'.fd /\ screen'.next = NoFrame
    BY <1>3, CloseIsClosed DEF IInv
  <1>5. CapInv'
    BY <1>2, CapStays DEF IInv
  <1>6. ShownNow'
    BY <1>4, OpenedAgrees DEF ShownNow, NoFrame, Frame
  <1>7. -1 \in -1 .. MaxBufs - 1
    BY BufCountsBounded
  <1>8. MainTypes'
    BY <1>2, <1>7 DEF IInv, MainTypes, flagVars
  <1>9. ControlInv'
    BY <1>2, <1>4 DEF ControlInv
  <1>10. QED
    BY <1>4, <1>5, <1>6, <1>8, <1>9 DEF IInv

\* The capture device, which no frame buffer refers to any more
LEMMA CloseSecondKeeps == IInv /\ CloseSecond => IInv'
  <1> SUFFICES ASSUME IInv, CloseSecond PROVE IInv'
    OBVIOUS
  <1>1. CloseOrder[2] = "capture"
    BY DEF CloseOrder
  <1>2. /\ us_capture_close /\ vpc = "closed" /\ vpc' = "top"
        /\ UNCHANGED <<drm, screen, plugged, prev_hw, hw, online, stop>>
    BY <1>1 DEF CloseSecond, CloseDevice, drmVars, flagVars
  <1>3. CapInv' /\ ~cap'.open
    BY <1>2, CloseKeeps DEF IInv
  <1>4. ~drm.fd /\ prev_hw = -1
    BY <1>2 DEF IInv, ControlInv
  <1>5. drm.opened < 0 /\ drm.source = "none"
    BY <1>4, OpenedAgrees DEF IInv
  <1>6. screen.next[1] # "dma" /\ screen.front[1] # "dma"
    BY <1>5 DEF IInv, Display, DisplayInv
  <1>7. Display(drm', screen') /\ ShownNow' /\ MainTypes'
    BY <1>2, <1>5, <1>6 DEF IInv, ShownNow, MainTypes
  <1>8. ControlInv'
    BY <1>2, <1>3, <1>4, <1>5 DEF ControlInv
  <1>9. QED
    BY <1>3, <1>7, <1>8 DEF IInv

\* The follower, the signal handler and the world
LEMMA FlagsKeep == IInv /\ (Follow \/ Signal) => IInv'
  <1> SUFFICES ASSUME IInv, Follow \/ Signal PROVE IInv'
    OBVIOUS
  <1>1. UNCHANGED <<cap, faulty, signal, drm, screen, plugged, vpc, prev_hw, hw>>
    BY DEF Follow, Signal, captureVars, drmVars, mainVars
  <1>2. online' \in BOOLEAN /\ stop' \in BOOLEAN
    BY DEF Follow, Signal, IInv, MainTypes
  <1>3. CapInv'
    BY <1>1, CapStays DEF IInv, captureVars
  <1>4. Display(drm', screen') /\ ShownNow' /\ MainTypes'
    BY <1>1, <1>2 DEF IInv, ShownNow, MainTypes
  <1>5. ControlInv'
    BY <1>1 DEF IInv, ControlInv
  <1>6. QED
    BY <1>3, <1>4, <1>5 DEF IInv

\* The source is switched, the faults end.
LEMMA SourceKeeps ==
  IInv /\ (SourceSwitched \/ FaultsEnd) /\ UNCHANGED <<drmVars, mainVars, flagVars>> => IInv'
  <1> SUFFICES ASSUME IInv, SourceSwitched \/ FaultsEnd, UNCHANGED <<drmVars, mainVars, flagVars>>
               PROVE  IInv'
    OBVIOUS
  <1>1. UNCHANGED <<cap, drm, screen, plugged, vpc, prev_hw, hw, online, stop>>
    BY DEF SourceSwitched, FaultsEnd, drmVars, mainVars, flagVars
  <1>3. CapInv'
    BY SourceAccounts DEF IInv
  <1>4. Display(drm', screen') /\ ShownNow' /\ MainTypes'
    BY <1>1 DEF IInv, ShownNow, MainTypes
  <1>5. ControlInv'
    BY <1>1 DEF IInv, ControlInv
  <1>6. QED
    BY <1>3, <1>4, <1>5 DEF IInv

\* A flip that is over was not one the program has seen to be over.
LEMMA DisplayKeeps ==
  IInv /\ (FlipDone \/ BlankTimer \/ CablePulled)
       /\ UNCHANGED <<captureVars, mainVars, flagVars>> => IInv'
  <1> SUFFICES ASSUME IInv, FlipDone \/ BlankTimer \/ CablePulled,
                      UNCHANGED <<captureVars, mainVars, flagVars>>
               PROVE  IInv'
    OBVIOUS
  <1>1. UNCHANGED <<cap, vpc, prev_hw, hw, online, stop>>
    BY DEF captureVars, mainVars, flagVars
  <1>2. CapInv'
    BY CapStays DEF IInv
  <1>3. NoFrame[1] # "dma" /\ NoFrame \in Frames
    BY DEF NoFrame, Frame, Frames
  <1>4. CASE FlipDone
    <2>1. /\ screen.next # NoFrame /\ UNCHANGED <<drm, plugged>>
          /\ screen' = [front |-> screen.next, next |-> NoFrame, event |-> TRUE]
      BY <1>4 DEF FlipDone
    <2>2. drm \in DisplayRuntime /\ screen \in Screens /\ DisplayInv(drm, screen)
      BY DEF IInv, Display
    <2>3. drm.fd /\ ~drm.has_vsync
      BY <2>1, <2>2 DEF DisplayInv, ClosedInv, Left
    <2>4. screen' \in Screens
      BY <1>3, <2>1, <2>2 DEF Screens
    <2>5. DisplayInv(drm', screen')
      BY <1>3, <2>1, <2>2, <2>3 DEF DisplayInv
    <2>6. Display(drm', screen') /\ ShownNow' /\ MainTypes'
      BY <1>1, <1>3, <2>1, <2>2, <2>4, <2>5 DEF IInv, Display, ShownNow, MainTypes
    <2>7. ControlInv'
      BY <1>1, <2>1 DEF IInv, ControlInv
    <2>8. QED
      BY <1>2, <2>6, <2>7 DEF IInv
  <1>5. CASE BlankTimer
    <2>1. drm' = [drm EXCEPT !.blank = "expired"] /\ UNCHANGED <<screen, plugged>>
      BY <1>5 DEF BlankTimer
    <2>2. /\ drm' \in DisplayRuntime /\ SameDevice(drm, drm') /\ drm'.os = drm.os
          /\ drm'.has_vsync = drm.has_vsync /\ drm'.exposing = drm.exposing
      BY <2>1 DEF IInv, Display, DisplayRuntime, SameDevice
    <2>3. Display(drm', screen')
      BY <2>1, <2>2 DEF IInv, Display, DisplayInv, ClosedInv, ShownInv, SameDevice
    <2>4. ShownNow' /\ MainTypes'
      BY <1>1, <2>1, <2>2 DEF IInv, ShownNow, MainTypes, SameDevice
    <2>5. ControlInv'
      BY <1>1, <2>2 DEF IInv, ControlInv, SameDevice
    <2>6. QED
      BY <1>2, <2>3, <2>4, <2>5 DEF IInv
  <1>6. CASE CablePulled
    <2>1. UNCHANGED <<drm, screen>> /\ plugged' \in BOOLEAN
      BY <1>6 DEF CablePulled, IInv, MainTypes
    <2>2. Display(drm', screen') /\ ShownNow' /\ MainTypes'
      BY <1>1, <2>1 DEF IInv, ShownNow, MainTypes
    <2>3. ControlInv'
      BY <1>1, <2>1 DEF IInv, ControlInv
    <2>4. QED
      BY <1>2, <2>2, <2>3 DEF IInv
  <1>7. QED
    BY <1>4, <1>5, <1>6

\* Every step keeps the invariant.
LEMMA NextSafe == IInv /\ [Next]_vars => IInv'
  <1> SUFFICES ASSUME IInv, [Next]_vars PROVE IInv'
    OBVIOUS
  <1>1. CASE MainStep
    BY <1>1, TopKeeps, OpenStubKeeps, WaitBusyKeeps, ExposeBusyKeeps, OpenCaptureKeeps,
       NoSignalKeeps, ReopenKeeps, LeaveLiveKeeps, WaitLiveKeeps, ReleasePreviousKeeps,
       GrabActionKeeps, ExposeLiveKeeps, ExposeStubKeeps, GiveBackKeeps, CloseFirstKeeps,
       CloseSecondKeeps DEF MainStep
  <1>2. CASE Follow \/ Signal
    BY <1>2, FlagsKeep
  <1>3. CASE World
    BY <1>3, SourceKeeps, DisplayKeeps DEF World
  <1>4. CASE UNCHANGED vars
    <2>1. UNCHANGED <<cap, faulty, signal, drm, screen, plugged, vpc, prev_hw, hw, online, stop>>
      BY <1>4 DEF vars, captureVars, drmVars, mainVars, flagVars
    <2>2. CapInv'
      BY <2>1, CapStays DEF IInv, captureVars
    <2>3. Display(drm', screen') /\ ShownNow' /\ MainTypes'
      BY <2>1 DEF IInv, ShownNow, MainTypes
    <2>4. ControlInv'
      BY <2>1 DEF IInv, ControlInv
    <2>5. QED
      BY <2>2, <2>3, <2>4 DEF IInv
  <1>5. QED
    BY <1>1, <1>2, <1>3, <1>4 DEF Next

\* The invariant holds in every state of the program, for any numbers of buffers the
\* driver may grant, any pictures and any modes of the display.
THEOREM PassthroughInvariant == Spec => []IInv
  <1>1. QED
    BY InitSafe, NextSafe, PTL DEF Spec

-----------------------------------------------------------------------------
(* What follows from it *)

\* The invariant implies the types,
LEMMA InvariantTypes == IInv => TypeOK
  <1> SUFFICES ASSUME IInv PROVE TypeOK
    OBVIOUS
  <1>1. CaptureTypeOK
    BY CaptureTypes DEF IInv
  <1>2. DrmTypeOK
    BY DEF IInv, Display, DisplayRuntime, Screens, MainTypes, DrmTypeOK
  <1>3. QED
    BY <1>1, <1>2 DEF TypeOK, IInv, MainTypes

\* Every variable has its type.
THEOREM TypeCorrect == Spec => []TypeOK
  <1>1. QED
    BY PassthroughInvariant, InvariantTypes, PTL

\* ... and the three properties.
LEMMA InvariantHolds == IInv => DevicesHoldNothing /\ DrmAssertsHold /\ FlipIsSafe
  <1> SUFFICES ASSUME IInv PROVE DevicesHoldNothing /\ DrmAssertsHold /\ FlipIsSafe
    OBVIOUS
  <1>1. DevicesHoldNothing
    <2>1. CaptureHoldsNothing
      BY HoldsNothing DEF IInv
    <2>2. QED
      BY <2>1 DEF IInv, Display, DisplayRuntime, DisplayInv, ClosedInv, Left,
                  DevicesHoldNothing
  <1>2. DrmAssertsHold
    <2>1. /\ drm.fd <=> drm.opened >= 0
          /\ drm.opened = 0 => drm.source = "dma"
          /\ drm.exposing => drm.fd
      BY OpenedAgrees DEF IInv, Display, DisplayInv, ClosedInv
    <2>2. vpc = "expose" /\ drm.opened = 0 => hw \in 0 .. drm.n_bufs - 1
      BY <2>1 DEF IInv, ControlInv, ShownNow
    <2>3. drm.n_bufs \in Nat /\ drm.opened \in Int
      BY DEF IInv, Display, DisplayRuntime
    <2>4. QED
      BY <2>1, <2>2, <2>3 DEF IInv, ControlInv, DrmAssertsHold
  <1>3. FlipIsSafe
    <2>1. cap.n_bufs \in Nat
      BY BufCountsBounded DEF IInv, CapInv, Accountable, Runtime
    <2>2. QED
      BY <2>1 DEF IInv, ShownNow, Display, DisplayInv, FlipIsSafe
  <1>4. QED
    BY <1>1, <1>2, <1>3

\* A closed device holds nothing, at whatever call its opening failed and however
\* its session ended (us_capture_open(), us_capture_close(), us_drm_open(),
\* us_drm_close()), but for what CaptureHoldsNothing and DevicesHoldNothing name as
\* lost: the standard input of the capture and the mapping of a stub buffer. Nothing
\* of the program stays on the screen, which shows the console or nothing.
THEOREM ClosedDevicesHoldNothing == Spec => []DevicesHoldNothing
  <1>1. QED
    BY PassthroughInvariant, InvariantHolds, PTL

\* No assertion of drm.c can fail when _main_loop() calls it.
THEOREM AssertionsHold == Spec => []DrmAssertsHold
  <1>1. QED
    BY PassthroughInvariant, InvariantHolds, PTL

\* The buffer that is about to be shown is never the driver's to fill, and no frame
\* buffer, shown or about to be, outlives the capture device whose memory it is.
THEOREM FlipsAreSafe == Spec => []FlipIsSafe
  <1>1. QED
    BY PassthroughInvariant, InvariantHolds, PTL
-----------------------------------------------------------------------------
(* The encoders *)

\* What the encoding device has been given, and what it answers
Contents == {"empty", "current", "earlier"}

\* The pictures the encoder may be configured for
Pictures ==
    Geometry \cup {[g EXCEPT !.format = "RGB24"] : g \in Geometry} \cup {Blank}

JpegRuntime == [type : {"CPU", "HW", "M2M"}, pool : 0 .. NWorkers,
                n_m2ms : 0 .. NWorkers, m2ms : 0 .. NWorkers]
M2mRuntime == [ready : BOOLEAN, geometry : Pictures, dma : BOOLEAN, last_online : -1 .. 1,
               os : SUBSET {"fd", "input", "output", "lost"}]
EncodingDevice == [input : Contents \cup {"none"}, done : BOOLEAN,
                   outputs : Seq(Contents), fresh : BOOLEAN]
EncodedFrame == [geometry : Pictures, dma : BOOLEAN, online : {0, 1},
                 buf : -1 .. MaxBufs - 1, asked : BOOLEAN, force : BOOLEAN,
                 result : {"none", "current"}, key : BOOLEAN]

EncodersTypes ==
    /\ enc \in JpegRuntime
    /\ m2m \in M2mRuntime
    /\ dev \in EncodingDevice
    /\ frame \in EncodedFrame
    /\ hpc \in {"idle", "send", "wait", "put"}
    /\ wantKey \in BOOLEAN /\ memKey \in BOOLEAN
    /\ shown \in -1 .. 1

\* The pool of the JPEG encoder lives as long as the session, and each of its
\* workers can have a buffer of its own.
PoolInv ==
    /\ cap.open <=> enc.pool > 0
    /\ enc.pool <= cap.n_bufs

\* An encoder that is not ready has been cleaned up; one in use is configured for
\* the frame.
ReadyInv ==
    /\ ~m2m.ready => m2m.os \subseteq {"lost"} /\ dev = Off
    /\ hpc \in {"send", "wait"} => m2m.ready /\ m2m.dma = frame.dma

\* A captured frame keeps its buffer grabbed until the end; it has a result only
\* when the encoding is over.
FrameInv ==
    /\ hpc = "idle" => frame = EmptyFrame
    /\ frame.dma => frame.buf >= 0
    /\ frame.buf >= 0 =>
          cap.open /\ frame.buf < cap.n_bufs /\ cap.bufs[frame.buf].grabbed
    /\ frame.result # "none" => hpc = "put"

\* An input is with the device or done, never both, and a DMA input is one or the
\* other only while its answer is waited for.
InputInv ==
    /\ dev.done => dev.input = "none"
    /\ m2m.dma /\ hpc # "wait" => dev.input = "none" /\ ~dev.done

\* The device owes exactly one answer to the frame that was sent, and once that
\* has been taken or given up nothing in the device is an answer to it.
Answers(outputs) == {i \in DOMAIN outputs : outputs[i] = "current"}
AnswerInv ==
    /\ hpc # "wait" => dev.input # "current" /\ Answers(dev.outputs) = {}
    /\ hpc = "wait" => \/ dev.input = "current" /\ Answers(dev.outputs) = {}
                       \/ /\ dev.input # "current"
                          /\ \E i \in DOMAIN dev.outputs : Answers(dev.outputs) = {i}

EncodersInv ==
    CapInv /\ EncodersTypes /\ PoolInv /\ ReadyInv /\ FrameInv /\ InputInv /\ AnswerInv

\* The records of an encoder at rest
LEMMA EncodersAtRest ==
    /\ NoGeometry \in Pictures
    /\ EmptyFrame \in EncodedFrame /\ EmptyFrame.buf = -1 /\ EmptyFrame.dma = FALSE
    /\ EmptyFrame.result = "none"
    /\ Off \in EncodingDevice /\ Off.input = "none" /\ Off.done = FALSE
    /\ Off.outputs = << >>
  <1>1. NoGeometry \in Pictures
    BY DEF NoGeometry, Geometry, Pictures
  <1>2. -1 \in -1 .. MaxBufs - 1
    BY BufCountsBounded
  <1>3. << >> \in Seq(Contents)
    OBVIOUS
  <1>4. QED
    BY <1>1, <1>2, <1>3 DEF EmptyFrame, EncodedFrame, Off, EncodingDevice

\* The process starts without a session, an encoder or a frame.
LEMMA EncodersStart == EncodersInit => EncodersInv
  <1> SUFFICES ASSUME EncodersInit PROVE EncodersInv
    OBVIOUS
  <1>1. CapInv
    BY CaptureStarts DEF EncodersInit
  <1>2. EncodersTypes
    <2>1. enc \in JpegRuntime
      <3>1. 0 \in 0 .. NWorkers
        BY NWorkersAssumption
      <3>2. QED
        BY <3>1, EncTypeAssumption DEF EncodersInit, JpegRuntime
    <2>2. m2m \in M2mRuntime
      <3>1. -1 \in -1 .. 1
        OBVIOUS
      <3>2. QED
        BY <3>1, EncodersAtRest DEF EncodersInit, M2mRuntime, m2m_encoder_init
    <2>3. shown \in -1 .. 1
      BY DEF EncodersInit
    <2>4. QED
      BY <2>1, <2>2, <2>3, EncodersAtRest DEF EncodersInit, EncodersTypes
  <1>3. PoolInv
    <2>1. cap.open = FALSE /\ cap.n_bufs = 0
      BY DEF EncodersInit, CaptureInit
    <2>2. QED
      BY <2>1 DEF EncodersInit, PoolInv
  <1>4. ReadyInv /\ FrameInv /\ InputInv /\ AnswerInv
    BY EncodersAtRest
       DEF EncodersInit, m2m_encoder_init, ReadyInv, FrameInv, InputInv, AnswerInv, Answers
  <1>5. QED
    BY <1>1, <1>2, <1>3, <1>4 DEF EncodersInv

\* _m2m_encoder_cleanup() gives back the device and its buffers.
LEMMA CleanedIsClosed ==
  \A m \in M2mRuntime :
     /\ Cleaned(m) \in M2mRuntime
     /\ Cleaned(m).ready = FALSE /\ Cleaned(m).os \subseteq {"lost"}
     /\ Cleaned(m).last_online = -1
     /\ Cleaned(m).dma = m.dma /\ Cleaned(m).geometry = m.geometry
     /\ DeviceAfter(Cleaned(m)) = Off
  <1> SUFFICES ASSUME NEW m \in M2mRuntime
               PROVE  /\ Cleaned(m) \in M2mRuntime
                      /\ Cleaned(m).ready = FALSE /\ Cleaned(m).os \subseteq {"lost"}
                      /\ Cleaned(m).last_online = -1
                      /\ Cleaned(m).dma = m.dma /\ Cleaned(m).geometry = m.geometry
                      /\ DeviceAfter(Cleaned(m)) = Off
    OBVIOUS
  <1>1. /\ Cleaned(m) \in M2mRuntime
        /\ Cleaned(m).last_online = -1
        /\ Cleaned(m).ready = FALSE /\ Cleaned(m).os = m.os \ {"fd", "input", "output"}
        /\ Cleaned(m).dma = m.dma /\ Cleaned(m).geometry = m.geometry
    <2> DEFINE os == m.os \ {"fd", "input", "output"}
    <2>1. os \in SUBSET {"fd", "input", "output", "lost"} /\ -1 \in -1 .. 1
      BY DEF M2mRuntime
    <2>2. Cleaned(m) = [m EXCEPT !.ready = FALSE, !.last_online = -1, !.os = os]
      BY DEF Cleaned, M2mRuntime
    <2> HIDE DEF os
    <2>3. QED
      BY <2>1, <2>2 DEF M2mRuntime, os
  <1>2. m.os \subseteq {"fd", "input", "output", "lost"}
    BY DEF M2mRuntime
  <1>3. QED
    BY <1>1, <1>2 DEF DeviceAfter

\* _m2m_encoder_ensure() ends with an encoder that is ready, or cleaned up again
\* at whatever call it failed.
LEMMA PreparedOrClosed ==
  ASSUME m2m \in M2mRuntime, NEW f \in EncodedFrame, NEW m \in Prepared(f)
  PROVE  /\ m \in M2mRuntime /\ m.dma = f.dma /\ m.last_online = -1
         /\ ~m.ready => m.os \subseteq {"lost"} /\ DeviceAfter(m) = Off
  <1> DEFINE base == [Cleaned(m2m) EXCEPT !.geometry = f.geometry, !.dma = f.dma]
             With(os) == [base EXCEPT !.os = @ \cup os]
             Usable(x) == [base EXCEPT !.ready = TRUE, !.os = @ \cup x]
             Kept == SUBSET {"fd", "input", "output", "lost"}
  <1>1. base \in M2mRuntime /\ base.dma = f.dma /\ base.last_online = -1
    BY CleanedIsClosed DEF EncodedFrame, M2mRuntime
  <1> HIDE DEF base
  <1>2. \A os \in Kept : With(os) \in M2mRuntime /\ With(os).dma = f.dma
    BY <1>1 DEF M2mRuntime
  <1>3. \A os \in Kept :
           /\ Usable(os) \in M2mRuntime /\ Usable(os).dma = f.dma
           /\ Usable(os).ready = TRUE /\ Usable(os).last_online = -1
    BY <1>1 DEF M2mRuntime
  <1>4. \/ \E os \in Kept : m = Usable(os)
        \/ \E os \in Kept : m = Cleaned(With(os))
    <2> DEFINE input == IF f.dma THEN {} ELSE {"input"}
    <2>1. input \in Kept
      OBVIOUS
    <2> HIDE DEF input
    <2>2. m \in {[base EXCEPT !.ready = TRUE, !.os = @ \cup {"fd", "output"} \cup input]}
                \cup (IF faulty THEN {Cleaned(x) : x \in
                        {[base EXCEPT !.os = @ \cup os] :
                           os \in {{}, {"fd"}, {"fd", "lost"}, {"fd"} \cup input,
                                   {"fd", "output"} \cup input}}} ELSE {})
      BY DEF Prepared, base, input
    <2>3. CASE m = [base EXCEPT !.ready = TRUE, !.os = @ \cup {"fd", "output"} \cup input]
      <3>1. m = Usable({"fd", "output"} \cup input)
        BY <2>3, <1>1 DEF M2mRuntime
      <3>2. QED
        BY <3>1, <2>1
    <2>4. CASE \E os \in {{}, {"fd"}, {"fd", "lost"}, {"fd"} \cup input,
                          {"fd", "output"} \cup input} : m = Cleaned(With(os))
      BY <2>1, <2>4
    <2>5. QED
      BY <2>2, <2>3, <2>4
  <1> HIDE DEF With, Usable
  <1>5. CASE \E os \in Kept : m = Usable(os)
    BY <1>3, <1>5
  <1>6. CASE \E os \in Kept : m = Cleaned(With(os))
    BY <1>2, <1>6, CleanedIsClosed
  <1>7. QED
    BY <1>4, <1>5, <1>6

\* Whatever the device had been given is, when a new frame comes, of another one.
LEMMA AgedHasNoAnswer ==
  \A d \in EncodingDevice :
     /\ Aged(d) \in EncodingDevice
     /\ Aged(d).done = d.done
     /\ d.input = "none" <=> Aged(d).input = "none"
     /\ Aged(d).input # "current" /\ Answers(Aged(d).outputs) = {}
     /\ d = Off => Aged(d) = Off
  <1> SUFFICES ASSUME NEW d \in EncodingDevice
               PROVE  /\ Aged(d) \in EncodingDevice
                      /\ Aged(d).done = d.done
                      /\ d.input = "none" <=> Aged(d).input = "none"
                      /\ Aged(d).input # "current" /\ Answers(Aged(d).outputs) = {}
                      /\ d = Off => Aged(d) = Off
    OBVIOUS
  <1> DEFINE outputs == [i \in DOMAIN d.outputs |-> Older(d.outputs[i])]
             input == Older(d.input)
  <1>1. d.outputs \in Seq(Contents) /\ d.input \in Contents \cup {"none"}
    BY DEF EncodingDevice
  <1>2. outputs \in Seq(Contents) /\ \A i \in DOMAIN outputs : outputs[i] # "current"
    BY <1>1 DEF Older, Contents
  <1>3. /\ input \in Contents \cup {"none"} /\ input # "current"
        /\ d.input = "none" <=> input = "none"
    BY <1>1 DEF Older, Contents
  <1>4. Aged(d) = [d EXCEPT !.input = input, !.outputs = outputs]
    BY DEF Aged, EncodingDevice
  <1>5. d = Off => input = "none" /\ outputs = << >>
    BY EncodersAtRest DEF Older
  <1> HIDE DEF input, outputs
  <1>6. /\ Aged(d) \in EncodingDevice /\ Aged(d).done = d.done
        /\ Aged(d).input = input /\ Aged(d).outputs = outputs
    BY <1>2, <1>3, <1>4 DEF EncodingDevice
  <1>7. d = Off => Aged(d) = Off
    <2> SUFFICES ASSUME d = Off PROVE Aged(d) = Off
      OBVIOUS
    <2>1. Aged(d) = [Off EXCEPT !.input = "none", !.outputs = << >>]
      BY <1>4, <1>5
    <2>2. QED
      BY <2>1 DEF Off
  <1>8. QED
    BY <1>2, <1>3, <1>6, <1>7 DEF Answers

\* A device that has just been started has been given no frame.
LEMMA StartedIsEmpty ==
  \A f \in EncodedFrame : \A d \in Started(f) :
     /\ d \in EncodingDevice /\ ~d.done
     /\ f.dma => d.input = "none"
     /\ d.input # "current" /\ Answers(d.outputs) = {}
  <1> SUFFICES ASSUME NEW f \in EncodedFrame, NEW d \in Started(f)
               PROVE  /\ d \in EncodingDevice /\ ~d.done
                      /\ f.dma => d.input = "none"
                      /\ d.input # "current" /\ Answers(d.outputs) = {}
    OBVIOUS
  <1>1. PICK o \in {<< >>, <<"empty">>} :
           d = [input |-> IF f.dma THEN "none" ELSE "empty", done |-> FALSE,
                outputs |-> o, fresh |-> TRUE]
    BY DEF Started
  <1>2. o \in Seq(Contents) /\ \A i \in DOMAIN o : o[i] # "current"
    <2>1. CASE o = << >>
      BY <2>1
    <2>2. CASE o = <<"empty">>
      <3>1. "empty" \in Contents
        BY DEF Contents
      <3>2. o \in Seq(Contents)
        BY <2>2, <3>1
      <3>3. QED
        BY <2>2, <3>2
    <2>3. QED
      BY <1>1, <2>1, <2>2
  <1>3. QED
    BY <1>1, <1>2 DEF EncodingDevice, Contents, Answers

\* us_m2m_encoder_compress() up to the sending of the frame f
LEMMA BeginKeeps ==
  ASSUME EncodersInv, NEW f \in EncodedFrame, f.result = "none", Begin(f)
  PROVE  /\ EncodersTypes' /\ ReadyInv' /\ InputInv' /\ AnswerInv'
         /\ hpc' # "idle" /\ frame'.buf = f.buf /\ frame'.dma = f.dma
         /\ frame'.result = "none" /\ UNCHANGED enc
  <1>1. /\ hpc = "idle" /\ wantKey' = FALSE
        /\ UNCHANGED <<enc, memKey, shown>>
    BY DEF Begin
  <1>2. hpc' = IF m2m'.ready THEN "send" ELSE "put"
    BY DEF Begin
  <1>3. /\ frame' \in EncodedFrame /\ frame'.buf = f.buf /\ frame'.dma = f.dma
        /\ frame'.result = "none"
    <2>1. PICK force \in Forced([f EXCEPT !.force = @ \/ wantKey]) :
             frame' = [f EXCEPT !.force = force, !.asked = wantKey]
      BY DEF Begin
    <2>2. force \in BOOLEAN
      <3>1. [f EXCEPT !.force = @ \/ wantKey].force \in BOOLEAN
        BY DEF EncodedFrame
      <3>2. QED
        BY <3>1 DEF Forced
    <2>3. wantKey \in BOOLEAN
      BY DEF EncodersInv, EncodersTypes
    <2>4. QED
      BY <2>1, <2>2, <2>3 DEF EncodedFrame
  <1>4. /\ m2m' \in M2mRuntime /\ m2m'.dma = f.dma
        /\ ~m2m'.ready => m2m'.os \subseteq {"lost"} /\ dev' = Off
        /\ dev' \in EncodingDevice
        /\ dev'.done => dev'.input = "none"
        /\ m2m'.dma => dev'.input = "none" /\ ~dev'.done
        /\ dev'.input # "current" /\ Answers(dev'.outputs) = {}
    <2> USE DEF EncodersInv, EncodersTypes
    <2>1. CASE Configured(m2m, f)
      <3>1. m2m' = m2m /\ dev' = Aged(dev) /\ m2m.dma = f.dma
        BY <2>1 DEF Begin, Configured
      <3>2. m2m.dma => dev.input = "none" /\ ~dev.done
        BY <1>1 DEF InputInv
      <3>3. QED
        BY <3>1, <3>2, AgedHasNoAnswer DEF ReadyInv, InputInv
    <2>2. CASE ~Configured(m2m, f)
      <3>1. PICK m \in Prepared(f) :
               m2m' = m /\ IF m.ready THEN dev' \in Started(f) ELSE dev' = DeviceAfter(m)
        BY <2>2 DEF Begin
      <3>2. /\ m \in M2mRuntime /\ m.dma = f.dma
            /\ ~m.ready => m.os \subseteq {"lost"} /\ DeviceAfter(m) = Off
        BY PreparedOrClosed
      <3>3. CASE m.ready
        BY <3>1, <3>2, <3>3, StartedIsEmpty
      <3>4. CASE ~m.ready
        BY <3>1, <3>2, <3>4, EncodersAtRest DEF Answers
      <3>5. QED
        BY <3>3, <3>4
    <2>3. QED
      BY <2>1, <2>2
  <1>5. hpc' \in {"send", "put"} /\ (hpc' = "send" => m2m'.ready)
    BY <1>2
  <1>6. EncodersTypes'
    BY <1>1, <1>3, <1>4, <1>5 DEF EncodersInv, EncodersTypes
  <1>7. ReadyInv' /\ InputInv' /\ AnswerInv'
    BY <1>3, <1>4, <1>5 DEF ReadyInv, InputInv, AnswerInv
  <1>8. QED
    BY <1>1, <1>3, <1>5, <1>6, <1>7

\* A captured frame is one the encoder can be given.
LEMMA LiveFrameBegins ==
  ASSUME EncodersInv, NEW b \in 0 .. MaxBufs - 1, LiveFrame(b)
  PROVE  \E f \in EncodedFrame : f.buf = b /\ f.result = "none" /\ Begin(f)
  <1> DEFINE f == [EmptyFrame EXCEPT
                 !.geometry = IF cap.geometry.format = "JPEG"
                              THEN [cap.geometry EXCEPT !.format = "RGB24"]
                              ELSE cap.geometry,
                 !.dma = cap.geometry.format # "JPEG" /\ cap.bufs[b].dma_fd # NoFd,
                 !.online = 1, !.buf = b]
  <1>1. Begin(f)
    BY DEF LiveFrame
  <1>2. f \in EncodedFrame /\ f.buf = b /\ f.result = "none"
    <2>1. cap.geometry \in Geometry
      BY DEF EncodersInv, CapInv, Accountable, Runtime
    <2>2. [cap.geometry EXCEPT !.format = "RGB24"] \in Pictures /\ cap.geometry \in Pictures
      BY <2>1 DEF Pictures
    <2> DEFINE g == IF cap.geometry.format = "JPEG"
                    THEN [cap.geometry EXCEPT !.format = "RGB24"]
                    ELSE cap.geometry
               dma == cap.geometry.format # "JPEG" /\ cap.bufs[b].dma_fd # NoFd
    <2>3. g \in Pictures /\ dma \in BOOLEAN /\ b \in -1 .. MaxBufs - 1
      BY <2>2, BufCountsBounded
    <2> HIDE DEF g, dma
    <2>4. f = [EmptyFrame EXCEPT !.geometry = g, !.dma = dma, !.online = 1, !.buf = b]
      BY DEF g, dma
    <2>5. QED
      BY <2>3, <2>4, EncodersAtRest DEF EncodedFrame
  <1> HIDE DEF f
  <1>3. QED
    BY <1>1, <1>2

\* It is grabbed for as long as it is encoded.
LEMMA LiveFrameKeeps ==
  ASSUME EncodersInv, NEW b \in 0 .. MaxBufs - 1, LiveFrame(b) PROVE EncodersInv'
  <1>1. cap.open /\ us_capture_hwbuf_grab(b)
    BY DEF LiveFrame
  <1>2. PICK f \in EncodedFrame : f.buf = b /\ f.result = "none" /\ Begin(f)
    BY LiveFrameBegins
  <1>3. /\ CapInv' /\ cap'.open /\ cap'.n_bufs = cap.n_bufs
        /\ b \in 0 .. cap.n_bufs - 1 /\ cap'.bufs[b].grabbed
    BY <1>1, GrabKeeps DEF EncodersInv
  <1>4. /\ EncodersTypes' /\ ReadyInv' /\ InputInv' /\ AnswerInv'
        /\ hpc' # "idle" /\ frame'.buf = b /\ frame'.result = "none" /\ enc' = enc
    BY <1>1, <1>2, BeginKeeps
  <1>5. PoolInv'
    BY <1>1, <1>3, <1>4 DEF EncodersInv, PoolInv
  <1>6. FrameInv'
    <2>1. cap'.n_bufs \in Nat
      BY <1>3, BufCountsBounded DEF CapInv, Accountable, Runtime
    <2>2. QED
      BY <1>3, <1>4, <2>1 DEF FrameInv
  <1>7. QED
    BY <1>3, <1>4, <1>5, <1>6 DEF EncodersInv

\* The blank picture
LEMMA BlankFrameKeeps == EncodersInv /\ BlankFrame => EncodersInv'
  <1> SUFFICES ASSUME EncodersInv, BlankFrame PROVE EncodersInv'
    OBVIOUS
  <1> DEFINE f == [EmptyFrame EXCEPT !.geometry = Blank, !.force = TRUE]
  <1>1. Begin(f) /\ UNCHANGED captureVars
    BY DEF BlankFrame
  <1>2. f \in EncodedFrame /\ f.buf = -1 /\ f.result = "none" /\ f.dma = FALSE
    BY EncodersAtRest DEF EncodedFrame, Pictures
  <1> HIDE DEF f
  <1>3. CapInv' /\ cap' = cap
    BY <1>1, CapStays DEF EncodersInv, captureVars
  <1>4. /\ EncodersTypes' /\ ReadyInv' /\ InputInv' /\ AnswerInv'
        /\ hpc' # "idle" /\ frame'.buf = -1 /\ frame'.dma = FALSE
        /\ frame'.result = "none" /\ enc' = enc
    BY <1>1, <1>2, BeginKeeps
  <1>5. QED
    BY <1>3, <1>4 DEF EncodersInv, PoolInv, FrameInv

\* How the answers in the device move when one is added and when one is fetched
LEMMA AnswersMove ==
  ASSUME NEW s \in Seq(Contents)
  PROVE  /\ \A x \in Contents :
               /\ Append(s, x) \in Seq(Contents)
               /\ x # "current" => Answers(Append(s, x)) = Answers(s)
               /\ x = "current" /\ Answers(s) = {} =>
                     /\ Len(s) + 1 \in DOMAIN Append(s, x)
                     /\ Answers(Append(s, x)) = {Len(s) + 1}
         /\ s # << >> =>
               /\ Tail(s) \in Seq(Contents)
               /\ Answers(s) = {} => Answers(Tail(s)) = {}
               /\ Answers(s) = {1} => Answers(Tail(s)) = {}
               /\ \A i \in DOMAIN s : i # 1 /\ Answers(s) = {i} =>
                     i - 1 \in DOMAIN Tail(s) /\ Answers(Tail(s)) = {i - 1}
  <1>1. /\ Len(s) \in Nat /\ DOMAIN s = 1 .. Len(s)
        /\ \A x \in Contents :
              /\ Append(s, x) \in Seq(Contents)
              /\ DOMAIN Append(s, x) = 1 .. Len(s) + 1
              /\ Append(s, x)[Len(s) + 1] = x
              /\ \A i \in 1 .. Len(s) : Append(s, x)[i] = s[i]
    OBVIOUS
  <1>2. ASSUME s # << >>
        PROVE  /\ Tail(s) \in Seq(Contents) /\ DOMAIN Tail(s) = 1 .. Len(s) - 1
               /\ \A i \in 1 .. Len(s) - 1 : Tail(s)[i] = s[i + 1]
    BY <1>2
  <1>3. \A x \in Contents :
           /\ x # "current" => Answers(Append(s, x)) = Answers(s)
           /\ x = "current" /\ Answers(s) = {} => Answers(Append(s, x)) = {Len(s) + 1}
    BY <1>1 DEF Answers
  <1>4. ASSUME s # << >>
        PROVE  /\ Answers(s) = {} => Answers(Tail(s)) = {}
               /\ Answers(s) = {1} => Answers(Tail(s)) = {}
               /\ \A i \in DOMAIN s : i # 1 /\ Answers(s) = {i} =>
                     i - 1 \in DOMAIN Tail(s) /\ Answers(Tail(s)) = {i - 1}
    <2>1. \A i \in DOMAIN Tail(s) : i + 1 \in DOMAIN s /\ Tail(s)[i] = s[i + 1]
      BY <1>1, <1>2, <1>4
    <2>2. \A i \in DOMAIN Tail(s) : i \in Answers(Tail(s)) <=> i + 1 \in Answers(s)
      BY <2>1 DEF Answers
    <2>3. Answers(Tail(s)) \subseteq DOMAIN Tail(s) /\ DOMAIN Tail(s) \subseteq Nat \ {0}
      BY <1>1, <1>2, <1>4 DEF Answers
    <2>4. Answers(s) = {} \/ Answers(s) = {1} => Answers(Tail(s)) = {}
      BY <2>2, <2>3
    <2>5. ASSUME NEW i \in DOMAIN s, i # 1, Answers(s) = {i}
          PROVE  i - 1 \in DOMAIN Tail(s) /\ Answers(Tail(s)) = {i - 1}
      <3>1. i - 1 \in DOMAIN Tail(s)
        BY <1>1, <1>2, <1>4, <2>5
      <3>2. QED
        BY <2>2, <2>3, <2>5, <3>1
    <2>6. QED
      BY <2>4, <2>5
  <1>5. QED
    BY <1>1, <1>2, <1>3, <1>4

\* The frame is given to the device.
LEMMA SendKeeps == EncodersInv /\ Send => EncodersInv'
  <1> SUFFICES ASSUME EncodersInv, Send PROVE EncodersInv'
    OBVIOUS
  <1>1. /\ UNCHANGED <<cap, faulty, signal, enc, m2m, frame, wantKey, memKey, shown>>
        /\ hpc = "send" /\ hpc' = "wait"
        /\ dev' = [dev EXCEPT !.input = "current", !.done = FALSE]
    BY DEF Send, captureVars, keyVars
  <1>2. /\ dev' \in EncodingDevice /\ dev'.input = "current" /\ dev'.done = FALSE
        /\ dev'.outputs = dev.outputs
    BY <1>1 DEF EncodersInv, EncodersTypes, EncodingDevice, Contents
  <1>3. CapInv'
    BY <1>1, CapStays DEF EncodersInv, captureVars
  <1>4. EncodersTypes' /\ PoolInv'
    BY <1>1, <1>2 DEF EncodersInv, EncodersTypes, PoolInv
  <1>5. ReadyInv' /\ FrameInv'
    BY <1>1 DEF EncodersInv, ReadyInv, FrameInv
  <1>6. InputInv' /\ AnswerInv'
    BY <1>1, <1>2 DEF EncodersInv, InputInv, AnswerInv
  <1>7. QED
    BY <1>3, <1>4, <1>5, <1>6 DEF EncodersInv

\* The device answers to what it was given.
LEMMA DeviceEncodesKeeps == EncodersInv /\ DeviceEncodes => EncodersInv'
  <1> SUFFICES ASSUME EncodersInv, DeviceEncodes PROVE EncodersInv'
    OBVIOUS
  <1>1. /\ UNCHANGED <<cap, faulty, signal, enc, m2m, frame, hpc, wantKey, memKey, shown>>
        /\ dev.input # "none"
        /\ dev' = [dev EXCEPT !.outputs = Append(@, dev.input), !.input = "none",
                              !.done = TRUE]
    BY DEF DeviceEncodes, captureVars, callVars, keyVars
  <1>2. dev.input \in Contents /\ dev.outputs \in Seq(Contents)
    BY <1>1 DEF EncodersInv, EncodersTypes, EncodingDevice
  <1> DEFINE outputs == Append(dev.outputs, dev.input)
  <1>3. outputs \in Seq(Contents)
    BY <1>2, AnswersMove
  <1> HIDE DEF outputs
  <1>4. /\ dev' \in EncodingDevice /\ dev'.input = "none" /\ dev'.done = TRUE
        /\ dev'.outputs = outputs
    BY <1>1, <1>3 DEF EncodersInv, EncodersTypes, EncodingDevice, outputs
  <1>5. CapInv'
    BY <1>1, CapStays DEF EncodersInv, captureVars
  <1>6. EncodersTypes' /\ PoolInv'
    BY <1>1, <1>4 DEF EncodersInv, EncodersTypes, PoolInv
  <1>7. ReadyInv' /\ FrameInv'
    <2>1. m2m.ready
      BY <1>1, EncodersAtRest DEF EncodersInv, ReadyInv
    <2>2. QED
      BY <1>1, <2>1 DEF EncodersInv, ReadyInv, FrameInv
  <1>8. InputInv'
    BY <1>1, <1>4 DEF EncodersInv, InputInv
  <1>9. AnswerInv'
    <2>1. CASE dev.input = "current"
      <3>1. hpc = "wait" /\ Answers(dev.outputs) = {}
        BY <2>1 DEF EncodersInv, AnswerInv
      <3>2. Len(dev.outputs) + 1 \in DOMAIN outputs /\ Answers(outputs) = {Len(dev.outputs) + 1}
        BY <1>2, <2>1, <3>1, AnswersMove DEF outputs
      <3>3. QED
        BY <1>1, <1>4, <3>1, <3>2 DEF AnswerInv
    <2>2. CASE dev.input # "current"
      <3>1. Answers(outputs) = Answers(dev.outputs)
        BY <1>2, <2>2, AnswersMove DEF outputs
      <3>2. \A i \in DOMAIN dev.outputs : i \in DOMAIN outputs
        BY <1>2 DEF outputs
      <3>3. QED
        BY <1>1, <1>4, <2>2, <3>1, <3>2 DEF EncodersInv, AnswerInv
    <2>3. QED
      BY <2>1, <2>2
  <1>10. QED
    BY <1>5, <1>6, <1>7, <1>8, <1>9 DEF EncodersInv

\* An answer is taken, or passed over if it is that to another frame.
LEMMA FetchKeeps == EncodersInv /\ Fetch => EncodersInv'
  <1> SUFFICES ASSUME EncodersInv, Fetch PROVE EncodersInv'
    OBVIOUS
  <1> DEFINE output == Head(dev.outputs)
  <1>1. /\ UNCHANGED <<cap, faulty, signal, enc, wantKey, memKey>>
        /\ hpc = "wait" /\ dev.outputs # << >>
        /\ m2m.dma => dev.done \/ dev.input = "none"
    BY DEF Fetch, captureVars
  <1>2. PICK fresh \in IF IsMine(output) THEN {FALSE} ELSE {FALSE, dev.fresh},
             key \in KeyChoices :
           /\ dev' = [dev EXCEPT !.outputs = Tail(@), !.done = InputDone(dev),
                                 !.fresh = fresh]
           /\ IF IsMine(output)
              THEN /\ frame' = [frame EXCEPT !.result = output, !.key = key]
                   /\ m2m' = [m2m EXCEPT !.last_online = frame.online]
                   /\ shown' = frame.online
                   /\ hpc' = "put"
              ELSE UNCHANGED <<frame, m2m, shown, hpc>>
    <2>1. TRUE \in KeyChoices
      BY DEF KeyChoices
    <2>2. QED
      BY <2>1 DEF Fetch
  <1>3. dev.outputs \in Seq(Contents) /\ m2m \in M2mRuntime /\ dev \in EncodingDevice
        /\ frame \in EncodedFrame
    BY DEF EncodersInv, EncodersTypes, EncodingDevice
  <1>4. 1 \in DOMAIN dev.outputs /\ output = dev.outputs[1]
    BY <1>1, <1>3
  <1> HIDE DEF output
  <1>5. Tail(dev.outputs) \in Seq(Contents)
    BY <1>1, <1>3, AnswersMove
  <1>6. InputDone(dev) \in BOOLEAN /\ (InputDone(dev) => dev.done) /\ (m2m.dma => ~InputDone(dev))
    BY <1>3 DEF InputDone, EncodingDevice
  <1>7. IsMine(output) \in BOOLEAN /\ (IsMine(output) <=> output = "current")
    BY DEF IsMine
  <1>8. /\ dev' \in EncodingDevice /\ dev'.input = dev.input /\ dev'.done = InputDone(dev)
        /\ dev'.outputs = Tail(dev.outputs)
    <2>1. fresh \in BOOLEAN
      BY <1>3, <1>7 DEF EncodingDevice
    <2>2. dev' = [dev EXCEPT !.outputs = Tail(dev.outputs), !.done = InputDone(dev),
                             !.fresh = fresh]
      BY <1>2, <1>3 DEF EncodingDevice
    <2>3. QED
      BY <1>3, <1>5, <1>6, <2>1, <2>2 DEF EncodingDevice
  <1>9. CapInv'
    BY <1>1, CapStays DEF EncodersInv, captureVars
  <1>10. CASE IsMine(output)
    <2>1. /\ output = "current" /\ hpc' = "put"
          /\ frame' \in EncodedFrame /\ frame'.buf = frame.buf /\ frame'.dma = frame.dma
          /\ frame'.result = "current"
      <3>1. key \in BOOLEAN
        BY <1>2, <1>3 DEF EncodedFrame, EncodingDevice, KeyChoices
      <3>2. QED
        BY <1>2, <1>3, <1>7, <1>10, <3>1 DEF EncodedFrame
    <2>2. /\ m2m' \in M2mRuntime /\ m2m'.ready = m2m.ready /\ m2m'.dma = m2m.dma
          /\ m2m'.os = m2m.os
      <3>1. frame.online \in -1 .. 1
        BY <1>3 DEF EncodedFrame
      <3>2. QED
        BY <1>2, <1>3, <1>10, <3>1 DEF M2mRuntime
    <2>3. EncodersTypes' /\ PoolInv'
      <3>1. shown' \in -1 .. 1
        BY <1>2, <1>3, <1>10 DEF EncodedFrame
      <3>2. QED
        BY <1>1, <1>8, <2>1, <2>2, <3>1 DEF EncodersInv, EncodersTypes, PoolInv
    <2>4. ReadyInv' /\ FrameInv'
      BY <1>1, <2>1, <2>2 DEF EncodersInv, ReadyInv, FrameInv
    <2>5. InputInv'
      BY <1>1, <1>6, <1>8, <2>2 DEF EncodersInv, InputInv
    <2>6. AnswerInv'
      <3>1. 1 \in Answers(dev.outputs)
        BY <1>4, <2>1 DEF Answers
      <3>2. dev.input # "current" /\ Answers(dev.outputs) = {1}
        BY <1>1, <3>1 DEF EncodersInv, AnswerInv
      <3>3. Answers(Tail(dev.outputs)) = {}
        BY <1>1, <1>3, <3>2, AnswersMove
      <3>4. QED
        BY <1>8, <2>1, <3>2, <3>3 DEF AnswerInv
    <2>7. QED
      BY <1>9, <2>3, <2>4, <2>5, <2>6 DEF EncodersInv
  <1>11. CASE ~IsMine(output)
    <2>1. UNCHANGED <<frame, m2m, shown, hpc>> /\ output # "current"
      BY <1>2, <1>7, <1>11
    <2>2. EncodersTypes' /\ PoolInv'
      BY <1>1, <1>8, <2>1 DEF EncodersInv, EncodersTypes, PoolInv
    <2>3. ReadyInv' /\ FrameInv'
      BY <1>1, <2>1 DEF EncodersInv, ReadyInv, FrameInv
    <2>4. InputInv'
      BY <1>1, <1>6, <1>8, <2>1 DEF EncodersInv, InputInv
    <2>5. AnswerInv'
      <3>1. 1 \notin Answers(dev.outputs)
        BY <1>4, <2>1 DEF Answers
      <3>2. CASE Answers(dev.outputs) = {}
        <4>1. Answers(Tail(dev.outputs)) = {}
          BY <1>1, <1>3, <3>2, AnswersMove
        <4>2. dev.input = "current"
          BY <1>1, <3>2 DEF EncodersInv, AnswerInv
        <4>3. QED
          BY <1>1, <1>8, <2>1, <4>1, <4>2 DEF AnswerInv
      <3>3. CASE dev.input # "current" /\ \E i \in DOMAIN dev.outputs : Answers(dev.outputs) = {i}
        <4>1. PICK i \in DOMAIN dev.outputs : Answers(dev.outputs) = {i}
          BY <3>3
        <4>2. i # 1
          BY <3>1, <4>1
        <4>3. i - 1 \in DOMAIN Tail(dev.outputs) /\ Answers(Tail(dev.outputs)) = {i - 1}
          BY <1>1, <1>3, <4>1, <4>2, AnswersMove
        <4>4. QED
          BY <1>1, <1>8, <2>1, <3>3, <4>3 DEF AnswerInv
      <3>4. QED
        BY <1>1, <3>2, <3>3 DEF EncodersInv, AnswerInv
    <2>6. QED
      BY <1>9, <2>2, <2>3, <2>4, <2>5 DEF EncodersInv
  <1>12. QED
    BY <1>10, <1>11

\* A failing call closes the encoder.
LEMMA CompressFailsKeeps == EncodersInv /\ CompressFails => EncodersInv'
  <1> SUFFICES ASSUME EncodersInv, CompressFails PROVE EncodersInv'
    OBVIOUS
  <1>1. /\ UNCHANGED <<cap, faulty, signal, enc, frame, wantKey, memKey, shown>>
        /\ hpc' = "put" /\ m2m' = Cleaned(m2m) /\ dev' = DeviceAfter(Cleaned(m2m))
        /\ hpc # "idle"
    BY DEF CompressFails, Failed, captureVars, keyVars
  <1>2. m2m' \in M2mRuntime /\ m2m'.os \subseteq {"lost"} /\ dev' = Off
    BY <1>1, CleanedIsClosed DEF EncodersInv, EncodersTypes
  <1>3. CapInv'
    BY <1>1, CapStays DEF EncodersInv, captureVars
  <1>4. EncodersTypes' /\ PoolInv'
    BY <1>1, <1>2, EncodersAtRest DEF EncodersInv, EncodersTypes, PoolInv
  <1>5. ReadyInv' /\ FrameInv'
    BY <1>1, <1>2 DEF EncodersInv, ReadyInv, FrameInv
  <1>6. InputInv' /\ AnswerInv'
    BY <1>1, <1>2, EncodersAtRest DEF InputInv, AnswerInv, Answers
  <1>7. QED
    BY <1>3, <1>4, <1>5, <1>6 DEF EncodersInv

\* The frame is over, and its buffer goes back.
LEMMA PutKeeps == EncodersInv /\ Put => EncodersInv'
  <1> SUFFICES ASSUME EncodersInv, Put PROVE EncodersInv'
    OBVIOUS
  <1>1. /\ UNCHANGED <<enc, m2m, dev, shown>>
        /\ hpc = "put" /\ hpc' = "idle" /\ frame' = EmptyFrame
        /\ IF frame.buf >= 0
           THEN us_capture_hwbuf_release(frame.buf, 0)
           ELSE UNCHANGED captureVars
    BY DEF Put, m2mVars
  <1>2. wantKey' \in BOOLEAN /\ memKey' \in BOOLEAN
    <2>1. memKey \in BOOLEAN /\ wantKey \in BOOLEAN
      BY DEF EncodersInv, EncodersTypes
    <2>2. \/ memKey' = (memKey /\ ~frame.key) /\ wantKey' = memKey'
          \/ UNCHANGED <<wantKey, memKey>>
      BY DEF Put, keyVars
    <2>3. QED
      BY <2>1, <2>2
  <1>3. CapInv' /\ cap'.open = cap.open /\ cap'.n_bufs = cap.n_bufs
    <2>1. CASE frame.buf >= 0
      <3>1. cap.open /\ frame.buf \in 0 .. cap.n_bufs - 1
        <4>1. frame.buf \in Int /\ cap.n_bufs \in Nat
          BY BufCountsBounded
             DEF EncodersInv, EncodersTypes, EncodedFrame, CapInv, Accountable, Runtime
        <4>2. QED
          BY <2>1, <4>1 DEF EncodersInv, FrameInv
      <3>2. CapInv' /\ cap'.open /\ cap'.n_bufs = cap.n_bufs
        BY <1>1, <2>1, <3>1, ReleaseKeeps DEF EncodersInv
      <3>3. cap.open \in BOOLEAN /\ cap'.open \in BOOLEAN
        BY <3>2 DEF EncodersInv, CapInv, Accountable, Runtime
      <3>4. QED
        BY <3>1, <3>2, <3>3
    <2>2. CASE ~(frame.buf >= 0)
      BY <1>1, <2>2, CapStays DEF EncodersInv, captureVars
    <2>3. QED
      BY <2>1, <2>2
  <1>4. EncodersTypes' /\ PoolInv'
    BY <1>1, <1>2, <1>3, EncodersAtRest DEF EncodersInv, EncodersTypes, PoolInv
  <1>5. ReadyInv' /\ FrameInv'
    BY <1>1, EncodersAtRest DEF EncodersInv, ReadyInv, FrameInv
  <1>6. InputInv' /\ AnswerInv'
    BY <1>1 DEF EncodersInv, InputInv, AnswerInv
  <1>7. QED
    BY <1>3, <1>4, <1>5, <1>6 DEF EncodersInv

\* Outside of a frame only the session and the pool change.
LEMMA SessionKeeps ==
  ASSUME EncodersInv, hpc = "idle", UNCHANGED <<m2mVars, callVars, keyVars>>,
         CapInv', enc' \in JpegRuntime, PoolInv'
  PROVE  EncodersInv'
  <1>1. UNCHANGED <<m2m, dev, frame, hpc, wantKey, memKey, shown>>
    BY DEF m2mVars, callVars, keyVars
  <1>2. EncodersTypes' /\ ReadyInv'
    BY <1>1 DEF EncodersInv, EncodersTypes, ReadyInv
  <1>3. FrameInv'
    BY <1>1, EncodersAtRest DEF EncodersInv, FrameInv
  <1>4. InputInv' /\ AnswerInv'
    BY <1>1 DEF EncodersInv, InputInv, AnswerInv
  <1>5. QED
    BY <1>2, <1>3, <1>4 DEF EncodersInv

\* A session begins with a pool of at most as many workers as there are buffers,
\* and the guard of us_encoder_open() holds.
LEMMA StartSessionKeeps == EncodersInv /\ StartSession => EncodersInv'
  <1> SUFFICES ASSUME EncodersInv, StartSession PROVE EncodersInv'
    OBVIOUS
  <1>1. /\ hpc = "idle" /\ ~cap.open /\ UNCHANGED <<m2mVars, callVars, keyVars>>
        /\ \/ us_capture_open(0) /\ us_encoder_open
           \/ us_capture_open(-1) /\ UNCHANGED enc
    BY DEF StartSession
  <1>2. CapInv /\ enc \in JpegRuntime /\ enc.pool = 0
    BY <1>1 DEF EncodersInv, EncodersTypes, PoolInv, JpegRuntime
  <1>3. CASE us_capture_open(0) /\ us_encoder_open
    <2>1. CapInv' /\ cap'.open
      BY <1>1, <1>2, <1>3, OpenKeeps
    <2>2. cap'.n_bufs \in Nat \ {0}
      BY <2>1, BufCountsBounded, BufCountsAssumption DEF CapInv, Opened
    <2>3. WorkersFor \in 1 .. NWorkers /\ WorkersFor <= cap'.n_bufs
      BY <2>2, NWorkersAssumption DEF WorkersFor
    <2>4. TypeFor \in {"CPU", "HW", "M2M"}
      BY EncTypeAssumption DEF TypeFor
    <2> DEFINE m2ms == IF TypeFor = "M2M" /\ enc.m2ms = 0 THEN WorkersFor ELSE enc.m2ms
               n_m2ms == IF TypeFor = "M2M" /\ enc.n_m2ms < WorkersFor
                         THEN WorkersFor ELSE enc.n_m2ms
    <2>5. enc' = [type |-> TypeFor, pool |-> WorkersFor, m2ms |-> m2ms, n_m2ms |-> n_m2ms]
      BY <1>3 DEF us_encoder_open
    <2>6. m2ms \in 0 .. NWorkers /\ n_m2ms \in 0 .. NWorkers /\ WorkersFor \in 0 .. NWorkers
      BY <1>2, <2>3 DEF JpegRuntime
    <2> HIDE DEF m2ms, n_m2ms
    <2>7. enc' \in JpegRuntime /\ enc'.pool = WorkersFor
      BY <2>4, <2>5, <2>6 DEF JpegRuntime
    <2>8. PoolInv'
      BY <2>1, <2>2, <2>3, <2>7, NWorkersAssumption DEF PoolInv
    <2>9. QED
      BY <1>1, <2>1, <2>7, <2>8, SessionKeeps
  <1>4. CASE us_capture_open(-1) /\ UNCHANGED enc
    <2>1. CapInv' /\ ~cap'.open
      BY <1>1, <1>2, <1>4, OpenKeeps
    <2>2. cap'.n_bufs = 0
      BY <2>1 DEF CapInv
    <2>3. PoolInv'
      BY <1>2, <1>4, <2>1, <2>2 DEF PoolInv
    <2>4. QED
      BY <1>1, <1>2, <1>4, <2>1, <2>3, SessionKeeps
  <1>5. QED
    BY <1>1, <1>3, <1>4

\* It ends with both closed.
LEMMA EndSessionKeeps == EncodersInv /\ EndSession => EncodersInv'
  <1> SUFFICES ASSUME EncodersInv, EndSession PROVE EncodersInv'
    OBVIOUS
  <1>1. /\ hpc = "idle" /\ UNCHANGED <<m2mVars, callVars, keyVars>>
        /\ us_encoder_close /\ us_capture_close
    BY DEF EndSession
  <1>2. CapInv' /\ ~cap'.open
    BY <1>1, CloseKeeps DEF EncodersInv
  <1>3. cap'.n_bufs = 0
    BY <1>2 DEF CapInv
  <1>4. enc' \in JpegRuntime /\ enc'.pool = 0
    BY <1>1, NWorkersAssumption DEF us_encoder_close, EncodersInv, EncodersTypes, JpegRuntime
  <1>5. PoolInv'
    BY <1>2, <1>3, <1>4 DEF PoolInv
  <1>6. QED
    BY <1>1, <1>2, <1>4, <1>5, SessionKeeps

\* A client asks for a key frame, the source is switched, the faults end.
LEMMA OthersKeep == EncodersInv /\ (AskKey \/ EncodersWorld) => EncodersInv'
  <1> SUFFICES ASSUME EncodersInv, AskKey \/ EncodersWorld PROVE EncodersInv'
    OBVIOUS
  <1>1. /\ UNCHANGED <<cap, enc, m2m, dev, frame, hpc, shown>>
        /\ CapInv' /\ wantKey' \in BOOLEAN /\ memKey' \in BOOLEAN
    <2>1. CASE AskKey
      BY <2>1, CapStays
         DEF AskKey, captureVars, m2mVars, callVars, EncodersInv, EncodersTypes
    <2>2. CASE EncodersWorld
      BY <2>2, SourceAccounts
         DEF EncodersWorld, m2mVars, callVars, keyVars, EncodersInv, EncodersTypes
    <2>3. QED
      BY <2>1, <2>2
  <1>2. EncodersTypes' /\ PoolInv' /\ ReadyInv'
    BY <1>1 DEF EncodersInv, EncodersTypes, PoolInv, ReadyInv
  <1>3. FrameInv' /\ InputInv' /\ AnswerInv'
    BY <1>1 DEF EncodersInv, FrameInv, InputInv, AnswerInv
  <1>4. QED
    BY <1>1, <1>2, <1>3 DEF EncodersInv

\* Every step keeps the invariant.
LEMMA EncodersStep == EncodersInv /\ [EncodersNext]_encodersVars => EncodersInv'
  <1> SUFFICES ASSUME EncodersInv, [EncodersNext]_encodersVars PROVE EncodersInv'
    OBVIOUS
  <1>1. CASE StartSession \/ EndSession
    BY <1>1, StartSessionKeeps, EndSessionKeeps
  <1>2. ASSUME NEW b \in 0 .. MaxBufs - 1, LiveFrame(b) PROVE EncodersInv'
    BY <1>2, LiveFrameKeeps
  <1>3. CASE BlankFrame
    BY <1>3, BlankFrameKeeps
  <1>4. CASE Compress
    BY <1>4, SendKeeps, FetchKeeps, CompressFailsKeeps, PutKeeps DEF Compress
  <1>5. CASE DeviceEncodes
    BY <1>5, DeviceEncodesKeeps
  <1>6. CASE AskKey \/ EncodersWorld
    BY <1>6, OthersKeep
  <1>7. CASE UNCHANGED encodersVars
    <2>1. UNCHANGED <<cap, enc, m2m, dev, frame, hpc, wantKey, memKey, shown>> /\ CapInv'
      BY <1>7, CapStays DEF encodersVars, captureVars, m2mVars, callVars, keyVars, EncodersInv
    <2>2. EncodersTypes' /\ PoolInv' /\ ReadyInv'
      BY <2>1 DEF EncodersInv, EncodersTypes, PoolInv, ReadyInv
    <2>3. FrameInv' /\ InputInv' /\ AnswerInv'
      BY <2>1 DEF EncodersInv, FrameInv, InputInv, AnswerInv
    <2>4. QED
      BY <2>1, <2>2, <2>3 DEF EncodersInv
  <1>8. QED
    BY <1>1, <1>2, <1>3, <1>4, <1>5, <1>6, <1>7 DEF EncodersNext

\* The invariant of the encoders, through any sequence of sessions, frames,
\* reconfigurations and failures
THEOREM EncodersInvariant == EncodersSpec => []EncodersInv
  <1>1. QED
    BY EncodersStart, EncodersStep, PTL DEF EncodersSpec

\* Every variable of Encoders has its type.
THEOREM EncodersTypeCorrect == EncodersSpec => []EncodersTypeOK
  <1>1. EncodersInv => EncodersTypeOK
    <2> SUFFICES ASSUME EncodersInv PROVE EncodersTypeOK
      OBVIOUS
    <2>1. CaptureTypeOK
      BY CaptureTypes DEF EncodersInv
    <2>2. QED
      BY <2>1 DEF EncodersInv, EncodersTypes, JpegRuntime, M2mRuntime, EncodingDevice,
                  Contents, EncodersTypeOK
  <1>2. QED
    BY <1>1, EncodersInvariant, PTL

\* What us_m2m_encoder_compress() hands on is the encoding of the frame it was
\* called with, although the device may begin with an output of its own and a call
\* that failed may have left it with another frame.
THEOREM EncodingIsOfTheFrame == EncodersSpec => []EncodedIsOfThisFrame
  <1>1. EncodersInv => EncodedIsOfThisFrame
    BY DEF EncodersInv, EncodersTypes, EncodedFrame, EncodedIsOfThisFrame
  <1>2. QED
    BY <1>1, EncodersInvariant, PTL

\* After us_m2m_encoder_compress() no DMA buffer of the capture device is in the
\* encoder.
THEOREM BuffersComeBack == EncodersSpec => []NoBufferLeftBehind
  <1>1. EncodersInv => NoBufferLeftBehind
    BY DEF EncodersInv, InputInv, NoBufferLeftBehind
  <1>2. QED
    BY <1>1, EncodersInvariant, PTL

\* A closed encoder holds nothing but a buffer lost while it was set up, and a
\* closed capture device holds nothing at all.
THEOREM EncodersHoldNothing == EncodersSpec => []EncoderHoldsNothing
  <1>1. EncodersInv => EncoderHoldsNothing
    BY HoldsNothing DEF EncodersInv, ReadyInv, EncoderHoldsNothing
  <1>2. QED
    BY <1>1, EncodersInvariant, PTL

\* While the encoder has a DMA buffer, or has done with it without having given it
\* back, the buffer is that of the frame and the driver does not fill it; and as
\* long as the thread waits, the answer to its frame is still to come.
WaitIsSafe ==
    /\ m2m.dma /\ (dev.input # "none" \/ dev.done) =>
          frame.buf >= 0 /\ cap.open /\ cap.bufs[frame.buf].grabbed
    /\ hpc = "wait" => dev.input = "current" \/ \E i \in DOMAIN dev.outputs : dev.outputs[i] = "current"

\* The wait of us_m2m_encoder_compress() for the output with its time stamp
THEOREM AnswerIsOwed == EncodersSpec => []WaitIsSafe
  <1>1. EncodersInv => WaitIsSafe
    BY DEF EncodersInv, ReadyInv, FrameInv, InputInv, AnswerInv, Answers, WaitIsSafe
  <1>2. QED
    BY <1>1, EncodersInvariant, PTL

\* us_encoder_open() finds no pool, so that none is lost, and gives the pool no more
\* workers than the session has buffers.
PoolIsOfSession ==
    /\ enc.pool > 0 <=> cap.open
    /\ enc.pool <= cap.n_bufs

\* The sessions of us_stream_loop()
THEOREM PoolLivesWithSession == EncodersSpec => []PoolIsOfSession
  <1>1. EncodersInv => PoolIsOfSession
    BY DEF EncodersInv, PoolInv, PoolIsOfSession
  <1>2. QED
    BY <1>1, EncodersInvariant, PTL

-----------------------------------------------------------------------------
(* Key frames *)

\* What was asked for by a client before the frame was taken up is a key frame when it
\* is exposed; and the stream asks for none that the sink does not want.
KeysAreMade ==
    /\ frame.asked /\ frame.result # "none" => frame.key
    /\ wantKey => memKey

\* The end of such a frame, with a sink that can be locked, withdraws the request.
RequestIsServed ==
    frame.asked /\ frame.result # "none" /\ frame'.result = "none" /\ ~faulty =>
        ~memKey'

\* The picture encoded now is not of the kind of the last one.
SwitchMakesKey ==
    frame.result = "none" /\ frame'.result # "none" /\ shown # frame.online =>
        frame'.key

\* What the encoder remembers of the last picture is true or forgotten; a frame is
\* to be a key frame if a client asked for one before it was taken up, or if it is
\* the first after a switch of the source, and what was to be a key frame has become
\* one; a request of the stream is one of the sink's.
KeyInv ==
    /\ m2m.last_online \in {-1, shown}
    /\ frame.asked => frame.force
    /\ hpc \in {"send", "wait"} /\ shown # frame.online => frame.force
    /\ frame.result # "none" /\ frame.force => frame.key
    /\ wantKey => memKey

LEMMA KeysStart == EncodersInit => KeyInv
  BY DEF EncodersInit, EmptyFrame, m2m_encoder_init, KeyInv

\* The key is decided before the device is set up again, with the state of before.
LEMMA BeginForces ==
  ASSUME EncodersInv, KeyInv, NEW f \in EncodedFrame, f.result = "none", Begin(f)
  PROVE  KeyInv'
  <1>1. PICK force \in Forced([f EXCEPT !.force = @ \/ wantKey]) :
           frame' = [f EXCEPT !.force = force, !.asked = wantKey]
    BY DEF Begin
  <1>2. wantKey' = FALSE /\ shown' = shown
    BY DEF Begin
  <1>3. wantKey \in BOOLEAN /\ f.force \in BOOLEAN
    BY DEF EncodersInv, EncodersTypes, EncodedFrame
  <1>4. (wantKey => force = TRUE) /\ (m2m.last_online # f.online => force = TRUE)
    <2> DEFINE wanted == f.force \/ wantKey
               g == [f EXCEPT !.force = wanted]
    <2>1. wanted \in BOOLEAN /\ (wantKey => wanted)
      BY <1>3
    <2>2. [f EXCEPT !.force = @ \/ wantKey] = g
      BY DEF EncodedFrame
    <2> HIDE DEF wanted
    <2>3. g.force = wanted /\ g.online = f.online
      BY DEF EncodedFrame
    <2> HIDE DEF g
    <2>4. force \in {g.force \/ m2m.last_online # g.online, TRUE}
      BY <1>1, <2>2 DEF Forced
    <2>5. QED
      BY <2>1, <2>3, <2>4
  <1>5. /\ frame'.force = force /\ frame'.asked = wantKey
        /\ frame'.result = "none" /\ frame'.online = f.online
    BY <1>1 DEF EncodedFrame
  <1>6. m2m'.last_online \in {-1, shown}
    <2>1. CASE Configured(m2m, f)
      BY <2>1 DEF Begin, KeyInv
    <2>2. CASE ~Configured(m2m, f)
      <3>1. PICK m \in Prepared(f) : m2m' = m
        BY <2>2 DEF Begin
      <3>2. m.last_online = -1
        BY PreparedOrClosed DEF EncodersInv, EncodersTypes
      <3>3. QED
        BY <3>1, <3>2
    <2>3. QED
      BY <2>1, <2>2
  <1>7. shown # f.online => force = TRUE
    <2>1. f.online # -1
      BY DEF EncodedFrame
    <2>2. QED
      BY <1>4, <2>1 DEF KeyInv
  <1>8. QED
    BY <1>2, <1>4, <1>5, <1>6, <1>7 DEF KeyInv

\* The encoding of a frame that is to be a key frame is one.
LEMMA FetchForces ==
  ASSUME EncodersInv, KeyInv, Fetch
  PROVE  KeyInv' /\ SwitchMakesKey /\ RequestIsServed
  <1> DEFINE output == Head(dev.outputs)
  <1>1. UNCHANGED <<wantKey, memKey>> /\ hpc = "wait"
    BY DEF Fetch
  <1>2. PICK key \in KeyChoices :
           IF IsMine(output)
           THEN /\ frame' = [frame EXCEPT !.result = output, !.key = key]
                /\ m2m' = [m2m EXCEPT !.last_online = frame.online]
                /\ shown' = frame.online
                /\ hpc' = "put"
           ELSE UNCHANGED <<frame, m2m, shown, hpc>>
    <2>1. TRUE \in KeyChoices
      BY DEF KeyChoices
    <2>2. QED
      BY <2>1 DEF Fetch
  <1>3. m2m \in M2mRuntime /\ frame \in EncodedFrame /\ frame.result = "none"
    BY <1>1 DEF EncodersInv, EncodersTypes, FrameInv
  <1> HIDE DEF output
  <1>4. CASE IsMine(output)
    <2>1. /\ frame'.key = key /\ frame'.force = frame.force /\ frame'.asked = frame.asked
          /\ frame'.online = frame.online /\ frame'.result # "none"
          /\ shown' = frame.online /\ hpc' = "put"
      BY <1>2, <1>3, <1>4 DEF EncodedFrame, IsMine
    <2>2. m2m'.last_online = shown'
      BY <1>2, <1>3, <1>4 DEF M2mRuntime
    <2>3. frame.force => key
      BY <1>2 DEF KeyChoices
    <2>4. KeyInv'
      BY <1>1, <2>1, <2>2, <2>3 DEF KeyInv
    <2>5. SwitchMakesKey
      BY <1>1, <2>1, <2>3 DEF KeyInv, SwitchMakesKey
    <2>6. QED
      BY <1>3, <2>4, <2>5 DEF RequestIsServed
  <1>5. CASE ~IsMine(output)
    <2>1. UNCHANGED <<frame, m2m, shown, hpc>>
      BY <1>2, <1>5
    <2>2. KeyInv'
      BY <1>1, <2>1 DEF KeyInv
    <2>3. QED
      BY <1>3, <2>1, <2>2 DEF SwitchMakesKey, RequestIsServed
  <1>6. QED
    BY <1>4, <1>5

\* The other steps of a call
LEMMA CallKeepsKeys ==
  ASSUME EncodersInv, KeyInv, Send \/ CompressFails \/ DeviceEncodes \/ AskKey
  PROVE  KeyInv' /\ frame' = frame
  <1>1. CASE Send
    BY <1>1 DEF Send, keyVars, KeyInv
  <1>2. CASE CompressFails
    <2>1. UNCHANGED <<frame, wantKey, memKey, shown>> /\ hpc' = "put" /\ m2m' = Cleaned(m2m)
      BY <1>2 DEF CompressFails, Failed, keyVars
    <2>2. Cleaned(m2m).last_online = -1
      BY DEF Cleaned, EncodersInv, EncodersTypes, M2mRuntime
    <2>3. QED
      BY <2>1, <2>2 DEF KeyInv
  <1>3. CASE DeviceEncodes
    BY <1>3 DEF DeviceEncodes, callVars, keyVars, KeyInv
  <1>4. CASE AskKey
    BY <1>4 DEF AskKey, m2mVars, callVars, KeyInv
  <1>5. QED
    BY <1>1, <1>2, <1>3, <1>4

\* A put of a key frame withdraws the request, and afterwards that of the stream is
\* that of the sink.
LEMMA PutKeepsKeys ==
  ASSUME EncodersInv, KeyInv, Put
  PROVE  KeyInv' /\ SwitchMakesKey /\ RequestIsServed
  <1>1. /\ hpc' = "idle" /\ frame' = EmptyFrame /\ EmptyFrame.result = "none"
        /\ ~EmptyFrame.asked /\ UNCHANGED <<m2m, shown>>
    BY DEF Put, EmptyFrame, m2mVars
  <1>2. \/ frame.result # "none" /\ memKey' = (memKey /\ ~frame.key) /\ wantKey' = memKey'
        \/ (frame.result = "none" \/ faulty) /\ UNCHANGED <<wantKey, memKey>>
    BY DEF Put, keyVars
  <1>3. KeyInv'
    BY <1>1, <1>2 DEF KeyInv
  <1>4. frame.result # "none" /\ frame.asked => frame.key
    BY DEF KeyInv
  <1>5. QED
    BY <1>1, <1>2, <1>3, <1>4 DEF SwitchMakesKey, RequestIsServed

\* Frames are taken up without a result.
LEMMA FramesForce ==
  ASSUME EncodersInv, KeyInv, BlankFrame \/ \E b \in 0 .. MaxBufs - 1 : LiveFrame(b)
  PROVE  KeyInv' /\ frame.result = "none" /\ frame'.result = "none"
  <1>1. ASSUME NEW f \in EncodedFrame, f.result = "none", Begin(f)
        PROVE  KeyInv' /\ frame'.result = "none"
    BY <1>1, BeginForces, BeginKeeps
  <1>2. frame.result = "none"
    <2>1. hpc = "idle"
      BY DEF BlankFrame, LiveFrame, Begin
    <2>2. QED
      BY <2>1, EncodersAtRest DEF EncodersInv, FrameInv
  <1>3. CASE BlankFrame
    <2> DEFINE f == [EmptyFrame EXCEPT !.geometry = Blank, !.force = TRUE]
    <2>1. Begin(f)
      BY <1>3 DEF BlankFrame
    <2>2. f \in EncodedFrame /\ f.result = "none"
      BY EncodersAtRest DEF EncodedFrame, Pictures
    <2> HIDE DEF f
    <2>3. QED
      BY <1>1, <1>2, <2>1, <2>2
  <1>4. ASSUME NEW b \in 0 .. MaxBufs - 1, LiveFrame(b)
        PROVE  KeyInv' /\ frame'.result = "none"
    <2>1. \E f \in EncodedFrame : f.result = "none" /\ Begin(f)
      BY <1>4, LiveFrameBegins
    <2>2. QED
      BY <1>1, <2>1
  <1>5. QED
    BY <1>2, <1>3, <1>4

LEMMA KeysStep ==
  ASSUME EncodersInv, KeyInv, [EncodersNext]_encodersVars
  PROVE  KeyInv' /\ SwitchMakesKey /\ RequestIsServed
  <1>1. CASE StartSession \/ EndSession \/ EncodersWorld \/ UNCHANGED encodersVars
    <2>1. UNCHANGED <<m2m, frame, hpc, wantKey, memKey, shown>>
      BY <1>1 DEF StartSession, EndSession, EncodersWorld, encodersVars,
                  m2mVars, callVars, keyVars
    <2>2. QED
      BY <2>1 DEF KeyInv, SwitchMakesKey, RequestIsServed
  <1>2. CASE BlankFrame \/ \E b \in 0 .. MaxBufs - 1 : LiveFrame(b)
    BY <1>2, FramesForce DEF SwitchMakesKey, RequestIsServed
  <1>3. CASE Fetch
    BY <1>3, FetchForces
  <1>4. CASE Send \/ CompressFails \/ DeviceEncodes \/ AskKey
    BY <1>4, CallKeepsKeys DEF SwitchMakesKey, RequestIsServed
  <1>5. CASE Put
    BY <1>5, PutKeepsKeys
  <1>6. QED
    BY <1>1, <1>2, <1>3, <1>4, <1>5 DEF EncodersNext, Compress

LEMMA KeysAgree == EncodersSpec => []KeyInv
  <1>1. EncodersInv /\ KeyInv /\ [EncodersNext]_encodersVars => KeyInv'
    BY KeysStep
  <1>2. QED
    BY KeysStart, <1>1, EncodersInvariant, PTL DEF EncodersSpec

\* A client's request that is pending when a frame is taken up makes that frame, if
\* it is encoded, a key frame, whatever the encoder and the device went through before;
\* if the sink is not locked, the put of the frame withdraws the request (wantKey is
\* read and cleared by _stream_encode_expose_h264(), memKey cleared by
\* us_memsink_server_put()).
THEOREM RequestIsKey ==
    EncodersSpec => []KeysAreMade /\ [][RequestIsServed]_encodersVars
  <1>1. KeyInv => KeysAreMade
    BY DEF KeyInv, KeysAreMade
  <1>2. EncodersInv /\ KeyInv /\ [EncodersNext]_encodersVars => [RequestIsServed]_encodersVars
    BY KeysStep
  <1>3. QED
    BY <1>1, <1>2, KeysAgree, EncodersInvariant, PTL DEF EncodersSpec

\* The first picture encoded after a switch between the source and the blank picture is
\* a key frame, however many frames failed in between and however often
\* us_m2m_encoder_compress() closed or set up the device, which forgets last_online.
THEOREM SwitchIsKey == EncodersSpec => [][SwitchMakesKey]_encodersVars
  <1>1. EncodersInv /\ KeyInv /\ [EncodersNext]_encodersVars => [SwitchMakesKey]_encodersVars
    BY KeysStep
  <1>2. QED
    BY <1>1, KeysAgree, EncodersInvariant, PTL DEF EncodersSpec
=============================================================================
