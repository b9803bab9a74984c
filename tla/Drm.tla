-------------------------------- MODULE Drm --------------------------------
(***************************************************************************)
(* libs/drm/drm.c: the display that shows the captured picture without     *)
(* copying it (the DMA buffers of the capture device are the frame         *)
(* buffers), or a drawn message, a stub.                                   *)
(*                                                                         *)
(* The calls are operators from the runtime record drm and the state of    *)
(* the display controller, screen, to the set of their outcomes, each with *)
(* the code the call returns. A call that waits for the vertical sync has  *)
(* its successful outcome only once the page flip is over.                 *)
(***************************************************************************)
EXTENDS Capture, Sequences

CONSTANTS
    Modes   \* the modes of the display, a sequence of [width, height, preferred]

ASSUME ModesAssumption ==
    \A i \in 1 .. Len(Modes) : Modes[i].width > 0 /\ Modes[i].height > 0

VARIABLES
    drm,      \* us_drm_runtime_s, with what the process holds for it
    screen,   \* the display controller: what it shows, the flip it has to do
              \* and whether the event of the last one waits to be read
    plugged   \* the display is connected (environment)

drmVars == <<drm, screen, plugged>>

\* us_drm_stub_e; 0 is live video, negative numbers are errors
STUB_USER == 1
STUB_BAD_RESOLUTION == 2
STUB_BAD_FORMAT == 3
NO_DEVICE == -2

StubBufs == 4   \* n_bufs of a stub

\* A frame buffer: of the capture device, of a stub, or the console's
Frame(source, i) == <<source, i>>
Console == Frame("console", 0)
NoFrame == Frame("none", 0)   \* a dark screen, no flip
Unsaved == Frame("unsaved", 0) \* saved_crtc == NULL

DrmInit ==
    /\ drm = [fd |-> FALSE, status |-> FALSE, opened |-> -1, has_vsync |-> TRUE,
              exposing |-> FALSE, source |-> "none", n_bufs |-> 0, crtc |-> Unsaved,
              dpms |-> -1, blank |-> "unset", stub_n_buf |-> 0, os |-> {}]
    /\ screen = [front |-> Console, next |-> NoFrame, event |-> FALSE]
    /\ plugged \in BOOLEAN

DrmTypeOK ==
    /\ drm.fd \in BOOLEAN /\ drm.status \in BOOLEAN /\ drm.opened \in -2 .. 3
    /\ drm.has_vsync \in BOOLEAN /\ drm.exposing \in BOOLEAN
    /\ drm.crtc \in {Unsaved, Console, NoFrame}
    /\ drm.n_bufs \in Nat /\ drm.stub_n_buf \in 0 .. StubBufs - 1
    /\ drm.dpms \in -1 .. 1 /\ drm.blank \in {"unset", "armed", "expired"}
    /\ drm.os \subseteq {"fd", "status", "crtc", "lost"}
    /\ screen.event \in BOOLEAN /\ plugged \in BOOLEAN

-----------------------------------------------------------------------------
(* The parts of the calls *)

Outcome(rc, d, s) == [rc |-> rc, drm |-> d, screen |-> s]

\* _drm_check_status(): the status file is opened once and read every time;
\* an error closes it.
drm_check_status(d, s) ==
    LET opened == [d EXCEPT !.status = TRUE, !.os = @ \cup {"status"}]
        closed == [d EXCEPT !.status = FALSE, !.os = @ \ {"status"}]
    IN  {Outcome(IF plugged THEN 0 ELSE NO_DEVICE, opened, s)}
           \cup (IF faulty THEN {Outcome(-1, closed, s)} ELSE {})

\* A call that goes on with Call only if the status says the display is there
IfPlugged(d, s, Call(_, _)) ==
    UNION {IF o.rc = 0 THEN Call(o.drm, o.screen) ELSE {o} : o \in drm_check_status(d, s)}

\* _drm_ensure_dpms_power(): an error of the driver is ignored.
drm_ensure_dpms_power(d, on) == [d EXCEPT !.dpms = on]

\* _find_best_mode(): one with the resolution of the capture, else one of the
\* same width that is lower, else the preferred one, else the first.
find_best_mode(width, height) ==
    LET All == {Modes[i] : i \in 1 .. Len(Modes)}
        exact == {m \in All : m.width = width /\ m.height = height}
        closest == {m \in All : m.width = width /\ m.height < height}
        preferred == {m \in All : m.preferred}
    IN  IF exact # {} THEN exact
        ELSE IF closest # {} THEN closest
        ELSE IF preferred # {} THEN preferred
        ELSE IF Modes # <<>> THEN {Modes[1]} ELSE {}

\* _drm_find_sink(): the modes it may choose. A stub, for want of a capture or
\* of its format, takes the preferred one.
drm_find_sink(live) ==
    LET wanted == live /\ cap.geometry.format = "RGB24"
    IN  find_best_mode(IF wanted THEN cap.geometry.width ELSE 0,
                       IF wanted THEN cap.geometry.height ELSE 0)

\* The stub us_drm_open() has to show instead of the capture c in mode
StubFor(live, mode) ==
    IF ~live THEN STUB_USER
    ELSE IF cap.geometry.format # "RGB24" THEN STUB_BAD_FORMAT
    ELSE IF cap.geometry.width # mode.width \/ cap.geometry.height < mode.height
         THEN STUB_BAD_RESOLUTION
    ELSE 0

\* The first i buffers are made; os is what the process then holds.
WithBuffers(d, i, os) == [d EXCEPT !.n_bufs = i, !.os = os]

\* _drm_init_buffers() fails at a buffer, which is then not counted: if it was
\* mapped already nobody unmaps it.
drm_init_buffers_fails(d, stub) ==
    LET n == IF stub > 0 THEN StubBufs ELSE cap.n_bufs
        after == IF stub > 0 THEN {d.os, d.os \cup {"lost"}} ELSE {d.os}
    IN  {WithBuffers(d, i, os) : i \in 0 .. n - 1, os \in after}

\* The DMA buffers can be imported only if the capture device exported them.
CanImport(stub) ==
    stub > 0 \/ \A b \in 0 .. cap.n_bufs - 1 : Held("dma", b) = cap.bufs[b].dma_fd

\* _drm_init_buffers()
drm_init_buffers(d, stub) ==
    [d EXCEPT !.n_bufs = IF stub > 0 THEN StubBufs ELSE cap.n_bufs,
              !.source = IF stub > 0 THEN "stub" ELSE "dma"]

-----------------------------------------------------------------------------
(* The calls *)

\* Mutated form of Shut: run->opened keeps its value.
ShutKeepsOpened(d) ==
    [d EXCEPT !.fd = FALSE, !.status = FALSE, !.exposing = FALSE, !.crtc = Unsaved,
              !.source = "none", !.n_bufs = 0, !.stub_n_buf = 0, !.dpms = -1,
              !.has_vsync = TRUE, !.os = @ \ {"fd", "status", "crtc"}]

\* Mutated form of Shut: run->has_vsync keeps its value.
ShutKeepsVsync(d) ==
    [d EXCEPT !.fd = FALSE, !.status = FALSE, !.exposing = FALSE, !.crtc = Unsaved,
              !.source = "none", !.n_bufs = 0, !.stub_n_buf = 0, !.dpms = -1,
              !.opened = -1, !.os = @ \ {"fd", "status", "crtc"}]

\* us_drm_close() on the record: the saved CRTC, the buffers, the status file and
\* the device are given up, whatever their last calls return.
Shut(d) ==
    [d EXCEPT !.fd = FALSE, !.status = FALSE, !.exposing = FALSE, !.crtc = Unsaved,
              !.source = "none", !.n_bufs = 0, !.stub_n_buf = 0, !.dpms = -1,
              !.opened = -1, !.has_vsync = TRUE,
              !.os = @ \ ({"fd", "status"} \cup (IF d.crtc # Unsaved THEN {"crtc"} ELSE {}))]

\* The display when the frame buffers of the program are gone, removed or dropped
\* by the kernel with the descriptor: it goes dark if it showed one of them or was
\* about to.
WithoutBuffers(s) == IF s.front = Console /\ s.next = NoFrame THEN Console ELSE NoFrame

\* us_drm_close() on the display: what was there before the open is put back, if it
\* was saved and unless drmModeSetCrtc() fails, which is only logged (ENOENT, when
\* the saved buffer is gone, not even that). A pending flip is waited for or lost.
ShutScreens(d, s) ==
    LET fronts == {WithoutBuffers(s)} \cup (IF d.crtc # Unsaved THEN {d.crtc} ELSE {})
    IN  [front : fronts, next : {NoFrame}, event : {FALSE}]

us_drm_close(d, s) == {Outcome(0, Shut(d), t) : t \in ShutScreens(d, s)}

\* drmModeGetCrtc(): what is on the display now, or NULL
WithSaved(d, s) ==
    {[d EXCEPT !.crtc = s.front, !.os = @ \cup {"crtc"}]}
        \cup (IF faulty THEN {d} ELSE {})

\* The label error of us_drm_open()
GiveUp(rc, d, s) ==
    {Outcome(rc, [c.drm EXCEPT !.opened = rc], c.screen) : c \in us_drm_close(d, s)}

\* Its end: the first buffer is shown.
FirstShown(stub, d, s) ==
    Outcome(stub, [d EXCEPT !.opened = stub, !.exposing = FALSE, !.blank = "unset"],
            [s EXCEPT !.front = Frame(d.source, 0)])

\* us_drm_open(): live is FALSE where the code passes NULL for the capture.
us_drm_open(d, s, live) ==
    LET device == [d EXCEPT !.status = TRUE, !.fd = TRUE, !.os = @ \cup {"status", "fd"}]
        modes == drm_find_sink(live)
        stubs == {StubFor(live, m) : m \in modes}
        ready(stub) == WithSaved(drm_init_buffers(device, stub), s)
        failed == {d, device}
                     \cup UNION {ready(stub) \cup drm_init_buffers_fails(device, stub) :
                                    stub \in stubs}
    IN  IF ~plugged \/ modes = {}
        THEN GiveUp(NO_DEVICE, device, s)
        ELSE (UNION {IF CanImport(stub) THEN {FirstShown(stub, e, s) : e \in ready(stub)}
                                        ELSE GiveUp(-1, device, s) : stub \in stubs})
             \cup (IF faulty THEN UNION {GiveUp(-1, e, s) : e \in failed} ELSE {})

\* select() and drmHandleEvent(), which calls _drm_vsync_callback()
VsyncArrived(d, s) ==
    IF s.event THEN {Outcome(0, [d EXCEPT !.has_vsync = TRUE, !.exposing = FALSE],
                             [s EXCEPT !.event = FALSE])}
               ELSE {}

\* select() times out: without a flip under way there is nothing else it can do.
TimesOut(s) == faulty \/ (s.next = NoFrame /\ ~s.event)

\* us_drm_wait_for_vsync()
us_drm_wait_for_vsync(d, s) ==
    LET wait(e, t) ==
            LET on == drm_ensure_dpms_power(e, 1)
            IN  IF on.has_vsync THEN {Outcome(0, on, t)}
                ELSE VsyncArrived(on, t)
                     \cup (IF TimesOut(t) THEN {Outcome(-1, on, t)} ELSE {})
    IN  IfPlugged([d EXCEPT !.blank = "unset"], s, wait)

\* drmModePageFlip(): refused while another flip is under way
drmModePageFlip(d, s, frame) ==
    (IF s.next = NoFrame
     THEN {Outcome(0, d, [s EXCEPT !.next = frame])} ELSE {})
    \cup (IF faulty \/ s.next # NoFrame THEN {Outcome(-1, d, s)} ELSE {})

\* us_drm_expose_stub()
us_drm_expose_stub(d, s) ==
    LET flip(e, t) ==
            drmModePageFlip([drm_ensure_dpms_power(e, 1)
                                EXCEPT !.has_vsync = FALSE,
                                       !.stub_n_buf = (@ + 1) % e.n_bufs],
                            t, Frame("stub", e.stub_n_buf))
    IN  IfPlugged([d EXCEPT !.blank = "unset"], s, flip)

\* us_drm_expose_dma(): exposing_dma_fd is set even if the flip fails.
us_drm_expose_dma(d, s, b) ==
    LET flip(e, t) ==
            drmModePageFlip([drm_ensure_dpms_power(e, 1)
                                EXCEPT !.has_vsync = FALSE, !.exposing = TRUE],
                            t, Frame("dma", b))
    IN  IfPlugged([d EXCEPT !.blank = "unset"], s, flip)

\* us_drm_dpms_power_off(): an unplugged display is as good as one that is off.
us_drm_dpms_power_off(d, s) ==
    {Outcome(IF o.rc = NO_DEVICE THEN 0 ELSE o.rc,
             IF o.rc = 0 THEN drm_ensure_dpms_power(o.drm, 0) ELSE o.drm, o.screen) :
        o \in drm_check_status(d, s)}

\* Mutated form of WithTimer: the timer is left as the calls inside made it.
WithTimerLost(outcomes, timer) == outcomes

\* run->blank_at_ts = saved_ts
WithTimer(outcomes, timer) ==
    {Outcome(o.rc, [o.drm EXCEPT !.blank = timer], o.screen) : o \in outcomes}

\* us_drm_ensure_no_signal(): the message for a while, then the display is
\* turned off. The calls inside reset the timer, so it is saved around them.
us_drm_ensure_no_signal(d, s) ==
    LET timer == IF d.blank = "unset" THEN "armed" ELSE d.blank
        shown == UNION {IF o.rc = 0 THEN us_drm_expose_stub(o.drm, o.screen) ELSE {o} :
                           o \in us_drm_wait_for_vsync(d, s)}
    IN  WithTimer(IF timer = "armed" THEN shown ELSE us_drm_dpms_power_off(d, s), timer)

\* The call makes one of its outcomes the state.
Does(outcomes, rc) ==
    \E o \in outcomes : drm' = o.drm /\ screen' = o.screen /\ rc = o.rc

-----------------------------------------------------------------------------
(* The display and the time *)

\* The controller finishes a page flip: the new frame is shown.
FlipDone ==
    /\ screen.next # NoFrame
    /\ screen' = [front |-> screen.next, next |-> NoFrame, event |-> TRUE]
    /\ UNCHANGED <<drm, plugged>>

\* blank_after seconds are over.
BlankTimer ==
    /\ drm.blank = "armed"
    /\ drm' = [drm EXCEPT !.blank = "expired"]
    /\ UNCHANGED <<screen, plugged>>

CablePulled ==
    /\ faulty
    /\ plugged' = ~plugged
    /\ UNCHANGED <<drm, screen>>
=============================================================================
