-------------------------------- MODULE V4p --------------------------------
(***************************************************************************)
(* v4p/main.c: the program that passes the captured video through to the   *)
(* display. It composes Capture and Drm: one thread opens the devices,     *)
(* shows a stub while there is no signal or while uStreamer is online, and *)
(* otherwise exposes each captured buffer on the display and gives the     *)
(* previous one back to the capture device. A second thread follows        *)
(* uStreamer's socket; a signal handler asks the first one to stop.        *)
(***************************************************************************)
EXTENDS Drm

VARIABLES
    vpc,      \* where _main_loop() is
    prev_hw,  \* prev_hw, a buffer or -1
    hw,       \* the buffer just grabbed, or -1
    online,   \* _g_ustreamer_online
    stop      \* _g_stop

mainVars == <<vpc, prev_hw, hw>>
flagVars == <<online, stop>>
vars == <<captureVars, drmVars, mainVars, flagVars>>

Init ==
    /\ CaptureInit
    /\ DrmInit
    /\ vpc = "top"
    /\ prev_hw = -1
    /\ hw = -1
    /\ online = FALSE
    /\ stop = FALSE

TypeOK ==
    /\ CaptureTypeOK
    /\ DrmTypeOK
    /\ vpc \in {"top", "stub", "busy", "busy_expose", "capture", "no_signal",
                "reopen", "live", "release", "grab", "expose", "give_back",
                "close", "closed", "done"}
    /\ prev_hw \in -1 .. MaxBufs - 1
    /\ hw \in -1 .. MaxBufs - 1
    /\ online \in BOOLEAN /\ stop \in BOOLEAN

\* CHECK(): a negative code leads to the label close.
Check(rc, next) == vpc' = IF rc < 0 THEN "close" ELSE next

\* A call of the display library from pc; the capture device is left alone.
DrmCall(pc, outcomes, next) ==
    /\ vpc = pc
    /\ \E rc \in -2 .. 3 : Does(outcomes, rc) /\ Check(rc, next)
    /\ UNCHANGED <<captureVars, plugged, prev_hw, hw, flagVars>>

\* while (!_g_stop) of the outer loop; the devices are destroyed, not closed.
Top ==
    /\ vpc = "top"
    /\ vpc' = IF stop THEN "done" ELSE IF drm.opened <= 0 THEN "stub" ELSE "busy"
    /\ UNCHANGED <<captureVars, drmVars, prev_hw, hw, flagVars>>

OpenStub == DrmCall("stub", us_drm_open(drm, screen, FALSE), "busy")

\* The stream is being watched online, so this program only shows a message.
WaitBusy == online /\ DrmCall("busy", us_drm_wait_for_vsync(drm, screen), "busy_expose")
ExposeBusy == DrmCall("busy_expose", us_drm_expose_stub(drm, screen), "top")

OpenCapture ==
    /\ vpc = "busy"
    /\ ~online
    /\ \E rc \in {0, -1} :
          /\ us_capture_open(rc)
          /\ vpc' = IF rc < 0 THEN "no_signal" ELSE "reopen"
    /\ UNCHANGED <<drmVars, prev_hw, hw, flagVars>>

NoSignal == DrmCall("no_signal", us_drm_ensure_no_signal(drm, screen), "top")

\* The display is closed and opened again for the capture.
Reopen ==
    DrmCall("reopen", UNION {us_drm_open(closed.drm, closed.screen, TRUE) :
                                closed \in us_drm_close(drm, screen)}, "live")

\* The head of the inner loop
LeaveLive ==
    /\ vpc = "live"
    /\ stop \/ online
    /\ vpc' = "close"
    /\ UNCHANGED <<captureVars, drmVars, prev_hw, hw, flagVars>>

WaitLive ==
    /\ ~stop /\ ~online
    /\ DrmCall("live", us_drm_wait_for_vsync(drm, screen), "release")


ReleasePrevious ==
    /\ vpc = "release"
    /\ IF prev_hw >= 0
       THEN \E rc \in {0, -1} :
               /\ us_capture_hwbuf_release(prev_hw, rc)
               /\ Check(rc, "grab")
               /\ prev_hw' = IF rc < 0 THEN prev_hw ELSE -1
       ELSE /\ vpc' = "grab"
            /\ UNCHANGED <<captureVars, prev_hw>>
    /\ UNCHANGED <<drmVars, hw, flagVars>>

Grab ==
    /\ vpc = "grab"
    /\ \E rc \in {-1, -7} \cup (0 .. MaxBufs - 1) :
          /\ us_capture_hwbuf_grab(rc)
          /\ vpc' = CASE rc >= 0 -> "expose"
                      [] rc = -7 -> "live"
                      [] OTHER -> "close"
          /\ hw' = IF rc >= 0 THEN rc ELSE -1
    /\ UNCHANGED <<drmVars, prev_hw, flagVars>>

\* Live video: the buffer stays grabbed until the next sync.
ExposeLive ==
    /\ vpc = "expose"
    /\ drm.opened = 0
    /\ \E rc \in -2 .. 0 :
          /\ Does(us_drm_expose_dma(drm, screen, hw), rc)
          /\ Check(rc, "live")
          /\ prev_hw' = IF rc < 0 THEN prev_hw ELSE hw
    /\ hw' = -1
    /\ UNCHANGED <<captureVars, plugged, flagVars>>

\* A capture the display cannot show
ExposeStub ==
    /\ drm.opened # 0
    /\ DrmCall("expose", us_drm_expose_stub(drm, screen), "give_back")

GiveBack ==
    /\ vpc = "give_back"
    /\ \E rc \in {0, -1} : us_capture_hwbuf_release(hw, rc) /\ Check(rc, "live")
    /\ hw' = -1
    /\ UNCHANGED <<drmVars, prev_hw, flagVars>>

\* Mutated form of CloseOrder: the capture device goes first.
CloseOrderSwapped == <<"capture", "drm">>

\* The label close: the display lets go of the buffers before they are freed.
CloseOrder == <<"drm", "capture">>

CloseDevice(which) ==
    \/ /\ which = "drm"
       /\ Does(us_drm_close(drm, screen), 0)
       /\ UNCHANGED <<captureVars, plugged>>
    \/ /\ which = "capture"
       /\ us_capture_close
       /\ UNCHANGED drmVars

CloseFirst ==
    /\ vpc = "close"
    /\ CloseDevice(CloseOrder[1])
    /\ vpc' = "closed"
    /\ prev_hw' = -1
    /\ hw' = -1
    /\ UNCHANGED flagVars

CloseSecond ==
    /\ vpc = "closed"
    /\ CloseDevice(CloseOrder[2])
    /\ vpc' = "top"
    /\ UNCHANGED <<prev_hw, hw, flagVars>>

MainStep ==
    \/ Top \/ OpenStub \/ WaitBusy \/ ExposeBusy \/ OpenCapture \/ NoSignal
    \/ Reopen \/ LeaveLive \/ WaitLive \/ ReleasePrevious \/ Grab
    \/ ExposeLive \/ ExposeStub \/ GiveBack \/ CloseFirst \/ CloseSecond

\* _follower_thread(): uStreamer's socket accepts a connection or not.
Follow ==
    /\ vpc # "done"
    /\ online' = ~online
    /\ UNCHANGED <<captureVars, drmVars, mainVars, stop>>

\* _signal_handler()
Signal ==
    /\ ~stop
    /\ stop' = TRUE
    /\ UNCHANGED <<captureVars, drmVars, mainVars, online>>

World ==
    \/ (SourceSwitched \/ FaultsEnd) /\ UNCHANGED <<drmVars, mainVars, flagVars>>
    \/ (FlipDone \/ BlankTimer \/ CablePulled)
          /\ UNCHANGED <<captureVars, mainVars, flagVars>>

Next == MainStep \/ Follow \/ Signal \/ World

Spec == Init /\ [][Next]_vars

\* The program is scheduled, the display finishes its flips and time passes.
FairSpec ==
    /\ Spec
    /\ WF_vars(MainStep)
    /\ WF_vars(FlipDone /\ UNCHANGED <<captureVars, mainVars, flagVars>>)
    /\ WF_vars(BlankTimer /\ UNCHANGED <<captureVars, mainVars, flagVars>>)

-----------------------------------------------------------------------------
\* A device that is closed holds nothing: the capture device as stated by
\* CaptureHoldsNothing, the display no descriptor and no saved CRTC, and nothing of
\* the program's stays on the screen or is flipped to it, wherever an open failed
\* and although the call that restores the screen may fail. (It is then dark, no
\* matter what it showed before the program; and "lost", the mapping of a stub
\* buffer whose set-up failed halfway, does stay.) What is saved to be restored is
\* never a picture of the program itself, over any number of openings.
DevicesHoldNothing ==
    /\ CaptureHoldsNothing
    /\ ~drm.fd => /\ drm.os \subseteq {"lost"}
                  /\ screen.front \in {Console, NoFrame}
                  /\ screen.next = NoFrame
    /\ drm.crtc \in {Unsaved, Console, NoFrame}

\* The assertions of drm.c: us_drm_open() finds the device closed, a stub is
\* shown only on a display opened for one and live video only on one opened for
\* it, with a frame buffer for the captured one; a flip that is waited for has
\* an open device.
DrmAssertsHold ==
    /\ vpc = "stub" => ~drm.fd
    /\ vpc \in {"busy", "busy_expose", "no_signal"} => drm.fd /\ drm.opened > 0
    /\ vpc \in {"live", "expose", "give_back"} => drm.fd /\ drm.opened >= 0
    /\ vpc = "expose" /\ drm.opened = 0 => hw < drm.n_bufs
    /\ drm.exposing => drm.fd

\* A buffer of the capture device that the display is about to show is not the
\* driver's to fill, and what it shows or is about to show is a buffer that the
\* capture device still has: _main_loop() waits for a flip before it gives the
\* buffer flipped to back, and closes the display first. (From that sync on the
\* buffer is on the screen and the driver's at once: see ShownIsGrabbed.)
FlipIsSafe ==
    /\ drm.source = "dma" => cap.open /\ drm.n_bufs = cap.n_bufs
    /\ screen.next[1] = "dma" => cap.bufs[screen.next[2]].grabbed
    /\ \A f \in {screen.front, screen.next} :
          f[1] = "dma" => drm.source = "dma" /\ f[2] < cap.n_bufs

\* The same for what the display shows. The code does not promise it: prev_hw is
\* given back when the flip to it is done, and us_drm_open() shows buffer 0 as the
\* driver has it.
ShownIsGrabbed == screen.front[1] = "dma" => cap.bufs[screen.front[2]].grabbed

Quiet == ~faulty /\ plugged /\ ~online /\ ~stop

\* Once the faults are over and the source is on, the program finds its way
\* back, whatever state they left it in, and frames go on being shown.
VideoComesBack == <>[](Quiet /\ signal) => []<>(screen.next # NoFrame)

\* Without a signal the display is turned off after a while and stays so.
DisplayTurnsOff == <>[](Quiet /\ ~signal) => <>[](drm.dpms = 0)
=============================================================================
