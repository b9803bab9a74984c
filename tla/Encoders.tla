------------------------------ MODULE Encoders ------------------------------
(***************************************************************************)
(* ustreamer/encoder.c, ustreamer/m2m.c and the H264 half of               *)
(* ustreamer/stream.c, on top of Capture: the encoders that live through   *)
(* the capture sessions of the stream.                                     *)
(*                                                                         *)
(* The JPEG encoder is opened and closed with every session; the array of  *)
(* its M2M encoders stays. The H264 encoder is a memory-to-memory device   *)
(* that is configured for the frames it gets and configured again whenever *)
(* their geometry changes: the captured ones while the stream is online    *)
(* (as DMA buffers if they can be had), the blank picture while it is not. *)
(* It is used by one thread at a time. Every call to the device may fail.  *)
(***************************************************************************)
EXTENDS Capture, Sequences

CONSTANTS
    EncType,    \* enc->type: "CPU", "HW" or "M2M"
    NWorkers,   \* enc->n_workers
    Blank       \* the geometry of the blank picture

ASSUME EncTypeAssumption == EncType \in {"CPU", "HW", "M2M"}
ASSUME NWorkersAssumption == NWorkers \in Nat \ {0}

VARIABLES
    enc,      \* us_encoder_runtime_s
    m2m,      \* us_m2m_encoder_runtime_s of run->h264_enc
    dev,      \* the encoding device behind it
    frame,    \* the frame being encoded
    hpc,      \* where _stream_encode_expose_h264() is
    wantKey,  \* run->h264_key_requested
    memKey,   \* key_requested of the H264 sink
    shown     \* online of the last picture encoded, -1 before one (ghost)

m2mVars == <<m2m, dev>>
callVars == <<frame, hpc>>
keyVars == <<wantKey, memKey, shown>>
encodersVars == <<captureVars, enc, m2mVars, callVars, keyVars>>

\* asked is a ghost: a request of a client was pending when the frame was taken up.
EmptyFrame == [geometry |-> NoGeometry, dma |-> FALSE, online |-> 0, buf |-> -1,
               asked |-> FALSE, force |-> FALSE, result |-> "none", key |-> FALSE]

\* A device nobody has opened: nothing queued, nothing encoded
Off == [input |-> "none", done |-> FALSE, outputs |-> <<>>, fresh |-> FALSE]

\* us_m2m_h264_encoder_init(): a record without a device
m2m_encoder_init == [ready |-> FALSE, geometry |-> NoGeometry, dma |-> FALSE,
                     last_online |-> -1, os |-> {}]

EncodersInit ==
    /\ CaptureInit
    /\ enc = [type |-> EncType, pool |-> 0, n_m2ms |-> 0, m2ms |-> 0]
    /\ m2m = m2m_encoder_init
    /\ dev = Off
    /\ frame = EmptyFrame
    /\ hpc = "idle"
    /\ wantKey = FALSE
    /\ memKey = FALSE
    /\ shown = -1

EncodersTypeOK ==
    /\ CaptureTypeOK
    /\ enc.type \in {"CPU", "HW", "M2M"}
    /\ enc.pool \in 0 .. NWorkers
    /\ m2m.ready \in BOOLEAN
    /\ m2m.last_online \in -1 .. 1
    /\ m2m.os \subseteq {"fd", "input", "output", "lost"}
    /\ dev.input \in {"none", "empty", "current", "earlier"}
    /\ hpc \in {"idle", "send", "wait", "put"}
    /\ wantKey \in BOOLEAN /\ memKey \in BOOLEAN
    /\ shown \in -1 .. 1

-----------------------------------------------------------------------------
(* The JPEG encoder *)

IsJpeg == cap'.geometry.format = "JPEG"

\* The type us_encoder_open() settles on: (M)JPEG is only copied, and only
\* (M)JPEG can be.
TypeFor ==
    IF IsJpeg THEN "HW" ELSE IF EncType = "HW" THEN "CPU" ELSE EncType

WorkersFor ==
    LET least == IF NWorkers < cap'.n_bufs THEN NWorkers ELSE cap'.n_bufs
    IN  IF IsJpeg THEN 1 ELSE least

\* us_encoder_open(): the array run->m2ms is allocated by the first session
\* that needs it, for as many encoders as that session has workers; a session
\* with more workers makes the missing ones.
us_encoder_open ==
    /\ enc.pool = 0
    /\ enc' = [type |-> TypeFor, pool |-> WorkersFor,
               m2ms |-> IF TypeFor = "M2M" /\ enc.m2ms = 0 THEN WorkersFor ELSE enc.m2ms,
               n_m2ms |-> IF TypeFor = "M2M" /\ enc.n_m2ms < WorkersFor
                          THEN WorkersFor ELSE enc.n_m2ms]

\* us_encoder_close()
us_encoder_close == enc' = [enc EXCEPT !.pool = 0]

-----------------------------------------------------------------------------
(* The sessions of us_stream_loop() *)

\* A session begins; a failed attempt shows the blank picture (BlankFrame).
StartSession ==
    /\ hpc = "idle"
    /\ ~cap.open
    /\ \/ us_capture_open(0) /\ us_encoder_open
       \/ us_capture_open(-1) /\ UNCHANGED enc
    /\ UNCHANGED <<m2mVars, callVars, keyVars>>

\* It ends: the threads are gone, then the encoder and the device are closed.
EndSession ==
    /\ hpc = "idle"
    /\ cap.open
    /\ us_encoder_close
    /\ us_capture_close
    /\ UNCHANGED <<m2mVars, callVars, keyVars>>

-----------------------------------------------------------------------------
(* us_m2m_encoder_compress() *)

\* _m2m_encoder_cleanup() on the record
Cleaned(m) == [m EXCEPT !.ready = FALSE, !.last_online = -1,
                        !.os = @ \ {"fd", "input", "output"}]

\* Closing the device ends what it is doing.
DeviceAfter(m) == IF "fd" \in m.os THEN dev ELSE Off

\* _m2m_encoder_ensure() for frame f; the parameters are stored before the
\* device is opened, so a failure is not tried again for the same parameters.
Configured(m, f) == m.geometry = f.geometry /\ m.dma = f.dma

Prepared(f) ==
    LET fresh == [Cleaned(m2m) EXCEPT !.geometry = f.geometry, !.dma = f.dma]
        input == IF f.dma THEN {} ELSE {"input"}
        \* the places where a failure finds something to give back; a buffer
        \* that was mapped but could not be queued is not counted
        failed == {[fresh EXCEPT !.os = @ \cup os] :
                      os \in {{}, {"fd"}, {"fd", "lost"}, {"fd"} \cup input,
                              {"fd", "output"} \cup input}}
    IN  {[fresh EXCEPT !.ready = TRUE, !.os = @ \cup {"fd", "output"} \cup input]}
           \cup (IF faulty THEN {Cleaned(m) : m \in failed} ELSE {})

\* The device as STREAMON leaves it: without DMA its empty input buffer is
\* queued, and it may begin with an output of no input (with time stamp 0).
Started(f) ==
    {[input |-> IF f.dma THEN "none" ELSE "empty", done |-> FALSE,
      outputs |-> o, fresh |-> TRUE] : o \in {<<>>, <<"empty">>}}

Older(content) == IF content = "current" THEN "earlier" ELSE content

\* Whatever is in the device when a new frame comes belongs to an older one.
Aged(d) == [d EXCEPT !.input = Older(@), !.outputs = [i \in DOMAIN @ |-> Older(@[i])]]

\* Mutated form of Forced: the request of a sink client is forgotten.
ForcedByStateOnly(f) == {m2m.last_online # f.online, TRUE}

\* force_key, as the caller, the change between live and blank and, at any
\* time, half a second without frames ask for it
Forced(f) == {f.force \/ m2m.last_online # f.online, TRUE}

\* _stream_encode_expose_h264() takes the request and calls
\* us_m2m_encoder_compress(), which makes sure that the device is set up.
Begin(f) ==
    /\ hpc = "idle"
    /\ wantKey' = FALSE
    /\ IF Configured(m2m, f)
       THEN m2m' = m2m /\ dev' = Aged(dev)
       ELSE \E m \in Prepared(f) :
               /\ m2m' = m
               /\ IF m.ready THEN dev' \in Started(f) ELSE dev' = DeviceAfter(m)
    /\ \E force \in Forced([f EXCEPT !.force = @ \/ wantKey]) :
          frame' = [f EXCEPT !.force = force, !.asked = wantKey]
    /\ hpc' = IF m2m'.ready THEN "send" ELSE "put"
    /\ UNCHANGED <<enc, memKey, shown>>

\* A frame of the capture device; (M)JPEG is decoded to a frame in memory.
LiveFrame(b) ==
    /\ cap.open
    /\ us_capture_hwbuf_grab(b)
    /\ Begin([EmptyFrame EXCEPT
                 !.geometry = IF cap.geometry.format = "JPEG"
                              THEN [cap.geometry EXCEPT !.format = "RGB24"]
                              ELSE cap.geometry,
                 !.dma = cap.geometry.format # "JPEG" /\ cap.bufs[b].dma_fd # NoFd,
                 !.online = 1, !.buf = b])

\* The blank picture while there is no device: always with a key frame
BlankFrame ==
    /\ ~cap.open
    /\ Begin([EmptyFrame EXCEPT !.geometry = Blank, !.force = TRUE])
    /\ UNCHANGED captureVars

\* "Encoder destroyed due an error (compress)"
Failed ==
    /\ m2m' = Cleaned(m2m)
    /\ dev' = DeviceAfter(Cleaned(m2m))
    /\ hpc' = "put"
    /\ UNCHANGED <<captureVars, enc, frame, keyVars>>

\* The input is queued; without DMA the buffer has to come back first.
Send ==
    /\ hpc = "send"
    /\ m2m.dma \/ dev.done
    /\ dev' = [dev EXCEPT !.input = "current", !.done = FALSE]
    /\ hpc' = "wait"
    /\ UNCHANGED <<captureVars, enc, m2m, frame, keyVars>>

\* Mutated form of IsMine: the first output is taken.
IsMineAny(output) == TRUE

\* The time stamps of input and output agree.
IsMine(output) == output = "current"

\* Mutated form of InputDone: the DMA input is not taken back.
InputDoneKept(d) == d.done

\* Whether the device's input buffer is still to be dequeued after an output
InputDone(d) == IF m2m.dma THEN FALSE ELSE d.done

\* What may come out as a key frame: the frame that was queued after the control
\* V4L2_CID_MPEG_VIDEO_FORCE_KEY_FRAME, the first of a device, any after a GOP
KeyChoices == {frame.force \/ dev.fresh, TRUE}

\* poll() reports an output: a DMA input is taken back, then the output is
\* fetched and, if it is not the one of this frame, waited for again; an output
\* without an input may have been the one the device begins with.
Fetch ==
    /\ hpc = "wait"
    /\ dev.outputs # <<>>
    /\ m2m.dma => dev.done \/ dev.input = "none"
    /\ LET output == Head(dev.outputs)
       IN  /\ \E fresh \in IF IsMine(output) THEN {FALSE} ELSE {FALSE, dev.fresh} :
                 dev' = [dev EXCEPT !.outputs = Tail(@), !.done = InputDone(dev),
                                    !.fresh = fresh]
           /\ IF IsMine(output)
              THEN /\ \E key \in KeyChoices :
                         frame' = [frame EXCEPT !.result = output, !.key = key]
                   /\ m2m' = [m2m EXCEPT !.last_online = frame.online]
                   /\ shown' = frame.online
                   /\ hpc' = "put"
              ELSE UNCHANGED <<frame, m2m, shown, hpc>>
    /\ UNCHANGED <<captureVars, enc, wantKey, memKey>>

\* Any call fails, or the encoder takes longer than a second.
CompressFails ==
    /\ hpc \in {"send", "wait"}
    /\ faulty
    /\ Failed

\* The device encodes what is queued.
DeviceEncodes ==
    /\ dev.input # "none"
    /\ dev' = [dev EXCEPT !.outputs = Append(@, dev.input), !.input = "none",
                          !.done = TRUE]
    /\ UNCHANGED <<captureVars, enc, m2m, callVars, keyVars>>

-----------------------------------------------------------------------------
(* us_memsink_server_put() and the end of the frame *)

\* The frame goes to the sink, unless the sink is locked for too long; its
\* buffer goes back to the driver.
Put ==
    /\ hpc = "put"
    /\ \/ /\ frame.result # "none"
          /\ memKey' = (memKey /\ ~frame.key)
          /\ wantKey' = memKey'
       \/ /\ frame.result = "none" \/ faulty
          /\ UNCHANGED keyVars
    /\ IF frame.buf >= 0
       THEN us_capture_hwbuf_release(frame.buf, 0)
       ELSE UNCHANGED captureVars
    /\ frame' = EmptyFrame
    /\ hpc' = "idle"
    /\ UNCHANGED <<enc, m2mVars, shown>>

\* A client of the sink asks for a key frame.
AskKey ==
    /\ ~memKey
    /\ memKey' = TRUE
    /\ UNCHANGED <<captureVars, enc, m2mVars, callVars, wantKey, shown>>

EncodersWorld ==
    /\ SourceSwitched \/ FaultsEnd
    /\ UNCHANGED <<enc, m2mVars, callVars, keyVars>>

Compress == Send \/ Fetch \/ CompressFails \/ Put

EncodersNext ==
    \/ StartSession \/ EndSession
    \/ \E b \in 0 .. MaxBufs - 1 : LiveFrame(b)
    \/ BlankFrame
    \/ Compress \/ DeviceEncodes \/ AskKey \/ EncodersWorld

EncodersSpec == EncodersInit /\ [][EncodersNext]_encodersVars

\* The thread that encodes is scheduled and the device works.
EncodersFairSpec == EncodersSpec /\ WF_encodersVars(Compress) /\ WF_encodersVars(DeviceEncodes)

-----------------------------------------------------------------------------
\* Every worker of the JPEG pool has its encoder inside run->m2ms: the comment
\* in us_encoder_open() promises that a later session adds what it needs.
M2msFit == enc.n_m2ms <= enc.m2ms

\* What is exposed is the encoding of the frame that was just sent, not the
\* device's first output nor one of a call that failed before.
EncodedIsOfThisFrame == frame.result \in {"none", "current"}

\* Once us_m2m_encoder_compress() has returned, no buffer of the capture device
\* is left in the encoder: the caller gives it back to the driver, which fills
\* it again.
NoBufferLeftBehind ==
    hpc \in {"idle", "put"} /\ m2m.dma => dev.input = "none" /\ ~dev.done

\* An encoder that is not ready is closed: no failure in preparing it or while
\* compressing keeps the device or the buffers (one being set up excepted), and
\* the same holds for the capture device.
EncoderHoldsNothing ==
    /\ ~m2m.ready => m2m.os \subseteq {"lost"} /\ dev = Off
    /\ CaptureHoldsNothing

\* As long as frames go on being exposed, a key frame asked for by a client of
\* the sink is delivered, although the request is dropped by run when a frame
\* fails and the sink may be locked.
KeyIsServed == ([]<>(hpc = "put" /\ frame.result # "none") /\ <>[]~faulty) => (memKey ~> ~memKey)
=============================================================================
