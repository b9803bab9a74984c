---------------------------- MODULE JanusPlugin ----------------------------
(***************************************************************************)
(* janus/src/plugin.c, client.c and acap.c: the plugin that sends the H264 *)
(* frames of uStreamer's memory sink, and the captured sound, to WebRTC    *)
(* sessions and plays their microphones.                                   *)
(*                                                                         *)
(* Threads: the callbacks Janus makes (on threads of its own), the reader  *)
(* of the sink, the RTP packer, the sound capture (itself two threads) and *)
(* the playback; and three threads for every session. The list of sessions *)
(* is guarded by three mutexes: whoever changes it takes all of them, in   *)
(* one order, whoever walks through it takes one. A frame is one packet    *)
(* here; of the packets only key frames are told apart.                    *)
(***************************************************************************)
EXTENDS Integers, Sequences, FiniteSets

CONSTANTS
    Sessions,    \* sessions Janus may create
    Callbacks,   \* its threads that call the plugin
    RingSize,    \* capacity of _g_video_ring
    ClientRing,  \* capacity of a client's video_ring
    Visitors,    \* the sessions that come to each kind of host: "sink" has
                 \* uStreamer's memory sink, "sound" devices to capture and to
                 \* play, "bare" neither
    NoOne        \* holder of a free mutex

ASSUME RingsAssumption == RingSize \in Nat \ {0} /\ ClientRing \in Nat \ {0}
ASSUME ThreadsAssumption == Callbacks \cap {"rtp", "acap", "aplay"} = {}
ASSUME NoOneAssumption ==
    NoOne \notin Sessions \cup Callbacks \cup {"rtp", "acap", "aplay"}
ASSUME VisitorsAssumption ==
    /\ DOMAIN Visitors \subseteq {"sink", "sound", "bare"}
    /\ \A w \in DOMAIN Visitors : Visitors[w] \subseteq Sessions

VARIABLES
    clients,      \* _g_clients
    client,       \* the flags of us_janus_client_s
    threads,      \* the video, acap and aplay threads of every session
    packets,      \* the video_ring of every session
    sound,        \* whether acap_ring, aplay_enc_ring, aplay_pcm_ring hold some
    lock,         \* who holds _g_video_lock, _g_acap_lock, _g_aplay_lock
    has,          \* _g_has_watchers, _g_has_listeners, _g_has_speakers
    keyRequired,  \* _g_key_required
    ring,         \* _g_video_ring
    memKey,       \* key_requested of the sink: "no", "asked", and "due" when
                  \* the next frame will be the key frame
    call,         \* the callback every thread of Janus is in
    sink,         \* where _video_sink_thread() is
    rtp,          \* where _video_rtp_thread() is, and its clients to go
    acap,         \* where _acap_thread() is, its clients to go, and us_acap_s
    aplay,        \* where _aplay_thread() is, its clients to go, its device
    plugin,       \* where _plugin_destroy() is; _g_stop is set unless "on"
    world,        \* what the host has (environment)
    needsKey,     \* the browsers that cannot decode without a key frame
    dropped       \* the last packet did not fit into a ring

clientVars == <<clients, client, threads>>
ringVars == <<packets, sound, ring, dropped>>
videoVars == <<sink, rtp>>
audioVars == <<acap, aplay>>
keyVars == <<keyRequired, memKey, needsKey>>
pluginVars == <<plugin, world>>
vars == <<clientVars, ringVars, lock, has, keyVars, call, videoVars, audioVars, pluginVars>>

Kinds == {"video", "acap", "aplay"}
Frames == {"key", "delta"}
NewClient == [transmit |-> FALSE, acap |-> FALSE, aplay |-> FALSE, stop |-> FALSE]
Idle == [op |-> "none", session |-> NoOne, pc |-> "none", arg |-> FALSE]
NoAcap == [pc |-> "poll", todo |-> {}, open |-> FALSE, stop |-> FALSE,
           pcm |-> FALSE, enc |-> FALSE]
Stop == plugin # "on"   \* _STOP
WithAudio == world = "sound"   \* _g_rtpa != NULL, aplay_dev_name != NULL

Init ==
    /\ clients = {}
    /\ client = [s \in Sessions |-> NewClient]
    /\ threads = [s \in Sessions |-> [k \in Kinds |-> "none"]]
    /\ packets = [s \in Sessions |-> <<>>]
    /\ sound = [s \in Sessions |-> {}]
    /\ lock = [k \in Kinds |-> NoOne]
    /\ has = [watchers |-> FALSE, listeners |-> FALSE, speakers |-> FALSE]
    /\ keyRequired = FALSE
    /\ ring = <<>>
    /\ memKey = "no"
    /\ call = [t \in Callbacks |-> Idle]
    /\ sink = "poll"
    /\ rtp = [pc |-> "get", todo |-> {}]
    /\ acap = NoAcap
    /\ aplay = [pc |-> "mix", todo |-> {}, open |-> FALSE]
    /\ plugin = "on"
    /\ needsKey = {}
    /\ dropped = FALSE
    /\ world \in DOMAIN Visitors

TypeOK ==
    /\ clients \subseteq Sessions
    /\ client \in [Sessions -> [transmit : BOOLEAN, acap : BOOLEAN,
                                aplay : BOOLEAN, stop : BOOLEAN]]
    /\ threads \in [Sessions -> [Kinds -> {"none", "run", "relay", "exited"}]]
    /\ packets \in [Sessions -> Seq(Frames)]
    /\ \A s \in Sessions : Len(packets[s]) <= ClientRing
    /\ sound \in [Sessions -> SUBSET {"acap", "enc", "pcm"}]
    /\ lock \in [Kinds -> Callbacks \cup {NoOne, "rtp", "acap", "aplay"}]
    /\ has \in [watchers : BOOLEAN, listeners : BOOLEAN, speakers : BOOLEAN]
    /\ keyRequired \in BOOLEAN
    /\ ring \in Seq(Frames) /\ Len(ring) <= RingSize
    /\ memKey \in {"no", "asked", "due"}
    /\ sink \in {"poll", "wait", "store", "exited"}
    /\ plugin \in {"on", "join", "clients", "gone"}
    /\ needsKey \subseteq Sessions
    /\ dropped \in BOOLEAN
    /\ world \in DOMAIN Visitors

-----------------------------------------------------------------------------
(* The callbacks of Janus *)

\* The mutexes an operation takes, in their order (_LOCK_ALL, _LOCK_APLAY)
Locks(op) == IF op = "incoming_rtp" THEN <<"aplay">> ELSE <<"video", "acap", "aplay">>

\* Janus calls in: create_session() for a session it does not have, the others
\* for any; _IF_DISABLED is looked at before the mutexes are taken.
Call(t, op, s, arg) ==
    /\ call[t] = Idle
    /\ ~Stop
    /\ op = "create_session" => /\ s \notin clients
                                /\ \A u \in Callbacks : call[u].session # s
    /\ op = "destroy_session" => \A u \in Callbacks :
                                    call[u].session = s => call[u].op # "destroy_session"
    /\ call' = [call EXCEPT ![t] = [op |-> op, session |-> s, pc |-> Locks(op)[1], arg |-> arg]]
    /\ UNCHANGED <<clientVars, ringVars, lock, has, keyVars, videoVars, audioVars, pluginVars>>

\* Mutated form of NextLock: the mutex of the captured sound is forgotten.
NextLockShort(op, k) == IF k = "aplay" THEN "body" ELSE "aplay"

\* _LOCK_ALL: the mutex after this one
NextLock(op, k) == IF k = "aplay" THEN "body" ELSE IF k = "acap" THEN "aplay" ELSE "acap"

TakeLock(t) ==
    \E k \in Kinds :
        /\ call[t].pc = k
        /\ lock[k] = NoOne
        /\ lock' = [lock EXCEPT ![k] = t]
        /\ call' = [call EXCEPT ![t].pc = NextLock(call[t].op, k)]
        /\ UNCHANGED <<clientVars, ringVars, has, keyVars, videoVars, audioVars, pluginVars>>

\* The callback ends: its mutexes are released.
Return(t) ==
    /\ call' = [call EXCEPT ![t] = Idle]
    /\ lock' = [k \in Kinds |-> IF lock[k] = t THEN NoOne ELSE lock[k]]

InBody(t, op) == call[t].pc = "body" /\ call[t].op = op

\* _plugin_create_session() and us_janus_client_init()
create_session(t) ==
    LET s == call[t].session
    IN  /\ InBody(t, "create_session")
        /\ clients' = clients \cup {s}
        /\ client' = [client EXCEPT ![s] = NewClient]
        /\ threads' = [threads EXCEPT ![s] = [k \in Kinds |-> "run"]]
        /\ has' = [has EXCEPT !.watchers = TRUE]
        /\ Return(t)
        /\ UNCHANGED <<ringVars, keyVars, videoVars, audioVars, pluginVars>>

\* Mutated form of FlagsOf: the last client of the list decides.
FlagsOfLast(set, c) ==
    LET s == CHOOSE x \in set : TRUE
    IN  [watchers |-> set # {} /\ c[s].transmit,
         listeners |-> set # {} /\ c[s].acap,
         speakers |-> set # {} /\ c[s].aplay]

\* The flags as a walk through the list computes them
FlagsOf(set, c) ==
    [watchers |-> \E s \in set : c[s].transmit,
     listeners |-> \E s \in set : c[s].acap,
     speakers |-> \E s \in set : c[s].aplay]

\* Mutated form of AskedToStop: client->stop is not set.
AskedNothing(s) == client

\* atomic_store(&client->stop, true)
AskedToStop(s) == [client EXCEPT ![s].stop = TRUE]

\* _plugin_destroy_session(): the session leaves the list and its threads are
\* asked to stop (us_janus_client_destroy()), then they are joined.
destroy_session(t) ==
    LET s == call[t].session
    IN  /\ InBody(t, "destroy_session")
        /\ clients' = clients \ {s}
        /\ client' = IF s \in clients THEN AskedToStop(s) ELSE client
        /\ call' = [call EXCEPT ![t].pc = "join"]
        /\ UNCHANGED <<threads, ringVars, lock, has, keyVars, videoVars, audioVars, pluginVars>>

Joined(s) == \A k \in Kinds : threads[s][k] \in {"exited", "none"}

\* The client's rings and the client itself are freed.
Free(s) ==
    /\ client' = [client EXCEPT ![s] = NewClient]
    /\ threads' = [threads EXCEPT ![s] = [k \in Kinds |-> "none"]]
    /\ packets' = [packets EXCEPT ![s] = <<>>]
    /\ sound' = [sound EXCEPT ![s] = {}]
    /\ needsKey' = needsKey \ {s}

destroy_session_join(t) ==
    LET s == call[t].session
    IN  /\ call[t].pc = "join"
        /\ Joined(s)
        /\ Free(s)
        /\ has' = FlagsOf(clients, client)
        /\ Return(t)
        /\ UNCHANGED <<clients, ring, dropped, keyRequired, memKey, videoVars, audioVars, pluginVars>>

\* _set_transmit(): _plugin_setup_media() and _plugin_hangup_media(). A browser
\* that starts to receive needs a key frame first.
set_transmit(t) ==
    LET s == call[t].session
    IN  /\ InBody(t, "set_transmit")
        /\ client' = IF s \in clients THEN [client EXCEPT ![s].transmit = call[t].arg]
                                      ELSE client
        /\ has' = [has EXCEPT !.watchers = FlagsOf(clients, client').watchers]
        /\ needsKey' = IF s \in clients /\ call[t].arg /\ world = "sink"
                       THEN needsKey \cup {s} ELSE needsKey \ {s}
        /\ Return(t)
        /\ UNCHANGED <<clients, threads, ringVars, keyRequired, memKey, videoVars,
                       audioVars, pluginVars>>

\* The "watch" message: sound, and with it the microphone, if there is any. (The
\* message may ask for one without the other; here it asks for both or none.)
watch(t) ==
    LET s == call[t].session
        on == call[t].arg /\ WithAudio
    IN  /\ InBody(t, "watch")
        /\ client' = IF s \in clients THEN [client EXCEPT ![s].acap = on, ![s].aplay = on]
                                      ELSE client
        /\ has' = [FlagsOf(clients, client') EXCEPT !.watchers = has.watchers]
        /\ Return(t)
        /\ UNCHANGED <<clients, threads, ringVars, keyVars, videoVars, audioVars, pluginVars>>

\* us_janus_client_recv(): what the ring of the microphone holds after a packet;
\* a full ring drops it.
client_recv(s) ==
    IF s \in clients /\ client[s].transmit /\ client[s].aplay
    THEN [sound EXCEPT ![s] = @ \cup {"enc"}] ELSE sound

incoming_rtp(t) ==
    LET s == call[t].session
    IN  /\ InBody(t, "incoming_rtp")
        /\ sound' = client_recv(s)
        /\ Return(t)
        /\ UNCHANGED <<clientVars, packets, ring, dropped, has, keyVars, videoVars,
                       audioVars, pluginVars>>

\* _plugin_incoming_rtcp() with a PLI, or the "key_required" message: what a
\* browser without a key frame sends, again and again.
AskKey(s) ==
    /\ s \in needsKey
    /\ ~Stop
    /\ keyRequired' = TRUE
    /\ UNCHANGED <<clientVars, ringVars, lock, has, memKey, needsKey, call, videoVars,
                   audioVars, pluginVars>>

CallbackStep(t) ==
    \/ TakeLock(t) \/ create_session(t) \/ destroy_session(t)
    \/ destroy_session_join(t) \/ set_transmit(t) \/ watch(t) \/ incoming_rtp(t)

Calls ==
    \E t \in Callbacks, s \in Visitors[world] :
        \/ \E op \in {"create_session", "destroy_session"} : Call(t, op, s, FALSE)
        \/ \E arg \in BOOLEAN : Call(t, "set_transmit", s, arg)
        \/ WithAudio /\ \E arg \in BOOLEAN : Call(t, "watch", s, arg)
        \/ WithAudio /\ Call(t, "incoming_rtp", s, FALSE)

-----------------------------------------------------------------------------
(* Video: the sink, the packer and the sessions *)

\* The head of the loops of _video_sink_thread(): the sink is open only while
\* somebody watches, and opening it may fail.
SinkPoll ==
    /\ sink \in {"poll", "wait"}
    /\ sink' \in IF Stop THEN {"exited"}
                 ELSE IF has.watchers /\ sink = "poll" /\ world = "sink" THEN {"poll", "wait"}
                 ELSE IF ~has.watchers THEN {"poll"} ELSE {}
    /\ sink' # sink
    /\ UNCHANGED <<clientVars, ringVars, lock, has, keyVars, call, rtp, audioVars, pluginVars>>

\* Mutated form of KeyToMemory: the request of the plugin is not passed on.
KeyNotToMemory == IF memKey = "asked" THEN "asked" ELSE "no"

\* key_requested of the memory after us_memsink_fd_get_frame()
KeyToMemory == IF memKey = "asked" \/ keyRequired THEN "asked" ELSE "no"

\* ri >= 0 && frame->key
KeyStored(f, full) == f = "key" /\ ~full

\* A new frame is in the sink: it is read into the ring, or past it if the ring
\* is full, and a key frame is asked for at the same time.
SinkGet ==
    /\ sink = "wait"
    /\ ~Stop /\ has.watchers
    /\ \E f \in IF memKey = "due" THEN {"key"} ELSE Frames :
          LET full == Len(ring) = RingSize
          IN  /\ ring' = IF full THEN ring ELSE Append(ring, f)
              /\ dropped' = full
              /\ sink' = IF KeyStored(f, full) THEN "store" ELSE "wait"
    /\ memKey' = KeyToMemory
    /\ UNCHANGED <<clientVars, packets, sound, lock, has, keyRequired, needsKey, call,
                   rtp, audioVars, pluginVars>>

\* atomic_store(&_g_key_required, false): a request made since the frame was
\* read is lost.
SinkStore ==
    /\ sink = "store"
    /\ sink' = "wait"
    /\ keyRequired' = FALSE
    /\ UNCHANGED <<clientVars, ringVars, lock, has, memKey, needsKey, call, rtp,
                   audioVars, pluginVars>>

\* uStreamer makes the key frame it was asked for.
Encode ==
    /\ memKey = "asked"
    /\ memKey' = "due"
    /\ UNCHANGED <<clientVars, ringVars, lock, has, keyRequired, needsKey, call,
                   videoVars, audioVars, pluginVars>>

\* _video_rtp_thread(): a frame is taken, and the mutex
RtpGet ==
    /\ rtp.pc = "get"
    /\ IF Stop THEN rtp' = [rtp EXCEPT !.pc = "exited"]
       ELSE ring # <<>> /\ rtp' = [rtp EXCEPT !.pc = "lock"]
    /\ UNCHANGED <<clientVars, ringVars, lock, has, keyVars, call, sink, audioVars, pluginVars>>

\* The mutex a thread holds while it walks through the list
WalkLock(who) == IF who = "rtp" THEN "video" ELSE who

RtpLock ==
    /\ rtp.pc = "lock"
    /\ lock[WalkLock("rtp")] = NoOne
    /\ lock' = [lock EXCEPT ![WalkLock("rtp")] = "rtp"]
    /\ rtp' = [pc |-> "relay", todo |-> clients]
    /\ UNCHANGED <<clientVars, ringVars, has, keyVars, call, sink, audioVars, pluginVars>>

\* us_janus_client_send() for one client: a packet that does not fit is lost,
\* and the browser cannot go on without a key frame.
RtpRelay(s) ==
    /\ rtp.pc = "relay"
    /\ s \in rtp.todo
    /\ rtp' = [rtp EXCEPT !.todo = @ \ {s}]
    /\ LET full == Len(packets[s]) = ClientRing
       IN  IF ~client[s].transmit
           THEN UNCHANGED <<packets, dropped, needsKey>>
           ELSE /\ packets' = IF full THEN packets
                              ELSE [packets EXCEPT ![s] = Append(@, Head(ring))]
                /\ dropped' = full
                /\ needsKey' = IF full THEN needsKey \cup {s} ELSE needsKey
    /\ UNCHANGED <<clientVars, sound, ring, lock, has, keyRequired, memKey, call, sink,
                   audioVars, pluginVars>>

RtpUnlock ==
    /\ rtp.pc = "relay"
    /\ rtp.todo = {}
    /\ lock' = [lock EXCEPT ![WalkLock("rtp")] = NoOne]
    /\ ring' = Tail(ring)
    /\ rtp' = [rtp EXCEPT !.pc = "get"]
    /\ UNCHANGED <<clientVars, packets, sound, dropped, has, keyVars, call, sink,
                   audioVars, pluginVars>>

\* _video_thread() of a client: a packet is taken; if the session still
\* transmits it goes to Janus.
ClientVideo(s) ==
    /\ threads[s]["video"] = "run"
    /\ ~client[s].stop
    /\ packets[s] # <<>>
    /\ packets' = [packets EXCEPT ![s] = Tail(@)]
    /\ needsKey' = IF client[s].transmit /\ Head(packets[s]) = "key"
                   THEN needsKey \ {s} ELSE needsKey
    /\ UNCHANGED <<clientVars, sound, ring, dropped, lock, has, keyRequired, memKey, call,
                   videoVars, audioVars, pluginVars>>

\* _acap_thread() and _aplay_thread() of a client: sound is relayed to Janus,
\* the microphone decoded for the mixer.
ClientAudio(s, from, to) ==
    /\ threads[s][IF from = "acap" THEN "acap" ELSE "aplay"] = "run"
    /\ ~client[s].stop
    /\ from \in sound[s]
    /\ sound' = [sound EXCEPT ![s] = (@ \ {from}) \cup to]
    /\ UNCHANGED <<clientVars, packets, ring, dropped, lock, has, keyVars, call,
                   videoVars, audioVars, pluginVars>>

\* A thread of a client sees client->stop.
ClientExits(s, k) ==
    /\ threads[s][k] = "run"
    /\ client[s].stop
    /\ threads' = [threads EXCEPT ![s][k] = "exited"]
    /\ UNCHANGED <<clients, client, ringVars, lock, has, keyVars, call, videoVars,
                   audioVars, pluginVars>>

ClientStep(s) ==
    \/ ClientVideo(s)
    \/ ClientAudio(s, "acap", {}) \/ ClientAudio(s, "enc", {"pcm"})
    \/ \E k \in Kinds : ClientExits(s, k)

-----------------------------------------------------------------------------
(* Sound: capture and playback *)

\* _HAS_WATCHERS && _HAS_LISTENERS
Listened == has.watchers /\ has.listeners

\* us_acap_init(): the device is open and the two threads run, or one of its
\* calls fails and us_acap_destroy() takes back the others.
acap_init ==
    {[NoAcap EXCEPT !.pc = "loop", !.open = TRUE, !.pcm = TRUE, !.enc = TRUE], NoAcap}

\* The host has sound; if the device cannot be opened, it is tried again a second
\* later.
AcapOpen ==
    /\ WithAudio
    /\ acap.pc = "poll"
    /\ \/ Stop /\ acap' = [acap EXCEPT !.pc = "exited"]
       \/ ~Stop /\ Listened /\ acap' \in acap_init
    /\ UNCHANGED <<clientVars, ringVars, lock, has, keyVars, call, videoVars, aplay, pluginVars>>

\* Mutated form of AcapGoesOn: only _g_stop ends the capture.
AcapGoesOnAlways == ~Stop

\* The condition of the inner loop
AcapGoesOn == ~Stop /\ Listened

\* The inner loop is left because nobody listens or the capture stopped itself.
AcapLeave ==
    /\ acap.pc = "loop"
    /\ \/ ~AcapGoesOn
       \/ acap.stop   \* us_acap_get_encoded() < 0
    /\ acap' = [acap EXCEPT !.pc = "close", !.stop = TRUE]
    /\ UNCHANGED <<clientVars, ringVars, lock, has, keyVars, call, videoVars, aplay, pluginVars>>

\* _check_tc358743_acap(): the sound of the host is gone, or its rate changed.
AcapRateChanged ==
    /\ acap.pc = "loop"
    /\ AcapGoesOn
    /\ acap' = [acap EXCEPT !.pc = "close", !.stop = TRUE]
    /\ UNCHANGED <<clientVars, ringVars, lock, has, keyVars, call, videoVars, aplay, pluginVars>>

\* The device fails: _pcm_thread() ends and stops _encoder_thread() (whose own
\* errors end nothing).
AcapFails ==
    /\ acap.open /\ acap.pcm
    /\ acap' = [acap EXCEPT !.pcm = FALSE, !.stop = TRUE]
    /\ UNCHANGED <<clientVars, ringVars, lock, has, keyVars, call, videoVars, aplay, pluginVars>>

\* while (!atomic_load(&acap->stop))
AcapThread ==
    /\ acap.open /\ acap.stop
    /\ \/ acap.pcm /\ acap' = [acap EXCEPT !.pcm = FALSE]
       \/ acap.enc /\ acap' = [acap EXCEPT !.enc = FALSE]
    /\ UNCHANGED <<clientVars, ringVars, lock, has, keyVars, call, videoVars, aplay, pluginVars>>

\* us_acap_destroy() joins them and closes the device.
AcapClose ==
    /\ acap.pc = "close"
    /\ ~acap.pcm /\ ~acap.enc
    /\ acap' = NoAcap
    /\ UNCHANGED <<clientVars, ringVars, lock, has, keyVars, call, videoVars, aplay, pluginVars>>

\* A packet of sound is relayed under its mutex.
AcapLock ==
    /\ acap.pc = "loop"
    /\ AcapGoesOn /\ ~acap.stop
    /\ lock[WalkLock("acap")] = NoOne
    /\ lock' = [lock EXCEPT ![WalkLock("acap")] = "acap"]
    /\ acap' = [acap EXCEPT !.pc = "relay", !.todo = clients]
    /\ UNCHANGED <<clientVars, ringVars, has, keyVars, call, videoVars, aplay, pluginVars>>

AcapRelay ==
    /\ acap.pc = "relay"
    /\ \/ \E s \in acap.todo :
             /\ acap' = [acap EXCEPT !.todo = @ \ {s}]
             /\ sound' = IF client[s].transmit /\ client[s].acap
                         THEN [sound EXCEPT ![s] = @ \cup {"acap"}] ELSE sound
             /\ UNCHANGED lock
       \/ /\ acap.todo = {}
          /\ acap' = [acap EXCEPT !.pc = "loop"]
          /\ lock' = [lock EXCEPT ![WalkLock("acap")] = NoOne]
          /\ UNCHANGED sound
    /\ UNCHANGED <<clientVars, packets, ring, dropped, has, keyVars, call, videoVars,
                   aplay, pluginVars>>

\* _aplay_thread(): what the microphones have sent is mixed under the mutex.
AplayLock ==
    /\ WithAudio
    /\ aplay.pc = "mix"
    /\ IF Stop
       THEN aplay' = [pc |-> "exited", todo |-> {}, open |-> FALSE] /\ UNCHANGED lock
       ELSE /\ lock[WalkLock("aplay")] = NoOne
            /\ lock' = [lock EXCEPT ![WalkLock("aplay")] = "aplay"]
            /\ aplay' = [aplay EXCEPT !.pc = "walk", !.todo = clients]
    /\ UNCHANGED <<clientVars, ringVars, has, keyVars, call, videoVars, acap, pluginVars>>

AplayWalk ==
    /\ aplay.pc = "walk"
    /\ \/ \E s \in aplay.todo :
             /\ aplay' = [aplay EXCEPT !.todo = @ \ {s}]
             /\ sound' = [sound EXCEPT ![s] = @ \ {"pcm"}]
             /\ UNCHANGED lock
       \/ /\ aplay.todo = {}
          /\ aplay' = [aplay EXCEPT !.pc = "play"]
          /\ lock' = [lock EXCEPT ![WalkLock("aplay")] = NoOne]
          /\ UNCHANGED sound
    /\ UNCHANGED <<clientVars, packets, ring, dropped, has, keyVars, call, videoVars,
                   acap, pluginVars>>

\* The device is open only while somebody speaks; opening and playing may fail.
AplayPlay ==
    /\ aplay.pc = "play"
    /\ aplay' \in [pc : {"mix"}, todo : {{}},
                   open : IF Listened /\ has.speakers THEN BOOLEAN ELSE {FALSE}]
    /\ UNCHANGED <<clientVars, ringVars, lock, has, keyVars, call, videoVars, acap, pluginVars>>

AcapStep == AcapOpen \/ AcapLeave \/ AcapClose \/ AcapLock \/ AcapRelay
AplayStep == AplayLock \/ AplayWalk \/ AplayPlay

-----------------------------------------------------------------------------
(* _plugin_destroy() *)

\* Janus calls it when no other callback is under way.
Destroy ==
    /\ plugin = "on"
    /\ \A t \in Callbacks : call[t] = Idle
    /\ plugin' = "join"
    /\ UNCHANGED <<clientVars, ringVars, lock, has, keyVars, call, videoVars, audioVars, world>>

\* The threads of the plugin are joined before the clients are touched.
DestroyJoin ==
    /\ plugin = "join"
    /\ sink = "exited" /\ rtp.pc = "exited"
    /\ WithAudio => acap.pc = "exited" /\ aplay.pc = "exited"
    /\ plugin' = "clients"
    /\ client' = [s \in Sessions |-> IF s \in clients THEN [client[s] EXCEPT !.stop = TRUE]
                                                      ELSE client[s]]
    /\ UNCHANGED <<clients, threads, ringVars, lock, has, keyVars, call, videoVars, audioVars, world>>

DestroyClient(s) ==
    /\ plugin = "clients"
    /\ s \in clients
    /\ Joined(s)
    /\ clients' = clients \ {s}
    /\ Free(s)
    /\ UNCHANGED <<ring, dropped, lock, has, keyRequired, memKey, call, videoVars, audioVars,
                   pluginVars>>

DestroyEnd ==
    /\ plugin = "clients"
    /\ clients = {}
    /\ plugin' = "gone"
    /\ UNCHANGED <<clientVars, ringVars, lock, has, keyVars, call, videoVars, audioVars, world>>

DestroyStep == DestroyJoin \/ DestroyEnd \/ \E s \in Sessions : DestroyClient(s)

-----------------------------------------------------------------------------
SinkStep == SinkPoll \/ SinkGet \/ SinkStore
RtpStep == RtpGet \/ RtpLock \/ (\E s \in Sessions : RtpRelay(s)) \/ RtpUnlock

Next ==
    \/ Calls \/ (\E t \in Callbacks : CallbackStep(t))
    \/ (\E s \in Sessions : AskKey(s) \/ ClientStep(s))
    \/ SinkStep \/ Encode \/ RtpStep
    \/ AcapStep \/ AcapRateChanged \/ AcapFails \/ AcapThread \/ AplayStep
    \/ Destroy \/ DestroyStep

Spec == Init /\ [][Next]_vars

\* Every thread is scheduled, and one that waits for a mutex gets it in the end
\* if it is free again and again; frames keep coming, uStreamer makes the key
\* frames it is asked for and browsers keep asking.
FairSpec ==
    /\ Spec
    /\ \A t \in Callbacks : SF_vars(CallbackStep(t))
    /\ SF_vars(RtpStep) /\ SF_vars(AcapStep) /\ SF_vars(AplayStep)
    /\ WF_vars(SinkStep) /\ WF_vars(Encode) /\ WF_vars(AcapThread) /\ WF_vars(DestroyStep)
    /\ \A s \in Sessions : WF_vars(ClientStep(s)) /\ WF_vars(AskKey(s))

-----------------------------------------------------------------------------
\* The flags the threads go by agree with the sessions: whoever transmits is
\* seen by _g_has_watchers, and the flags of listeners and speakers say exactly
\* whether there are any, whatever callbacks came in which order. (While a
\* session is being joined they still count it.)
FlagsMatchClients ==
    LET flags == FlagsOf(clients, client)
        joining == \E t \in Callbacks : call[t].pc = "join"
    IN  /\ flags.watchers => has.watchers
        /\ flags.listeners => has.listeners
        /\ flags.speakers => has.speakers
        /\ ~joining /\ ~Stop => /\ has.listeners = flags.listeners
                                /\ has.speakers = flags.speakers

\* No thread walks on to a session that has been taken off the list: _LOCK_ALL
\* in _plugin_destroy_session() keeps out the packer, the sound capture and the
\* mixer alike.
WalksAreSafe ==
    /\ rtp.todo \subseteq clients
    /\ acap.todo \subseteq clients
    /\ aplay.todo \subseteq clients

\* A browser that lacks a key frame gets one (or goes away), unless packets go
\* on being dropped: neither the store that may lose a request nor a key frame
\* that did not fit into the ring leaves it waiting for ever.
WatcherGetsKey == \A s \in Sessions : []<>(s \notin needsKey \/ dropped \/ Stop)

\* When the last listener has gone, the sound devices are closed.
AudioIsReleased == <>[]~has.listeners => <>[](~acap.open /\ ~aplay.open)

\* _plugin_destroy_session() ends although it joins three threads with all
\* mutexes held, and so does _plugin_destroy().
DestroysEnd ==
    /\ \A t \in Callbacks : []<>(call[t].op # "destroy_session")
    /\ []<>(plugin \in {"on", "gone"})
=============================================================================
