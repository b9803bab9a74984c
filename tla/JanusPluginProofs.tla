------------------------- MODULE JanusPluginProofs -------------------------
(***************************************************************************)
(* For any number of sessions and of threads of Janus: the three mutexes   *)
(* exclude whoever changes the list of sessions and whoever walks through  *)
(* it, so that no thread walks on to a session that has been taken off;    *)
(* the global flags agree with the sessions; the packer never looks into   *)
(* an empty ring; and the threads of a session run only while somebody     *)
(* still answers for it.                                                   *)
(***************************************************************************)
EXTENDS JanusPlugin, SequenceTheorems, TLAPS

Ops == {"create_session", "destroy_session", "set_transmit", "watch", "incoming_rtp"}

\* Mutexes that a callback holds: those in front of the one it waits for, and
\* in its body all that _LOCK_ALL or _LOCK_APLAY takes.
Held(c) ==
    IF c.pc \in {"body", "join"}
    THEN IF c.op = "incoming_rtp" THEN {"aplay"} ELSE Kinds
    ELSE IF c.op = "incoming_rtp" THEN {}
    ELSE IF c.pc = "acap" THEN {"video"}
    ELSE IF c.pc = "aplay" THEN {"video", "acap"}
    ELSE {}

\* What TypeOK leaves to the actions: the callbacks and the walks
WalkTypeOK ==
    /\ call \in [Callbacks -> [op : Ops \cup {"none"}, session : Sessions \cup {NoOne},
                               pc : Kinds \cup {"none", "body", "join"}, arg : BOOLEAN]]
    /\ rtp \in [pc : {"get", "lock", "relay", "exited"}, todo : SUBSET Sessions]
    /\ acap \in [pc : {"poll", "loop", "close", "relay", "exited"}, todo : SUBSET Sessions,
                 open : BOOLEAN, stop : BOOLEAN, pcm : BOOLEAN, enc : BOOLEAN]
    /\ aplay \in [pc : {"mix", "walk", "play", "exited"}, todo : SUBSET Sessions,
                  open : BOOLEAN]

\* A callback that does something does it for a session; only destroying one
\* ends in a join.
CallsInv ==
    \A t \in Callbacks :
        /\ call[t].op = "none" <=> call[t].pc = "none"
        /\ call[t].op # "none" => call[t].session \in Sessions
        /\ call[t].pc = "join" => call[t].op = "destroy_session"
        /\ call[t].op = "incoming_rtp" => call[t].pc \in {"aplay", "body"}

\* Whoever is past a mutex holds it.
LockInv ==
    /\ \A t \in Callbacks : \A k \in Held(call[t]) : lock[k] = t
    /\ rtp.pc = "relay" => lock["video"] = "rtp"
    /\ acap.pc = "relay" => lock["acap"] = "acap"
    /\ aplay.pc = "walk" => lock["aplay"] = "aplay"

\* Clients remain to be visited only during a walk, and they are on the list.
WalkInv ==
    /\ rtp.pc # "relay" => rtp.todo = {}
    /\ acap.pc # "relay" => acap.todo = {}
    /\ aplay.pc # "walk" => aplay.todo = {}
    /\ WalksAreSafe

\* A session that is being created is not there yet, one that is being joined
\* is not there any more, and no session is created or destroyed twice at once.
SessionInv ==
    /\ \A t \in Callbacks : call[t].op = "create_session" \/ call[t].pc = "join"
                            => call[t].session \notin clients
    /\ \A t, u \in Callbacks :
          /\ call[t].op \in {"create_session", "destroy_session"}
          /\ call[t].op = call[u].op
          /\ call[t].session = call[u].session
          => t = u

\* _plugin_destroy() goes on only when no callback is under way, and touches
\* the clients only when the threads that walk through them have ended.
DestroyInv ==
    /\ Stop => \A t \in Callbacks : call[t] = Idle
    /\ plugin \in {"clients", "gone"} =>
          /\ rtp.pc = "exited"
          /\ acap.pc \in {"poll", "exited"} /\ (WithAudio => acap.pc = "exited")
          /\ aplay.pc \in {"mix", "exited"} /\ (WithAudio => aplay.pc = "exited")
    /\ ~WithAudio => acap.pc = "poll" /\ aplay.pc = "mix"

\* The packer is the only consumer of the ring.
RingInv == rtp.pc \in {"lock", "relay"} => ring # <<>>

IInv ==
    /\ TypeOK
    /\ WalkTypeOK
    /\ CallsInv
    /\ LockInv
    /\ WalkInv
    /\ SessionInv
    /\ DestroyInv
    /\ RingInv
    /\ FlagsMatchClients

\* The threads of a session run while it is on the list or while the callback
\* that took it off joins them; whatever they use is freed only after that.
ThreadsAreOwned ==
    \A s \in Sessions :
        (\E k \in Kinds : threads[s][k] # "none")
        => \/ s \in clients
           \/ \E t \in Callbacks : call[t].pc = "join" /\ call[t].session = s

-----------------------------------------------------------------------------
(* Which parts of the state a step can touch *)

\* The sessions and the flags, and who is in their way
listVars == <<clients, client, has, call, lock, plugin, world>>

\* What a callback touches beside that
ListStep(t) ==
    create_session(t) \/ destroy_session(t) \/ destroy_session_join(t)
    \/ set_transmit(t) \/ watch(t) \/ incoming_rtp(t)

\* The sink, the sessions' threads and uStreamer
QuietStep ==
    \/ \E s \in Sessions : AskKey(s) \/ ClientStep(s)
    \/ SinkStep \/ Encode

\* The steps of the walking threads that take or release no mutex
WalkerMoves ==
    \/ RtpGet \/ (\E s \in Sessions : RtpRelay(s))
    \/ AcapOpen \/ AcapLeave \/ AcapClose \/ AcapRateChanged \/ AcapFails
    \/ AcapThread \/ AplayPlay

\* Those that look at a mutex
WalkerLocks ==
    RtpLock \/ RtpUnlock \/ AcapLock \/ AcapRelay \/ AplayLock \/ AplayWalk

\* Every step is of one of these kinds.
LEMMA StepKinds ==
    ASSUME Next
    PROVE  \/ Calls
           \/ \E t \in Callbacks : TakeLock(t) \/ ListStep(t)
           \/ QuietStep \/ WalkerMoves \/ WalkerLocks
           \/ Destroy \/ DestroyStep
  BY DEF Next, CallbackStep, ListStep, QuietStep, RtpStep, AcapStep, AplayStep,
         WalkerMoves, WalkerLocks

\* A call names a thread, an operation and a session that may come here.
LEMMA CallsAreCalls ==
    ASSUME Calls, world \in DOMAIN Visitors
    PROVE  \E t \in Callbacks, op \in Ops, s \in Sessions, arg \in BOOLEAN :
              Call(t, op, s, arg)
<1>1. PICK t \in Callbacks, s \in Visitors[world] :
        \/ \E op \in {"create_session", "destroy_session"} : Call(t, op, s, FALSE)
        \/ \E arg \in BOOLEAN : Call(t, "set_transmit", s, arg)
        \/ WithAudio /\ \E arg \in BOOLEAN : Call(t, "watch", s, arg)
        \/ WithAudio /\ Call(t, "incoming_rtp", s, FALSE)
  BY DEF Calls
<1>2. s \in Sessions
  BY VisitorsAssumption
<1> QED
  BY <1>1, <1>2 DEF Ops

LEMMA QuietKeeps ==
    ASSUME QuietStep
    PROVE  UNCHANGED <<listVars, rtp, acap, aplay>>
  BY DEF QuietStep, AskKey, ClientStep, ClientVideo, ClientAudio, ClientExits,
         SinkStep, SinkPoll, SinkGet, SinkStore, Encode, listVars, clientVars,
         videoVars, audioVars, pluginVars

LEMMA WalkerKeeps ==
    ASSUME WalkerMoves \/ WalkerLocks
    PROVE  /\ UNCHANGED <<clients, client, threads, has, call, plugin, world, sink>>
           /\ UNCHANGED <<keyRequired, memKey>>
           /\ WalkerMoves => UNCHANGED lock
  BY DEF WalkerMoves, WalkerLocks, RtpGet, RtpRelay, AcapOpen, AcapLeave, AcapClose,
         AcapRateChanged, AcapFails, AcapThread, AplayPlay, RtpLock, RtpUnlock,
         AcapLock, AcapRelay, AplayLock, AplayWalk, clientVars, keyVars, videoVars,
         pluginVars

LEMMA CallbackKeeps ==
    ASSUME NEW t \in Callbacks, TakeLock(t) \/ ListStep(t)
    PROVE  UNCHANGED <<ring, dropped, rtp, acap, aplay, plugin, world, sink,
                       keyRequired, memKey>>
  BY DEF TakeLock, ListStep, create_session, destroy_session, destroy_session_join,
         set_transmit, watch, incoming_rtp, ringVars, keyVars, videoVars, audioVars,
         pluginVars

-----------------------------------------------------------------------------
(* Types *)

LEMMA TypesInit == Init => TypeOK /\ WalkTypeOK
<1> SUFFICES ASSUME Init PROVE TypeOK /\ WalkTypeOK
  OBVIOUS
<1>1. /\ client \in [Sessions -> [transmit : BOOLEAN, acap : BOOLEAN,
                                  aplay : BOOLEAN, stop : BOOLEAN]]
      /\ has \in [watchers : BOOLEAN, listeners : BOOLEAN, speakers : BOOLEAN]
  BY DEF Init, NewClient
<1>2. /\ threads \in [Sessions -> [Kinds -> {"none", "run", "relay", "exited"}]]
      /\ sound \in [Sessions -> SUBSET {"acap", "enc", "pcm"}]
      /\ lock \in [Kinds -> Callbacks \cup {NoOne, "rtp", "acap", "aplay"}]
  BY DEF Init
<1>3. /\ packets \in [Sessions -> Seq(Frames)]
      /\ \A s \in Sessions : Len(packets[s]) <= ClientRing
      /\ ring \in Seq(Frames) /\ Len(ring) <= RingSize
  BY RingsAssumption DEF Init
<1>4. TypeOK
  BY <1>1, <1>2, <1>3 DEF Init, TypeOK
<1>5. WalkTypeOK
  BY DEF Init, WalkTypeOK, Idle, NoAcap, Kinds
<1> QED
  BY <1>4, <1>5

\* A frame leaves the head of a queue or comes to its end.
LEMMA QueueMoves ==
    ASSUME NEW q \in Seq(Frames)
    PROVE  /\ q # <<>> => /\ Head(q) \in Frames
                          /\ Tail(q) \in Seq(Frames)
                          /\ Len(Tail(q)) = Len(q) - 1
           /\ \A x \in Frames : /\ Append(q, x) \in Seq(Frames)
                                /\ Append(q, x) # <<>>
                                /\ Len(Append(q, x)) = Len(q) + 1
           /\ Len(q) \in Nat
  OBVIOUS

LEMMA TypesCall ==
    ASSUME TypeOK, WalkTypeOK,
           NEW t \in Callbacks, NEW op \in Ops, NEW s \in Sessions, NEW arg \in BOOLEAN,
           Call(t, op, s, arg)
    PROVE  TypeOK' /\ WalkTypeOK'
<1>1. TypeOK'
  BY DEF TypeOK, Call, clientVars, ringVars, keyVars, videoVars, audioVars, pluginVars
<1>2. Locks(op)[1] \in Kinds
  BY DEF Locks, Kinds
<1>3. call' \in [Callbacks -> [op : Ops \cup {"none"}, session : Sessions \cup {NoOne},
                               pc : Kinds \cup {"none", "body", "join"}, arg : BOOLEAN]]
  BY <1>2 DEF WalkTypeOK, Call
<1> QED
  BY <1>1, <1>3 DEF WalkTypeOK, Call, videoVars, audioVars

\* The callback gives its mutexes back and has nothing more to do.
LEMMA TypesReturn ==
    ASSUME TypeOK, WalkTypeOK, NEW t \in Callbacks, Return(t)
    PROVE  /\ call' \in [Callbacks -> [op : Ops \cup {"none"}, session : Sessions \cup {NoOne},
                                       pc : Kinds \cup {"none", "body", "join"},
                                       arg : BOOLEAN]]
           /\ lock' \in [Kinds -> Callbacks \cup {NoOne, "rtp", "acap", "aplay"}]
<1>1. Idle \in [op : Ops \cup {"none"}, session : Sessions \cup {NoOne},
                pc : Kinds \cup {"none", "body", "join"}, arg : BOOLEAN]
  BY DEF Idle
<1> QED
  BY <1>1 DEF TypeOK, WalkTypeOK, Return

LEMMA TypesCallback ==
    ASSUME TypeOK, WalkTypeOK, CallsInv,
           NEW t \in Callbacks, TakeLock(t) \/ ListStep(t)
    PROVE  TypeOK' /\ WalkTypeOK'
<1> DEFINE s == call[t].session
           clientType == [transmit : BOOLEAN, acap : BOOLEAN, aplay : BOOLEAN, stop : BOOLEAN]
           hasType == [watchers : BOOLEAN, listeners : BOOLEAN, speakers : BOOLEAN]
           threadType == [Kinds -> {"none", "run", "relay", "exited"}]
           callType == [op : Ops \cup {"none"}, session : Sessions \cup {NoOne},
                        pc : Kinds \cup {"none", "body", "join"}, arg : BOOLEAN]
<1>0. UNCHANGED <<ring, dropped, rtp, acap, aplay, plugin, world, sink, keyRequired, memKey>>
  BY CallbackKeeps
<1>1. CASE TakeLock(t)
  <2>1. PICK k \in Kinds :
          /\ call[t].pc = k
          /\ lock' = [lock EXCEPT ![k] = t]
          /\ call' = [call EXCEPT ![t].pc = NextLock(call[t].op, k)]
    BY <1>1 DEF TakeLock
  <2>2. NextLock(call[t].op, k) \in Kinds \cup {"body"}
    BY DEF NextLock, Kinds
  <2>3. call' \in [Callbacks -> callType]
    BY <2>1, <2>2 DEF WalkTypeOK
  <2>4. lock' \in [Kinds -> Callbacks \cup {NoOne, "rtp", "acap", "aplay"}]
    BY <2>1 DEF TypeOK
  <2>5. UNCHANGED <<clients, client, threads, packets, sound, has, needsKey>>
    BY <1>1 DEF TakeLock, clientVars, ringVars, keyVars
  <2> QED
    BY <1>0, <2>3, <2>4, <2>5 DEF TypeOK, WalkTypeOK
<1>2. CASE ListStep(t)
  <2>0. s \in Sessions /\ call[t].arg \in BOOLEAN /\ client[s] \in clientType
    BY <1>2 DEF CallsInv, TypeOK, WalkTypeOK, ListStep, create_session, destroy_session,
                destroy_session_join, set_transmit, watch, incoming_rtp, InBody
  <2>1. clients' \subseteq Sessions /\ needsKey' \subseteq Sessions
    BY <1>2, <2>0
       DEF TypeOK, ListStep, create_session, destroy_session, destroy_session_join,
           set_transmit, watch, incoming_rtp, Free, keyVars, clientVars
  <2>2. client' \in [Sessions -> clientType]
    <3>1. \A c \in clientType : client \in [Sessions -> clientType]
                                /\ [client EXCEPT ![s] = c] \in [Sessions -> clientType]
      BY <2>0 DEF TypeOK
    <3>2. CASE create_session(t) \/ destroy_session_join(t)
      <4>1. NewClient \in clientType
        BY DEF NewClient
      <4> QED
        BY <3>1, <3>2, <4>1 DEF create_session, destroy_session_join, Free
    <3>3. CASE destroy_session(t)
      <4>1. [client[s] EXCEPT !.stop = TRUE] \in clientType
        BY <2>0
      <4> QED
        BY <3>1, <3>3, <4>1 DEF destroy_session, AskedToStop
    <3>4. CASE set_transmit(t)
      <4>1. [client[s] EXCEPT !.transmit = call[t].arg] \in clientType
        BY <2>0
      <4> QED
        BY <3>1, <3>4, <4>1 DEF set_transmit
    <3>5. CASE watch(t)
      <4>0. (call[t].arg /\ WithAudio) \in BOOLEAN
        OBVIOUS
      <4>1. \A on \in BOOLEAN : [client EXCEPT ![s].acap = on, ![s].aplay = on]
                                   \in [Sessions -> clientType]
        <5> TAKE on \in BOOLEAN
        <5>1. [client EXCEPT ![s].acap = on] \in [Sessions -> clientType]
          BY <2>0 DEF TypeOK
        <5> QED
          BY <2>0, <5>1 DEF TypeOK
      <4> QED
        <5>1. \/ client' = client
              \/ client' = [client EXCEPT ![s].acap = call[t].arg /\ WithAudio,
                                         ![s].aplay = call[t].arg /\ WithAudio]
          BY <3>5, Zenon DEF watch
        <5>2. [client EXCEPT ![s].acap = call[t].arg /\ WithAudio,
                             ![s].aplay = call[t].arg /\ WithAudio]
                 \in [Sessions -> clientType]
          BY <4>0, <4>1, Zenon
        <5> QED
          BY <5>1, <5>2, Zenon DEF TypeOK
    <3>6. CASE incoming_rtp(t)
      BY <3>6 DEF incoming_rtp, clientVars, TypeOK
    <3> QED
      BY <1>2, <3>2, <3>3, <3>4, <3>5, <3>6 DEF ListStep
  <2>3. has' \in hasType
    <3>1. \A c : FlagsOf(clients, c) \in hasType /\ has \in hasType
      BY DEF FlagsOf, TypeOK
    <3>2. CASE create_session(t) \/ set_transmit(t)
      BY <3>1, <3>2 DEF create_session, set_transmit, FlagsOf
    <3>3. CASE watch(t)
      BY <3>1, <3>3 DEF watch
    <3>4. CASE destroy_session(t) \/ destroy_session_join(t) \/ incoming_rtp(t)
      BY <3>1, <3>4 DEF destroy_session, destroy_session_join, incoming_rtp
    <3> QED
      BY <1>2, <3>2, <3>3, <3>4 DEF ListStep
  <2>4. threads' \in [Sessions -> threadType]
    <3>1. \A f \in threadType : threads \in [Sessions -> threadType]
                                /\ [threads EXCEPT ![s] = f] \in [Sessions -> threadType]
      BY <2>0 DEF TypeOK
    <3>2. [k \in Kinds |-> "run"] \in threadType /\ [k \in Kinds |-> "none"] \in threadType
      OBVIOUS
    <3>3. \/ threads' = threads
          \/ threads' = [threads EXCEPT ![s] = [k \in Kinds |-> "run"]]
          \/ threads' = [threads EXCEPT ![s] = [k \in Kinds |-> "none"]]
      BY <1>2 DEF ListStep, create_session, destroy_session, destroy_session_join,
                  set_transmit, watch, incoming_rtp, Free, clientVars
    <3> QED
      BY <3>1, <3>2, <3>3
  <2>5. /\ packets' \in [Sessions -> Seq(Frames)]
        /\ \A x \in Sessions : Len(packets'[x]) <= ClientRing
    <3>1. packets' = packets \/ packets' = [packets EXCEPT ![s] = <<>>]
      BY <1>2 DEF ListStep, create_session, destroy_session, destroy_session_join,
                  set_transmit, watch, incoming_rtp, Free, ringVars
    <3>2. <<>> \in Seq(Frames) /\ Len(<<>>) <= ClientRing
      BY RingsAssumption
    <3>3. CASE packets' = packets
      BY <3>3 DEF TypeOK
    <3>4. CASE packets' = [packets EXCEPT ![s] = <<>>]
      BY <3>2, <3>4 DEF TypeOK
    <3> QED
      BY <3>1, <3>3, <3>4
  <2>6. sound' \in [Sessions -> SUBSET {"acap", "enc", "pcm"}]
    <3>1. \/ sound' = sound
          \/ sound' = [sound EXCEPT ![s] = {}]
          \/ sound' = [sound EXCEPT ![s] = sound[s] \cup {"enc"}]
      BY <1>2 DEF ListStep, create_session, destroy_session, destroy_session_join,
                  set_transmit, watch, incoming_rtp, client_recv, Free, ringVars
    <3>2. CASE sound' = sound
      BY <3>2 DEF TypeOK
    <3>3. CASE sound' = [sound EXCEPT ![s] = {}]
      BY <3>3 DEF TypeOK
    <3>4. CASE sound' = [sound EXCEPT ![s] = sound[s] \cup {"enc"}]
      BY <2>0, <3>4 DEF TypeOK
    <3> QED
      BY <3>1, <3>2, <3>3, <3>4
  <2>7. /\ call' \in [Callbacks -> callType]
        /\ lock' \in [Kinds -> Callbacks \cup {NoOne, "rtp", "acap", "aplay"}]
    <3>1. CASE destroy_session(t)
      <4>1. call' = [call EXCEPT ![t].pc = "join"] /\ lock' = lock
        BY <3>1 DEF destroy_session
      <4>2. call' \in [Callbacks -> callType]
        BY <4>1 DEF WalkTypeOK
      <4> QED
        BY <4>1, <4>2 DEF TypeOK
    <3>2. CASE Return(t)
      BY <3>2, TypesReturn
    <3> QED
      BY <1>2, <3>1, <3>2 DEF ListStep, create_session, destroy_session_join,
                              set_transmit, watch, incoming_rtp
  <2> QED
    BY <1>0, <2>1, <2>2, <2>3, <2>4, <2>5, <2>6, <2>7 DEF TypeOK, WalkTypeOK
<1> QED
  BY <1>1, <1>2

LEMMA TypesQuiet ==
    ASSUME TypeOK, WalkTypeOK, QuietStep
    PROVE  TypeOK' /\ WalkTypeOK'
<1>1. UNCHANGED <<clients, client, has, call, lock, plugin, world, rtp, acap, aplay>>
  BY QuietKeeps DEF listVars
<1>2. WalkTypeOK'
  BY <1>1 DEF WalkTypeOK
<1>3. CASE SinkPoll \/ SinkStore \/ Encode \/ \E s \in Sessions : AskKey(s)
  <2>1. /\ sink' \in {"poll", "wait", "store", "exited"}
        /\ memKey' \in {"no", "asked", "due"}
        /\ keyRequired' \in BOOLEAN
    BY <1>3 DEF TypeOK, SinkPoll, SinkStore, Encode, AskKey, keyVars, videoVars
  <2>2. UNCHANGED <<threads, packets, sound, ring, dropped, needsKey>>
    BY <1>3 DEF SinkPoll, SinkStore, Encode, AskKey, clientVars, ringVars, keyVars
  <2> QED
    BY <1>1, <1>2, <2>1, <2>2 DEF TypeOK
<1>4. CASE SinkGet
  <2>1. PICK f \in Frames :
          /\ ring' = IF Len(ring) = RingSize THEN ring ELSE Append(ring, f)
          /\ dropped' \in BOOLEAN
          /\ sink' \in {"store", "wait"}
    BY <1>4 DEF SinkGet, Frames
  <2>2. ring' \in Seq(Frames) /\ Len(ring') <= RingSize
    BY <2>1, QueueMoves, RingsAssumption DEF TypeOK
  <2>3. UNCHANGED <<packets, sound, threads, keyRequired, needsKey>>
    BY <1>4 DEF SinkGet, clientVars
  <2>4. memKey' \in {"no", "asked", "due"}
    BY <1>4 DEF SinkGet, KeyToMemory
  <2> QED
    BY <1>1, <1>2, <2>1, <2>2, <2>3, <2>4 DEF TypeOK
<1>5. ASSUME NEW s \in Sessions, ClientStep(s) PROVE TypeOK'
  <2>1. CASE ClientVideo(s)
    <3>1. /\ packets[s] # <<>>
          /\ packets' = [packets EXCEPT ![s] = Tail(packets[s])]
          /\ needsKey' \subseteq needsKey
          /\ UNCHANGED <<threads, sound, ring, dropped, keyRequired, memKey, sink>>
      BY <2>1 DEF ClientVideo, clientVars, videoVars
    <3>2. /\ Tail(packets[s]) \in Seq(Frames)
          /\ Len(Tail(packets[s])) <= ClientRing
      BY <3>1, QueueMoves, RingsAssumption DEF TypeOK
    <3>3. packets' \in [Sessions -> Seq(Frames)]
      BY <3>1, <3>2 DEF TypeOK
    <3>4. \A x \in Sessions : Len(packets'[x]) <= ClientRing
      BY <3>1, <3>2 DEF TypeOK
    <3> QED
      BY <1>1, <3>1, <3>3, <3>4 DEF TypeOK
  <2>2. ASSUME NEW from \in {"acap", "enc"}, NEW to \in {{}, {"pcm"}},
               ClientAudio(s, from, to)
        PROVE  TypeOK'
    BY <1>1, <2>2 DEF ClientAudio, TypeOK, clientVars, keyVars, videoVars
  <2>3. ASSUME NEW k \in Kinds, ClientExits(s, k) PROVE TypeOK'
    <3>1. threads' \in [Sessions -> [Kinds -> {"none", "run", "relay", "exited"}]]
      BY <2>3 DEF ClientExits, TypeOK
    <3> QED
      BY <1>1, <2>3, <3>1 DEF ClientExits, TypeOK, ringVars, keyVars, videoVars
  <2> QED
    BY <1>5, <2>1, <2>2, <2>3 DEF ClientStep
<1> QED
  BY <1>2, <1>3, <1>4, <1>5 DEF QuietStep, SinkStep

LEMMA TypesRtp ==
    ASSUME TypeOK, WalkTypeOK, RingInv,
           RtpGet \/ RtpLock \/ RtpUnlock \/ \E s \in Sessions : RtpRelay(s)
    PROVE  TypeOK' /\ WalkTypeOK'
<1>1. UNCHANGED <<clients, client, threads, has, call, plugin, world, sink, keyRequired,
                  memKey, acap, aplay, sound>>
  BY WalkerKeeps
     DEF WalkerMoves, WalkerLocks, RtpGet, RtpLock, RtpUnlock, RtpRelay, audioVars, ringVars
<1> SUFFICES /\ lock' \in [Kinds -> Callbacks \cup {NoOne, "rtp", "acap", "aplay"}]
             /\ rtp' \in [pc : {"get", "lock", "relay", "exited"}, todo : SUBSET Sessions]
             /\ packets' \in [Sessions -> Seq(Frames)]
             /\ \A x \in Sessions : Len(packets'[x]) <= ClientRing
             /\ ring' \in Seq(Frames) /\ Len(ring') <= RingSize
             /\ dropped' \in BOOLEAN
             /\ needsKey' \subseteq Sessions
  BY <1>1 DEF TypeOK, WalkTypeOK
<1>2. CASE RtpGet
  BY <1>2 DEF RtpGet, TypeOK, WalkTypeOK, ringVars, keyVars
<1>3. CASE RtpLock
  BY <1>3 DEF RtpLock, TypeOK, WalkTypeOK, ringVars, keyVars, WalkLock, Kinds
<1>4. CASE RtpUnlock
  <2>1. ring # <<>> /\ ring' = Tail(ring)
    BY <1>4 DEF RtpUnlock, RingInv
  <2>2. ring' \in Seq(Frames) /\ Len(ring') <= RingSize
    BY <2>1, QueueMoves, RingsAssumption DEF TypeOK
  <2> QED
    BY <1>4, <2>2 DEF RtpUnlock, TypeOK, WalkTypeOK, keyVars, WalkLock, Kinds
<1>5. ASSUME NEW s \in Sessions, RtpRelay(s) PROVE TypeOK' /\ WalkTypeOK'
  <2>1. /\ ring' = ring /\ lock' = lock
        /\ rtp' = [rtp EXCEPT !.todo = rtp.todo \ {s}]
        /\ ring # <<>>
    BY <1>5 DEF RtpRelay, RingInv
  <2>2. dropped' \in BOOLEAN /\ needsKey' \subseteq Sessions
    <3>1. dropped' = dropped \/ dropped' = (Len(packets[s]) = ClientRing)
      BY <1>5 DEF RtpRelay
    <3>2. needsKey' = needsKey \/ needsKey' = needsKey \cup {s}
      BY <1>5 DEF RtpRelay
    <3> QED
      BY <3>1, <3>2 DEF TypeOK
  <2>3. \/ packets' = packets
        \/ /\ Len(packets[s]) # ClientRing
           /\ packets' = [packets EXCEPT ![s] = Append(packets[s], Head(ring))]
    BY <1>5 DEF RtpRelay
  <2>4. /\ Append(packets[s], Head(ring)) \in Seq(Frames)
        /\ Len(Append(packets[s], Head(ring))) = Len(packets[s]) + 1
        /\ Len(packets[s]) \in Nat /\ Len(packets[s]) <= ClientRing
    BY <2>1, QueueMoves DEF TypeOK
  <2>5. packets' \in [Sessions -> Seq(Frames)]
    BY <2>3, <2>4 DEF TypeOK
  <2>6. \A x \in Sessions : Len(packets'[x]) <= ClientRing
    <3> TAKE x \in Sessions
    <3>1. packets \in [Sessions -> Seq(Frames)] /\ Len(packets[x]) <= ClientRing
      BY DEF TypeOK
    <3>2. packets'[x] = packets[x]
          \/ (Len(packets[s]) # ClientRing /\ packets'[x] = Append(packets[s], Head(ring)))
      BY <2>3, <3>1
    <3> QED
      BY <2>4, <3>1, <3>2, RingsAssumption
  <2>7. rtp' \in [pc : {"get", "lock", "relay", "exited"}, todo : SUBSET Sessions]
    BY <2>1 DEF WalkTypeOK
  <2> QED
    BY <1>1, <2>1, <2>2, <2>5, <2>6, <2>7 DEF TypeOK, WalkTypeOK
<1> QED
  BY <1>2, <1>3, <1>4, <1>5 DEF TypeOK, WalkTypeOK

LEMMA TypesAcap ==
    ASSUME TypeOK, WalkTypeOK,
           \/ AcapOpen \/ AcapLeave \/ AcapClose \/ AcapRateChanged \/ AcapFails
           \/ AcapThread \/ AcapLock \/ AcapRelay
    PROVE  TypeOK' /\ WalkTypeOK'
<1>1. UNCHANGED <<clients, client, threads, has, call, plugin, world, sink, keyRequired,
                  memKey, needsKey, rtp, aplay, packets, ring, dropped>>
  BY DEF AcapOpen, AcapLeave, AcapClose, AcapRateChanged, AcapFails, AcapThread,
         AcapLock, AcapRelay, clientVars, ringVars, keyVars, videoVars, pluginVars
<1> DEFINE acapType == [pc : {"poll", "loop", "close", "relay", "exited"},
                        todo : SUBSET Sessions, open : BOOLEAN, stop : BOOLEAN,
                        pcm : BOOLEAN, enc : BOOLEAN]
<1> SUFFICES /\ lock' \in [Kinds -> Callbacks \cup {NoOne, "rtp", "acap", "aplay"}]
             /\ acap' \in acapType
             /\ sound' \in [Sessions -> SUBSET {"acap", "enc", "pcm"}]
  BY <1>1 DEF TypeOK, WalkTypeOK
<1>2. acap \in acapType
  BY DEF WalkTypeOK
<1>3. CASE AcapOpen \/ AcapClose
  <2>1. NoAcap \in acapType
    BY DEF NoAcap
  <2>2. acap_init \subseteq acapType
    <3>1. \A a \in acapType :
              [a EXCEPT !.pc = "loop", !.open = TRUE, !.pcm = TRUE, !.enc = TRUE]
                 \in acapType
      OBVIOUS
    <3> QED
      BY <2>1, <3>1 DEF acap_init
  <2>3. [acap EXCEPT !.pc = "exited"] \in acapType
    BY <1>2
  <2> QED
    BY <1>3, <2>1, <2>2, <2>3 DEF AcapOpen, AcapClose, TypeOK, ringVars
<1>4. CASE AcapLeave \/ AcapRateChanged \/ AcapFails \/ AcapThread
  BY <1>4, <1>2
     DEF AcapLeave, AcapRateChanged, AcapFails, AcapThread, TypeOK, ringVars
<1>5. CASE AcapLock
  BY <1>5, <1>2 DEF AcapLock, TypeOK, ringVars, WalkLock, Kinds
<1>6. CASE AcapRelay
  <2>1. /\ lock' = lock \/ lock' = [lock EXCEPT !["acap"] = NoOne]
        /\ \/ acap' = [acap EXCEPT !.pc = "loop"]
           \/ \E s \in acap.todo : acap' = [acap EXCEPT !.todo = acap.todo \ {s}]
        /\ \/ sound' = sound
           \/ \E s \in acap.todo : sound' = [sound EXCEPT ![s] = sound[s] \cup {"acap"}]
    BY <1>6 DEF AcapRelay, WalkLock
  <2>2. lock' \in [Kinds -> Callbacks \cup {NoOne, "rtp", "acap", "aplay"}]
    BY <2>1 DEF TypeOK, Kinds
  <2>3. acap' \in acapType
    BY <1>2, <2>1
  <2>4. ASSUME NEW s \in acap.todo
        PROVE  /\ sound \in [Sessions -> SUBSET {"acap", "enc", "pcm"}]
               /\ [sound EXCEPT ![s] = sound[s] \cup {"acap"}]
                     \in [Sessions -> SUBSET {"acap", "enc", "pcm"}]
    <3>1. s \in Sessions
      BY <1>2
    <3> QED
      BY <3>1 DEF TypeOK
  <2>5. sound \in [Sessions -> SUBSET {"acap", "enc", "pcm"}]
    BY DEF TypeOK
  <2>6. sound' \in [Sessions -> SUBSET {"acap", "enc", "pcm"}]
    BY <2>1, <2>4, <2>5, Zenon
  <2> QED
    BY <2>2, <2>3, <2>6
<1> QED
  BY <1>3, <1>4, <1>5, <1>6

LEMMA TypesAplay ==
    ASSUME TypeOK, WalkTypeOK, AplayPlay \/ AplayLock \/ AplayWalk
    PROVE  TypeOK' /\ WalkTypeOK'
<1>1. UNCHANGED <<clients, client, threads, has, call, plugin, world, sink, keyRequired,
                  memKey, needsKey, rtp, acap, packets, ring, dropped>>
  BY DEF AplayPlay, AplayLock, AplayWalk, clientVars, ringVars, keyVars, videoVars,
         pluginVars
<1> DEFINE aplayType == [pc : {"mix", "walk", "play", "exited"}, todo : SUBSET Sessions,
                         open : BOOLEAN]
<1> SUFFICES /\ lock' \in [Kinds -> Callbacks \cup {NoOne, "rtp", "acap", "aplay"}]
             /\ aplay' \in aplayType
             /\ sound' \in [Sessions -> SUBSET {"acap", "enc", "pcm"}]
  BY <1>1 DEF TypeOK, WalkTypeOK
<1>2. aplay \in aplayType
  BY DEF WalkTypeOK
<1>3. CASE AplayPlay
  BY <1>3, <1>2 DEF AplayPlay, TypeOK, ringVars
<1>4. CASE AplayLock
  <2>1. /\ lock' = lock \/ lock' = [lock EXCEPT !["aplay"] = "aplay"]
        /\ \/ aplay' = [pc |-> "exited", todo |-> {}, open |-> FALSE]
           \/ aplay' = [aplay EXCEPT !.pc = "walk", !.todo = clients]
        /\ sound' = sound
    BY <1>4 DEF AplayLock, WalkLock, ringVars
  <2>2. lock' \in [Kinds -> Callbacks \cup {NoOne, "rtp", "acap", "aplay"}]
    BY <2>1 DEF TypeOK, Kinds
  <2>3. clients \subseteq Sessions
    BY DEF TypeOK
  <2>4. aplay' \in aplayType
    <3>1. [pc |-> "exited", todo |-> {}, open |-> FALSE] \in aplayType
      OBVIOUS
    <3>2. [aplay EXCEPT !.pc = "walk", !.todo = clients] \in aplayType
      BY <1>2, <2>3
    <3> QED
      BY <2>1, <3>1, <3>2, Zenon
  <2> QED
    BY <2>1, <2>2, <2>4 DEF TypeOK
<1>5. CASE AplayWalk
  <2>1. /\ lock' = lock \/ lock' = [lock EXCEPT !["aplay"] = NoOne]
        /\ \/ aplay' = [aplay EXCEPT !.pc = "play"]
           \/ \E s \in aplay.todo : aplay' = [aplay EXCEPT !.todo = aplay.todo \ {s}]
        /\ \/ sound' = sound
           \/ \E s \in aplay.todo : sound' = [sound EXCEPT ![s] = sound[s] \ {"pcm"}]
    BY <1>5 DEF AplayWalk, WalkLock
  <2>2. lock' \in [Kinds -> Callbacks \cup {NoOne, "rtp", "acap", "aplay"}]
    BY <2>1 DEF TypeOK, Kinds
  <2>3. aplay' \in aplayType
    BY <1>2, <2>1
  <2>4. ASSUME NEW s \in aplay.todo
        PROVE  /\ sound \in [Sessions -> SUBSET {"acap", "enc", "pcm"}]
               /\ [sound EXCEPT ![s] = sound[s] \ {"pcm"}]
                     \in [Sessions -> SUBSET {"acap", "enc", "pcm"}]
    <3>1. s \in Sessions
      BY <1>2
    <3> QED
      BY <3>1 DEF TypeOK
  <2>5. sound \in [Sessions -> SUBSET {"acap", "enc", "pcm"}]
    BY DEF TypeOK
  <2>6. sound' \in [Sessions -> SUBSET {"acap", "enc", "pcm"}]
    BY <2>1, <2>4, <2>5, Zenon
  <2> QED
    BY <2>2, <2>3, <2>6
<1> QED
  BY <1>3, <1>4, <1>5

LEMMA TypesDestroy ==
    ASSUME TypeOK, WalkTypeOK, Destroy \/ DestroyStep
    PROVE  TypeOK' /\ WalkTypeOK'
<1>1. UNCHANGED <<rtp, acap, aplay, call, lock, has, ring, dropped, keyRequired, memKey,
                  sink, world>>
  BY DEF Destroy, DestroyStep, DestroyJoin, DestroyEnd, DestroyClient, ringVars, keyVars,
         videoVars, audioVars, pluginVars
<1>2. CASE Destroy \/ DestroyEnd
  BY <1>1, <1>2 DEF Destroy, DestroyEnd, TypeOK, WalkTypeOK, clientVars, ringVars, keyVars
<1>3. CASE DestroyJoin
  <2>1. ASSUME NEW s \in Sessions
        PROVE  /\ client[s] \in [transmit : BOOLEAN, acap : BOOLEAN,
                                 aplay : BOOLEAN, stop : BOOLEAN]
               /\ [client[s] EXCEPT !.stop = TRUE]
                     \in [transmit : BOOLEAN, acap : BOOLEAN,
                          aplay : BOOLEAN, stop : BOOLEAN]
    <3>1. client[s] \in [transmit : BOOLEAN, acap : BOOLEAN,
                         aplay : BOOLEAN, stop : BOOLEAN]
      BY DEF TypeOK
    <3> QED
      BY <3>1
  <2>2. client' \in [Sessions -> [transmit : BOOLEAN, acap : BOOLEAN,
                                  aplay : BOOLEAN, stop : BOOLEAN]]
    BY <1>3, <2>1 DEF DestroyJoin
  <2> QED
    BY <1>1, <1>3, <2>2 DEF DestroyJoin, TypeOK, WalkTypeOK, ringVars, keyVars
<1>4. ASSUME NEW s \in Sessions, DestroyClient(s) PROVE TypeOK' /\ WalkTypeOK'
  <2>1. NewClient \in [transmit : BOOLEAN, acap : BOOLEAN, aplay : BOOLEAN, stop : BOOLEAN]
    BY DEF NewClient
  <2>2. /\ client' \in [Sessions -> [transmit : BOOLEAN, acap : BOOLEAN,
                                     aplay : BOOLEAN, stop : BOOLEAN]]
        /\ threads' \in [Sessions -> [Kinds -> {"none", "run", "relay", "exited"}]]
    BY <1>4, <2>1 DEF DestroyClient, Free, TypeOK
  <2>3. <<>> \in Seq(Frames) /\ Len(<<>>) <= ClientRing
    BY RingsAssumption
  <2>4. /\ packets' \in [Sessions -> Seq(Frames)]
        /\ \A x \in Sessions : Len(packets'[x]) <= ClientRing
    BY <1>4, <2>3 DEF DestroyClient, Free, TypeOK
  <2>5. /\ sound' \in [Sessions -> SUBSET {"acap", "enc", "pcm"}]
        /\ clients' \subseteq Sessions /\ needsKey' \subseteq Sessions
        /\ plugin' = plugin
    BY <1>4 DEF DestroyClient, Free, TypeOK, pluginVars
  <2> QED
    BY <1>1, <2>2, <2>4, <2>5 DEF TypeOK, WalkTypeOK
<1> QED
  BY <1>2, <1>3, <1>4 DEF DestroyStep

-----------------------------------------------------------------------------
(* The mutexes *)

\* Whoever is in the body of an operation that changes the list is alone with
\* it: no other callback in its body, no walk under way.
LEMMA ListOwner ==
    ASSUME TypeOK, CallsInv, LockInv,
           NEW t \in Callbacks, call[t].pc \in {"body", "join"},
           call[t].op # "incoming_rtp"
    PROVE  /\ \A u \in Callbacks : call[u].pc \in {"body", "join"} => u = t
           /\ rtp.pc # "relay" /\ acap.pc # "relay" /\ aplay.pc # "walk"
<1>1. \A k \in Kinds : lock[k] = t
  BY DEF LockInv, Held
<1>2. \A u \in Callbacks : call[u].pc \in {"body", "join"} => "aplay" \in Held(call[u])
  BY DEF Held, Kinds
<1>3. \A u \in Callbacks : call[u].pc \in {"body", "join"} => lock["aplay"] = u
  BY <1>2 DEF LockInv
<1>4. t # "rtp" /\ t # "acap" /\ t # "aplay"
  BY ThreadsAssumption
<1> QED
  BY <1>1, <1>3, <1>4 DEF LockInv, Kinds

LEMMA CallsStep ==
    ASSUME TypeOK, WalkTypeOK, CallsInv, [Next]_vars
    PROVE  CallsInv'
<1> USE DEF CallsInv, WalkTypeOK
<1>1. CASE UNCHANGED call
  BY <1>1
<1>2. ASSUME NEW t \in Callbacks, NEW op \in Ops, NEW s \in Sessions, NEW arg \in BOOLEAN,
             Call(t, op, s, arg)
      PROVE  CallsInv'
  <2>1. /\ call' = [call EXCEPT ![t] = [op |-> op, session |-> s, pc |-> Locks(op)[1],
                                        arg |-> arg]]
        /\ Locks(op)[1] \in Kinds
        /\ op = "incoming_rtp" => Locks(op)[1] = "aplay"
        /\ op # "none"
    BY <1>2 DEF Call, Locks, Kinds, Ops
  <2> QED
    BY <2>1 DEF Kinds
<1>3. ASSUME NEW t \in Callbacks, TakeLock(t) PROVE CallsInv'
  <2>1. PICK k \in Kinds :
          /\ call[t].pc = k
          /\ call' = [call EXCEPT ![t].pc = NextLock(call[t].op, k)]
    BY <1>3 DEF TakeLock
  <2>2. NextLock(call[t].op, k) \in {"acap", "aplay", "body"}
        /\ (k = "aplay" => NextLock(call[t].op, k) = "body")
    BY DEF NextLock, Kinds
  <2> QED
    BY <2>1, <2>2 DEF Kinds
<1>4. ASSUME NEW t \in Callbacks, Return(t) PROVE CallsInv'
  BY <1>4 DEF Return, Idle
<1>5. ASSUME NEW t \in Callbacks, destroy_session(t) PROVE CallsInv'
  BY <1>5 DEF destroy_session, InBody
<1>6. ASSUME NEW t \in Callbacks, ListStep(t) PROVE CallsInv'
  BY <1>4, <1>5, <1>6 DEF ListStep, create_session, destroy_session_join, set_transmit,
                          watch, incoming_rtp
<1>7. CASE QuietStep
  BY <1>1, <1>7, QuietKeeps DEF listVars
<1>8. CASE WalkerMoves \/ WalkerLocks
  BY <1>1, <1>8, WalkerKeeps
<1>9. CASE Destroy \/ DestroyStep
  BY <1>1, <1>9 DEF Destroy, DestroyStep, DestroyJoin, DestroyEnd, DestroyClient
<1>10. CASE Calls
  BY <1>2, <1>10, CallsAreCalls DEF TypeOK
<1> QED
  BY <1>1, <1>3, <1>6, <1>7, <1>8, <1>9, <1>10, StepKinds DEF vars

\* What a walking thread does without looking at a mutex begins no walk and
\* gives it no new clients to visit.
LEMMA NoWalkBegins ==
    ASSUME WalkTypeOK, WalkerMoves
    PROVE  /\ rtp'.pc = "relay" <=> rtp.pc = "relay"
           /\ acap'.pc = "relay" <=> acap.pc = "relay"
           /\ aplay'.pc = "walk" <=> aplay.pc = "walk"
           /\ rtp'.todo \subseteq rtp.todo
           /\ acap'.todo \subseteq acap.todo
           /\ aplay'.todo \subseteq aplay.todo
<1> USE DEF WalkTypeOK
<1>1. CASE RtpGet \/ \E s \in Sessions : RtpRelay(s)
  BY <1>1 DEF RtpGet, RtpRelay, audioVars
<1>2. CASE AcapOpen
  <2>0. /\ NoAcap \in [pc : {"poll"}, todo : {{}}, open : BOOLEAN, stop : BOOLEAN,
                       pcm : BOOLEAN, enc : BOOLEAN]
        /\ NoAcap.pc = "poll" /\ NoAcap.todo = {}
    BY DEF NoAcap
  <2>1. \A a \in acap_init : a.pc \in {"loop", "poll"} /\ a.todo = {}
    BY <2>0 DEF acap_init
  <2> QED
    BY <1>2, <2>1 DEF AcapOpen, videoVars
<1>3. CASE AcapLeave \/ AcapRateChanged \/ AcapFails \/ AcapThread
  BY <1>3 DEF AcapLeave, AcapRateChanged, AcapFails, AcapThread, videoVars
<1>4. CASE AcapClose
  <2>1. NoAcap.pc = "poll" /\ NoAcap.todo = {}
    BY DEF NoAcap
  <2> QED
    BY <1>4, <2>1 DEF AcapClose, videoVars
<1>5. CASE AplayPlay
  BY <1>5 DEF AplayPlay, videoVars
<1> QED
  BY <1>1, <1>2, <1>3, <1>4, <1>5 DEF WalkerMoves

\* A mutex that is taken was free, one that is given back was one's own.
LEMMA LockStep ==
    ASSUME TypeOK, WalkTypeOK, CallsInv, LockInv, [Next]_vars
    PROVE  LockInv'
<1> USE DEF LockInv
<1>0. /\ lock \in [Kinds -> Callbacks \cup {NoOne, "rtp", "acap", "aplay"}]
      /\ \A t \in Callbacks : Held(call[t]) \subseteq Kinds
  BY DEF TypeOK, Held, Kinds
<1>1. CASE UNCHANGED <<call, lock>> /\ UNCHANGED <<rtp.pc, acap.pc, aplay.pc>>
  BY <1>1
<1>2. ASSUME NEW t \in Callbacks, NEW op \in Ops, NEW s \in Sessions, NEW arg \in BOOLEAN,
             Call(t, op, s, arg)
      PROVE  LockInv'
  <2>1. /\ UNCHANGED <<lock, rtp, acap, aplay>>
        /\ \A u \in Callbacks : u # t => call'[u] = call[u]
        /\ call'[t] = [op |-> op, session |-> s, pc |-> Locks(op)[1], arg |-> arg]
    BY <1>2 DEF Call, videoVars, audioVars, WalkTypeOK
  <2>2. Held(call'[t]) = {}
    BY <2>1 DEF Held, Locks, Ops
  <2> QED
    BY <2>1, <2>2
<1>3. ASSUME NEW t \in Callbacks, TakeLock(t) PROVE LockInv'
  <2>1. PICK k \in Kinds :
          /\ call[t].pc = k
          /\ lock[k] = NoOne
          /\ lock' = [lock EXCEPT ![k] = t]
          /\ call' = [call EXCEPT ![t].pc = NextLock(call[t].op, k)]
    BY <1>3 DEF TakeLock
  <2>2. UNCHANGED <<rtp, acap, aplay>>
    BY <1>3, CallbackKeeps
  <2>3. /\ call'[t].op = call[t].op
        /\ call'[t].pc = NextLock(call[t].op, k)
        /\ \A u \in Callbacks : u # t => call'[u] = call[u]
    BY <2>1 DEF WalkTypeOK
  <2>4. Held(call'[t]) \subseteq Held(call[t]) \cup {k}
    BY <2>1, <2>3 DEF Held, NextLock, Kinds, CallsInv
  <2>5. \A u \in Callbacks \cup {"rtp", "acap", "aplay"} : u # NoOne
    BY NoOneAssumption
  <2>6. /\ lock'[k] = t
        /\ \A j \in Kinds : j # k => lock'[j] = lock[j]
    BY <1>0, <2>1
  <2>7. \A j \in Held(call'[t]) : lock'[j] = t
    BY <1>0, <2>4, <2>6
  <2>8. \A u \in Callbacks : u # t => \A j \in Held(call'[u]) : lock'[j] = u
    BY <1>0, <2>1, <2>3, <2>5, <2>6
  <2> QED
    BY <2>1, <2>2, <2>5, <2>6, <2>7, <2>8 DEF Kinds
<1>4. ASSUME NEW t \in Callbacks, Return(t), UNCHANGED <<rtp, acap, aplay>> PROVE LockInv'
  <2>1. /\ Held(call'[t]) = {}
        /\ \A u \in Callbacks : u # t => call'[u] = call[u]
        /\ \A k \in Kinds : lock[k] # t => lock'[k] = lock[k]
    BY <1>4 DEF Return, Held, Idle, WalkTypeOK
  <2>2. t # "rtp" /\ t # "acap" /\ t # "aplay"
    BY ThreadsAssumption
  <2> QED
    BY <1>0, <1>4, <2>1, <2>2 DEF Kinds
<1>5. ASSUME NEW t \in Callbacks, destroy_session(t) PROVE LockInv'
  <2>1. /\ UNCHANGED <<lock, rtp, acap, aplay>>
        /\ \A u \in Callbacks : u # t => call'[u] = call[u]
        /\ call'[t].op = call[t].op /\ call[t].pc = "body" /\ call'[t].pc = "join"
    BY <1>5 DEF destroy_session, InBody, videoVars, audioVars, WalkTypeOK
  <2>2. Held(call'[t]) = Held(call[t])
    BY <2>1 DEF Held
  <2> QED
    BY <2>1, <2>2
<1>6. ASSUME NEW t \in Callbacks, ListStep(t) PROVE LockInv'
  BY <1>4, <1>5, <1>6, CallbackKeeps
     DEF ListStep, create_session, destroy_session_join, set_transmit, watch, incoming_rtp
<1>7. CASE QuietStep
  BY <1>1, <1>7, QuietKeeps DEF listVars
<1>8. CASE WalkerMoves
  BY <1>8, WalkerKeeps, NoWalkBegins
<1>9. CASE WalkerLocks
  <2>1. call' = call
    BY <1>9, WalkerKeeps
  <2>2. \A u \in Callbacks : u \notin {NoOne, "rtp", "acap", "aplay"}
    BY NoOneAssumption, ThreadsAssumption
  <2>3. CASE RtpLock \/ RtpUnlock
    BY <1>0, <2>1, <2>2, <2>3 DEF RtpLock, RtpUnlock, WalkLock, Kinds, WalkTypeOK, audioVars
  <2>4. CASE AcapLock \/ AcapRelay
    BY <1>0, <2>1, <2>2, <2>4 DEF AcapLock, AcapRelay, WalkLock, Kinds, WalkTypeOK, videoVars
  <2>5. CASE AplayLock \/ AplayWalk
    BY <1>0, <2>1, <2>2, <2>5 DEF AplayLock, AplayWalk, WalkLock, Kinds, WalkTypeOK, videoVars
  <2> QED
    BY <1>9, <2>3, <2>4, <2>5 DEF WalkerLocks
<1>10. CASE Destroy \/ DestroyStep
  BY <1>1, <1>10 DEF Destroy, DestroyStep, DestroyJoin, DestroyEnd, DestroyClient,
                     videoVars, audioVars
<1>11. CASE Calls
  BY <1>2, <1>11, CallsAreCalls DEF TypeOK
<1>12. CASE UNCHANGED vars
  BY <1>1, <1>12 DEF vars, videoVars, audioVars
<1> QED
  BY <1>3, <1>6, <1>7, <1>8, <1>9, <1>10, <1>11, <1>12, StepKinds

-----------------------------------------------------------------------------
(* The list of sessions *)

\* The walks visit only clients that are on the list: whoever shortens the
\* list is alone with it.
LEMMA WalkStep ==
    ASSUME TypeOK, WalkTypeOK, CallsInv, LockInv, WalkInv, DestroyInv, [Next]_vars
    PROVE  WalkInv'
<1> USE DEF WalkInv, WalksAreSafe
<1>1. CASE UNCHANGED <<rtp, acap, aplay>> /\ clients \subseteq clients'
  BY <1>1
<1>2. CASE Calls
  BY <1>1, <1>2 DEF Calls, Call, clientVars, videoVars, audioVars
<1>3. ASSUME NEW t \in Callbacks, TakeLock(t) \/ ListStep(t) PROVE WalkInv'
  <2>1. UNCHANGED <<rtp, acap, aplay>>
    BY <1>3, CallbackKeeps
  <2>2. CASE destroy_session(t)
    <3>1. rtp.pc # "relay" /\ acap.pc # "relay" /\ aplay.pc # "walk"
      BY <2>2, ListOwner DEF destroy_session, InBody
    <3> QED
      BY <2>1, <3>1
  <2>3. CASE ~destroy_session(t)
    <3>1. clients \subseteq clients'
      BY <1>3, <2>3 DEF TakeLock, ListStep, create_session, destroy_session_join,
                        set_transmit, watch, incoming_rtp, clientVars
    <3> QED
      BY <1>1, <2>1, <3>1
  <2> QED
    BY <2>2, <2>3
<1>4. CASE QuietStep
  BY <1>1, <1>4, QuietKeeps DEF listVars
<1>5. CASE WalkerMoves
  BY <1>5, WalkerKeeps, NoWalkBegins
<1>6. CASE WalkerLocks
  <2>1. clients' = clients
    BY <1>6, WalkerKeeps
  <2>2. CASE RtpLock \/ RtpUnlock
    BY <2>1, <2>2 DEF RtpLock, RtpUnlock, WalkTypeOK, audioVars
  <2>3. CASE AcapLock \/ AcapRelay
    <3>1. /\ rtp' = rtp /\ aplay' = aplay
          /\ \/ acap.pc = "loop" /\ acap' = [acap EXCEPT !.pc = "relay", !.todo = clients]
             \/ acap.todo = {} /\ acap' = [acap EXCEPT !.pc = "loop"]
             \/ /\ acap.pc = "relay"
                /\ \E s \in acap.todo : acap' = [acap EXCEPT !.todo = acap.todo \ {s}]
      BY <2>3 DEF AcapLock, AcapRelay, videoVars
    <3>2. /\ acap'.pc # "relay" => acap'.todo = {}
          /\ acap'.todo \subseteq clients
      <4>1. ASSUME acap' = [acap EXCEPT !.pc = "relay", !.todo = clients]
            PROVE  acap'.pc = "relay" /\ acap'.todo = clients
        BY <4>1 DEF WalkTypeOK
      <4>2. ASSUME acap' = [acap EXCEPT !.pc = "loop"]
            PROVE  acap'.todo = acap.todo
        BY <4>2 DEF WalkTypeOK
      <4>3. ASSUME NEW s \in acap.todo, acap' = [acap EXCEPT !.todo = acap.todo \ {s}]
            PROVE  acap'.pc = acap.pc /\ acap'.todo \subseteq acap.todo
        BY <4>3 DEF WalkTypeOK
      <4> QED
        BY <3>1, <4>1, <4>2, <4>3
    <3> QED
      BY <2>1, <3>1, <3>2
  <2>4. CASE AplayLock \/ AplayWalk
    <3>1. /\ rtp' = rtp /\ acap' = acap
          /\ \/ aplay' = [pc |-> "exited", todo |-> {}, open |-> FALSE]
             \/ aplay' = [aplay EXCEPT !.pc = "walk", !.todo = clients]
             \/ aplay.todo = {} /\ aplay' = [aplay EXCEPT !.pc = "play"]
             \/ /\ aplay.pc = "walk"
                /\ \E s \in aplay.todo : aplay' = [aplay EXCEPT !.todo = aplay.todo \ {s}]
      BY <2>4 DEF AplayLock, AplayWalk, videoVars
    <3>2. /\ aplay'.pc # "walk" => aplay'.todo = {}
          /\ aplay'.todo \subseteq clients
      <4>1. ASSUME aplay' = [aplay EXCEPT !.pc = "walk", !.todo = clients]
            PROVE  aplay'.pc = "walk" /\ aplay'.todo = clients
        BY <4>1 DEF WalkTypeOK
      <4>2. ASSUME aplay' = [aplay EXCEPT !.pc = "play"]
            PROVE  aplay'.todo = aplay.todo
        BY <4>2 DEF WalkTypeOK
      <4>3. ASSUME NEW s \in aplay.todo, aplay' = [aplay EXCEPT !.todo = aplay.todo \ {s}]
            PROVE  aplay'.pc = aplay.pc /\ aplay'.todo \subseteq aplay.todo
        BY <4>3 DEF WalkTypeOK
      <4> QED
        BY <3>1, <4>1, <4>2, <4>3
    <3> QED
      BY <2>1, <3>1, <3>2
  <2> QED
    BY <1>6, <2>2, <2>3, <2>4 DEF WalkerLocks
<1>7. ASSUME NEW s \in Sessions, DestroyClient(s) PROVE WalkInv'
  <2>1. /\ UNCHANGED <<rtp, acap, aplay>>
        /\ rtp.pc # "relay" /\ acap.pc # "relay" /\ aplay.pc # "walk"
    BY <1>7 DEF DestroyClient, DestroyInv, videoVars, audioVars
  <2> QED
    BY <2>1
<1>8. CASE Destroy \/ DestroyJoin \/ DestroyEnd
  BY <1>1, <1>8 DEF Destroy, DestroyJoin, DestroyEnd, clientVars, videoVars, audioVars
<1>9. CASE UNCHANGED vars
  BY <1>1, <1>9 DEF vars, clientVars, videoVars, audioVars
<1> QED
  BY <1>2, <1>3, <1>4, <1>5, <1>6, <1>7, <1>8, <1>9, StepKinds DEF DestroyStep

\* Creating and destroying a session
LEMMA SessionStep ==
    ASSUME TypeOK, WalkTypeOK, CallsInv, LockInv, SessionInv, [Next]_vars
    PROVE  SessionInv'
<1> USE DEF SessionInv
<1>1. CASE UNCHANGED call /\ clients' \subseteq clients
  BY <1>1
<1>2. ASSUME NEW t \in Callbacks, NEW op \in Ops, NEW s \in Sessions, NEW arg \in BOOLEAN,
             Call(t, op, s, arg)
      PROVE  SessionInv'
  <2>1. /\ clients' = clients
        /\ \A u \in Callbacks : u # t => call'[u] = call[u]
        /\ call'[t].op = op /\ call'[t].session = s /\ call'[t].pc # "join"
    BY <1>2 DEF Call, Locks, clientVars, WalkTypeOK
  <2>2. /\ op = "create_session" => /\ s \notin clients
                                    /\ \A u \in Callbacks : call[u].session # s
        /\ op = "destroy_session" => \A u \in Callbacks :
                 call[u].session = s => call[u].op # "destroy_session"
    BY <1>2 DEF Call
  <2> QED
    BY <2>1, <2>2
<1>3. ASSUME NEW t \in Callbacks, TakeLock(t) PROVE SessionInv'
  <2>1. PICK k \in Kinds :
          call' = [call EXCEPT ![t].pc = NextLock(call[t].op, k)]
    BY <1>3 DEF TakeLock
  <2>2. NextLock(call[t].op, k) # "join"
    BY DEF NextLock
  <2>3. /\ clients' = clients
        /\ \A u \in Callbacks : u # t => call'[u] = call[u]
        /\ call'[t].op = call[t].op /\ call'[t].session = call[t].session
        /\ call'[t].pc # "join"
    BY <1>3, <2>1, <2>2 DEF TakeLock, clientVars, WalkTypeOK
  <2> QED
    BY <2>3
<1>4. ASSUME NEW t \in Callbacks, Return(t), clients' = clients PROVE SessionInv'
  <2>1. /\ \A u \in Callbacks : u # t => call'[u] = call[u]
        /\ call'[t].op = "none" /\ call'[t].pc = "none"
    BY <1>4 DEF Return, Idle, WalkTypeOK
  <2> QED
    BY <1>4, <2>1
<1>5. ASSUME NEW t \in Callbacks, create_session(t) PROVE SessionInv'
  <2>1. /\ \A u \in Callbacks : u # t => call'[u] = call[u]
        /\ call'[t].op = "none" /\ call'[t].pc = "none"
        /\ clients' = clients \cup {call[t].session}
        /\ call[t].op = "create_session" /\ call[t].pc = "body"
    BY <1>5 DEF create_session, InBody, Return, Idle, WalkTypeOK
  <2>2. \A u \in Callbacks : u # t => call[u].pc # "join"
    BY <2>1, ListOwner
  <2> QED
    BY <2>1, <2>2
<1>6. ASSUME NEW t \in Callbacks, destroy_session(t) PROVE SessionInv'
  <2>1. /\ \A u \in Callbacks : u # t => call'[u] = call[u]
        /\ call'[t].op = call[t].op /\ call'[t].session = call[t].session
        /\ clients' = clients \ {call[t].session}
        /\ call[t].op = "destroy_session"
    BY <1>6 DEF destroy_session, InBody, WalkTypeOK
  <2> QED
    BY <2>1
<1>7. ASSUME NEW t \in Callbacks, ListStep(t) PROVE SessionInv'
  BY <1>4, <1>5, <1>6, <1>7
     DEF ListStep, destroy_session_join, set_transmit, watch, incoming_rtp, clientVars
<1>8. CASE QuietStep
  BY <1>1, <1>8, QuietKeeps DEF listVars
<1>9. CASE WalkerMoves \/ WalkerLocks
  BY <1>1, <1>9, WalkerKeeps
<1>10. CASE Destroy \/ DestroyStep
  BY <1>1, <1>10 DEF Destroy, DestroyStep, DestroyJoin, DestroyEnd, DestroyClient,
                     clientVars
<1>11. CASE Calls
  BY <1>2, <1>11, CallsAreCalls DEF TypeOK
<1>12. CASE UNCHANGED vars
  BY <1>1, <1>12 DEF vars, clientVars
<1> QED
  BY <1>3, <1>7, <1>8, <1>9, <1>10, <1>11, <1>12, StepKinds

\* The end of the plugin
LEMMA DestroyInvStep ==
    ASSUME TypeOK, WalkTypeOK, CallsInv, DestroyInv, [Next]_vars
    PROVE  DestroyInv'
<1> USE DEF DestroyInv, Stop, WithAudio
<1>1. CASE UNCHANGED <<call, rtp.pc, acap.pc, aplay.pc, plugin, world>>
  BY <1>1
<1>2. CASE Calls
  BY <1>2 DEF Calls, Call, videoVars, audioVars, pluginVars
<1>3. ASSUME NEW t \in Callbacks, TakeLock(t) \/ ListStep(t) PROVE DestroyInv'
  <2>1. call[t].pc # "none"
    BY <1>3 DEF TakeLock, ListStep, create_session, destroy_session, destroy_session_join,
                set_transmit, watch, incoming_rtp, InBody, Kinds
  <2>2. plugin = "on"
    BY <2>1 DEF Idle
  <2> QED
    BY <1>3, <2>2, CallbackKeeps
<1>4. CASE QuietStep
  BY <1>1, <1>4, QuietKeeps DEF listVars
<1>5. CASE WalkerMoves \/ WalkerLocks
  <2>1. UNCHANGED <<call, plugin, world>>
    BY <1>5, WalkerKeeps
  <2>2. rtp.pc = "exited" => rtp' = rtp
    BY <1>5 DEF WalkerMoves, WalkerLocks, RtpGet, RtpRelay, AcapOpen, AcapLeave,
                AcapClose, AcapRateChanged, AcapFails, AcapThread, AplayPlay, RtpLock,
                RtpUnlock, AcapLock, AcapRelay, AplayLock, AplayWalk, videoVars
  <2>3. \/ acap' = acap
        \/ acap'.pc = acap.pc
        \/ acap.pc \notin {"poll", "exited"}
        \/ WithAudio /\ acap.pc = "poll"
    BY <1>5 DEF WalkerMoves, WalkerLocks, RtpGet, RtpRelay, AcapOpen, AcapLeave,
                AcapClose, AcapRateChanged, AcapFails, AcapThread, AplayPlay, RtpLock,
                RtpUnlock, AcapLock, AcapRelay, AplayLock, AplayWalk, audioVars, WalkTypeOK
  <2>4. \/ aplay' = aplay
        \/ aplay.pc \notin {"mix", "exited"}
        \/ WithAudio /\ aplay.pc = "mix"
    BY <1>5 DEF WalkerMoves, WalkerLocks, RtpGet, RtpRelay, AcapOpen, AcapLeave,
                AcapClose, AcapRateChanged, AcapFails, AcapThread, AplayPlay, RtpLock,
                RtpUnlock, AcapLock, AcapRelay, AplayLock, AplayWalk, audioVars
  <2> QED
    BY <2>1, <2>2, <2>3, <2>4
<1>6. CASE Destroy
  BY <1>6 DEF Destroy, videoVars, audioVars
<1>7. CASE DestroyStep
  BY <1>7 DEF DestroyStep, DestroyJoin, DestroyEnd, DestroyClient, videoVars, audioVars,
              pluginVars
<1>8. CASE UNCHANGED vars
  BY <1>1, <1>8 DEF vars, videoVars, audioVars, pluginVars
<1> QED
  BY <1>2, <1>3, <1>4, <1>5, <1>6, <1>7, <1>8, StepKinds

\* Only the packer takes frames from the ring.
LEMMA RingStep ==
    ASSUME TypeOK, WalkTypeOK, RingInv, [Next]_vars
    PROVE  RingInv'
<1> USE DEF RingInv
<1>1. CASE UNCHANGED <<rtp, ring>>
  BY <1>1
<1>2. CASE Calls
  BY <1>1, <1>2 DEF Calls, Call, ringVars, videoVars
<1>3. ASSUME NEW t \in Callbacks, TakeLock(t) \/ ListStep(t) PROVE RingInv'
  BY <1>1, <1>3, CallbackKeeps
<1>4. CASE QuietStep
  <2>1. CASE SinkGet
    <3>1. PICK f \in Frames : ring' = ring \/ ring' = Append(ring, f)
      BY <2>1 DEF SinkGet, Frames
    <3>2. rtp' = rtp
      BY <2>1 DEF SinkGet
    <3> QED
      BY <3>1, <3>2, QueueMoves DEF TypeOK
  <2>2. CASE ~SinkGet
    BY <1>1, <1>4, <2>2
       DEF QuietStep, AskKey, ClientStep, ClientVideo, ClientAudio, ClientExits, SinkStep,
           SinkPoll, SinkStore, Encode, ringVars, videoVars
  <2> QED
    BY <2>1, <2>2
<1>5. CASE WalkerMoves \/ WalkerLocks
  <2>1. CASE RtpGet \/ RtpLock \/ RtpUnlock \/ \E s \in Sessions : RtpRelay(s)
    BY <2>1 DEF RtpGet, RtpLock, RtpUnlock, RtpRelay, WalkTypeOK, ringVars
  <2>2. CASE ~(RtpGet \/ RtpLock \/ RtpUnlock \/ \E s \in Sessions : RtpRelay(s))
    BY <1>1, <1>5, <2>2
       DEF WalkerMoves, WalkerLocks, AcapOpen, AcapLeave, AcapClose, AcapRateChanged,
           AcapFails, AcapThread, AplayPlay, AcapLock, AcapRelay, AplayLock, AplayWalk,
           ringVars, videoVars
  <2> QED
    BY <2>1, <2>2
<1>6. CASE Destroy \/ DestroyStep
  BY <1>1, <1>6 DEF Destroy, DestroyStep, DestroyJoin, DestroyEnd, DestroyClient,
                    ringVars, videoVars
<1>7. CASE UNCHANGED vars
  BY <1>1, <1>7 DEF vars, ringVars, videoVars
<1> QED
  BY <1>2, <1>3, <1>4, <1>5, <1>6, <1>7, StepKinds

-----------------------------------------------------------------------------
(* The flags *)

\* The flags depend on transmit, acap and aplay of the listed clients only.
LEMMA FlagsKept ==
    ASSUME NEW set, NEW c, NEW d,
           \A s \in set : /\ c[s].transmit = d[s].transmit
                          /\ c[s].acap = d[s].acap
                          /\ c[s].aplay = d[s].aplay
    PROVE  FlagsOf(set, c) = FlagsOf(set, d)
<1>1. /\ (\E s \in set : c[s].transmit) = (\E s \in set : d[s].transmit)
      /\ (\E s \in set : c[s].acap) = (\E s \in set : d[s].acap)
      /\ (\E s \in set : c[s].aplay) = (\E s \in set : d[s].aplay)
  BY Zenon
<1> QED
  BY <1>1, Zenon DEF FlagsOf

\* The fields of the flags, for the provers
LEMMA FlagFields ==
    ASSUME NEW set, NEW c
    PROVE  /\ FlagsOf(set, c).watchers = (\E s \in set : c[s].transmit)
           /\ FlagsOf(set, c).listeners = (\E s \in set : c[s].acap)
           /\ FlagsOf(set, c).speakers = (\E s \in set : c[s].aplay)
  BY Zenon DEF FlagsOf

\* FlagsMatchClients, field by field
LEMMA FlagsUnfolded ==
    FlagsMatchClients <=>
      /\ \A s \in clients : client[s].transmit => has.watchers
      /\ \A s \in clients : client[s].acap => has.listeners
      /\ \A s \in clients : client[s].aplay => has.speakers
      /\ (\A t \in Callbacks : call[t].pc # "join") /\ ~Stop =>
            /\ has.listeners = (\E s \in clients : client[s].acap)
            /\ has.speakers = (\E s \in clients : client[s].aplay)
  BY FlagFields, Zenon DEF FlagsMatchClients

LEMMA FlagsUnfoldedPrimed ==
    FlagsMatchClients' <=>
      /\ \A s \in clients' : client'[s].transmit => has'.watchers
      /\ \A s \in clients' : client'[s].acap => has'.listeners
      /\ \A s \in clients' : client'[s].aplay => has'.speakers
      /\ (\A t \in Callbacks : call'[t].pc # "join") /\ ~Stop' =>
            /\ has'.listeners = (\E s \in clients' : client'[s].acap)
            /\ has'.speakers = (\E s \in clients' : client'[s].aplay)
  BY FlagFields, Zenon DEF FlagsMatchClients

\* The flags of a client are fields of their own: setting one leaves the others.
LEMMA ClientFields ==
    ASSUME NEW c \in [transmit : BOOLEAN, acap : BOOLEAN, aplay : BOOLEAN, stop : BOOLEAN],
           NEW v
    PROVE  /\ [c EXCEPT !.stop = v].transmit = c.transmit
           /\ [c EXCEPT !.stop = v].acap = c.acap
           /\ [c EXCEPT !.stop = v].aplay = c.aplay
           /\ [c EXCEPT !.transmit = v].acap = c.acap
           /\ [c EXCEPT !.transmit = v].aplay = c.aplay
           /\ [c EXCEPT !.acap = v, !.aplay = v].transmit = c.transmit
  OBVIOUS

LEMMA FlagsCallback ==
    ASSUME TypeOK, WalkTypeOK, CallsInv, LockInv, SessionInv, FlagsMatchClients,
           NEW t \in Callbacks, ListStep(t)
    PROVE  FlagsMatchClients'
<1> DEFINE s == call[t].session
<1>0. /\ call[t].pc \in {"body", "join"}
      /\ s \in Sessions
      /\ Stop' = Stop
  BY CallbackKeeps
     DEF ListStep, create_session, destroy_session, destroy_session_join, set_transmit,
         watch, incoming_rtp, InBody, CallsInv, Stop
<1>b. /\ client \in [Sessions -> [transmit : BOOLEAN, acap : BOOLEAN, aplay : BOOLEAN,
                                 stop : BOOLEAN]]
      /\ \A x \in clients : /\ x \in Sessions
                            /\ client[x] \in [transmit : BOOLEAN, acap : BOOLEAN,
                                              aplay : BOOLEAN, stop : BOOLEAN]
  BY DEF TypeOK
<1>1. call[t].pc = "body" => \A u \in Callbacks : call[u].pc # "join"
  <2> SUFFICES ASSUME call[t].pc = "body", NEW u \in Callbacks, call[u].pc = "join"
               PROVE  FALSE
    OBVIOUS
  <2>1. call[u].op # "incoming_rtp"
    BY DEF CallsInv
  <2>2. t = u
    BY <2>1, ListOwner
  <2> QED
    BY <2>2
<1>2. CASE create_session(t)
  <2>1. /\ clients' = clients \cup {s} /\ s \notin clients
        /\ client' = [client EXCEPT ![s] = NewClient]
        /\ has' = [has EXCEPT !.watchers = TRUE]
        /\ call[t].pc = "body"
    BY <1>2 DEF create_session, InBody, SessionInv
  <2>2. /\ client'[s] = NewClient
        /\ \A x \in clients : client'[x] = client[x]
        /\ has'.watchers = TRUE
        /\ has'.listeners = has.listeners /\ has'.speakers = has.speakers
    BY <2>1, <1>0 DEF TypeOK
  <2>3. ~NewClient.transmit /\ ~NewClient.acap /\ ~NewClient.aplay
    BY DEF NewClient
  <2>4. /\ (\E x \in clients' : client'[x].acap) = (\E x \in clients : client[x].acap)
        /\ (\E x \in clients' : client'[x].aplay) = (\E x \in clients : client[x].aplay)
    BY <2>1, <2>2, <2>3
  <2> QED
    BY <1>0, <1>1, <2>1, <2>2, <2>3, <2>4, FlagsUnfolded, FlagsUnfoldedPrimed
<1>3. CASE destroy_session(t)
  <2>1. /\ clients' \subseteq clients /\ has' = has
        /\ \/ client' = client
           \/ client' = [client EXCEPT ![s] = [client[s] EXCEPT !.stop = TRUE]]
        /\ call'[t].pc = "join"
    BY <1>3 DEF destroy_session, AskedToStop, WalkTypeOK
  <2>2. \A x \in clients : /\ client'[x].transmit = client[x].transmit
                           /\ client'[x].acap = client[x].acap
                           /\ client'[x].aplay = client[x].aplay
    <3> TAKE x \in clients
    <3>1. client'[x] = client[x] \/ client'[x] = [client[x] EXCEPT !.stop = TRUE]
      BY <2>1, <1>b
    <3> QED
      BY <1>b, <3>1, ClientFields
  <2> QED
    BY <2>1, <2>2, FlagsUnfolded, FlagsUnfoldedPrimed
<1>4. CASE destroy_session_join(t)
  <2>1. /\ clients' = clients /\ s \notin clients
        /\ client' = [client EXCEPT ![s] = NewClient]
        /\ has' = FlagsOf(clients, client)
    BY <1>4 DEF destroy_session_join, Free, SessionInv
  <2>2. \A x \in clients : client'[x] = client[x]
    BY <2>1 DEF TypeOK
  <2>3. /\ has'.watchers = (\E x \in clients : client[x].transmit)
        /\ has'.listeners = (\E x \in clients : client[x].acap)
        /\ has'.speakers = (\E x \in clients : client[x].aplay)
    BY <2>1, FlagFields, Zenon
  <2> QED
    BY <2>1, <2>2, <2>3, FlagsUnfoldedPrimed
<1>5. CASE set_transmit(t)
  <2>1. /\ clients' = clients
        /\ \/ client' = client
           \/ client' = [client EXCEPT ![s] = [client[s] EXCEPT !.transmit = call[t].arg]]
        /\ has' = [has EXCEPT !.watchers = FlagsOf(clients, client').watchers]
        /\ call[t].pc = "body"
    BY <1>5 DEF set_transmit, InBody
  <2>2. /\ has'.watchers = FlagsOf(clients, client').watchers
        /\ has'.listeners = has.listeners /\ has'.speakers = has.speakers
    BY <2>1 DEF TypeOK
  <2>3. \A x \in clients : client'[x].acap = client[x].acap
                           /\ client'[x].aplay = client[x].aplay
    <3> TAKE x \in clients
    <3>1. client'[x] = client[x]
          \/ client'[x] = [client[x] EXCEPT !.transmit = call[t].arg]
      BY <2>1, <1>b
    <3> QED
      BY <1>b, <3>1, ClientFields
  <2> QED
    BY <1>0, <1>1, <2>1, <2>2, <2>3, FlagFields, FlagsUnfolded, FlagsUnfoldedPrimed
<1>6. CASE watch(t)
  <2>1. /\ clients' = clients
        /\ \/ client' = client
           \/ client' = [client EXCEPT ![s] = [client[s] EXCEPT
                               !.acap = call[t].arg /\ WithAudio,
                               !.aplay = call[t].arg /\ WithAudio]]
        /\ has' = [FlagsOf(clients, client') EXCEPT !.watchers = has.watchers]
    BY <1>6 DEF watch
  <2>2. /\ has'.watchers = has.watchers
        /\ has'.listeners = FlagsOf(clients, client').listeners
        /\ has'.speakers = FlagsOf(clients, client').speakers
    BY <2>1 DEF FlagsOf
  <2>3. \A x \in clients : client'[x].transmit = client[x].transmit
    <3> TAKE x \in clients
    <3> DEFINE new == [client[x] EXCEPT !.acap = call[t].arg /\ WithAudio,
                                        !.aplay = call[t].arg /\ WithAudio]
    <3>1. client'[x] = client[x] \/ client'[x] = new
      BY <2>1, <1>b
    <3>2. new.transmit = client[x].transmit
      BY <1>b
    <3> QED
      BY <3>1, <3>2
  <2>4. /\ has'.listeners = (\E x \in clients : client'[x].acap)
        /\ has'.speakers = (\E x \in clients : client'[x].aplay)
    BY <2>2, FlagFields, Zenon
  <2> QED
    BY <2>1, <2>2, <2>3, <2>4, FlagsUnfolded, FlagsUnfoldedPrimed
<1>7. CASE incoming_rtp(t)
  <2>1. UNCHANGED <<clients, client, has>> /\ call[t].pc = "body"
    BY <1>7 DEF incoming_rtp, InBody, clientVars
  <2> QED
    BY <1>0, <1>1, <2>1, FlagsUnfolded, FlagsUnfoldedPrimed
<1> QED
  BY <1>2, <1>3, <1>4, <1>5, <1>6, <1>7 DEF ListStep

\* The global flags agree with the sessions whatever callbacks came in which
\* order.
LEMMA FlagsStep ==
    ASSUME TypeOK, WalkTypeOK, CallsInv, LockInv, SessionInv, FlagsMatchClients,
           [Next]_vars
    PROVE  FlagsMatchClients'
<1>1. CASE /\ UNCHANGED <<clients, client, has, plugin>>
           /\ \A t \in Callbacks : call'[t].pc = "join" <=> call[t].pc = "join"
  BY <1>1, FlagsUnfolded, FlagsUnfoldedPrimed DEF Stop
<1>2. ASSUME NEW t \in Callbacks, NEW op \in Ops, NEW s \in Sessions, NEW arg \in BOOLEAN,
             Call(t, op, s, arg)
      PROVE  FlagsMatchClients'
  <2>1. /\ call'[t].pc # "join" /\ call[t].pc = "none"
        /\ \A u \in Callbacks : u # t => call'[u] = call[u]
    BY <1>2 DEF Call, Locks, Idle, WalkTypeOK
  <2> QED
    BY <1>1, <1>2, <2>1 DEF Call, clientVars, pluginVars
<1>3. ASSUME NEW t \in Callbacks, TakeLock(t) PROVE FlagsMatchClients'
  <2>1. PICK k \in Kinds :
          call[t].pc = k /\ call' = [call EXCEPT ![t].pc = NextLock(call[t].op, k)]
    BY <1>3 DEF TakeLock
  <2>2. NextLock(call[t].op, k) # "join" /\ k # "join"
    BY DEF NextLock, Kinds
  <2>3. /\ call'[t].pc # "join" /\ call[t].pc # "join"
        /\ \A u \in Callbacks : u # t => call'[u] = call[u]
    BY <2>1, <2>2 DEF WalkTypeOK
  <2> QED
    BY <1>1, <1>3, <2>3 DEF TakeLock, clientVars, pluginVars
<1>4. CASE QuietStep
  BY <1>1, <1>4, QuietKeeps DEF listVars
<1>5. CASE WalkerMoves \/ WalkerLocks
  BY <1>1, <1>5, WalkerKeeps
<1>6. CASE Destroy \/ DestroyEnd
  BY <1>6, FlagsUnfolded, FlagsUnfoldedPrimed DEF Destroy, DestroyEnd, clientVars, Stop
<1>7. CASE DestroyJoin
  <2>1. /\ clients' = clients /\ has' = has /\ Stop'
        /\ \A x \in Sessions : client'[x] = client[x]
                               \/ client'[x] = [client[x] EXCEPT !.stop = TRUE]
    BY <1>7 DEF DestroyJoin, Stop
  <2>2. \A x \in clients : /\ client'[x].transmit = client[x].transmit
                           /\ client'[x].acap = client[x].acap
                           /\ client'[x].aplay = client[x].aplay
    <3> TAKE x \in clients
    <3>1. client[x] \in [transmit : BOOLEAN, acap : BOOLEAN, aplay : BOOLEAN, stop : BOOLEAN]
          /\ x \in Sessions
      BY DEF TypeOK
    <3>2. client'[x] = client[x] \/ client'[x] = [client[x] EXCEPT !.stop = TRUE]
      BY <2>1, <3>1
    <3> QED
      BY <3>1, <3>2, ClientFields
  <2> QED
    BY <2>1, <2>2, FlagsUnfolded, FlagsUnfoldedPrimed
<1>8. ASSUME NEW s \in Sessions, DestroyClient(s) PROVE FlagsMatchClients'
  <2>1. /\ clients' = clients \ {s} /\ has' = has /\ Stop'
        /\ client' = [client EXCEPT ![s] = NewClient]
    BY <1>8 DEF DestroyClient, Free, Stop, pluginVars
  <2>2. \A x \in clients' : client'[x] = client[x] /\ x \in clients
    BY <2>1 DEF TypeOK
  <2> QED
    BY <2>1, <2>2, FlagsUnfolded, FlagsUnfoldedPrimed
<1>9. CASE Calls
  BY <1>2, <1>9, CallsAreCalls DEF TypeOK
<1>10. CASE UNCHANGED vars
  BY <1>1, <1>10 DEF vars, clientVars, pluginVars
<1> QED
  BY <1>3, <1>4, <1>5, <1>6, <1>7, <1>8, <1>9, <1>10, FlagsCallback, StepKinds
     DEF DestroyStep

-----------------------------------------------------------------------------
(* The inductive invariant *)

LEMMA InvInit == Init => IInv
<1> SUFFICES ASSUME Init PROVE IInv
  OBVIOUS
<1>1. \A t \in Callbacks : call[t] = Idle /\ Held(call[t]) = {}
  BY DEF Init, Held, Idle
<1>2. CallsInv /\ SessionInv
  BY <1>1 DEF Init, CallsInv, SessionInv, Idle
<1>3. LockInv /\ WalkInv /\ RingInv /\ DestroyInv
  BY <1>1 DEF Init, LockInv, WalkInv, WalksAreSafe, RingInv, DestroyInv, Stop, NoAcap
<1>4. FlagsMatchClients
  BY FlagsUnfolded DEF Init
<1> QED
  BY <1>2, <1>3, <1>4, TypesInit DEF IInv

LEMMA TypesStep ==
    ASSUME IInv, [Next]_vars
    PROVE  TypeOK' /\ WalkTypeOK'
<1> USE DEF IInv
<1>1. CASE Calls
  BY <1>1, CallsAreCalls, TypesCall DEF TypeOK
<1>2. CASE WalkerMoves \/ WalkerLocks
  BY <1>2, TypesRtp, TypesAcap, TypesAplay DEF WalkerMoves, WalkerLocks
<1>3. CASE UNCHANGED vars
  BY <1>3 DEF vars, clientVars, ringVars, keyVars, videoVars, audioVars, pluginVars,
              TypeOK, WalkTypeOK
<1> QED
  BY <1>1, <1>2, <1>3, StepKinds, TypesCallback, TypesQuiet, TypesDestroy

\* The inductive invariant holds in every state of the plugin.
THEOREM PluginInvariant == Spec => []IInv
<1>1. IInv /\ [Next]_vars => IInv'
  BY TypesStep, CallsStep, LockStep, WalkStep, SessionStep, DestroyInvStep, RingStep,
     FlagsStep
     DEF IInv
<1> QED
  BY InvInit, <1>1, PTL DEF Spec

-----------------------------------------------------------------------------
(* What it says of the plugin *)

\* The type invariant, with the state of the callbacks and of the walks
THEOREM TypeCorrect == Spec => [](TypeOK /\ WalkTypeOK)
<1>1. IInv => TypeOK /\ WalkTypeOK
  BY DEF IInv
<1> QED
  BY <1>1, PluginInvariant, PTL

\* Neither the packer nor the sound capture nor the mixer goes on to a session
\* that _plugin_destroy_session() or _plugin_destroy() has taken off the list.
THEOREM WalksNeverDangle == Spec => []WalksAreSafe
<1>1. IInv => WalksAreSafe
  BY DEF IInv, WalkInv
<1> QED
  BY <1>1, PluginInvariant, PTL

\* _g_has_watchers, _g_has_listeners and _g_has_speakers agree with the
\* sessions, whatever the callbacks and their order.
THEOREM FlagsAgree == Spec => []FlagsMatchClients
<1>1. IInv => FlagsMatchClients
  BY DEF IInv
<1> QED
  BY <1>1, PluginInvariant, PTL

\* _LOCK_ALL: no two callbacks are in their bodies at once, and nobody walks
\* through the list while a callback that may change it is in its body.
ListIsGuarded ==
    \A t \in Callbacks :
        call[t].pc \in {"body", "join"} /\ call[t].op # "incoming_rtp" =>
            /\ \A u \in Callbacks : call[u].pc \in {"body", "join"} => u = t
            /\ rtp.pc # "relay" /\ acap.pc # "relay" /\ aplay.pc # "walk"

THEOREM MutexesExclude == Spec => []ListIsGuarded
<1>1. IInv => ListIsGuarded
  BY ListOwner DEF IInv, ListIsGuarded
<1> QED
  BY <1>1, PluginInvariant, PTL

\* The threads of a session run only while it is on the list or somebody joins
\* them; _plugin_destroy_session() leaves none behind.
THEOREM NoThreadLeftBehind == Spec => []ThreadsAreOwned
<1>1. Init => ThreadsAreOwned
  BY DEF Init, ThreadsAreOwned
<1>2. ASSUME IInv, ThreadsAreOwned, [Next]_vars PROVE ThreadsAreOwned'
  <2> USE <1>2 DEF ThreadsAreOwned, IInv
  <2>1. CASE /\ UNCHANGED <<clients, threads>>
             /\ \A t \in Callbacks : call[t].pc = "join" =>
                   call'[t].pc = "join" /\ call'[t].session = call[t].session
    BY <2>1
  <2>2. CASE Calls
    <3>1. PICK t \in Callbacks, op \in Ops, s \in Sessions, arg \in BOOLEAN :
            Call(t, op, s, arg)
      BY <2>2, CallsAreCalls DEF TypeOK
    <3>2. /\ call[t].pc = "none"
          /\ \A u \in Callbacks : u # t => call'[u] = call[u]
      BY <3>1 DEF Call, Idle, WalkTypeOK
    <3> QED
      BY <2>1, <3>1, <3>2 DEF Call, clientVars
  <2>3. ASSUME NEW t \in Callbacks, TakeLock(t) PROVE ThreadsAreOwned'
    <3>1. /\ call[t].pc # "join"
          /\ \A u \in Callbacks : u # t => call'[u] = call[u]
      BY <2>3 DEF TakeLock, Kinds, WalkTypeOK
    <3> QED
      BY <2>1, <2>3, <3>1 DEF TakeLock, clientVars
  <2>4. ASSUME NEW t \in Callbacks, create_session(t) PROVE ThreadsAreOwned'
    <3>1. /\ call[t].pc # "join"
          /\ \A u \in Callbacks : u # t => call'[u] = call[u]
          /\ clients' = clients \cup {call[t].session}
          /\ \A s \in Sessions : s # call[t].session => threads'[s] = threads[s]
      BY <2>4 DEF create_session, InBody, Return, WalkTypeOK, TypeOK
    <3> QED
      BY <3>1
  <2>5. ASSUME NEW t \in Callbacks, destroy_session(t) PROVE ThreadsAreOwned'
    <3>1. /\ \A u \in Callbacks : u # t => call'[u] = call[u]
          /\ call'[t].pc = "join" /\ call'[t].session = call[t].session
          /\ clients' = clients \ {call[t].session}
          /\ threads' = threads
      BY <2>5 DEF destroy_session, InBody, WalkTypeOK
    <3> QED
      BY <3>1
  <2>6. ASSUME NEW t \in Callbacks, destroy_session_join(t) PROVE ThreadsAreOwned'
    <3>1. /\ \A u \in Callbacks : u # t => call'[u] = call[u]
          /\ clients' = clients
          /\ call[t].session \in Sessions
      BY <2>6 DEF destroy_session_join, Return, WalkTypeOK, CallsInv
    <3>2. /\ \A s \in Sessions : s # call[t].session => threads'[s] = threads[s]
          /\ \A k \in Kinds : threads'[call[t].session][k] = "none"
      BY <2>6, <3>1 DEF destroy_session_join, Free, TypeOK
    <3> QED
      BY <3>1, <3>2
  <2>7. ASSUME NEW t \in Callbacks, set_transmit(t) \/ watch(t) \/ incoming_rtp(t)
        PROVE  ThreadsAreOwned'
    <3>1. /\ call[t].pc # "join"
          /\ \A u \in Callbacks : u # t => call'[u] = call[u]
          /\ UNCHANGED <<clients, threads>>
      BY <2>7 DEF set_transmit, watch, incoming_rtp, InBody, Return, WalkTypeOK, clientVars
    <3> QED
      BY <2>1, <3>1
  <2>8. CASE QuietStep
    <3>1. UNCHANGED <<call, clients>>
      BY <2>8, QuietKeeps DEF listVars
    <3>2. \A s \in Sessions, k \in Kinds : threads'[s][k] # "none" => threads[s][k] # "none"
      <4>1. CASE \E s \in Sessions, k \in Kinds : ClientExits(s, k)
        BY <4>1 DEF ClientExits, TypeOK
      <4>2. CASE threads' = threads
        BY <4>2
      <4> QED
        BY <2>8, <4>1, <4>2
           DEF QuietStep, AskKey, ClientStep, ClientVideo, ClientAudio, SinkStep,
               SinkPoll, SinkGet, SinkStore, Encode, clientVars
    <3> QED
      BY <3>1, <3>2
  <2>9. CASE WalkerMoves \/ WalkerLocks
    BY <2>1, <2>9, WalkerKeeps
  <2>10. ASSUME NEW s \in Sessions, DestroyClient(s) PROVE ThreadsAreOwned'
    <3>1. /\ \A x \in Sessions : x # s => threads'[x] = threads[x]
          /\ \A k \in Kinds : threads'[s][k] = "none"
          /\ clients' = clients \ {s} /\ call' = call
      BY <2>10 DEF DestroyClient, Free, TypeOK
    <3> QED
      BY <3>1
  <2>11. CASE Destroy \/ DestroyJoin \/ DestroyEnd \/ UNCHANGED vars
    BY <2>1, <2>11 DEF Destroy, DestroyJoin, DestroyEnd, vars, clientVars
  <2> QED
    BY <1>2, <2>2, <2>3, <2>4, <2>5, <2>6, <2>7, <2>8, <2>9, <2>10, <2>11, StepKinds
       DEF ListStep, DestroyStep
<1> QED
  BY <1>1, <1>2, PluginInvariant, PTL DEF Spec
=============================================================================
