------------------------------ MODULE Memsink ------------------------------
(***************************************************************************)
(* libs/memsink.c and janus/src/memsinkfd.c: one frame in shared memory    *)
(* between uStreamer (the server, here its H264 thread) and any number of  *)
(* other processes (the clients), guarded by flock().                      *)
(*                                                                         *)
(* Three values are abstracted to what the code compares them with:        *)
(*   mem->id            by the clients whose last_readed_id differs from it *)
(*                      (us_get_now_id() gives every put a new number);    *)
(*   mem->last_client_ts by whether client_ttl has passed since, and by    *)
(*                      whether the server has seen this value before;     *)
(*   the frame          by whether it is whole and whether it is a key one. *)
(* A process may die anywhere; the kernel then drops its lock and the      *)
(* memory stays as it is.                                                  *)
(***************************************************************************)
EXTENDS Naturals

CONSTANTS
    Clients,       \* users of us_memsink_client_get()
    JanusClients,  \* users of us_memsink_fd_wait_frame() and .._get_frame()
    Nobody         \* the lock is free

ASSUME ClientsAssumption ==
    /\ Clients \cap JanusClients = {}
    /\ "server" \notin Clients \cup JanusClients
    /\ Nobody \notin Clients \cup JanusClients \cup {"server"}

VARIABLES
    lock,        \* who holds flock(fd, LOCK_EX)
    initialized, \* mem->magic and mem->version are set
    whole,       \* the data belong to the id
    key,         \* mem->key: the frame in the memory is a key frame
    keyRequested,\* mem->key_requested
    unread,      \* the clients that have not read the id in the memory
    fresh,       \* last_client_ts + client_ttl > now
    stamp,       \* last_client_ts against unsafe_last_client_ts: "none" (both
                 \* zero), "same" or "new"
    spc,         \* where the server is
    wantKey,     \* run->h264_key_requested
    forceKey,    \* force_key of _stream_encode_expose_h264()
    frameKey,    \* the encoded frame is a key frame
    hasClients,  \* sink->has_clients
    interrupted, \* history: the last server to write died while it did
    cpc          \* where each client is

memVars == <<initialized, whole, key, keyRequested, unread>>
stampVars == <<fresh, stamp>>
serverVars == <<spc, wantKey, forceKey, frameKey, hasClients, interrupted>>
vars == <<lock, initialized, whole, key, keyRequested, unread, fresh, stamp, spc,
          wantKey, forceKey, frameKey, hasClients, interrupted, cpc>>

Readers == Clients \cup JanusClients

TypeOK ==
    /\ lock \in Readers \cup {"server", Nobody}
    /\ initialized \in BOOLEAN
    /\ whole \in BOOLEAN
    /\ key \in BOOLEAN
    /\ keyRequested \in BOOLEAN
    /\ unread \subseteq Readers
    /\ fresh \in BOOLEAN
    /\ stamp \in {"none", "same", "new"}
    /\ spc \in {"idle", "encode", "put", "write", "down"}
    /\ wantKey \in BOOLEAN
    /\ forceKey \in BOOLEAN
    /\ frameKey \in BOOLEAN
    /\ hasClients \in BOOLEAN
    /\ interrupted \in BOOLEAN
    /\ cpc \in [Readers -> {"idle", "read"}]

\* us_memsink_init_opened() on a new object: ftruncate() has zeroed it.
Init ==
    /\ lock = Nobody
    /\ initialized = FALSE
    /\ whole = TRUE
    /\ key = FALSE
    /\ keyRequested = FALSE
    /\ unread = Readers
    /\ fresh = FALSE
    /\ stamp = "none"
    /\ spc = "idle"
    /\ wantKey = FALSE
    /\ forceKey = FALSE
    /\ frameKey = FALSE
    /\ hasClients = FALSE
    /\ interrupted = FALSE
    /\ cpc = [c \in Readers |-> "idle"]

-----------------------------------------------------------------------------
(* The server: us_memsink_server_check(sink, NULL), the encoder,           *)
(* us_memsink_server_put()                                                 *)

\* The memory is not initialized, the client's stamp has changed since the
\* last look (no lock is taken for that), or it is not too old.
PutIsDue == ~initialized \/ stamp = "new" \/ fresh

\* Whether the check says yes: it does so too when it finds the lock busy.
CheckSaysYes == PutIsDue \/ lock # Nobody

\* What the check leaves behind. The unlocked read may meet the write of a
\* client that holds the lock; the garbage it then stores differs from the
\* stamp at the next look.
CheckEffect ==
    /\ stamp' \in IF ~initialized \/ stamp # "new" THEN {stamp}
                  ELSE IF lock \in Readers THEN {"same", "new"} ELSE {"same"}
    /\ hasClients' = IF initialized THEN CheckSaysYes ELSE hasClients

\* _h264_thread() with a captured frame: somebody watches.
OnlineFrame ==
    /\ spc = "idle"
    /\ CheckSaysYes
    /\ CheckEffect
    /\ spc' = "encode"
    /\ forceKey' = FALSE
    /\ UNCHANGED <<lock, fresh, wantKey, frameKey, interrupted, cpc>>
    /\ UNCHANGED memVars

\* The frame is passed: nobody watches, or the FPS limit drops it.
PassFrame ==
    /\ spc = "idle"
    /\ CheckEffect
    /\ UNCHANGED <<lock, fresh, spc, wantKey, forceKey, frameKey, interrupted, cpc>>
    /\ UNCHANGED memVars

\* _stream_init_loop() without a video source: the blank is exposed every
\* second as a key frame, with no question whether anybody watches.
OfflineFrame ==
    /\ spc = "idle"
    /\ spc' = "encode"
    /\ forceKey' = TRUE
    /\ UNCHANGED <<lock, wantKey, frameKey, hasClients, interrupted, cpc>>
    /\ UNCHANGED <<memVars, stampVars>>

\* us_unjpeg() fails: the request for a key frame is still there.
UnjpegFails ==
    /\ spc = "encode"
    /\ spc' = "idle"
    /\ UNCHANGED <<lock, wantKey, forceKey, frameKey, hasClients, interrupted, cpc>>
    /\ UNCHANGED <<memVars, stampVars>>

\* us_m2m_encoder_compress(): a forced frame is a key frame, any other may be.
Encode ==
    /\ spc = "encode"
    /\ wantKey' = FALSE
    /\ frameKey' \in IF forceKey \/ wantKey THEN {TRUE} ELSE BOOLEAN
    /\ spc' = "put"
    /\ UNCHANGED <<lock, forceKey, hasClients, interrupted, cpc>>
    /\ UNCHANGED <<memVars, stampVars>>

\* The encoder fails: the request is gone, but not from the memory.
EncodeFails ==
    /\ spc = "encode"
    /\ wantKey' = FALSE
    /\ spc' = "idle"
    /\ UNCHANGED <<lock, forceKey, frameKey, hasClients, interrupted, cpc>>
    /\ UNCHANGED <<memVars, stampVars>>

\* Mutated form of PutBegin: the lock is not waited for.
PutUnlocked ==
    /\ spc = "put"
    /\ unread' = Readers
    /\ keyRequested' = (keyRequested /\ ~frameKey)
    /\ wantKey' = keyRequested'
    /\ whole' = FALSE
    /\ spc' = "write"
    /\ UNCHANGED <<lock, initialized, key, forceKey, frameKey, hasClients,
                   interrupted, cpc>>
    /\ UNCHANGED stampVars

\* Mutated form of PutBegin: the request is not passed on to the encoder.
PutForgetsRequest ==
    /\ spc = "put"
    /\ lock = Nobody
    /\ lock' = "server"
    /\ unread' = Readers
    /\ keyRequested' = (keyRequested /\ ~frameKey)
    /\ whole' = FALSE
    /\ spc' = "write"
    /\ UNCHANGED <<initialized, key, wantKey, forceKey, frameKey, hasClients,
                   interrupted, cpc>>
    /\ UNCHANGED stampVars

\* us_flock_timedwait_monotonic() succeeds: the new id is written first, then
\* the request is answered, then the data begin to change.
PutBegin ==
    /\ spc = "put"
    /\ lock = Nobody
    /\ lock' = "server"
    /\ unread' = Readers
    /\ keyRequested' = (keyRequested /\ ~frameKey)
    /\ wantKey' = keyRequested'
    /\ whole' = FALSE
    /\ spc' = "write"
    /\ UNCHANGED <<initialized, key, forceKey, frameKey, hasClients,
                   interrupted, cpc>>
    /\ UNCHANGED stampVars

\* The data and the meta are there; magic, version, has_clients, unlock
PutEnd ==
    /\ spc = "write"
    /\ whole' = TRUE
    /\ key' = frameKey
    /\ initialized' = TRUE
    /\ hasClients' = fresh
    /\ interrupted' = FALSE
    /\ lock' = Nobody
    /\ spc' = "idle"
    /\ UNCHANGED <<keyRequested, unread, wantKey, forceKey, frameKey, cpc>>
    /\ UNCHANGED stampVars

\* The frame is too big for the memory, or the lock stays busy for a second.
PutSkips ==
    /\ spc = "put"
    /\ spc' = "idle"
    /\ UNCHANGED <<lock, wantKey, forceKey, frameKey, hasClients, interrupted, cpc>>
    /\ UNCHANGED <<memVars, stampVars>>

\* uStreamer dies; the object outlives it (sink->rm is off).
ServerDies ==
    /\ spc # "down"
    /\ spc' = "down"
    /\ lock' = IF lock = "server" THEN Nobody ELSE lock
    /\ interrupted' = (interrupted \/ spc = "write")
    /\ UNCHANGED <<wantKey, forceKey, frameKey, hasClients, cpc>>
    /\ UNCHANGED <<memVars, stampVars>>

\* us_memsink_init_opened() by the next uStreamer, on the old contents
ServerStarts ==
    /\ spc = "down"
    /\ spc' = "idle"
    /\ stamp' = IF stamp = "none" THEN "none" ELSE "new"
    /\ wantKey' = FALSE
    /\ hasClients' = FALSE
    /\ UNCHANGED <<lock, fresh, forceKey, frameKey, interrupted, cpc>>
    /\ UNCHANGED memVars

\* client_ttl has passed since a client last left its stamp.
StampExpires ==
    /\ fresh
    /\ fresh' = FALSE
    /\ UNCHANGED <<lock, stamp, cpc>>
    /\ UNCHANGED <<memVars, serverVars>>

-----------------------------------------------------------------------------
(* The clients. A poll that does not get the lock in time changes nothing. *)

ClientLocks(c) ==
    /\ cpc[c] = "idle"
    /\ lock = Nobody
    /\ lock' = c
    /\ cpc' = [cpc EXCEPT ![c] = "read"]
    /\ UNCHANGED <<memVars, stampVars, serverVars>>

Unlock(c) ==
    /\ lock' = Nobody
    /\ cpc' = [cpc EXCEPT ![c] = "idle"]

LeaveStamp ==
    /\ stamp' = "new"
    /\ fresh' = TRUE

\* A frame is copied; with it the client may ask for a key frame.
TakeFrame(c, keyRequired) ==
    /\ unread' = unread \ {c}
    /\ keyRequested' = (keyRequested \/ keyRequired)
    /\ UNCHANGED <<initialized, whole, key>>

\* Mutated form of ClientGet: the stamp is left only with a new frame.
ClientGetLateStamp(c, keyRequired) ==
    /\ cpc[c] = "read"
    /\ IF initialized /\ c \in unread
       THEN LeaveStamp /\ TakeFrame(c, keyRequired)
       ELSE UNCHANGED <<memVars, stampVars>>
    /\ Unlock(c)
    /\ UNCHANGED serverVars

\* us_memsink_client_get() under the lock
ClientGet(c, keyRequired) ==
    /\ cpc[c] = "read"
    /\ IF initialized THEN LeaveStamp ELSE UNCHANGED stampVars
    /\ IF initialized /\ c \in unread
       THEN TakeFrame(c, keyRequired)
       ELSE UNCHANGED memVars
    /\ Unlock(c)
    /\ UNCHANGED serverVars

\* us_memsink_fd_wait_frame() under the lock, and if the id is new
\* us_memsink_fd_get_frame() before the unlock
JanusGet(c, keyRequired) ==
    /\ cpc[c] = "read"
    /\ IF initialized /\ c \in unread
       THEN LeaveStamp /\ TakeFrame(c, keyRequired)
       ELSE UNCHANGED <<memVars, stampVars>>
    /\ Unlock(c)
    /\ UNCHANGED serverVars

\* A client dies (its lock goes with it) and another one starts, which has
\* read nothing yet.
ClientRestarts(c) ==
    /\ lock' = IF lock = c THEN Nobody ELSE lock
    /\ cpc' = [cpc EXCEPT ![c] = "idle"]
    /\ unread' = unread \cup {c}
    /\ UNCHANGED <<initialized, whole, key, keyRequested>>
    /\ UNCHANGED <<stampVars, serverVars>>

-----------------------------------------------------------------------------
ServerStep ==
    \/ OnlineFrame \/ PassFrame \/ OfflineFrame \/ UnjpegFails \/ Encode
    \/ EncodeFails \/ PutBegin \/ PutEnd \/ PutSkips \/ ServerDies
    \/ ServerStarts

ClientReads(c) ==
    \E keyRequired \in BOOLEAN :
        \/ c \in Clients /\ ClientGet(c, keyRequired)
        \/ c \in JanusClients /\ JanusGet(c, keyRequired)

Next ==
    \/ ServerStep
    \/ StampExpires
    \/ \E c \in Readers : ClientLocks(c) \/ ClientReads(c) \/ ClientRestarts(c)

Spec == Init /\ [][Next]_vars

\* Frames keep coming (no look at the lock has to meet a client that holds
\* it), a picture does not fail to be encoded or put for ever, and whoever
\* polls a lock that is free again and again gets it once. Nothing has to die
\* or to expire.
Fairness ==
    /\ SF_vars(PutIsDue /\ OnlineFrame) /\ WF_vars(Encode) /\ SF_vars(PutBegin)
    /\ <>[][~(UnjpegFails \/ EncodeFails \/ PutSkips)]_vars
    /\ WF_vars(PutEnd) /\ WF_vars(ServerStarts)
    /\ \A c \in Readers : SF_vars(ClientLocks(c)) /\ WF_vars(ClientReads(c))

FairSpec == Spec /\ Fairness

-----------------------------------------------------------------------------
\* The lock belongs to the one process that works on the memory, also after
\* any process has died: the server inside us_memsink_server_put() or one
\* client between its flock() calls.
LockIsExclusive ==
    /\ lock = "server" <=> spc = "write"
    /\ \A c \in Readers : lock = c <=> cpc[c] = "read"

\* A client that takes a frame gets one whole frame, unless the last server
\* died while it wrote and no server has completed a put since: the id is
\* written before the data and the lock of a dead process is dropped.
TornOnlyAfterCrash ==
    \A c \in Readers :
        cpc[c] = "read" /\ initialized /\ c \in unread => whole \/ interrupted

\* A request for a key frame is served whatever fails in between: the encoder, the
\* lock, the server itself. It is withdrawn only by the beginning of a put of a key
\* frame, which takes place if the clients stay alive (a server that dies between
\* that and the end of the put takes the request with it; a running one does not).
KeyRequestIsServed ==
    keyRequested ~> (~keyRequested \/ ~fresh \/ spc = "down")

\* A client that polls with us_memsink_client_get() gets frame after frame:
\* it is never left waiting for a server that waits for a sign of life.
NobodyIsIgnored ==
    \A c \in Clients : c \notin unread ~> (c \in unread \/ spc = "down")

\* "The client writes its stamp at any action", the Janus plugin too: it is
\* never left waiting for a server that waits for a sign of life from it.
JanusIsNotIgnored ==
    \A c \in JanusClients : c \notin unread ~> (c \in unread \/ spc = "down")
=============================================================================
