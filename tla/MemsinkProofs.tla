--------------------------- MODULE MemsinkProofs ---------------------------
(***************************************************************************)
(* The safety of the shared memory for any number of clients of both kinds. *)
(*                                                                         *)
(* TornOnlyAfterCrash is not inductive: it does not know that nobody reads  *)
(* while the server writes. IInv adds the ownership of the lock and says    *)
(* when the memory may be torn at all.                                      *)
(***************************************************************************)
EXTENDS Memsink, TLAPS

TornOnlyInWrite == whole \/ interrupted \/ spc = "write"

IInv == TypeOK /\ LockIsExclusive /\ TornOnlyInWrite

LEMMA InitSafe == Init => IInv
  BY ClientsAssumption DEF Init, IInv, TypeOK, LockIsExclusive, TornOnlyInWrite, Readers

\* The check keeps the types of what it writes.
LEMMA CheckType ==
  ASSUME TypeOK, CheckEffect
  PROVE  stamp' \in {"none", "same", "new"} /\ hasClients' \in BOOLEAN
  <1>1. stamp' \in {"none", "same", "new"}
    BY DEF TypeOK, CheckEffect
  <1>2. hasClients' \in BOOLEAN
    BY Zenon DEF TypeOK, CheckEffect, CheckSaysYes, PutIsDue
  <1>3. QED
    BY <1>1, <1>2

\* The steps of the server and of the clock keep the types, ...
LEMMA ServerTypes ==
  ASSUME TypeOK, ServerStep \/ StampExpires
  PROVE  TypeOK'
  <1> USE DEF TypeOK, memVars, stampVars
  <1>1. CASE OnlineFrame
    BY <1>1, CheckType DEF OnlineFrame
  <1>2. CASE PassFrame
    BY <1>2, CheckType DEF PassFrame
  <1>3. CASE OfflineFrame
    BY <1>3 DEF OfflineFrame
  <1>4. CASE UnjpegFails
    BY <1>4 DEF UnjpegFails
  <1>5. CASE Encode
    BY <1>5 DEF Encode
  <1>6. CASE EncodeFails
    <2>1. wantKey' \in BOOLEAN
      BY <1>6, Zenon DEF EncodeFails
    <2>2. UNCHANGED <<lock, initialized, whole, key, keyRequested, unread, fresh,
                      stamp, forceKey, frameKey, hasClients, interrupted, cpc>>
      BY <1>6 DEF EncodeFails
    <2>3. spc' = "idle"
      BY <1>6 DEF EncodeFails
    <2>4. QED
      BY <2>1, <2>2, <2>3
  <1>7. CASE PutBegin
    BY <1>7 DEF PutBegin
  <1>8. CASE PutEnd
    BY <1>8 DEF PutEnd
  <1>9. CASE PutSkips
    BY <1>9 DEF PutSkips
  <1>10. CASE ServerDies
    BY <1>10 DEF ServerDies
  <1>11. CASE ServerStarts
    BY <1>11 DEF ServerStarts
  <1>12. CASE StampExpires
    <2>1. fresh' \in BOOLEAN
      BY <1>12, Zenon DEF StampExpires
    <2>2. UNCHANGED <<lock, initialized, whole, key, keyRequested, unread, stamp,
                      spc, wantKey, forceKey, frameKey, hasClients, interrupted, cpc>>
      BY <1>12 DEF StampExpires, serverVars
    <2>3. QED
      BY <2>1, <2>2
  <1>13. QED
    BY <1>1, <1>2, <1>3, <1>4, <1>5, <1>6, <1>7, <1>8, <1>9, <1>10, <1>11, <1>12 DEF ServerStep

\* ... the ownership of the lock and the state of the frame.
LEMMA ServerSafe ==
  ASSUME IInv, ServerStep \/ StampExpires
  PROVE  IInv'
  <1> TypeOK'
    BY ServerTypes DEF IInv
  <1> SUFFICES LockIsExclusive' /\ TornOnlyInWrite'
    BY DEF IInv
  <1> USE ClientsAssumption DEF IInv, TypeOK, LockIsExclusive, TornOnlyInWrite,
          Readers, memVars, stampVars
  <1>1. CASE OnlineFrame
    BY <1>1 DEF OnlineFrame
  <1>2. CASE PassFrame
    BY <1>2 DEF PassFrame
  <1>3. CASE OfflineFrame
    BY <1>3 DEF OfflineFrame
  <1>4. CASE UnjpegFails
    BY <1>4 DEF UnjpegFails
  <1>5. CASE Encode
    BY <1>5 DEF Encode
  <1>6. CASE EncodeFails
    BY <1>6 DEF EncodeFails
  <1>7. CASE PutBegin
    BY <1>7 DEF PutBegin
  <1>8. CASE PutEnd
    BY <1>8 DEF PutEnd
  <1>9. CASE PutSkips
    BY <1>9 DEF PutSkips
  <1>10. CASE ServerDies
    BY <1>10 DEF ServerDies
  <1>11. CASE ServerStarts
    BY <1>11 DEF ServerStarts
  <1>12. CASE StampExpires
    BY <1>12 DEF StampExpires, serverVars
  <1>13. QED
    BY <1>1, <1>2, <1>3, <1>4, <1>5, <1>6, <1>7, <1>8, <1>9, <1>10, <1>11, <1>12 DEF ServerStep

\* The same for the steps of a client of either kind
LEMMA ClientTypes ==
  ASSUME TypeOK, NEW c \in Readers,
         ClientLocks(c) \/ ClientReads(c) \/ ClientRestarts(c)
  PROVE  TypeOK'
  <1> USE DEF TypeOK, memVars, stampVars, serverVars
  <1>1. CASE ClientLocks(c)
    BY <1>1 DEF ClientLocks
  <1>2. CASE ClientReads(c)
    <2>1. PICK r \in BOOLEAN : ClientGet(c, r) \/ JanusGet(c, r)
      BY <1>2 DEF ClientReads
    <2>2. UNCHANGED <<initialized, whole, key, spc, wantKey, forceKey, frameKey,
                      hasClients, interrupted>>
      BY <2>1 DEF ClientGet, JanusGet, TakeFrame
    <2>3. lock' = Nobody /\ cpc' = [cpc EXCEPT ![c] = "idle"]
      BY <2>1 DEF ClientGet, JanusGet, Unlock
    <2>4. unread' \subseteq Readers
      BY <2>1 DEF ClientGet, JanusGet, TakeFrame
    <2>5. stamp' \in {"none", "same", "new"}
      BY <2>1 DEF ClientGet, JanusGet, LeaveStamp
    <2>6. keyRequested' \in BOOLEAN
      BY <2>1, Zenon DEF ClientGet, JanusGet, TakeFrame
    <2>7. fresh' \in BOOLEAN
      BY <2>1, Zenon DEF ClientGet, JanusGet, LeaveStamp
    <2>8. QED
      BY <2>2, <2>3, <2>4, <2>5, <2>6, <2>7
  <1>3. CASE ClientRestarts(c)
    BY <1>3 DEF ClientRestarts
  <1>4. QED
    BY <1>1, <1>2, <1>3

LEMMA ClientSafe ==
  ASSUME IInv, NEW c \in Readers,
         ClientLocks(c) \/ ClientReads(c) \/ ClientRestarts(c)
  PROVE  IInv'
  <1> TypeOK'
    BY ClientTypes DEF IInv
  <1> SUFFICES LockIsExclusive' /\ TornOnlyInWrite'
    BY DEF IInv
  <1> USE ClientsAssumption DEF IInv, TypeOK, LockIsExclusive, TornOnlyInWrite,
          Readers, memVars, stampVars, serverVars
  <1>1. CASE ClientLocks(c)
    BY <1>1 DEF ClientLocks
  <1>2. CASE ClientReads(c)
    <2>1. PICK r \in BOOLEAN : ClientGet(c, r) \/ JanusGet(c, r)
      BY <1>2 DEF ClientReads
    <2>2. CASE ClientGet(c, r)
      BY <2>2 DEF ClientGet, LeaveStamp, TakeFrame, Unlock
    <2>3. CASE JanusGet(c, r)
      BY <2>3 DEF JanusGet, LeaveStamp, TakeFrame, Unlock
    <2>4. QED
      BY <2>1, <2>2, <2>3
  <1>3. CASE ClientRestarts(c)
    BY <1>3 DEF ClientRestarts
  <1>4. QED
    BY <1>1, <1>2, <1>3

LEMMA StepSafe == IInv /\ [Next]_vars => IInv'
  <1> SUFFICES ASSUME IInv, [Next]_vars PROVE IInv'
    OBVIOUS
  <1>1. CASE Next
    BY <1>1, ServerSafe, ClientSafe DEF Next
  <1>2. CASE UNCHANGED vars
    BY <1>2 DEF vars, IInv, TypeOK, LockIsExclusive, TornOnlyInWrite
  <1>3. QED
    BY <1>1, <1>2

\* The inductive invariant holds in every reachable state of the sink.
THEOREM SinkInvariant == Spec => []IInv
  BY InitSafe, StepSafe, PTL DEF Spec

\* The variables of the shared memory, of the server and of the clients keep
\* their types.
THEOREM TypeCorrect == Spec => []TypeOK
  <1>1. IInv => TypeOK
    BY DEF IInv
  <1>2. QED
    BY <1>1, SinkInvariant, PTL

\* flock() with processes that die: the lock is always held by exactly the
\* process that is at work on the memory.
THEOREM LockSafe == Spec => []LockIsExclusive
  <1>1. IInv => LockIsExclusive
    BY DEF IInv
  <1>2. QED
    BY <1>1, SinkInvariant, PTL

\* us_memsink_client_get() and us_memsink_fd_get_frame() return whole frames,
\* but for the one that a dying server has left.
THEOREM FramesAreWhole == Spec => []TornOnlyAfterCrash
  <1>1. IInv => TornOnlyAfterCrash
    BY ClientsAssumption DEF IInv, TypeOK, LockIsExclusive, TornOnlyInWrite,
       TornOnlyAfterCrash, Readers
  <1>2. QED
    BY <1>1, SinkInvariant, PTL

-----------------------------------------------------------------------------
(* Requests for key frames, and a memory without a frame *)

\* The encoder is asked only for what the memory still asks for, and a put tells it
\* of every request there is.
RequestInv ==
    /\ wantKey => keyRequested
    /\ spc = "write" => (wantKey <=> keyRequested)

\* From a memory that no server has finished nothing has been taken and nothing was
\* asked for, and no stamp was left in it; who has read the frame has left one.
FirstPutInv ==
    /\ ~initialized => unread = Readers /\ ~keyRequested /\ ~key /\ ~hasClients
    /\ stamp = "none" => unread = Readers /\ ~fresh
    /\ ~initialized => stamp = "none"

Inv == IInv /\ RequestInv /\ FirstPutInv

LEMMA InitAgrees == Init => Inv
  <1> SUFFICES ASSUME Init PROVE Inv
    OBVIOUS
  <1>1. RequestInv
    BY DEF Init, RequestInv
  <1>2. FirstPutInv
    BY DEF Init, FirstPutInv
  <1>3. QED
    BY InitSafe, <1>1, <1>2 DEF Inv

\* What the check remembers of a memory that nobody has written: nothing
LEMMA CheckRemembers ==
  ASSUME Inv, CheckEffect
  PROVE  /\ ~initialized => stamp' = stamp /\ ~hasClients'
         /\ stamp' = "none" => stamp = "none"
  <1>1. ASSUME ~initialized PROVE stamp' = stamp /\ ~hasClients'
    <2>1. stamp' = stamp
      BY <1>1 DEF CheckEffect
    <2>2. hasClients' = hasClients
      BY <1>1 DEF CheckEffect
    <2>3. ~hasClients
      BY <1>1 DEF Inv, FirstPutInv
    <2>4. QED
      BY <2>1, <2>2, <2>3
  <1>2. ASSUME stamp' = "none" PROVE stamp = "none"
    BY <1>2 DEF CheckEffect
  <1>3. QED
    BY <1>1, <1>2

\* The steps of the server that leave the memory alone
LEMMA ServerOutsideKeeps ==
  ASSUME Inv, OnlineFrame \/ PassFrame \/ OfflineFrame \/ UnjpegFails \/ Encode
              \/ EncodeFails \/ PutSkips \/ ServerDies
  PROVE  RequestInv' /\ FirstPutInv'
  <1>1. UNCHANGED <<initialized, whole, key, keyRequested, unread, fresh>>
    BY DEF OnlineFrame, PassFrame, OfflineFrame, UnjpegFails, Encode, EncodeFails,
           PutSkips, ServerDies, memVars, stampVars
  <1>2. spc' # "write"
    BY DEF Inv, IInv, TypeOK, OnlineFrame, PassFrame, OfflineFrame, UnjpegFails, Encode,
           EncodeFails, PutSkips, ServerDies
  <1>3. ASSUME wantKey' PROVE wantKey
    BY <1>3 DEF OnlineFrame, PassFrame, OfflineFrame, UnjpegFails, Encode, EncodeFails,
                PutSkips, ServerDies
  <1>4. (~initialized => stamp' = stamp /\ ~hasClients') /\ (stamp' = "none" => stamp = "none")
    <2>1. CASE OnlineFrame \/ PassFrame
      BY <2>1, CheckRemembers DEF OnlineFrame, PassFrame
    <2>2. CASE OfflineFrame \/ UnjpegFails \/ Encode \/ EncodeFails \/ PutSkips \/ ServerDies
      <3>1. UNCHANGED <<stamp, hasClients>>
        BY <2>2 DEF OfflineFrame, UnjpegFails, Encode, EncodeFails, PutSkips, ServerDies,
                    stampVars
      <3>2. ~initialized => ~hasClients
        BY DEF Inv, FirstPutInv
      <3>3. QED
        BY <3>1, <3>2
    <2>3. QED
      BY <2>1, <2>2
  <1>5. RequestInv'
    BY <1>1, <1>2, <1>3 DEF Inv, RequestInv
  <1>6. FirstPutInv'
    BY <1>1, <1>4 DEF Inv, FirstPutInv
  <1>7. QED
    BY <1>5, <1>6

\* A put withdraws a request only with a key frame, and passes on the others.
LEMMA PutKeeps ==
  ASSUME Inv, PutBegin \/ PutEnd
  PROVE  RequestInv' /\ FirstPutInv'
  <1>1. CASE PutBegin
    <2>1. wantKey' = keyRequested' /\ unread' = Readers
      BY <1>1 DEF PutBegin
    <2>2. UNCHANGED <<initialized, key, hasClients, fresh, stamp>>
      BY <1>1 DEF PutBegin, stampVars
    <2>3. ASSUME keyRequested' PROVE keyRequested
      BY <1>1, <2>3 DEF PutBegin
    <2>4. RequestInv'
      BY <2>1 DEF RequestInv
    <2>5. FirstPutInv'
      BY <2>1, <2>2, <2>3 DEF Inv, FirstPutInv
    <2>6. QED
      BY <2>4, <2>5
  <1>2. CASE PutEnd
    <2>1. initialized' /\ spc' = "idle"
      BY <1>2 DEF PutEnd
    <2>2. UNCHANGED <<keyRequested, wantKey, unread, fresh, stamp>>
      BY <1>2 DEF PutEnd, stampVars
    <2>3. RequestInv'
      BY <2>1, <2>2 DEF Inv, RequestInv
    <2>4. FirstPutInv'
      BY <2>1, <2>2 DEF Inv, FirstPutInv
    <2>5. QED
      BY <2>3, <2>4
  <1>3. QED
    BY <1>1, <1>2

\* A new server starts with no request of its own, and the clock with the stamp.
LEMMA StartsAndExpiryKeep ==
  ASSUME Inv, ServerStarts \/ StampExpires
  PROVE  RequestInv' /\ FirstPutInv'
  <1>1. UNCHANGED <<initialized, key, keyRequested, unread>>
    BY DEF ServerStarts, StampExpires, memVars
  <1>2. CASE ServerStarts
    <2>1. wantKey' = FALSE /\ hasClients' = FALSE /\ spc' = "idle" /\ UNCHANGED fresh
      BY <1>2 DEF ServerStarts
    <2>2. stamp' = "none" <=> stamp = "none"
      BY <1>2 DEF ServerStarts
    <2>3. RequestInv'
      BY <2>1 DEF RequestInv
    <2>4. FirstPutInv'
      BY <1>1, <2>1, <2>2 DEF Inv, FirstPutInv
    <2>5. QED
      BY <2>3, <2>4
  <1>3. CASE StampExpires
    <2>1. fresh' = FALSE /\ UNCHANGED <<stamp, spc, wantKey, hasClients>>
      BY <1>3 DEF StampExpires, serverVars
    <2>2. RequestInv'
      BY <1>1, <2>1 DEF Inv, RequestInv
    <2>3. FirstPutInv'
      BY <1>1, <2>1 DEF Inv, FirstPutInv
    <2>4. QED
      BY <2>2, <2>3
  <1>4. QED
    BY <1>2, <1>3

\* A client asks under the lock, and leaves its stamp with whatever it takes.
LEMMA ReadsKeep ==
  ASSUME Inv, NEW c \in Readers, ClientReads(c)
  PROVE  RequestInv' /\ FirstPutInv'
  <1>1. PICK r \in BOOLEAN : ClientGet(c, r) \/ JanusGet(c, r)
    BY DEF ClientReads
  <1>2. UNCHANGED <<initialized, whole, key, spc, wantKey, hasClients>>
    BY <1>1 DEF ClientGet, JanusGet, TakeFrame, memVars, serverVars
  <1>3. spc # "write"
    BY <1>1, ClientsAssumption DEF ClientGet, JanusGet, Inv, IInv, LockIsExclusive, Readers
  <1>4. ASSUME keyRequested PROVE keyRequested'
    BY <1>1, <1>4 DEF ClientGet, JanusGet, TakeFrame, memVars
  <1>5. CASE ~initialized
    <2>1. UNCHANGED <<keyRequested, unread, fresh, stamp>>
      BY <1>1, <1>5 DEF ClientGet, JanusGet, memVars, stampVars
    <2>2. QED
      BY <1>2, <1>3, <1>4, <1>5, <2>1 DEF Inv, RequestInv, FirstPutInv
  <1>6. CASE initialized
    <2>1. RequestInv'
      BY <1>2, <1>3, <1>4 DEF Inv, RequestInv
    <2>2. \/ stamp' = "new"
          \/ UNCHANGED <<unread, fresh, stamp>>
      BY <1>1, <1>6 DEF ClientGet, JanusGet, LeaveStamp, memVars, stampVars
    <2>3. FirstPutInv'
      BY <1>2, <1>6, <2>2 DEF Inv, FirstPutInv
    <2>4. QED
      BY <2>1, <2>3
  <1>7. QED
    BY <1>5, <1>6

LEMMA ClientKeeps ==
  ASSUME Inv, NEW c \in Readers, ClientLocks(c) \/ ClientReads(c) \/ ClientRestarts(c)
  PROVE  RequestInv' /\ FirstPutInv'
  <1>1. CASE ClientLocks(c)
    BY <1>1 DEF ClientLocks, memVars, stampVars, serverVars, Inv, RequestInv, FirstPutInv
  <1>2. CASE ClientReads(c)
    BY <1>2, ReadsKeep
  <1>3. CASE ClientRestarts(c)
    BY <1>3 DEF ClientRestarts, stampVars, serverVars, Inv, RequestInv, FirstPutInv
  <1>4. QED
    BY <1>1, <1>2, <1>3

LEMMA StepAgrees == Inv /\ [Next]_vars => Inv'
  <1> SUFFICES ASSUME Inv, [Next]_vars PROVE Inv'
    OBVIOUS
  <1>1. IInv'
    BY StepSafe DEF Inv
  <1>2. RequestInv' /\ FirstPutInv'
    <2>1. CASE ServerStep \/ StampExpires
      BY <2>1, ServerOutsideKeeps, PutKeeps, StartsAndExpiryKeep DEF ServerStep
    <2>2. ASSUME NEW c \in Readers, ClientLocks(c) \/ ClientReads(c) \/ ClientRestarts(c)
          PROVE  RequestInv' /\ FirstPutInv'
      BY <2>2, ClientKeeps
    <2>3. CASE UNCHANGED vars
      BY <2>3 DEF vars, Inv, RequestInv, FirstPutInv
    <2>4. QED
      BY <2>1, <2>2, <2>3 DEF Next
  <1>3. QED
    BY <1>1, <1>2 DEF Inv

LEMMA SinkAgrees == Spec => []Inv
  BY InitAgrees, StepAgrees, PTL DEF Spec

\* The request of us_memsink_server_put() to the encoder: no key frame is forced that
\* no client waits for, also after servers and clients have died, and a put that has
\* begun has told the encoder of every open request.
THEOREM RequestsAgree == Spec => []RequestInv
  <1>1. Inv => RequestInv
    BY DEF Inv
  <1>2. QED
    BY <1>1, SinkAgrees, PTL

\* us_memsink_init_opened() leaves a memory without magic and version, and a server may
\* die inside its first put: until a put is completed no client of either kind has read
\* a frame, asked for a key frame or left a stamp. Afterwards there is a stamp as soon
\* as somebody has read the frame in the memory (that the server reacts to it while it
\* is new is not said here, and is not so for the clients of the Janus plugin).
THEOREM NothingBeforeFirstPut == Spec => []FirstPutInv
  <1>1. Inv => FirstPutInv
    BY DEF Inv
  <1>2. QED
    BY <1>1, SinkAgrees, PTL

\* While a client is between its two flock() calls nobody else changes what it reads,
\* whatever dies or starts.
ReadUndisturbed ==
    \A c \in Readers : cpc[c] = "read" /\ cpc'[c] = "read" =>
        UNCHANGED <<initialized, whole, key, keyRequested>>
MemoryIsStable == [][ReadUndisturbed]_vars

\* Only the two steps of a put and the end of a read touch the memory.
LEMMA WhoWrites ==
  ASSUME Next
  PROVE  \/ PutBegin \/ PutEnd
         \/ \E d \in Readers : ClientReads(d)
         \/ UNCHANGED <<initialized, whole, key, keyRequested>>
  <1>1. CASE ServerStep
    BY <1>1 DEF ServerStep, OnlineFrame, PassFrame, OfflineFrame, UnjpegFails, Encode,
                EncodeFails, PutSkips, ServerDies, ServerStarts, memVars
  <1>2. CASE StampExpires
    BY <1>2 DEF StampExpires, memVars
  <1>3. ASSUME NEW d \in Readers, ClientLocks(d) \/ ClientReads(d) \/ ClientRestarts(d)
        PROVE  \/ ClientReads(d)
               \/ UNCHANGED <<initialized, whole, key, keyRequested>>
    BY <1>3 DEF ClientLocks, ClientRestarts, memVars
  <1>4. QED
    BY <1>1, <1>2, <1>3 DEF Next

\* The lock of the sink around us_memsink_client_get() and us_memsink_fd_get_frame()
THEOREM ReadsAreUndisturbed == Spec => MemoryIsStable
  <1>1. ASSUME IInv, [Next]_vars, NEW c \in Readers, cpc[c] = "read", cpc'[c] = "read"
        PROVE  UNCHANGED <<initialized, whole, key, keyRequested>>
    <2>1. lock = c /\ c # "server" /\ c # Nobody
      BY <1>1, ClientsAssumption DEF IInv, LockIsExclusive, Readers
    <2>2. ~PutBegin
      BY <2>1 DEF PutBegin
    <2>3. ~PutEnd
      BY <1>1, <2>1 DEF PutEnd, IInv, LockIsExclusive
    <2>4. ASSUME NEW d \in Readers, ClientReads(d) PROVE FALSE
      <3>1. cpc[d] = "read" /\ cpc' = [cpc EXCEPT ![d] = "idle"]
        BY <2>4 DEF ClientReads, ClientGet, JanusGet, Unlock
      <3>2. d = c
        BY <1>1, <2>1, <3>1 DEF IInv, LockIsExclusive
      <3>3. QED
        BY <1>1, <3>1, <3>2 DEF IInv, TypeOK
    <2>5. CASE UNCHANGED vars
      BY <2>5 DEF vars
    <2>6. QED
      BY <1>1, <2>2, <2>3, <2>4, <2>5, WhoWrites
  <1>2. IInv /\ [Next]_vars => [ReadUndisturbed]_vars
    BY <1>1 DEF ReadUndisturbed
  <1>3. QED
    BY <1>2, SinkInvariant, PTL DEF Spec, MemoryIsStable
=============================================================================
