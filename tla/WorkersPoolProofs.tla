------------------------- MODULE WorkersPoolProofs -------------------------
(***************************************************************************)
(* For every number of workers: free_workers never underflows and counts   *)
(* what FreeWorkersCounts says, assert(found != NULL) never fires, a job   *)
(* is never touched from both sides, no signal is lost, and a failed job   *)
(* is never taken for a timely one.                                        *)
(***************************************************************************)
EXTENDS WorkersPool, FiniteSetTheorems, TLAPS

\* The list is a permutation: no two workers at the same position.
RankInjective == \A u, v \in Workers : rank[u] = rank[v] => u = v

\* pool->stop is set exactly while the pool is being destroyed.
StopInv == stop <=> dpc \in {"kill", "killsignal", "join", "freed"}

\* A worker on its way through run_job() has its flag set, ...
RunInv == \A w \in Workers : wpc[w] \in {"job", "run", "done"} => hasJob[w]

\* ... and a frame to work on.
HeldInv ==
    /\ ~stop => \A w \in Workers : hasJob[w] => held[w]
    /\ dpc = "assign" => held[found]

\* The picked worker exists and has no job until it is assigned one.
FoundInv ==
    /\ dpc \in {"process", "assign", "signal", "dec"} => found # 0
    /\ dpc \in {"scan", "process", "assign"} /\ found # 0 => ~hasJob[found]

\* Between the wait and its own decrement the dispatcher has a free worker in
\* hand: only it decrements.
FreeInv ==
    dpc \in {"scan", "process", "assign", "signal", "dec"} => freeWorkers >= 1

\* During the scan: a worker has been found, or one is still ahead.
ScanInv ==
    dpc = "scan" => \/ found # 0
                    \/ \E w \in Workers : ~hasJob[w] /\ rank[w] >= scan

\* Everything but the counter
Safe ==
    /\ TypeOK
    /\ RankInjective
    /\ StopInv
    /\ RunInv
    /\ HeldInv
    /\ FoundInv
    /\ FreeInv
    /\ ScanInv
    /\ NoLostWakeup

IInv == Safe /\ FreeWorkersCounts

-----------------------------------------------------------------------------
LEMMA WorkersFinite ==
    /\ IsFiniteSet(Workers)
    /\ Cardinality(Workers) = NWorkers
  BY FS_Interval, NWorkersAssumption DEF Workers

\* The two sets that FreeWorkersCounts counts are finite.
LEMMA CountedFinite ==
    /\ IsFiniteSet(Assigned) /\ Cardinality(Assigned) \in Nat
    /\ Cardinality(Assigned) <= NWorkers
    /\ IsFiniteSet(Incrementing) /\ Cardinality(Incrementing) \in Nat
<1>1. Assigned \in SUBSET Workers /\ Incrementing \in SUBSET Workers
  BY DEF Assigned, Incrementing
<1> QED
  BY <1>1, WorkersFinite, FS_Subset, FS_CardinalityType

\* A positive counter means that some worker has no job: this is what makes
\* the unlocked scan succeed.
LEMMA FreeMeansIdle ==
    ASSUME TypeOK, FreeWorkersCounts, ~stop, freeWorkers > 0,
           dpc \notin {"signal", "dec"}
    PROVE  \E w \in Workers : ~hasJob[w]
<1> SUFFICES ASSUME \A w \in Workers : hasJob[w] PROVE FALSE
  OBVIOUS
<1>1. Assigned = Workers
  BY DEF Assigned
<1>2. Cardinality(Assigned) = NWorkers
  BY <1>1, WorkersFinite
<1>3. freeWorkers = NWorkers - Cardinality(Assigned) - Cardinality(Incrementing) + 0
  BY DEF FreeWorkersCounts
<1>4. Cardinality(Incrementing) \in Nat
  BY CountedFinite
<1> QED
  BY <1>2, <1>3, <1>4, NWorkersAssumption

-----------------------------------------------------------------------------
LEMMA SafeInit == Init => Safe
<1> SUFFICES ASSUME Init PROVE Safe
  OBVIOUS
<1>1. TypeOK
  <2>1. Unset \in [Workers -> BOOLEAN]
    BY Zenon DEF Unset
  <2>2. /\ hasJob \in [Workers -> BOOLEAN]
        /\ failed \in [Workers -> BOOLEAN]
        /\ held \in [Workers -> BOOLEAN]
        /\ stop \in BOOLEAN /\ timely \in BOOLEAN
    BY <2>1, Zenon DEF Init
  <2>3. /\ startTs \in [Workers -> 0 .. MaxClock]
        /\ runTs \in [Workers -> 0 .. MaxClock]
        /\ wpc \in [Workers -> WorkerStates]
        /\ freeWorkers \in Nat
        /\ rank \in [Workers -> Workers]
        /\ timelyTs \in 0 .. MaxClock
        /\ clock \in 1 .. MaxClock
        /\ dpc \in DispatcherStates
        /\ scan \in 1 .. NWorkers + 1
        /\ found \in 0 .. NWorkers
    BY NWorkersAssumption, MaxClockAssumption
       DEF Init, NoStamps, AtHead, InOrder, Workers, WorkerStates,
           DispatcherStates
  <2> QED
    BY <2>2, <2>3 DEF TypeOK
<1>2. RankInjective
  BY DEF Init, InOrder, RankInjective
<1>3. StopInv /\ RunInv /\ HeldInv /\ FoundInv /\ FreeInv /\ ScanInv
  BY NWorkersAssumption
     DEF Init, Unset, AtHead, StopInv, RunInv, HeldInv, FoundInv, FreeInv, ScanInv
<1>4. NoLostWakeup
  BY DEF Init, AtHead, NoLostWakeup
<1> QED
  BY <1>1, <1>2, <1>3, <1>4 DEF Safe

LEMMA SafeInitPrimed == Init' => Safe'
  BY SafeInit, PTL

\* The steps of the worker threads
LEMMA SafeWorker ==
    ASSUME Safe, NEW w \in Workers, WorkerStep(w) \/ WorkerSpurious(w)
    PROVE  Safe'
<1> USE NWorkersAssumption, MaxClockAssumption
    DEF Safe, RankInjective, StopInv, RunInv, HeldInv, FoundInv, FreeInv,
        ScanInv, NoLostWakeup, Goto, workerVars
<1> USE DEF TypeOK, WorkerStates, DispatcherStates
<1>1. CASE WorkerHead(w)
  BY <1>1 DEF WorkerHead
<1>2. CASE WorkerWait(w)
  BY <1>2 DEF WorkerWait
<1>3. CASE WorkerStart(w)
  BY <1>3 DEF WorkerStart
<1>4. CASE WorkerFinish(w)
  BY <1>4 DEF WorkerFinish
<1>5. CASE WorkerClear(w)
  BY <1>5 DEF WorkerClear
<1>6. CASE WorkerInc(w)
  BY <1>6 DEF WorkerInc
<1>7. CASE WorkerSignal(w)
  BY <1>7 DEF WorkerSignal
<1>8. CASE WorkerSpurious(w)
  BY <1>8 DEF WorkerSpurious
<1> QED
  BY <1>1, <1>2, <1>3, <1>4, <1>5, <1>6, <1>7, <1>8 DEF WorkerStep

\* MovedToEnd() keeps the list a permutation.
LEMMA MovedIsPermutation ==
    ASSUME TypeOK, RankInjective, NEW w \in Workers
    PROVE  /\ MovedToEnd(w) \in [Workers -> Workers]
           /\ \A u, v \in Workers : MovedToEnd(w)[u] = MovedToEnd(w)[v] => u = v
<1> USE NWorkersAssumption DEF TypeOK
<1>1. ASSUME NEW u \in Workers
      PROVE  /\ MovedToEnd(w)[u] = IF u = w THEN NWorkers
                                   ELSE IF rank[u] > rank[w] THEN rank[u] - 1
                                   ELSE rank[u]
             /\ rank[u] \in 1 .. NWorkers /\ rank[w] \in 1 .. NWorkers
  BY DEF MovedToEnd, Workers
<1>2. ASSUME NEW u \in Workers PROVE MovedToEnd(w)[u] \in 1 .. NWorkers
  BY <1>1
<1>3. MovedToEnd(w) \in [Workers -> Workers]
  BY <1>2 DEF MovedToEnd, Workers
<1>4. ASSUME NEW u \in Workers, NEW v \in Workers,
             MovedToEnd(w)[u] = MovedToEnd(w)[v], u # v
      PROVE  FALSE
  <2>1. rank[u] # rank[v] /\ (u # w => rank[u] # rank[w]) /\ (v # w => rank[v] # rank[w])
    BY <1>4 DEF RankInjective
  <2>2. /\ rank[u] \in 1 .. NWorkers /\ rank[v] \in 1 .. NWorkers
        /\ rank[w] \in 1 .. NWorkers
    BY <1>1
  <2>3. CASE u = w
    BY <2>1, <2>2, <2>3, <1>1, <1>4
  <2>4. CASE v = w
    BY <2>1, <2>2, <2>4, <1>1, <1>4
  <2>5. CASE u # w /\ v # w
    BY <2>1, <2>2, <2>5, <1>1, <1>4
  <2> QED
    BY <2>3, <2>4, <2>5
<1> QED
  BY <1>3, <1>4

\* The steps of the dispatcher
LEMMA SafeDispatcher ==
    ASSUME Safe, FreeWorkersCounts, DispatcherStep \/ DispatcherSpurious
    PROVE  Safe'
<1>a. /\ found # 0 => found \in Workers
      /\ \A w \in Workers : w # 0 /\ w \in 0 .. NWorkers
      /\ \A w \in Workers : rank[w] \in 1 .. NWorkers
  <2>1. found \in 0 .. NWorkers /\ rank \in [Workers -> Workers]
    BY DEF Safe, TypeOK
  <2> QED
    BY <2>1, NWorkersAssumption DEF Workers
<1> USE NWorkersAssumption, MaxClockAssumption
    DEF Safe, RankInjective, StopInv, RunInv, HeldInv, FoundInv, FreeInv,
        ScanInv, NoLostWakeup, workerVars
<1> USE DEF TypeOK, WorkerStates, DispatcherStates
<1>1. CASE DispatcherLoop
  BY <1>1 DEF DispatcherLoop
<1>2. CASE DispatcherWait
  <2>1. freeWorkers > 0 => \E w \in Workers : ~hasJob[w] /\ rank[w] >= 1
    BY <1>2, <1>a, FreeMeansIdle DEF DispatcherWait
  <2> QED
    BY <1>2, <2>1 DEF DispatcherWait
<1>3. CASE DispatcherSpurious
  BY <1>3 DEF DispatcherSpurious
<1>4. ASSUME NEW w \in Workers, ScanWorker(w) PROVE Safe'
  <2>1. /\ found' = w \/ found' = found
        /\ hasJob[w] => found' = found
        /\ ~hasJob[w] /\ found = 0 => found' = w
        /\ found' = w /\ found # w => ~hasJob[w]
    BY <1>4, <1>a DEF ScanWorker
  <2>2. /\ dpc = "scan" /\ rank[w] = scan /\ scan' = scan + 1
        /\ UNCHANGED <<hasJob, timely, held, wpc, freeWorkers, rank, timelyTs,
                       stop, dpc, startTs, runTs, failed, clock>>
    BY <1>4 DEF ScanWorker
  <2>3. TypeOK'
    BY <1>a, <2>1, <2>2
  <2>4. FoundInv'
    BY <1>a, <2>1, <2>2
  <2>5. ScanInv'
    <3>1. CASE found' # 0
      BY <3>1
    <3>2. CASE found' = 0
      <4>1. found = 0 /\ hasJob[w]
        BY <3>2, <1>a, <2>1
      <4>2. PICK u \in Workers : ~hasJob[u] /\ rank[u] >= scan
        BY <4>1, <2>2
      <4>3. rank[u] # scan
        BY <4>1, <4>2, <2>2
      <4>4. rank[u] >= scan + 1
        BY <4>2, <4>3, <1>a
      <4> QED
        BY <4>2, <4>4, <2>2
    <3> QED BY <3>1, <3>2
  <2> QED
    BY <2>2, <2>3, <2>4, <2>5
<1>5. CASE DispatcherPick
  <2>1. found \in Workers /\ rank' = MovedToEnd(found) /\ dpc = "scan"
    BY <1>5, <1>a DEF DispatcherPick
  <2>2. rank' \in [Workers -> Workers] /\ RankInjective'
    BY <2>1, MovedIsPermutation
  <2>3. TypeOK'
    <3>1. timely' \in BOOLEAN
      BY <1>5 DEF DispatcherPick
    <3>2. timelyTs' \in 0 .. MaxClock
      BY <1>5, <2>1 DEF DispatcherPick
    <3> QED
      BY <1>5, <2>2, <3>1, <3>2 DEF DispatcherPick
  <2>4. (StopInv /\ RunInv /\ HeldInv /\ FoundInv /\ FreeInv /\ ScanInv)'
    BY <1>5, <2>1 DEF DispatcherPick
  <2>5. NoLostWakeup'
    BY <1>5, <2>1 DEF DispatcherPick
  <2> QED
    BY <2>2, <2>3, <2>4, <2>5
<1>6. CASE DispatcherSkip
  <2>0. timely' \in BOOLEAN /\ held' \in [Workers -> BOOLEAN]
    BY <1>6, Zenon DEF DispatcherSkip, Return
  <2>1. TypeOK'
    BY <1>6, <2>0 DEF DispatcherSkip, Return
  <2>2. (RankInjective /\ StopInv /\ RunInv /\ FoundInv /\ FreeInv /\ ScanInv)'
    BY <1>6 DEF DispatcherSkip, Return
  <2>3. HeldInv'
    BY <1>6, <1>a DEF DispatcherSkip, Return
  <2>4. NoLostWakeup'
    BY <1>6 DEF DispatcherSkip, Return
  <2> QED
    BY <2>1, <2>2, <2>3, <2>4
<1>7. CASE DispatcherGive
  BY <1>7, <1>a DEF DispatcherGive
<1>8. CASE DispatcherAssign
  BY <1>8, <1>a DEF DispatcherAssign
<1>9. CASE DispatcherSignal
  BY <1>9, <1>a DEF DispatcherSignal, Awakened
<1>10. CASE DispatcherDec
  <2>0. timely' \in BOOLEAN
    BY <1>10, Zenon DEF DispatcherDec, Return
  <2>1. TypeOK'
    BY <1>10, <2>0 DEF DispatcherDec, Return
  <2> QED
    BY <1>10, <2>1 DEF DispatcherDec, Return
<1>11. CASE Destroy
  BY <1>11 DEF Destroy
<1>12. ASSUME NEW w \in Workers, KillWorker(w) PROVE Safe'
  BY <1>12 DEF KillWorker
<1>13. ASSUME NEW w \in Workers, KillSignal(w) PROVE Safe'
  BY <1>13 DEF KillSignal, Awakened
<1>14. ASSUME NEW w \in Workers, JoinWorker(w) PROVE Safe'
  <2>1. TypeOK'
    BY <1>14, <1>a DEF JoinWorker
  <2>2. wpc[w] = "exited"
    BY <1>14 DEF JoinWorker
  <2> QED
    BY <1>14, <1>a, <2>1 DEF JoinWorker
<1>15. CASE Create
  <2>1. Init'
    BY <1>15 DEF Create, Init
  <2> QED
    BY <2>1, SafeInitPrimed
<1> QED
  BY <1>1, <1>2, <1>3, <1>4, <1>5, <1>6, <1>7, <1>8, <1>9, <1>10, <1>11,
     <1>12, <1>13, <1>14, <1>15
     DEF DispatcherStep

-----------------------------------------------------------------------------
\* A step that moves no worker into or out of the two sets keeps the count.
LEMMA CountKept ==
    ASSUME FreeWorkersCounts, freeWorkers' = freeWorkers, stop' = stop,
           Assigned' = Assigned, Incrementing' = Incrementing,
           dpc' \in {"signal", "dec"} <=> dpc \in {"signal", "dec"}
    PROVE  FreeWorkersCounts'
<1>1. CASE dpc \in {"signal", "dec"}
  BY <1>1 DEF FreeWorkersCounts
<1>2. CASE dpc \notin {"signal", "dec"}
  BY <1>2 DEF FreeWorkersCounts
<1> QED
  BY <1>1, <1>2

\* The flag and the counter move in separate steps; FreeWorkersCounts says
\* what each of them owes the other.
LEMMA CountStep ==
    ASSUME Safe, FreeWorkersCounts, [Next]_vars
    PROVE  FreeWorkersCounts'
<1> USE DEF Safe, TypeOK
<1>1. ASSUME NEW w \in Workers, WorkerStep(w) \/ WorkerSpurious(w)
      PROVE  FreeWorkersCounts'
  <2>1. CASE WorkerHead(w) \/ WorkerWait(w) \/ WorkerSpurious(w) \/ WorkerFinish(w)
    <3>1. /\ Assigned' = Assigned /\ Incrementing' = Incrementing
          /\ freeWorkers' = freeWorkers /\ stop' = stop /\ dpc' = dpc
      BY <2>1 DEF WorkerHead, WorkerWait, WorkerSpurious, WorkerFinish, Goto,
                  Assigned, Incrementing
    <3> QED
      BY <3>1, CountKept
  <2>2. CASE WorkerStart(w)
    <3>1. CASE stop
      BY <2>2, <3>1 DEF WorkerStart, FreeWorkersCounts
    <3>2. CASE ~stop
      <4>1. /\ Assigned' = Assigned /\ Incrementing' = Incrementing
            /\ freeWorkers' = freeWorkers /\ stop' = stop /\ dpc' = dpc
        BY <2>2, <3>2 DEF WorkerStart, Goto, Assigned, Incrementing
      <4> QED
        BY <4>1, CountKept
    <3> QED BY <3>1, <3>2
  <2>3. CASE WorkerClear(w)
    <3>1. /\ w \in Assigned /\ w \notin Incrementing
          /\ Assigned' = Assigned \ {w}
          /\ Incrementing' = Incrementing \cup {w}
      BY <2>3 DEF WorkerClear, Goto, Assigned, Incrementing, RunInv
    <3>2. /\ Cardinality(Assigned') = Cardinality(Assigned) - 1
          /\ Cardinality(Incrementing') = Cardinality(Incrementing) + 1
      BY <3>1, CountedFinite, FS_AddElement, FS_RemoveElement
    <3>3. freeWorkers' = freeWorkers /\ stop' = stop /\ dpc' = dpc
      BY <2>3 DEF WorkerClear
    <3> QED
      BY <3>2, <3>3, CountedFinite, NWorkersAssumption DEF FreeWorkersCounts
  <2>4. CASE WorkerInc(w)
    <3>1. /\ w \in Incrementing
          /\ Assigned' = Assigned
          /\ Incrementing' = Incrementing \ {w}
      BY <2>4 DEF WorkerInc, Goto, Assigned, Incrementing
    <3>2. Cardinality(Incrementing') = Cardinality(Incrementing) - 1
      BY <3>1, CountedFinite, FS_RemoveElement
    <3>3. freeWorkers' = freeWorkers + 1 /\ stop' = stop /\ dpc' = dpc
      BY <2>4 DEF WorkerInc
    <3> QED
      BY <3>1, <3>2, <3>3, CountedFinite, NWorkersAssumption DEF FreeWorkersCounts
  <2>5. CASE WorkerSignal(w)
    <3>1. /\ Assigned' = Assigned /\ Incrementing' = Incrementing
          /\ freeWorkers' = freeWorkers /\ stop' = stop
          /\ dpc' \in {"signal", "dec"} <=> dpc \in {"signal", "dec"}
      BY <2>5 DEF WorkerSignal, Goto, Assigned, Incrementing
    <3> QED
      BY <3>1, CountKept
  <2> QED
    BY <1>1, <2>1, <2>2, <2>3, <2>4, <2>5 DEF WorkerStep
<1>2. ASSUME DispatcherLoop \/ DispatcherWait \/ DispatcherSpurious
             \/ DispatcherPick \/ DispatcherSkip \/ DispatcherGive
             \/ \E w \in Workers : ScanWorker(w)
      PROVE  FreeWorkersCounts'
  <2>1. /\ hasJob' = hasJob /\ wpc' = wpc
        /\ freeWorkers' = freeWorkers /\ stop' = stop
        /\ dpc \notin {"signal", "dec"} /\ dpc' \notin {"signal", "dec"}
    BY <1>2 DEF DispatcherLoop, DispatcherWait, DispatcherSpurious,
                DispatcherPick, DispatcherSkip, DispatcherGive, ScanWorker, Return
  <2>2. Assigned' = Assigned /\ Incrementing' = Incrementing
    BY <2>1 DEF Assigned, Incrementing
  <2> QED
    BY <2>1, <2>2, CountKept
<1>3. CASE DispatcherAssign
  <2>1. found \in Workers /\ found \notin Assigned
    BY <1>3, NWorkersAssumption DEF DispatcherAssign, FoundInv, Workers, Assigned
  <2>2. Assigned' = Assigned \cup {found} /\ Incrementing' = Incrementing
    BY <1>3, <2>1 DEF DispatcherAssign, Assigned, Incrementing
  <2>3. Cardinality(Assigned') = Cardinality(Assigned) + 1
    BY <2>1, <2>2, CountedFinite, FS_AddElement
  <2>4. /\ freeWorkers' = freeWorkers /\ stop' = stop
        /\ dpc = "assign" /\ dpc' = "signal"
    BY <1>3 DEF DispatcherAssign
  <2> QED
    BY <2>2, <2>3, <2>4, CountedFinite, NWorkersAssumption DEF FreeWorkersCounts
<1>4. CASE DispatcherSignal
  <2>1. /\ Assigned' = Assigned /\ Incrementing' = Incrementing
        /\ freeWorkers' = freeWorkers /\ stop' = stop
        /\ dpc' \in {"signal", "dec"} <=> dpc \in {"signal", "dec"}
    BY <1>4 DEF DispatcherSignal, Awakened, Assigned, Incrementing
  <2> QED
    BY <2>1, CountKept
<1>5. CASE DispatcherDec
  <2>1. Assigned' = Assigned /\ Incrementing' = Incrementing
    BY <1>5 DEF DispatcherDec, Assigned, Incrementing
  <2>2. /\ freeWorkers' = freeWorkers - 1 /\ stop' = stop
        /\ dpc = "dec" /\ dpc' = "top"
    BY <1>5 DEF DispatcherDec, Return
  <2> QED
    BY <2>1, <2>2, CountedFinite, NWorkersAssumption DEF FreeWorkersCounts
<1>6. ASSUME Destroy \/ \E w \in Workers : KillWorker(w) \/ KillSignal(w) \/ JoinWorker(w)
      PROVE  FreeWorkersCounts'
  <2>1. stop'
    BY <1>6 DEF Destroy, KillWorker, KillSignal, JoinWorker, StopInv
  <2> QED
    BY <2>1 DEF FreeWorkersCounts
<1>7. CASE Create
  <2>1. Assigned' = {} /\ Incrementing' = {}
    BY <1>7 DEF Create, Unset, AtHead, Assigned, Incrementing
  <2>2. freeWorkers' = NWorkers /\ dpc' = "top"
    BY <1>7 DEF Create
  <2> QED
    BY <2>1, <2>2, FS_EmptySet, NWorkersAssumption DEF FreeWorkersCounts
<1>8. CASE UNCHANGED vars
  <2>1. /\ Assigned' = Assigned /\ Incrementing' = Incrementing
        /\ freeWorkers' = freeWorkers /\ stop' = stop /\ dpc' = dpc
    BY <1>8 DEF vars, Assigned, Incrementing
  <2> QED
    BY <2>1, CountKept
<1> QED
  BY <1>1, <1>2, <1>3, <1>4, <1>5, <1>6, <1>7, <1>8 DEF Next, DispatcherStep

LEMMA SafeStep ==
    ASSUME Safe, FreeWorkersCounts, [Next]_vars
    PROVE  Safe'
<1>1. CASE UNCHANGED vars
  BY <1>1 DEF vars, Safe, TypeOK, RankInjective, StopInv, RunInv, HeldInv,
              FoundInv, FreeInv, ScanInv, NoLostWakeup
<1> QED
  BY <1>1, SafeWorker, SafeDispatcher DEF Next

\* The inductive invariant holds in every state of the pool.
THEOREM PoolInvariant == Spec => []IInv
<1>1. Init => IInv
  <2> SUFFICES ASSUME Init PROVE FreeWorkersCounts
    BY SafeInit DEF IInv
  <2>1. Assigned = {} /\ Incrementing = {}
    BY DEF Init, Unset, AtHead, Assigned, Incrementing
  <2> QED
    BY <2>1, FS_EmptySet, NWorkersAssumption DEF Init, FreeWorkersCounts
<1>2. IInv /\ [Next]_vars => IInv'
  BY SafeStep, CountStep DEF IInv
<1> QED
  BY <1>1, <1>2, PTL DEF Spec

\* Type correctness; free_workers is an unsigned integer in the code and
\* never wraps around.
THEOREM TypeCorrect == Spec => []TypeOK
<1>1. IInv => TypeOK
  BY DEF IInv, Safe
<1> QED
  BY <1>1, PoolInvariant, PTL

\* assert(found != NULL) never fires, and free_workers counts what it should.
THEOREM FreeWorkerFound == Spec => [](FreeWorkersCounts /\ ScanFindsWorker)
<1>1. IInv => FreeWorkersCounts /\ ScanFindsWorker
  <2> SUFFICES ASSUME IInv, dpc = "scan", scan = NWorkers + 1, found = 0
               PROVE  FALSE
    BY DEF IInv, ScanFindsWorker
  <2>1. PICK w \in Workers : rank[w] >= NWorkers + 1
    BY DEF IInv, Safe, ScanInv
  <2> QED
    BY <2>1, NWorkersAssumption DEF IInv, Safe, TypeOK, Workers
<1> QED
  BY <1>1, PoolInvariant, PTL

\* A worker's job is in the hands of one thread at a time, and no signal on
\* either condition variable is lost.
THEOREM HandoverSafe == Spec => [](JobHandover /\ NoLostWakeup)
<1>1. IInv => JobHandover /\ NoLostWakeup
  <2> SUFFICES ASSUME IInv PROVE JobHandover
    BY DEF IInv, Safe
  <2>1. ASSUME dpc \in {"process", "assign"}
        PROVE  wpc[found] \notin {"job", "run", "done"}
    <3>0. found \in 0 .. NWorkers /\ found # 0 /\ ~hasJob[found]
      BY <2>1 DEF IInv, Safe, TypeOK, FoundInv
    <3>1. found \in Workers /\ ~hasJob[found]
      BY <3>0, NWorkersAssumption DEF Workers
    <3> QED
      BY <3>1 DEF IInv, Safe, RunInv
  <2>2. ASSUME NEW w \in Workers, wpc[w] \in {"run", "done"}, ~stop
        PROVE  held[w]
    BY <2>2 DEF IInv, Safe, RunInv, HeldInv
  <2> QED
    BY <2>1, <2>2 DEF JobHandover
<1> QED
  BY <1>1, PoolInvariant, PTL

-----------------------------------------------------------------------------
(* Failed jobs *)

\* The start of a worker's last successful job has been accounted for when the
\* worker was picked, so until its next success it is not newer than the last
\* timely one.
StampInv ==
    /\ \A w \in Workers : failed[w] \/ wpc[w] = "run" => startTs[w] <= timelyTs
    /\ ~stop => \A w \in Workers :
                   hasJob[w] /\ wpc[w] # "done" => startTs[w] <= timelyTs
    /\ dpc \in {"process", "assign"} => startTs[found] <= timelyTs

\* What the steps of a worker do to its stamps
LEMMA StampWorker ==
    ASSUME Safe, StampInv, FailedIsNotTimely,
           NEW w \in Workers, WorkerStep(w) \/ WorkerSpurious(w)
    PROVE  StampInv' /\ FailedIsNotTimely'
<1> USE DEF Goto, workerVars
<1>1. /\ wpc \in [Workers -> WorkerStates] /\ failed \in [Workers -> BOOLEAN]
      /\ startTs \in [Workers -> 0 .. MaxClock] /\ hasJob \in [Workers -> BOOLEAN]
      /\ timelyTs \in 0 .. MaxClock
  BY DEF Safe, TypeOK
<1>2. timelyTs' = timelyTs /\ stop' = stop /\ found' = found /\ timely' = timely
      /\ (dpc' \in {"process", "assign"} <=> dpc \in {"process", "assign"})
  BY DEF WorkerStep, WorkerHead, WorkerWait, WorkerStart, WorkerFinish, WorkerClear,
         WorkerInc, WorkerSignal, WorkerSpurious
<1>3. CASE WorkerFinish(w)
  <2>1. wpc[w] = "run" /\ startTs[w] <= timelyTs
    BY <1>3 DEF WorkerFinish, StampInv
  <2>2. dpc \in {"process", "assign"} => found # w
    BY <2>1 DEF Safe, RunInv, FoundInv
  <2>3. PICK f \in BOOLEAN :
          /\ failed' = [failed EXCEPT ![w] = f]
          /\ startTs' = IF f THEN startTs ELSE [startTs EXCEPT ![w] = runTs[w]]
    BY <1>3 DEF WorkerFinish
  <2>4. \A v \in Workers : v # w => failed'[v] = failed[v]
    BY <1>1, <2>3
  <2>5. \A v \in Workers : v # w => startTs'[v] = startTs[v]
    BY <1>1, <2>3
  <2>6. failed'[w] => startTs'[w] = startTs[w]
    <3>1. failed'[w] = f
      BY <1>1, <2>3, Zenon
    <3>2. CASE f
      BY <2>3, <3>2
    <3>3. CASE ~f
      BY <3>1, <3>3
    <3> QED
      BY <3>2, <3>3
  <2>7. /\ wpc'[w] = "done" /\ \A v \in Workers : v # w => wpc'[v] = wpc[v]
        /\ hasJob' = hasJob
    BY <1>1, <1>3 DEF WorkerFinish
  <2>8. dpc \in {"process", "assign"} => found \in Workers
    BY NWorkersAssumption DEF Safe, TypeOK, FoundInv, Workers
  <2>9. StampInv'
    BY <1>2, <2>1, <2>2, <2>4, <2>5, <2>6, <2>7, <2>8 DEF StampInv
  <2>10. FailedIsNotTimely'
    BY <1>2, <2>2, <2>4, <2>8 DEF FailedIsNotTimely
  <2> QED
    BY <2>9, <2>10
<1>4. CASE ~WorkerFinish(w)
  <2>1. /\ failed' = failed /\ startTs' = startTs
        /\ wpc'[w] # "done"
        /\ \A v \in Workers : v # w => wpc'[v] = wpc[v] /\ hasJob'[v] = hasJob[v]
        /\ hasJob'[w] => hasJob[w] /\ wpc[w] # "done"
    BY <1>1, <1>4 DEF WorkerStep, WorkerHead, WorkerWait, WorkerStart, WorkerClear,
                      WorkerInc, WorkerSignal, WorkerSpurious
  <2>2. wpc'[w] = "run" => ~stop /\ hasJob[w] /\ wpc[w] = "job"
    BY <1>1, <1>4 DEF WorkerStep, WorkerHead, WorkerWait, WorkerStart, WorkerClear,
                      WorkerInc, WorkerSignal, WorkerSpurious, Safe, RunInv
  <2>3. StampInv'
    BY <1>2, <2>1, <2>2 DEF StampInv
  <2>4. FailedIsNotTimely'
    BY <1>2, <2>1 DEF FailedIsNotTimely
  <2> QED
    BY <2>3, <2>4
<1> QED
  BY <1>3, <1>4

\* The dispatcher accounts for the stamp of the worker it picks.
LEMMA StampDispatcher ==
    ASSUME Safe, StampInv, FailedIsNotTimely, DispatcherStep \/ DispatcherSpurious
    PROVE  StampInv' /\ FailedIsNotTimely'
<1> USE DEF workerVars, Return
<1>1. /\ wpc \in [Workers -> WorkerStates] /\ failed \in [Workers -> BOOLEAN]
      /\ startTs \in [Workers -> 0 .. MaxClock] /\ hasJob \in [Workers -> BOOLEAN]
      /\ timelyTs \in 0 .. MaxClock
  BY DEF Safe, TypeOK
<1>2. CASE DispatcherPick
  <2>1. found \in Workers
    BY <1>2, NWorkersAssumption DEF DispatcherPick, Safe, TypeOK, Workers
  <2>2. /\ UNCHANGED <<wpc, failed, startTs, hasJob, stop, found>> /\ dpc' = "process"
        /\ timelyTs' = IF startTs[found] > timelyTs THEN startTs[found] ELSE timelyTs
    BY <1>2 DEF DispatcherPick
  <2>3. timely' => startTs[found] > timelyTs
    BY <1>2, Zenon DEF DispatcherPick
  <2>4. startTs[found] \in Int /\ timelyTs \in Int
    BY <1>1, <2>1
  <2>5. timelyTs <= timelyTs' /\ startTs[found] <= timelyTs' /\ timelyTs' \in Int
    BY <2>2, <2>4
  <2>6. \A w \in Workers : startTs[w] <= timelyTs => startTs[w] <= timelyTs'
    BY <1>1, <2>4, <2>5
  <2>7. StampInv'
    BY <2>2, <2>5, <2>6 DEF StampInv
  <2>8. FailedIsNotTimely'
    <3>1. failed[found] => startTs[found] <= timelyTs
      BY <2>1 DEF StampInv
    <3>2. failed[found] => ~timely'
      BY <2>3, <2>4, <3>1
    <3> QED
      BY <2>2, <3>2 DEF FailedIsNotTimely
  <2> QED
    BY <2>7, <2>8
<1>3. CASE DispatcherAssign
  <2>1. /\ UNCHANGED <<wpc, failed, startTs, timelyTs, stop>> /\ dpc' = "signal"
        /\ \A w \in Workers : w # found => hasJob'[w] = hasJob[w]
        /\ startTs[found] <= timelyTs
    BY <1>1, <1>3 DEF DispatcherAssign, StampInv
  <2> QED
    BY <2>1 DEF StampInv, FailedIsNotTimely
<1>4. CASE DispatcherSignal
  <2>1. /\ UNCHANGED <<failed, startTs, timelyTs, stop, hasJob>> /\ dpc' = "dec"
        /\ \A w \in Workers : wpc'[w] # wpc[w] => wpc[w] = "blocked" /\ wpc'[w] = "lock"
    BY <1>1, <1>4 DEF DispatcherSignal, Awakened
  <2> QED
    BY <2>1 DEF StampInv, FailedIsNotTimely
<1>5. ASSUME NEW w \in Workers, KillWorker(w) PROVE StampInv' /\ FailedIsNotTimely'
  <2>1. /\ UNCHANGED <<wpc, failed, startTs, timelyTs, stop>> /\ dpc' = "killsignal"
        /\ stop
    BY <1>5 DEF KillWorker, Safe, StopInv
  <2> QED
    BY <2>1 DEF StampInv, FailedIsNotTimely
<1>6. ASSUME NEW w \in Workers, KillSignal(w) PROVE StampInv' /\ FailedIsNotTimely'
  <2>1. /\ UNCHANGED <<failed, startTs, timelyTs, stop, hasJob>> /\ dpc' = "join" /\ stop
        /\ \A v \in Workers : wpc'[v] # wpc[v] => wpc[v] = "blocked" /\ wpc'[v] = "lock"
    BY <1>1, <1>6 DEF KillSignal, Awakened, Safe, StopInv
  <2> QED
    BY <2>1 DEF StampInv, FailedIsNotTimely
<1>7. CASE Create
  BY <1>7 DEF Create, Unset, NoStamps, AtHead, StampInv, FailedIsNotTimely
<1>8. CASE DispatcherGive
  BY <1>8 DEF DispatcherGive, StampInv, FailedIsNotTimely
<1>9. CASE \/ DispatcherLoop \/ DispatcherWait \/ DispatcherSpurious \/ DispatcherSkip
           \/ DispatcherDec \/ Destroy \/ \E w \in Workers : ScanWorker(w) \/ JoinWorker(w)
  <2>1. /\ UNCHANGED <<wpc, failed, startTs, timelyTs, hasJob>>
        /\ dpc' \notin {"process", "assign"} /\ (~stop' => ~stop)
    BY <1>9 DEF DispatcherLoop, DispatcherWait, DispatcherSpurious, DispatcherSkip,
                DispatcherDec, Destroy, ScanWorker, JoinWorker
  <2> QED
    BY <2>1 DEF StampInv, FailedIsNotTimely
<1> QED
  BY <1>2, <1>3, <1>4, <1>5, <1>6, <1>7, <1>8, <1>9 DEF DispatcherStep

\* _jpeg_thread() takes the result of a picked worker for a new picture only if
\* its job is timely; a failed job never is, although its stamp is that of an
\* older success.
THEOREM FailedNeverTimely == Spec => []FailedIsNotTimely
<1>1. Init => StampInv /\ FailedIsNotTimely
  BY DEF Init, Unset, NoStamps, AtHead, StampInv, FailedIsNotTimely
<1>2. IInv /\ StampInv /\ FailedIsNotTimely /\ [Next]_vars => StampInv' /\ FailedIsNotTimely'
  <2> SUFFICES ASSUME Safe, StampInv, FailedIsNotTimely, [Next]_vars
               PROVE  StampInv' /\ FailedIsNotTimely'
    BY DEF IInv
  <2>1. CASE UNCHANGED vars
    BY <2>1 DEF vars, StampInv, FailedIsNotTimely
  <2> QED
    BY <2>1, StampWorker, StampDispatcher DEF Next
<1> QED
  BY <1>1, <1>2, PoolInvariant, PTL DEF Spec

-----------------------------------------------------------------------------
(* The end of the pool *)

\* The workers before scan have been joined; the one that is being killed cannot
\* wait for a job again, since it has one until it looks at pool->stop.
EndInv ==
    /\ stop => \A w \in Workers : rank[w] < scan => wpc[w] = "exited" /\ ~held[w]
    /\ dpc = "freed" => scan = NWorkers + 1
    /\ \A w \in Workers : wpc[w] = "exited" => stop
    /\ dpc \in {"killsignal", "join"} =>
          \A w \in Workers : rank[w] = scan /\ wpc[w] \in {"lock", "blocked"} => hasJob[w]

LEMMA EndInit == Init => EndInv
<1> SUFFICES ASSUME Init PROVE EndInv
  OBVIOUS
<1>1. stop = FALSE /\ dpc = "top" /\ \A w \in Workers : wpc[w] = "head"
  BY DEF Init, AtHead
<1> QED
  BY <1>1 DEF EndInv

\* A worker ends only after pool->stop, and does not wait for a job after it.
LEMMA EndWorker ==
    ASSUME Safe, EndInv, NEW w \in Workers, WorkerStep(w) \/ WorkerSpurious(w)
    PROVE  EndInv'
<1>1. wpc \in [Workers -> WorkerStates] /\ hasJob \in [Workers -> BOOLEAN]
  BY DEF Safe, TypeOK
<1>2. /\ UNCHANGED <<rank, scan, stop, held>>
      /\ dpc' = dpc \/ (dpc = "blocked" /\ dpc' = "check")
  BY DEF WorkerStep, WorkerHead, WorkerWait, WorkerStart, WorkerFinish, WorkerClear,
         WorkerInc, WorkerSignal, WorkerSpurious, workerVars
<1>3. /\ wpc[w] # "exited"
      /\ \A v \in Workers : v # w => wpc'[v] = wpc[v] /\ hasJob'[v] = hasJob[v]
      /\ wpc'[w] = "exited" => stop
      /\ stop /\ wpc'[w] \in {"lock", "blocked"} =>
            wpc[w] \in {"lock", "blocked"} /\ hasJob' = hasJob
  BY <1>1 DEF WorkerStep, WorkerHead, WorkerWait, WorkerStart, WorkerFinish, WorkerClear,
              WorkerInc, WorkerSignal, WorkerSpurious, Goto, workerVars
<1>4. dpc \in {"killsignal", "join"} => stop
  BY DEF Safe, StopInv
<1>5. (stop => \A v \in Workers : rank[v] < scan => wpc[v] = "exited" /\ ~held[v])'
  BY <1>2, <1>3 DEF EndInv
<1>6. (dpc = "freed" => scan = NWorkers + 1)' /\ (\A v \in Workers : wpc[v] = "exited" => stop)'
  BY <1>2, <1>3 DEF EndInv
<1>7. (dpc \in {"killsignal", "join"} =>
         \A v \in Workers : rank[v] = scan /\ wpc[v] \in {"lock", "blocked"} => hasJob[v])'
  BY <1>2, <1>3, <1>4 DEF EndInv
<1> QED
  BY <1>5, <1>6, <1>7 DEF EndInv

\* The pool is destroyed worker by worker, in the order of the list.
LEMMA EndDispatcher ==
    ASSUME Safe, EndInv, DispatcherStep \/ DispatcherSpurious
    PROVE  EndInv'
<1>1. /\ wpc \in [Workers -> WorkerStates] /\ hasJob \in [Workers -> BOOLEAN]
      /\ held \in [Workers -> BOOLEAN] /\ rank \in [Workers -> 1 .. NWorkers]
      /\ scan \in 1 .. NWorkers + 1 /\ NWorkers \in Nat
  BY NWorkersAssumption DEF Safe, TypeOK, Workers
<1>2. CASE \/ DispatcherLoop \/ DispatcherWait \/ DispatcherSpurious \/ DispatcherPick
           \/ DispatcherSkip \/ DispatcherGive \/ DispatcherAssign \/ DispatcherDec
           \/ \E w \in Workers : ScanWorker(w)
  <2>1. /\ UNCHANGED <<wpc, stop>>
        /\ dpc \notin {"kill", "killsignal", "join", "freed"}
        /\ dpc' \notin {"kill", "killsignal", "join", "freed"}
    BY <1>2 DEF DispatcherLoop, DispatcherWait, DispatcherSpurious, DispatcherPick,
                DispatcherSkip, DispatcherGive, DispatcherAssign, DispatcherDec,
                ScanWorker, Return
  <2>2. ~stop
    BY <2>1 DEF Safe, StopInv
  <2> QED
    BY <2>1, <2>2 DEF EndInv
<1>3. CASE DispatcherSignal
  <2>1. /\ UNCHANGED stop /\ dpc = "signal" /\ dpc' = "dec"
        /\ \A v \in Workers : wpc'[v] = "exited" => wpc[v] = "exited"
    BY <1>1, <1>3 DEF DispatcherSignal, Awakened
  <2>2. ~stop
    BY <2>1 DEF Safe, StopInv
  <2> QED
    BY <2>1, <2>2 DEF EndInv
<1>4. CASE Destroy
  <2>1. scan' = 1 /\ stop' /\ dpc' = "kill" /\ rank' = rank
    BY <1>4 DEF Destroy
  <2>2. \A v \in Workers : ~(rank'[v] < scan')
    BY <1>1, <2>1
  <2> QED
    BY <2>1, <2>2 DEF EndInv
<1>5. ASSUME NEW w \in Workers, KillWorker(w) PROVE EndInv'
  <2>1. /\ UNCHANGED <<wpc, held, rank, scan, stop>> /\ rank[w] = scan
        /\ dpc' = "killsignal" /\ hasJob'[w] = TRUE
    BY <1>1, <1>5 DEF KillWorker
  <2>2. \A v \in Workers : rank[v] = scan => v = w
    BY <2>1 DEF Safe, RankInjective
  <2> QED
    BY <2>1, <2>2 DEF EndInv
<1>6. ASSUME NEW w \in Workers, KillSignal(w) PROVE EndInv'
  <2>1. /\ UNCHANGED <<hasJob, held, rank, scan, stop>>
        /\ dpc = "killsignal" /\ dpc' = "join"
        /\ \A v \in Workers : wpc'[v] # wpc[v] => wpc[v] = "blocked" /\ wpc'[v] = "lock"
    BY <1>1, <1>6 DEF KillSignal, Awakened
  <2> QED
    BY <2>1 DEF EndInv
<1>7. ASSUME NEW w \in Workers, JoinWorker(w) PROVE EndInv'
  <2>1. /\ UNCHANGED <<wpc, rank, stop>> /\ wpc[w] = "exited" /\ rank[w] = scan
        /\ scan' = scan + 1
        /\ held' = [held EXCEPT ![w] = FALSE]
        /\ dpc' = IF scan = NWorkers THEN "freed" ELSE "kill"
    BY <1>7 DEF JoinWorker
  <2>2. stop
    BY <2>1 DEF EndInv
  <2>3. ASSUME NEW v \in Workers, rank[v] < scan + 1 PROVE wpc[v] = "exited" /\ ~held'[v]
    <3>1. CASE v = w
      BY <1>1, <2>1, <3>1
    <3>2. CASE v # w
      <4>1. rank[v] # scan
        BY <2>1, <3>2 DEF Safe, RankInjective
      <4>2. rank[v] < scan
        BY <1>1, <2>3, <4>1
      <4>3. wpc[v] = "exited" /\ ~held[v]
        BY <2>2, <4>2 DEF EndInv
      <4> QED
        BY <1>1, <2>1, <3>2, <4>3
    <3> QED
      BY <3>1, <3>2
  <2>4. dpc' = "freed" => scan' = NWorkers + 1
    BY <2>1
  <2>5. dpc' \notin {"killsignal", "join"}
    BY <2>1
  <2> QED
    BY <2>1, <2>2, <2>3, <2>4, <2>5 DEF EndInv
<1>8. CASE Create
  <2>1. stop' = FALSE /\ dpc' = "top" /\ \A w \in Workers : wpc'[w] = "head"
    BY <1>8 DEF Create, AtHead
  <2> QED
    BY <2>1 DEF EndInv
<1> QED
  BY <1>2, <1>3, <1>4, <1>5, <1>6, <1>7, <1>8 DEF DispatcherStep

LEMMA EndIsOrderly == Spec => []EndInv
<1>1. IInv /\ EndInv /\ [Next]_vars => EndInv'
  <2> SUFFICES ASSUME Safe, EndInv, [Next]_vars PROVE EndInv'
    BY DEF IInv
  <2>1. CASE UNCHANGED vars
    BY <2>1 DEF vars, EndInv
  <2> QED
    BY <2>1, EndWorker, EndDispatcher DEF Next
<1> QED
  BY EndInit, <1>1, PoolInvariant, PTL DEF Spec

\* us_workers_pool_destroy() frees nothing that a thread still uses: when it returns
\* every worker has ended and no job refers to a frame. The join before never waits
\* for a worker that sleeps until it is given a job, which would be for ever.
DestroyIsSafe ==
    /\ dpc = "freed" => \A w \in Workers : wpc[w] = "exited" /\ ~held[w]
    /\ \A w \in Workers : dpc = "join" /\ rank[w] = scan => wpc[w] # "blocked"

\* The order of pool->stop, the final jobs, the joins and the frees
THEOREM PoolEndsSafely == Spec => []DestroyIsSafe
<1>1. IInv /\ EndInv => DestroyIsSafe
  <2> SUFFICES ASSUME IInv, EndInv PROVE DestroyIsSafe
    OBVIOUS
  <2>1. rank \in [Workers -> 1 .. NWorkers] /\ NWorkers \in Nat
    BY NWorkersAssumption DEF IInv, Safe, TypeOK, Workers
  <2>2. ASSUME dpc = "freed", NEW w \in Workers PROVE wpc[w] = "exited" /\ ~held[w]
    <3>1. stop /\ scan = NWorkers + 1
      BY <2>2 DEF IInv, Safe, StopInv, EndInv
    <3>2. rank[w] < scan
      BY <2>1, <3>1
    <3> QED
      BY <3>1, <3>2 DEF EndInv
  <2>3. ASSUME NEW w \in Workers, dpc = "join", rank[w] = scan, wpc[w] = "blocked" PROVE FALSE
    <3>1. hasJob[w]
      BY <2>3 DEF EndInv
    <3> QED
      BY <2>3, <3>1 DEF IInv, Safe, NoLostWakeup
  <2> QED
    BY <2>2, <2>3 DEF DestroyIsSafe
<1> QED
  BY <1>1, PoolInvariant, EndIsOrderly, PTL

=============================================================================
