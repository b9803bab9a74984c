---------------------------- MODULE WorkersPool ----------------------------
(***************************************************************************)
(* ustreamer/workers.c: the pool of JPEG encoding threads, with the only   *)
(* thread that uses it, the dispatcher _jpeg_thread() of stream.c.         *)
(*                                                                         *)
(* A worker and the dispatcher share an atomic flag per worker (has_job,   *)
(* with a mutex and a condition variable for sleeping on it) and one       *)
(* counter (free_workers, with its own mutex and condition variable). The  *)
(* flag and the counter are updated in separate critical sections, so the  *)
(* counter lags behind the flags; one action is one critical section, one  *)
(* access to an atomic or one signal.                                      *)
(***************************************************************************)
EXTENDS Integers, FiniteSets

CONSTANTS
    NWorkers,   \* pool->n_workers
    MaxClock    \* bound: the clock stands still from here on (equal stamps)

ASSUME NWorkersAssumption == NWorkers \in Nat \ {0}
ASSUME MaxClockAssumption == MaxClock \in Nat \ {0}

VARIABLES
    hasJob,      \* wr->has_job
    startTs,     \* wr->job_start_ts: start of the last successful job
    runTs,       \* job_start_ts of _worker_thread(): start of the job it runs
    failed,      \* wr->job_failed
    timely,      \* found->job_timely, read only while the worker is picked
    held,        \* job->hw != NULL: the worker's job refers to a frame
    wpc,         \* where each worker thread is
    freeWorkers, \* pool->free_workers
    rank,        \* pool->workers: the position of each worker in the list
    timelyTs,    \* pool->job_timely_ts
    stop,        \* pool->stop
    clock,       \* us_get_now_monotonic()
    dpc,         \* where the dispatcher is
    scan,        \* its position in the list
    found        \* the worker it has picked, 0 for NULL

workerVars == <<startTs, runTs, failed, clock>>
vars == <<hasJob, startTs, runTs, failed, timely, held, wpc, freeWorkers,
          rank, timelyTs, stop, clock, dpc, scan, found>>

Workers == 1 .. NWorkers

\* head: at the while; lock: about to take has_job_mutex; blocked: asleep on
\* has_job_cond; job: has seen has_job; run: inside run_job(); done: run_job()
\* has returned; inc: about to increment; signal: about to signal
WorkerStates ==
    {"head", "lock", "blocked", "job", "run", "done", "inc", "signal", "exited"}

\* top: loop of _jpeg_thread(); check, blocked, scan: us_workers_pool_wait();
\* process: works on the picked worker; assign, signal, dec:
\* us_workers_pool_assign(); kill, killsignal, join: us_workers_pool_destroy();
\* freed: no pool
DispatcherStates ==
    {"top", "check", "blocked", "scan", "process", "assign", "signal", "dec",
     "kill", "killsignal", "join", "freed"}

TypeOK ==
    /\ hasJob \in [Workers -> BOOLEAN]
    /\ startTs \in [Workers -> 0 .. MaxClock]
    /\ runTs \in [Workers -> 0 .. MaxClock]
    /\ failed \in [Workers -> BOOLEAN]
    /\ timely \in BOOLEAN
    /\ held \in [Workers -> BOOLEAN]
    /\ wpc \in [Workers -> WorkerStates]
    /\ freeWorkers \in Nat
    /\ rank \in [Workers -> Workers]
    /\ timelyTs \in 0 .. MaxClock
    /\ stop \in BOOLEAN
    /\ clock \in 1 .. MaxClock
    /\ dpc \in DispatcherStates
    /\ scan \in 1 .. NWorkers + 1
    /\ found \in 0 .. NWorkers

\* What us_workers_pool_init() gives every worker
Unset == [w \in Workers |-> FALSE]
NoStamps == [w \in Workers |-> 0]
AtHead == [w \in Workers |-> "head"]
InOrder == [w \in Workers |-> w]

\* us_workers_pool_init(), and the dispatcher about to enter its loop
Init ==
    /\ hasJob = Unset
    /\ startTs = NoStamps
    /\ runTs = NoStamps
    /\ failed = Unset
    /\ timely = FALSE
    /\ held = Unset
    /\ wpc = AtHead
    /\ freeWorkers = NWorkers
    /\ rank = InOrder
    /\ timelyTs = 0
    /\ stop = FALSE
    /\ clock = 1
    /\ dpc = "top"
    /\ scan = 1
    /\ found = 0

-----------------------------------------------------------------------------
(* _worker_thread() *)

Goto(w, state) == wpc' = [wpc EXCEPT ![w] = state]

\* while (!atomic_load(&wr->pool->stop))
WorkerHead(w) ==
    /\ wpc[w] = "head"
    /\ Goto(w, IF stop THEN "exited" ELSE "lock")
    /\ UNCHANGED <<hasJob, timely, held, freeWorkers, rank, timelyTs, stop,
                   dpc, scan, found>>
    /\ UNCHANGED workerVars

\* US_COND_WAIT_FOR(has_job): the flag is read under the mutex.
WorkerWait(w) ==
    /\ wpc[w] = "lock"
    /\ Goto(w, IF hasJob[w] THEN "job" ELSE "blocked")
    /\ UNCHANGED <<hasJob, timely, held, freeWorkers, rank, timelyTs, stop,
                   dpc, scan, found>>
    /\ UNCHANGED workerVars

\* POSIX lets a condition wait return without a signal.
WorkerSpurious(w) ==
    /\ wpc[w] = "blocked"
    /\ Goto(w, "lock")
    /\ UNCHANGED <<hasJob, timely, held, freeWorkers, rank, timelyTs, stop,
                   dpc, scan, found>>
    /\ UNCHANGED workerVars

\* Mutated form of WorkerStart: has_job is cleared before the job is run.
WorkerStartCleared(w) ==
    /\ wpc[w] = "job"
    /\ IF stop
       THEN Goto(w, "inc") /\ UNCHANGED <<hasJob, runTs, clock>>
       ELSE /\ clock' \in {clock, clock + 1} \cap (1 .. MaxClock)
            /\ runTs' = [runTs EXCEPT ![w] = clock']
            /\ hasJob' = [hasJob EXCEPT ![w] = FALSE]
            /\ Goto(w, "run")
    /\ UNCHANGED <<startTs, failed, timely, held, freeWorkers, rank,
                   timelyTs, stop, dpc, scan, found>>

\* The second check of pool->stop; run_job() starts at the current time. The
\* clock may or may not have moved since it was last read.
WorkerStart(w) ==
    /\ wpc[w] = "job"
    /\ IF stop
       THEN Goto(w, "inc") /\ UNCHANGED <<runTs, clock>>
       ELSE /\ clock' \in {clock, clock + 1} \cap (1 .. MaxClock)
            /\ runTs' = [runTs EXCEPT ![w] = clock']
            /\ Goto(w, "run")
    /\ UNCHANGED <<hasJob, startTs, failed, timely, held, freeWorkers, rank,
                   timelyTs, stop, dpc, scan, found>>

\* Mutated form of WorkerFinish: the start time is stored on failure too.
WorkerFinishStamped(w) ==
    /\ wpc[w] = "run"
    /\ \E f \in BOOLEAN : failed' = [failed EXCEPT ![w] = f]
    /\ startTs' = [startTs EXCEPT ![w] = runTs[w]]
    /\ runTs' = [runTs EXCEPT ![w] = 0]
    /\ Goto(w, "done")
    /\ UNCHANGED <<hasJob, timely, held, freeWorkers, rank, timelyTs,
                   stop, clock, dpc, scan, found>>

\* run_job() returns; the start time is kept only if it succeeded.
WorkerFinish(w) ==
    /\ wpc[w] = "run"
    /\ \E f \in BOOLEAN :
          /\ failed' = [failed EXCEPT ![w] = f]
          /\ startTs' = IF f THEN startTs
                        ELSE [startTs EXCEPT ![w] = runTs[w]]
    /\ runTs' = [runTs EXCEPT ![w] = 0]
    /\ Goto(w, "done")
    /\ UNCHANGED <<hasJob, timely, held, freeWorkers, rank, timelyTs,
                   stop, clock, dpc, scan, found>>

\* atomic_store(&wr->has_job, false)
WorkerClear(w) ==
    /\ wpc[w] = "done"
    /\ hasJob' = [hasJob EXCEPT ![w] = FALSE]
    /\ Goto(w, "inc")
    /\ UNCHANGED <<timely, held, freeWorkers, rank, timelyTs, stop, dpc, scan,
                   found>>
    /\ UNCHANGED workerVars

\* free_workers += 1 under the mutex
WorkerInc(w) ==
    /\ wpc[w] = "inc"
    /\ freeWorkers' = freeWorkers + 1
    /\ Goto(w, "signal")
    /\ UNCHANGED <<hasJob, timely, held, rank, timelyTs, stop, dpc, scan, found>>
    /\ UNCHANGED workerVars

\* Mutated form of WorkerSignal: the signal is forgotten.
WorkerSilent(w) ==
    /\ wpc[w] = "signal"
    /\ Goto(w, "head")
    /\ UNCHANGED <<hasJob, timely, held, freeWorkers, rank, timelyTs, stop,
                   dpc, scan, found>>
    /\ UNCHANGED workerVars

\* US_COND_SIGNAL(free_workers_cond) after the unlock
WorkerSignal(w) ==
    /\ wpc[w] = "signal"
    /\ dpc' = IF dpc = "blocked" THEN "check" ELSE dpc
    /\ Goto(w, "head")
    /\ UNCHANGED <<hasJob, timely, held, freeWorkers, rank, timelyTs, stop,
                   scan, found>>
    /\ UNCHANGED workerVars

WorkerStep(w) ==
    \/ WorkerHead(w)   \/ WorkerWait(w)  \/ WorkerStart(w)
    \/ WorkerFinish(w) \/ WorkerClear(w) \/ WorkerInc(w) \/ WorkerSignal(w)

-----------------------------------------------------------------------------
(* us_workers_pool_wait() *)

\* The loop of _jpeg_thread() goes on.
DispatcherLoop ==
    /\ dpc = "top"
    /\ dpc' = "check"
    /\ UNCHANGED <<hasJob, timely, held, wpc, freeWorkers, rank, timelyTs,
                   stop, scan, found>>
    /\ UNCHANGED workerVars

\* Mutated form of DispatcherWait: the counter is not waited for.
DispatcherNoWait ==
    /\ dpc = "check"
    /\ dpc' = "scan"
    /\ scan' = 1
    /\ found' = 0
    /\ UNCHANGED <<hasJob, timely, held, wpc, freeWorkers, rank, timelyTs, stop>>
    /\ UNCHANGED workerVars

\* US_COND_WAIT_FOR(pool->free_workers) under the mutex
DispatcherWait ==
    /\ dpc = "check"
    /\ dpc' = IF freeWorkers > 0 THEN "scan" ELSE "blocked"
    /\ scan' = 1
    /\ found' = 0
    /\ UNCHANGED <<hasJob, timely, held, wpc, freeWorkers, rank, timelyTs, stop>>
    /\ UNCHANGED workerVars

DispatcherSpurious ==
    /\ dpc = "blocked"
    /\ dpc' = "check"
    /\ UNCHANGED <<hasJob, timely, held, wpc, freeWorkers, rank, timelyTs,
                   stop, scan, found>>
    /\ UNCHANGED workerVars

\* One round of US_LIST_ITERATE without the mutex: workers that finish while
\* the list is scanned are seen or missed. The last of the largest start
\* times wins.
ScanWorker(w) ==
    /\ dpc = "scan"
    /\ rank[w] = scan
    /\ scan' = scan + 1
    /\ found' = IF /\ ~hasJob[w]
                   /\ found = 0 \/ startTs[IF found = 0 THEN w ELSE found] <= startTs[w]
                THEN w ELSE found
    /\ UNCHANGED <<hasJob, timely, held, wpc, freeWorkers, rank, timelyTs,
                   stop, dpc>>
    /\ UNCHANGED workerVars

\* US_LIST_REMOVE and US_LIST_APPEND: w becomes the last of the list.
MovedToEnd(w) ==
    [u \in Workers |-> IF u = w THEN NWorkers
                       ELSE IF rank[u] > rank[w] THEN rank[u] - 1
                       ELSE rank[u]]

\* The list is scanned and assert(found != NULL) holds.
DispatcherPick ==
    /\ dpc = "scan"
    /\ scan = NWorkers + 1
    /\ found # 0
    /\ rank' = MovedToEnd(found)
    /\ timely' = (startTs[found] > timelyTs)
    /\ timelyTs' = IF startTs[found] > timelyTs THEN startTs[found] ELSE timelyTs
    /\ dpc' = "process"
    /\ UNCHANGED <<hasJob, held, wpc, freeWorkers, stop, scan, found>>
    /\ UNCHANGED workerVars

(* _jpeg_thread() between wait and assign *)

\* Back to the loop; the locals of this round are dead.
Return ==
    /\ dpc' = "top"
    /\ scan' = 1
    /\ found' = 0
    /\ timely' = FALSE

\* The finished job gives its frame back (it is exposed or dropped, StreamLoop
\* models both) and there is no frame to encode, nobody watches, or it is too
\* early for the next one.
DispatcherSkip ==
    /\ dpc = "process"
    /\ held' = [held EXCEPT ![found] = FALSE]
    /\ Return
    /\ UNCHANGED <<hasJob, wpc, freeWorkers, rank, timelyTs, stop>>
    /\ UNCHANGED workerVars

\* The finished job gives its frame back and the worker gets another one.
DispatcherGive ==
    /\ dpc = "process"
    /\ held' = [held EXCEPT ![found] = TRUE]
    /\ dpc' = "assign"
    /\ UNCHANGED <<hasJob, timely, wpc, freeWorkers, rank, timelyTs, stop,
                   scan, found>>
    /\ UNCHANGED workerVars

(* us_workers_pool_assign() *)

DispatcherAssign ==
    /\ dpc = "assign"
    /\ hasJob' = [hasJob EXCEPT ![found] = TRUE]
    /\ dpc' = "signal"
    /\ UNCHANGED <<timely, held, wpc, freeWorkers, rank, timelyTs, stop, scan,
                   found>>
    /\ UNCHANGED workerVars

\* A signal on has_job_cond
Awakened(w) == [wpc EXCEPT ![w] = IF @ = "blocked" THEN "lock" ELSE @]

\* Mutated form of DispatcherSignal: the signal is forgotten.
DispatcherSilent ==
    /\ dpc = "signal"
    /\ dpc' = "dec"
    /\ UNCHANGED <<hasJob, timely, held, wpc, freeWorkers, rank, timelyTs,
                   stop, scan, found>>
    /\ UNCHANGED workerVars

DispatcherSignal ==
    /\ dpc = "signal"
    /\ wpc' = Awakened(found)
    /\ dpc' = "dec"
    /\ UNCHANGED <<hasJob, timely, held, freeWorkers, rank, timelyTs, stop,
                   scan, found>>
    /\ UNCHANGED workerVars

\* Mutated form of DispatcherDec: the decrement is forgotten.
DispatcherNoDec ==
    /\ dpc = "dec"
    /\ Return
    /\ UNCHANGED <<hasJob, held, wpc, freeWorkers, rank, timelyTs, stop>>
    /\ UNCHANGED workerVars

\* free_workers -= 1, possibly after the worker's own increment
DispatcherDec ==
    /\ dpc = "dec"
    /\ freeWorkers' = freeWorkers - 1
    /\ Return
    /\ UNCHANGED <<hasJob, held, wpc, rank, timelyTs, stop>>
    /\ UNCHANGED workerVars

-----------------------------------------------------------------------------
(* us_workers_pool_destroy(), called when _jpeg_thread() has been joined *)

\* Mutated form of Destroy: pool->stop is not set.
DestroyWithoutStop ==
    /\ dpc = "top"
    /\ dpc' = "kill"
    /\ scan' = 1
    /\ UNCHANGED <<hasJob, timely, held, wpc, freeWorkers, rank, timelyTs,
                   stop, found>>
    /\ UNCHANGED workerVars

Destroy ==
    /\ dpc = "top"
    /\ stop' = TRUE
    /\ dpc' = "kill"
    /\ scan' = 1
    /\ UNCHANGED <<hasJob, timely, held, wpc, freeWorkers, rank, timelyTs, found>>
    /\ UNCHANGED workerVars

\* "Final job: die"
KillWorker(w) ==
    /\ dpc = "kill"
    /\ rank[w] = scan
    /\ hasJob' = [hasJob EXCEPT ![w] = TRUE]
    /\ dpc' = "killsignal"
    /\ UNCHANGED <<timely, held, wpc, freeWorkers, rank, timelyTs, stop, scan,
                   found>>
    /\ UNCHANGED workerVars

KillSignal(w) ==
    /\ dpc = "killsignal"
    /\ rank[w] = scan
    /\ wpc' = Awakened(w)
    /\ dpc' = "join"
    /\ UNCHANGED <<hasJob, timely, held, freeWorkers, rank, timelyTs, stop,
                   scan, found>>
    /\ UNCHANGED workerVars

\* US_THREAD_JOIN and the next element of the list
JoinWorker(w) ==
    /\ dpc = "join"
    /\ rank[w] = scan
    /\ wpc[w] = "exited"
    /\ held' = [held EXCEPT ![w] = FALSE]
    /\ scan' = scan + 1
    /\ dpc' = IF scan = NWorkers THEN "freed" ELSE "kill"
    /\ UNCHANGED <<hasJob, timely, wpc, freeWorkers, rank, timelyTs, stop, found>>
    /\ UNCHANGED workerVars

\* The next capture session opens the encoder again: us_workers_pool_init()
Create ==
    /\ dpc = "freed"
    /\ hasJob' = Unset
    /\ startTs' = NoStamps
    /\ runTs' = NoStamps
    /\ failed' = Unset
    /\ timely' = FALSE
    /\ held' = Unset
    /\ wpc' = AtHead
    /\ freeWorkers' = NWorkers
    /\ rank' = InOrder
    /\ timelyTs' = 0
    /\ stop' = FALSE
    /\ dpc' = "top"
    /\ scan' = 1
    /\ found' = 0
    /\ clock' = 1

DispatcherStep ==
    \/ DispatcherLoop \/ DispatcherWait \/ DispatcherPick
    \/ DispatcherSkip \/ DispatcherGive
    \/ DispatcherAssign \/ DispatcherSignal \/ DispatcherDec
    \/ Destroy \/ Create
    \/ \E w \in Workers :
          ScanWorker(w) \/ KillWorker(w) \/ KillSignal(w) \/ JoinWorker(w)

Next ==
    \/ DispatcherStep
    \/ DispatcherSpurious
    \/ \E w \in Workers : WorkerStep(w) \/ WorkerSpurious(w)

Spec == Init /\ [][Next]_vars

\* The threads run, run_job() returns, and a join waits for the worker.
Fairness ==
    /\ WF_vars(DispatcherStep)
    /\ \A w \in Workers : WF_vars(WorkerStep(w))

FairSpec == Spec /\ Fairness

-----------------------------------------------------------------------------
Assigned == {w \in Workers : hasJob[w]}
Incrementing == {w \in Workers : wpc[w] = "inc"}

\* What free_workers counts while the pool is alive: the flags, corrected by
\* the updates that are still to come. A worker can be in both sets: it is
\* re-assigned after it cleared has_job and before it has incremented.
FreeWorkersCounts ==
    ~stop => freeWorkers = NWorkers - Cardinality(Assigned)
                                    - Cardinality(Incrementing)
                                    + (IF dpc \in {"signal", "dec"} THEN 1 ELSE 0)

\* assert(found != NULL) in us_workers_pool_wait(): although the list is
\* scanned without the mutex, the scan finds a worker.
ScanFindsWorker ==
    dpc = "scan" /\ scan = NWorkers + 1 => found # 0

\* The dispatcher reads and rewrites a worker's job only while the worker is
\* out of run_job(): the unlocked fields of us_worker_s and its job are
\* handed over through has_job alone.
JobHandover ==
    /\ dpc \in {"process", "assign"} => wpc[found] \notin {"job", "run", "done"}
    /\ \A w \in Workers : wpc[w] \in {"run", "done"} /\ ~stop => held[w]

\* A worker whose last job failed still has the start time of an older one;
\* that one was accounted for when the worker was picked for the failed job,
\* so the failed job is never taken for a timely one.
FailedIsNotTimely ==
    dpc \in {"process", "assign"} /\ failed[found] => ~timely

\* No lost wake-up: a worker sleeps on a pending job, and the dispatcher on a
\* free worker, only while the signal is still to come.
NoLostWakeup ==
    /\ \A w \in Workers :
          wpc[w] = "blocked" /\ hasJob[w] =>
              \/ dpc = "signal" /\ found = w
              \/ dpc = "killsignal" /\ rank[w] = scan
    /\ dpc = "blocked" /\ freeWorkers > 0
          => \E w \in Workers : wpc[w] = "signal"

\* us_workers_pool_wait() returns: the dispatcher never sleeps for ever.
WaitReturns == dpc = "blocked" ~> dpc \in {"scan", "process"}

\* us_workers_pool_destroy() joins every worker, whatever each was doing.
DestroyTerminates == dpc = "kill" ~> dpc = "freed"
=============================================================================
