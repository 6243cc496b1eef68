-------------------------------- MODULE Main --------------------------------
(***************************************************************************)
(* The entry points of loadgen/src/spdk.rs around one Worker:              *)
(* main_handler makes a WaitGroup, adds 1, calls work_handler and waits;   *)
(* work_handler makes its own WaitGroup, adds 1, spawns a detached thread  *)
(* that builds a Worker (storage_block_size and storage_num_blocks,        *)
(* unwrapped) and runs it, yields, waits, and calls done on the parent's   *)
(* group.  Worker::run ends with wg.done() after print_stats.  The worker  *)
(* is Loader, instantiated with its variables substituted by name; this    *)
(* module adds the two groups and the handler thread.  The Caladan         *)
(* runtime starts main_handler; argument parsing is left out (the          *)
(* constants are its results).                                             *)
(***************************************************************************)
EXTENDS Naturals

CONSTANTS Cap, Delay, Duration

VARIABLES
    now, pc, next_us, outstanding, ready, running, pushed, nlat, issued,
    aborted,     \* Loader's variables: the worker thread
    hpc,         \* the handler thread's place in main_handler/work_handler
    worker,      \* the spawned thread: "none", "new" (before Worker::new), "run"
    main_wg,     \* main_handler's WaitGroup counter
    worker_wg    \* work_handler's WaitGroup counter (Worker::wg)

L == INSTANCE Loader

lvars == <<now, pc, next_us, outstanding, ready, running, pushed, nlat,
           issued, aborted>>
hvars == <<hpc, worker, main_wg, worker_wg>>
vars == <<lvars, hvars>>

(* WaitGroup::new(): count 0; the worker's run state is Loader's Init.     *)
Init ==
    /\ L!Init
    /\ hpc = "main"
    /\ worker = "none"
    /\ main_wg = 0
    /\ worker_wg = 0

(* main_handler: wg.add(1), then the call into work_handler.              *)
MainAdd ==
    /\ ~aborted
    /\ hpc = "main"
    /\ main_wg' = main_wg + 1
    /\ hpc' = "handler"
    /\ UNCHANGED <<lvars, worker, worker_wg>>

\* Variant of HandlerSpawn used to test the properties: work_handler's
\* wg.add(1) left out.
HandlerSpawnNoAdd ==
    /\ ~aborted
    /\ hpc = "handler"
    /\ worker' = "new"
    /\ hpc' = "wait_worker"
    /\ UNCHANGED <<lvars, main_wg, worker_wg>>

(* work_handler: wg.add(1), spawn_detached(Worker::new; run),             *)
(* thread_yield (a stutter), and on to wg.wait().                         *)
HandlerSpawn ==
    /\ ~aborted
    /\ hpc = "handler"
    /\ worker_wg' = worker_wg + 1
    /\ worker' = "new"
    /\ hpc' = "wait_worker"
    /\ UNCHANGED <<lvars, main_wg>>

(* work_handler: wg.wait() returns at count 0; then wg_parent.done().     *)
HandlerWait ==
    /\ ~aborted
    /\ hpc = "wait_worker"
    /\ worker_wg = 0
    /\ main_wg' = main_wg - 1
    /\ hpc' = "wait_main"
    /\ UNCHANGED <<lvars, worker, worker_wg>>

(* main_handler: wg.wait() returns at count 0 and main_handler returns.   *)
MainWait ==
    /\ ~aborted
    /\ hpc = "wait_main"
    /\ main_wg = 0
    /\ hpc' = "returned"
    /\ UNCHANGED <<lvars, worker, main_wg, worker_wg>>

(***************************************************************************)
(* The spawned thread: Worker::new reads the storage geometry with         *)
(* .unwrap(), which panics (taken as the process stopping) if the storage  *)
(* runtime answers with an error; then run() starts.                       *)
(***************************************************************************)
WorkerNew ==
    /\ ~aborted
    /\ worker = "new"
    /\ \/ worker' = "run" /\ UNCHANGED aborted
       \/ aborted' = TRUE /\ UNCHANGED worker
    /\ UNCHANGED <<now, pc, next_us, outstanding, ready, running, pushed,
                   nlat, issued, hpc, main_wg, worker_wg>>

\* A step of Worker::run or of a thread it spawned, once run has started.
WorkerStep(A) ==
    /\ worker = "run"
    /\ A
    /\ UNCHANGED hvars

\* Variant of WorkerStats used to test the properties: wg.done() left out.
WorkerStatsNoDone ==
    /\ worker = "run"
    /\ L!PrintStats
    /\ UNCHANGED hvars

(* print_stats, then wg.done(), which a panic in print_stats never reaches.*)
WorkerStats ==
    /\ worker = "run"
    /\ L!PrintStats
    /\ worker_wg' = IF pc' = "done" THEN worker_wg - 1 ELSE worker_wg
    /\ UNCHANGED <<hpc, worker, main_wg>>

Next ==
    \/ MainAdd \/ HandlerSpawn \/ HandlerWait \/ MainWait
    \/ WorkerNew \/ WorkerStats
    \/ WorkerStep(L!Tick) \/ WorkerStep(L!LoopCond) \/ WorkerStep(L!LoopCheck)
    \/ WorkerStep(L!Drain) \/ WorkerStep(L!TaskStart) \/ WorkerStep(L!TaskIO)
    \/ WorkerStep(L!TaskEnd)

(***************************************************************************)
(* Fairness.  The handler thread only blocks in wg.wait(), and a Caladan   *)
(* thread that stays runnable is eventually run; the worker's steps are    *)
(* weakly fair for the reasons given in Loader.                            *)
(***************************************************************************)
Fairness ==
    /\ WF_vars(MainAdd) /\ WF_vars(HandlerSpawn) /\ WF_vars(HandlerWait)
    /\ WF_vars(MainWait) /\ WF_vars(WorkerNew) /\ WF_vars(WorkerStats)
    /\ WF_vars(WorkerStep(L!Tick)) /\ WF_vars(WorkerStep(L!LoopCond))
    /\ WF_vars(WorkerStep(L!LoopCheck)) /\ WF_vars(WorkerStep(L!Drain))
    /\ WF_vars(WorkerStep(L!TaskStart)) /\ WF_vars(WorkerStep(L!TaskIO))
    /\ WF_vars(WorkerStep(L!TaskEnd))

Spec == Init /\ [][Next]_vars /\ Fairness

-----------------------------------------------------------------------------
TypeOK ==
    /\ L!TypeOK
    /\ hpc \in {"main", "handler", "wait_worker", "wait_main", "returned"}
    /\ worker \in {"none", "new", "run"}
    /\ main_wg \in Nat
    /\ worker_wg \in Nat

(***************************************************************************)
(* main_handler returns only after the worker has printed its statistics:  *)
(* each group is added to before the thread that will call done on it     *)
(* starts, so neither wait can return early.                               *)
(***************************************************************************)
ReturnOnlyAfterReport == hpc = "returned" => pc = "done"

(***************************************************************************)
(* The process always finishes: main_handler returns, or a panic (an       *)
(* unwrap in Worker::new, a storage .expect, print_stats on an empty log)  *)
(* stops it.  It needs the worker's drain to see outstanding reach zero    *)
(* and both wg.done() calls to be made.                                    *)
(***************************************************************************)
MainReturns == <>(hpc = "returned" \/ aborted \/ pc = "panic")

=============================================================================
