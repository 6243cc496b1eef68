------------------------------- MODULE Loader -------------------------------
(***************************************************************************)
(* The open-loop load driver of loadgen/src/spdk.rs, Worker::run and       *)
(* Worker::print_stats.  One main thread busy-polls the clock and, when    *)
(* the next scheduled issue time has passed and the shared AtomicU16       *)
(* `outstanding` is below the cap, spawns a detached thread for one        *)
(* storage operation.  Each spawned thread increments `outstanding`, runs  *)
(* the operation, pushes its latency into the shared log and decrements    *)
(* `outstanding`.  After the run duration the main thread sleeps until     *)
(* `outstanding` is zero, then sorts the log and reports percentiles.      *)
(*                                                                         *)
(* Spawned threads are identical, so they are counted by the step they are *)
(* at.  Time is microtime() in units of the model; start_us is 0 and      *)
(* delay_us a whole number of units (1_000_000 / rate is exact for the     *)
(* rates modelled).  Latency values are left out: only the log's length    *)
(* matters to the control flow (print_stats indexes it).                   *)
(***************************************************************************)
EXTENDS Naturals

CONSTANTS
    Cap,         \* Worker::outstanding, the -o cap
    Delay,       \* Worker::delay_us
    Duration     \* Worker::duration_us

ASSUME Cap \in Nat /\ Delay \in Nat \ {0} /\ Duration \in Nat

VARIABLES
    now,          \* shenango::microtime()
    pc,           \* the main thread's place in run()
    next_us,      \* Worker::next_us
    outstanding,  \* the Arc<AtomicU16> shared with spawned threads
    ready,        \* spawned threads that have not run yet
    running,      \* threads between fetch_add and the latency push
    pushed,       \* threads between the latency push and fetch_sub
    nlat,         \* length of the latencies log
    issued,       \* history: operations spawned so far
    aborted       \* a storage error hit .expect(), aborting the process

vars == <<now, pc, next_us, outstanding, ready, running, pushed, nlat,
          issued, aborted>>

start_us == 0

Init ==
    /\ now = start_us
    /\ pc = "loop"
    /\ next_us = start_us + Delay
    /\ outstanding = 0
    /\ ready = 0
    /\ running = 0
    /\ pushed = 0
    /\ nlat = 0
    /\ issued = 0
    /\ aborted = FALSE

\* Every step below is guarded by ~aborted: after a panic no thread runs.

(***************************************************************************)
(* How far the model lets the clock run: one delay past the end of the     *)
(* run.  The loop condition and the if at line 80 read microtime()         *)
(* separately, so the second read can be past the end and still issue one  *)
(* operation; a later clock changes nothing, since next_us never runs more *)
(* than one delay ahead of the last issue.                                 *)
(***************************************************************************)
TimeBound == start_us + Duration + Delay

\* The clock advances.
Tick ==
    /\ ~aborted
    /\ now < TimeBound
    /\ now' = now + 1
    /\ UNCHANGED <<pc, next_us, outstanding, ready, running, pushed, nlat,
                   issued, aborted>>

(* while microtime() < start_us + duration_us: the loop condition.        *)
LoopCond ==
    /\ ~aborted
    /\ pc = "loop"
    /\ \/ /\ now < start_us + Duration
          /\ pc' = "check"
       \/ /\ now >= start_us + Duration
          /\ pc' = "drain"
    /\ UNCHANGED <<now, next_us, outstanding, ready, running, pushed, nlat,
                   issued, aborted>>

(***************************************************************************)
(* The loop body: if microtime() > next_us and outstanding < cap, spawn a  *)
(* thread for one operation and advance next_us by delay_us; otherwise     *)
(* poll again.  The clock is read again here, after the loop condition.    *)
(***************************************************************************)
LoopCheck ==
    /\ ~aborted
    /\ pc = "check"
    /\ pc' = "loop"
    /\ \/ /\ now > next_us
          /\ outstanding < Cap
          /\ ready' = ready + 1
          /\ next_us' = next_us + Delay
          /\ issued' = issued + 1
       \/ /\ ~(now > next_us /\ outstanding < Cap)
          /\ UNCHANGED <<ready, next_us, issued>>
    /\ UNCHANGED <<now, outstanding, running, pushed, nlat, aborted>>

(* A spawned thread starts: outstanding.fetch_add(1).                     *)
TaskStart ==
    /\ ~aborted
    /\ ready > 0
    /\ ready' = ready - 1
    /\ running' = running + 1
    /\ outstanding' = outstanding + 1
    /\ UNCHANGED <<now, pc, next_us, pushed, nlat, issued, aborted>>

(* storage_read/storage_write; on success the latency is pushed under the *)
(* log's write lock, on error .expect() panics and the process aborts.    *)
TaskIO ==
    /\ ~aborted
    /\ running > 0
    /\ \/ /\ running' = running - 1
          /\ pushed' = pushed + 1
          /\ nlat' = nlat + 1
          /\ UNCHANGED aborted
       \/ /\ aborted' = TRUE
          /\ UNCHANGED <<running, pushed, nlat>>
    /\ UNCHANGED <<now, pc, next_us, outstanding, ready, issued>>

\* Variant of TaskEnd used to test the properties: the guard dropped.
TaskEndUnguarded ==
    /\ ~aborted
    /\ pushed' = pushed - 1
    /\ outstanding' = outstanding - 1
    /\ UNCHANGED <<now, pc, next_us, ready, running, nlat, issued, aborted>>

(* The thread ends: outstanding.fetch_sub(1).                             *)
TaskEnd ==
    /\ ~aborted
    /\ pushed > 0
    /\ pushed' = pushed - 1
    /\ outstanding' = outstanding - 1
    /\ UNCHANGED <<now, pc, next_us, ready, running, nlat, issued, aborted>>

(* while outstanding.load() != 0 { timer_sleep }: the sleep changes       *)
(* nothing, so the loop is the step that leaves it.                       *)
Drain ==
    /\ ~aborted
    /\ pc = "drain"
    /\ outstanding = 0
    /\ pc' = "stats"
    /\ UNCHANGED <<now, next_us, outstanding, ready, running, pushed, nlat,
                   issued, aborted>>

(***************************************************************************)
(* end_us = microtime(); print_stats(): sort the log and index it at len/2,*)
(* len*9/10 and len*99/100, which panics on an empty log; then wg.done().  *)
(***************************************************************************)
PrintStats ==
    /\ ~aborted
    /\ pc = "stats"
    /\ pc' = IF nlat = 0 THEN "panic" ELSE "done"
    /\ UNCHANGED <<now, next_us, outstanding, ready, running, pushed, nlat,
                   issued, aborted>>

Next ==
    \/ Tick \/ LoopCond \/ LoopCheck \/ Drain \/ PrintStats
    \/ TaskStart \/ TaskIO \/ TaskEnd

(***************************************************************************)
(* Fairness.  Time always advances.  The main thread never blocks (it      *)
(* busy-polls, then sleeps in short quanta), and a spawned Caladan thread  *)
(* that stays runnable is eventually run, so all of them are weakly fair.  *)
(***************************************************************************)
Fairness ==
    /\ WF_vars(Tick)
    /\ WF_vars(LoopCond) /\ WF_vars(LoopCheck) /\ WF_vars(Drain)
    /\ WF_vars(PrintStats)
    /\ WF_vars(TaskStart) /\ WF_vars(TaskIO) /\ WF_vars(TaskEnd)

Spec == Init /\ [][Next]_vars /\ Fairness

-----------------------------------------------------------------------------
Ended == pc \in {"done", "panic"} \/ aborted

TypeOK ==
    /\ now \in Nat
    /\ pc \in {"loop", "check", "drain", "stats", "done", "panic"}
    /\ next_us \in Nat
    /\ outstanding \in Nat
    /\ ready \in Nat /\ running \in Nat /\ pushed \in Nat
    /\ nlat \in Nat
    /\ issued \in Nat
    /\ aborted \in BOOLEAN

(***************************************************************************)
(* The statistics are computed only once every dispatched operation has   *)
(* finished: after the duration the driver waits "until the outstanding   *)
(* counter drains to zero - in-flight operations are not cancelled, only  *)
(* awaited" (spec section 4.5).  It rests on the counter the drain loop    *)
(* reads (spdk.rs:107) counting threads that spawn_detached has created    *)
(* but that have not yet run their fetch_add (spdk.rs:93).                 *)
(***************************************************************************)
ReportAfterDrain ==
    pc \in {"stats", "done", "panic"} => ready + running = 0

(* print_stats is only reached with a non-empty latency log, which it      *)
(* indexes at len / 2.                                                     *)
StatsNonEmpty == pc = "stats" => nlat > 0

=============================================================================
