----------------------------- MODULE Benchmark -----------------------------
(***************************************************************************)
(* The benchmarks of phase16_benchmarking_suite.cpp with the LatencyTracker*)
(* of include/benchmark/BenchmarkingSuite.hpp: a thread per client that is *)
(* joined, tasks on the pool that count what they finished while the main  *)
(* thread polls the counter, and a plain loop.  The tracker, its mutex and *)
(* the counter are locals that the main thread destroys when it returns;   *)
(* the pool was declared before them, so its threads are joined after.     *)
(***************************************************************************)
EXTENDS Integers, FiniteSets

CONSTANTS
    BenchClients,
    NUM_OPERATIONS_PER_CLIENT,
    BenchWorkers    \* pool_size

ASSUME BenchmarkAssumption ==
    IsFiniteSet(BenchClients) /\ NUM_OPERATIONS_PER_CLIENT \in Nat \ {0}

VARIABLES
    kind,            \* "threads", "pool" or "reactor"
    task,            \* where the thread or task of each client is
    unrecorded,      \* local_samples still to be recorded
    tracker_mutex,   \* its holder, a set of at most one
    samples,         \* samples_.size() of the tracker
    completed_tasks,
    main,            \* "waits", "reports" or "returned"
    indices          \* where compute_results looks for the percentiles

benchmark == <<kind, task, unrecorded, tracker_mutex, samples, completed_tasks, main, indices>>

total_ops == Cardinality(BenchClients) * NUM_OPERATIONS_PER_CLIENT

BenchInit ==
    /\ kind \in {"threads", "pool", "reactor"}
    /\ task = [c \in BenchClients |-> IF kind = "reactor" THEN "done" ELSE "queued"]
    /\ unrecorded = [c \in BenchClients |-> 0]
    /\ tracker_mutex = {}
    /\ samples = 0
    /\ completed_tasks = 0
    /\ main = "waits"
    /\ indices = {}

TaskGoes(c, from, to) == task[c] = from /\ task' = [task EXCEPT ![c] = to]

Busy == {c \in BenchClients : task[c] \in {"sampling", "recording", "counting"}}

(* A thread starts, or a worker of the pool takes the task.                *)
Start(c) ==
    /\ kind = "pool" => Cardinality(Busy) < BenchWorkers
    /\ TaskGoes(c, "queued", "sampling")
    /\ UNCHANGED <<kind, unrecorded, tracker_mutex, samples, completed_tasks, main, indices>>

(* The operations are timed into local_samples, and the lock is taken.     *)
Lock(c) ==
    /\ tracker_mutex = {}
    /\ tracker_mutex' = {c}
    /\ TaskGoes(c, "sampling", "recording")
    /\ unrecorded' = [unrecorded EXCEPT ![c] = NUM_OPERATIONS_PER_CLIENT]
    /\ UNCHANGED <<kind, samples, completed_tasks, main, indices>>

record_us(c) ==
    /\ task[c] = "recording" /\ unrecorded[c] > 0
    /\ samples' = samples + 1
    /\ unrecorded' = [unrecorded EXCEPT ![c] = @ - 1]
    /\ UNCHANGED <<kind, task, tracker_mutex, completed_tasks, main, indices>>

(* The end of the lock's scope: in a thread, the end of the thread.        *)
Unlock(c) ==
    /\ unrecorded[c] = 0
    /\ TaskGoes(c, "recording", IF kind = "pool" THEN "counting" ELSE "done")
    /\ tracker_mutex' = {}
    /\ UNCHANGED <<kind, unrecorded, samples, completed_tasks, main, indices>>

Count(c) ==
    /\ TaskGoes(c, "counting", "done")
    /\ completed_tasks' = completed_tasks + NUM_OPERATIONS_PER_CLIENT
    /\ UNCHANGED <<kind, unrecorded, tracker_mutex, samples, main, indices>>

(* The loop of the reactor benchmark.                                      *)
LoopOperation ==
    /\ kind = "reactor" /\ samples < total_ops
    /\ samples' = samples + 1
    /\ UNCHANGED <<kind, task, unrecorded, tracker_mutex, completed_tasks, main, indices>>

(* Faulty variant: the last client is not waited for.                      *)
WaitsEarly ==
    \/ kind = "threads" /\ \A c \in BenchClients : task[c] = "done"
    \/ kind = "pool" /\ completed_tasks + NUM_OPERATIONS_PER_CLIENT >= total_ops
    \/ kind = "reactor" /\ samples = total_ops

(* All threads joined, the counter complete, or the loop over.             *)
WaitIsOver ==
    \/ kind = "threads" /\ \A c \in BenchClients : task[c] = "done"
    \/ kind = "pool" /\ completed_tasks >= total_ops
    \/ kind = "reactor" /\ samples = total_ops

(* The median, the 90th and the 99th percentile of the sorted samples.     *)
compute_results(n) ==
    IF n = 0 THEN {}
    ELSE {n \div 2, (9 * n) \div 10,
          IF (99 * n) \div 100 < n - 1 THEN (99 * n) \div 100 ELSE n - 1}

Report ==
    /\ main = "waits" /\ WaitIsOver
    /\ main' = "reports"
    /\ indices' = compute_results(samples)
    /\ UNCHANGED <<kind, task, unrecorded, tracker_mutex, samples, completed_tasks>>

Return ==
    /\ main = "reports"
    /\ main' = "returned"
    /\ UNCHANGED <<kind, task, unrecorded, tracker_mutex, samples, completed_tasks, indices>>

TaskStep(c) == Start(c) \/ Lock(c) \/ record_us(c) \/ Unlock(c) \/ Count(c)

MainStep == LoopOperation \/ Report \/ Return

BenchNext == MainStep \/ \E c \in BenchClients : TaskStep(c)

BenchSpec == BenchInit /\ [][BenchNext]_benchmark

-----------------------------------------------------------------------------
(* The report is made of every sample, the percentiles are samples, and no *)
(* task will touch the tracker, the mutex or the counter any more, so that *)
(* it does no harm that they are destroyed before the pool is joined: the  *)
(* counter is the last thing a task uses.                                  *)
ReportIsFinal ==
    main # "waits" =>
        /\ samples = total_ops
        /\ \A c \in BenchClients : task[c] = "done"
        /\ \A i \in indices : 0 <= i /\ i < samples

(* Every benchmark comes to its end.                                       *)
BenchmarkEnds == <>(main = "returned")
=============================================================================
