----------------------------- MODULE ThreadPool -----------------------------
(***************************************************************************)
(* ThreadPool (include/concurrency/ThreadPool.hpp): workers that wait on a *)
(* condition variable for tasks in a queue behind a mutex, enqueue from    *)
(* any thread, and a destructor that drains the queue and joins.           *)
(*                                                                         *)
(* The mutex is explicit: taking it is a step of its own, and what is done *)
(* under it is the step that releases it.  A task is named by the call of  *)
(* enqueue that submits it; the thread that makes this call is the task's  *)
(* submitter.  notify_one and notify_all are outside the lock.             *)
(***************************************************************************)
EXTENDS Integers, Sequences, FiniteSets, Functions

CONSTANTS
    Workers,      \* the threads of workers_
    Tasks,
    Owner,        \* the thread that runs the destructor
    None,
    MaxSpurious   \* bound: spurious wakeups of cv_.wait

ASSUME ThreadPoolAssumption ==
    /\ Workers # {}
    /\ Owner \notin Workers \union Tasks
    /\ None \notin Workers \union Tasks \union {Owner}
    /\ Workers \intersect Tasks = {}
    /\ MaxSpurious \in Nat

VARIABLES
    mutex,     \* holder of queue_mutex_, or None
    tasks,     \* tasks_
    wpc,       \* where each worker is
    current,   \* the task each worker has taken from the queue
    spc,       \* where each submitter is in enqueue
    dpc,       \* where the owner is in the destructor
    ready,     \* tasks whose future is ready
    spurious   \* spurious wakeups so far

pool == <<mutex, tasks, wpc, current, spc, dpc, ready, spurious>>

(* stop_ is set by the destructor, under the mutex, and never reset.       *)
stop == dpc \in {"notify", "join", "destroyed"}

PoolInit ==
    /\ mutex = None
    /\ tasks = <<>>
    /\ wpc = [w \in Workers |-> "lock"]
    /\ current = [w \in Workers |-> None]
    /\ spc = [t \in Tasks |-> "new"]
    /\ dpc = "alive"
    /\ ready = {}
    /\ spurious = 0

WGoTo(w, from, to) == wpc[w] = from /\ wpc' = [wpc EXCEPT ![w] = to]
SGoTo(t, from, to) == spc[t] = from /\ spc' = [spc EXCEPT ![t] = to]
DGoTo(from, to)    == dpc = from /\ dpc' = to

Acquire(x) == mutex = None /\ mutex' = x
Release(x) == mutex = x /\ mutex' = None

-----------------------------------------------------------------------------
(* The loop of a worker.                                                   *)
WorkerLock(w) ==
    /\ WGoTo(w, "lock", "test")
    /\ Acquire(w)
    /\ UNCHANGED <<tasks, current, spc, dpc, ready, spurious>>

(* The predicate of cv_.wait is false: release the mutex and sleep.        *)
WorkerWait(w) ==
    /\ ~ stop /\ tasks = <<>>
    /\ WGoTo(w, "test", "waiting")
    /\ Release(w)
    /\ UNCHANGED <<tasks, current, spc, dpc, ready, spurious>>

WorkerExit(w) ==
    /\ stop /\ tasks = <<>>
    /\ WGoTo(w, "test", "exit")
    /\ Release(w)
    /\ UNCHANGED <<tasks, current, spc, dpc, ready, spurious>>

(* Faulty variant: front() without pop().                                  *)
WorkerPopKeeps(w) ==
    /\ tasks # <<>>
    /\ WGoTo(w, "test", "run")
    /\ current' = [current EXCEPT ![w] = Head(tasks)]
    /\ Release(w)
    /\ UNCHANGED <<tasks, spc, dpc, ready, spurious>>

WorkerPop(w) ==
    /\ tasks # <<>>
    /\ WGoTo(w, "test", "run")
    /\ current' = [current EXCEPT ![w] = Head(tasks)]
    /\ tasks' = Tail(tasks)
    /\ Release(w)
    /\ UNCHANGED <<spc, dpc, ready, spurious>>

(* task() returns; an exception of the task goes into its future.          *)
WorkerRun(w) ==
    /\ WGoTo(w, "run", "lock")
    /\ ready' = ready \union {current[w]}
    /\ current' = [current EXCEPT ![w] = None]
    /\ UNCHANGED <<mutex, tasks, spc, dpc, spurious>>

(* A waiting thread may wake without a notification; it tests again.       *)
SpuriousWakeup(w) ==
    /\ spurious < MaxSpurious
    /\ WGoTo(w, "waiting", "lock")
    /\ spurious' = spurious + 1
    /\ UNCHANGED <<mutex, tasks, current, spc, dpc, ready>>

WorkerStep(w) ==
    \/ WorkerLock(w) \/ WorkerWait(w) \/ WorkerExit(w) \/ WorkerPop(w) \/ WorkerRun(w)

-----------------------------------------------------------------------------
(* enqueue.  It is called on a pool that still exists.                     *)
EnqueueLock(t) ==
    /\ dpc # "destroyed"
    /\ SGoTo(t, "new", "locked")
    /\ Acquire(t)
    /\ UNCHANGED <<tasks, wpc, current, dpc, ready, spurious>>

EnqueueThrow(t) ==
    /\ stop
    /\ SGoTo(t, "locked", "refused")
    /\ Release(t)
    /\ UNCHANGED <<tasks, wpc, current, dpc, ready, spurious>>

(* Faulty variant: nobody is notified.                                     *)
EnqueuePushSilent(t) ==
    /\ ~ stop
    /\ SGoTo(t, "locked", "returned")
    /\ tasks' = Append(tasks, t)
    /\ Release(t)
    /\ UNCHANGED <<wpc, current, dpc, ready, spurious>>

(* Faulty variant: stop_ is not tested.                                    *)
EnqueuePushUnchecked(t) ==
    /\ SGoTo(t, "locked", "notify")
    /\ tasks' = Append(tasks, t)
    /\ Release(t)
    /\ UNCHANGED <<wpc, current, dpc, ready, spurious>>

EnqueuePush(t) ==
    /\ ~ stop
    /\ SGoTo(t, "locked", "notify")
    /\ tasks' = Append(tasks, t)
    /\ Release(t)
    /\ UNCHANGED <<wpc, current, dpc, ready, spurious>>

Waiting == {w \in Workers : wpc[w] = "waiting"}

(* notify_one wakes some waiting worker, if there is one.                  *)
NotifyOne(t) ==
    /\ SGoTo(t, "notify", "returned")
    /\ \/ Waiting = {} /\ UNCHANGED wpc
       \/ \E w \in Waiting : wpc' = [wpc EXCEPT ![w] = "lock"]
    /\ UNCHANGED <<mutex, tasks, current, dpc, ready, spurious>>

EnqueueStep(t) == EnqueueThrow(t) \/ EnqueuePush(t) \/ NotifyOne(t)

-----------------------------------------------------------------------------
(* The destructor.                                                         *)
DestructorLock ==
    /\ DGoTo("alive", "locked")
    /\ Acquire(Owner)
    /\ UNCHANGED <<tasks, wpc, current, spc, ready, spurious>>

SetStop ==
    /\ DGoTo("locked", "notify")
    /\ Release(Owner)
    /\ UNCHANGED <<tasks, wpc, current, spc, ready, spurious>>

(* Faulty variant: notify_one in the destructor.                           *)
NotifyAllWakesOne ==
    /\ DGoTo("notify", "join")
    /\ \/ Waiting = {} /\ UNCHANGED wpc
       \/ \E w \in Waiting : wpc' = [wpc EXCEPT ![w] = "lock"]
    /\ UNCHANGED <<mutex, tasks, current, spc, ready, spurious>>

NotifyAll ==
    /\ DGoTo("notify", "join")
    /\ wpc' = [w \in Workers |-> IF wpc[w] = "waiting" THEN "lock" ELSE wpc[w]]
    /\ UNCHANGED <<mutex, tasks, current, spc, ready, spurious>>

JoinAll ==
    /\ DGoTo("join", "destroyed")
    /\ \A w \in Workers : wpc[w] = "exit"
    /\ UNCHANGED <<mutex, tasks, wpc, current, spc, ready, spurious>>

DestructorStep == SetStop \/ NotifyAll \/ JoinAll

(* The pool is gone and no call is in progress.                            *)
Done ==
    /\ dpc = "destroyed"
    /\ \A t \in Tasks : spc[t] \in {"new", "refused", "returned"}
    /\ UNCHANGED pool

PoolNext ==
    \/ \E w \in Workers : WorkerStep(w) \/ SpuriousWakeup(w)
    \/ \E t \in Tasks : EnqueueLock(t) \/ EnqueueStep(t)
    \/ DestructorLock \/ DestructorStep
    \/ Done

PoolSpec == PoolInit /\ [][PoolNext]_pool

-----------------------------------------------------------------------------
(* Properties.                                                             *)

(* Types; a worker has a task exactly while it runs one.                   *)
PoolTypeOK ==
    /\ mutex \in Workers \union Tasks \union {Owner, None}
    /\ tasks \in Seq(Tasks)
    /\ wpc \in [Workers -> {"lock", "test", "waiting", "run", "exit"}]
    /\ current \in [Workers -> Tasks \union {None}]
    /\ \A w \in Workers : current[w] # None <=> wpc[w] = "run"
    /\ spc \in [Tasks -> {"new", "locked", "refused", "notify", "returned"}]
    /\ dpc \in {"alive", "locked", "notify", "join", "destroyed"}
    /\ ready \subseteq Tasks
    /\ spurious \in 0 .. MaxSpurious

Accepted == {t \in Tasks : spc[t] \in {"notify", "returned"}}

Executing == {t \in Tasks : \E w \in Workers : current[w] = t}

(* An accepted task is in one place: once in the queue, or taken by one    *)
(* worker, or finished.  Nothing is lost between pop and task(), and       *)
(* nothing runs twice.                                                     *)
ExactlyOnce ==
    /\ Accepted = Range(tasks) \union Executing \union ready
    /\ \A i, j \in DOMAIN tasks : i # j => tasks[i] # tasks[j]
    /\ \A v, w \in Workers : current[v] = current[w] /\ current[v] # None => v = w
    /\ Range(tasks) \intersect Executing = {}
    /\ (Range(tasks) \union Executing) \intersect ready = {}

(* No lost wakeup, although notify_one is called after the mutex was       *)
(* released: if a task is queued and no notification is on its way, some   *)
(* worker is awake and will look at the queue.                             *)
NoLostWakeup ==
    tasks # <<>> =>
        \/ \E t \in Tasks : spc[t] = "notify"
        \/ \E w \in Workers : wpc[w] \in {"lock", "test", "run"}

(* No worker sleeps through the destructor: once notify_all was called     *)
(* none is waiting, so join is not waited for in vain.                     *)
NoSleeperAtJoin ==
    dpc \in {"join", "destroyed"} => Waiting = {}

(* Graceful shutdown: when the destructor returns, every task that enqueue *)
(* accepted has been executed.                                             *)
DrainedAtDestruction ==
    dpc = "destroyed" => tasks = <<>> /\ Accepted = ready

(* The pool implements the task service: its queue, workers, mutex and     *)
(* notifications are not visible to callers.                               *)
Status(t) ==
    CASE spc[t] \in {"new", "locked"} -> "new"
      [] spc[t] = "refused" -> "refused"
      [] t \in ready -> "done"
      [] t \in Executing -> "running"
      [] OTHER -> "queued"

Phase ==
    CASE dpc \in {"alive", "locked"} -> "open"
      [] dpc \in {"notify", "join"} -> "closing"
      [] dpc = "destroyed" -> "terminated"

Service == INSTANCE TaskService WITH
    status <- [t \in Tasks |-> Status(t)],
    phase <- Phase

ImplementsTaskService == Service!Spec

(* Every accepted task is eventually executed, stopped pool or not.        *)
AcceptedRuns == \A t \in Tasks : t \in Accepted ~> t \in ready

(* The destructor returns: no deadlock between the notification, the       *)
(* waiting workers and join.                                               *)
DestructorReturns == dpc # "alive" ~> dpc = "destroyed"
=============================================================================
