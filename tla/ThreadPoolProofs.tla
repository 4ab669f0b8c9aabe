-------------------------- MODULE ThreadPoolProofs --------------------------
(***************************************************************************)
(* What TLAPS proves about ThreadPool for every set of workers and tasks:  *)
(* the safety properties, and that the pool implements TaskService.        *)
(***************************************************************************)
EXTENDS ThreadPool, TLAPS

(* Every action keeps the types.                                           *)
THEOREM TypeCorrect == PoolSpec => []PoolTypeOK
<1> USE ThreadPoolAssumption
<1>1. PoolInit => PoolTypeOK
  <2> SUFFICES ASSUME PoolInit PROVE PoolTypeOK
    OBVIOUS
  <2>1. tasks \in Seq(Tasks)
    BY DEF PoolInit
  <2> QED
    BY <2>1 DEF PoolInit, PoolTypeOK
<1>2. PoolTypeOK /\ [PoolNext]_pool => PoolTypeOK'
  <2> SUFFICES ASSUME PoolTypeOK, [PoolNext]_pool PROVE PoolTypeOK'
    OBVIOUS
  <2> USE DEF PoolTypeOK, WGoTo, SGoTo, DGoTo, Acquire, Release
  <2>1. ASSUME NEW w \in Workers, WorkerLock(w) PROVE PoolTypeOK'
    BY <2>1 DEF WorkerLock
  <2>2. ASSUME NEW w \in Workers, WorkerWait(w) \/ WorkerExit(w) PROVE PoolTypeOK'
    BY <2>2 DEF WorkerWait, WorkerExit
  <2>3. ASSUME NEW w \in Workers, WorkerPop(w) PROVE PoolTypeOK'
    BY <2>3 DEF WorkerPop
  <2>4. ASSUME NEW w \in Workers, WorkerRun(w) PROVE PoolTypeOK'
    BY <2>4 DEF WorkerRun
  <2>5. ASSUME NEW w \in Workers, SpuriousWakeup(w) PROVE PoolTypeOK'
    BY <2>5 DEF SpuriousWakeup
  <2>6. ASSUME NEW t \in Tasks, EnqueueLock(t) \/ EnqueueThrow(t) PROVE PoolTypeOK'
    BY <2>6 DEF EnqueueLock, EnqueueThrow
  <2>7. ASSUME NEW t \in Tasks, EnqueuePush(t) PROVE PoolTypeOK'
    BY <2>7 DEF EnqueuePush
  <2>8. ASSUME NEW t \in Tasks, NotifyOne(t) PROVE PoolTypeOK'
    BY <2>8 DEF NotifyOne, Waiting
  <2>9. CASE DestructorLock \/ SetStop \/ NotifyAll \/ JoinAll
    BY <2>9 DEF DestructorLock, SetStop, NotifyAll, JoinAll
  <2>10. CASE UNCHANGED pool
    BY <2>10 DEF pool
  <2> QED
    BY <2>1, <2>2, <2>3, <2>4, <2>5, <2>6, <2>7, <2>8, <2>9, <2>10
       DEF PoolNext, WorkerStep, EnqueueStep, DestructorStep, Done
<1> QED
  BY <1>1, <1>2, PTL DEF PoolSpec
-----------------------------------------------------------------------------
(* A worker leaves only when the pool is stopping and the queue is empty,  *)
(* and then the queue stays empty.                                         *)
ExitInv ==
    /\ \A w \in Workers : wpc[w] = "exit" => stop /\ tasks = <<>>
    /\ dpc = "destroyed" => \A w \in Workers : wpc[w] = "exit"

PoolInv == PoolTypeOK /\ ExactlyOnce /\ NoLostWakeup /\ NoSleeperAtJoin /\ ExitInv

(* What pop does to a queue without repetitions.                           *)
LEMMA PopFacts ==
    ASSUME NEW S, NEW q \in Seq(S), q # <<>>,
           \A i, j \in DOMAIN q : i # j => q[i] # q[j]
    PROVE  /\ Head(q) \in S
           /\ Range(Tail(q)) = Range(q) \ {Head(q)}
           /\ \A i, j \in DOMAIN Tail(q) : i # j => Tail(q)[i] # Tail(q)[j]
           /\ Head(q) \in Range(q)
<1>1. Len(q) \in Nat \ {0} /\ DOMAIN q = 1 .. Len(q) /\ Head(q) = q[1] /\ q[1] \in S
  OBVIOUS
<1>2. DOMAIN Tail(q) = 1 .. Len(q) - 1 /\ \A i \in 1 .. Len(q) - 1 : Tail(q)[i] = q[i + 1]
  BY <1>1
<1>3. ASSUME NEW x \in Range(q), x # q[1] PROVE x \in Range(Tail(q))
  <2>1. PICK i \in DOMAIN q : x = q[i]
    BY DEF Range
  <2>2. i - 1 \in DOMAIN Tail(q) /\ Tail(q)[i - 1] = x
    BY <1>1, <1>2, <1>3, <2>1
  <2> QED
    BY <2>2 DEF Range
<1>4. ASSUME NEW x \in Range(Tail(q)) PROVE x \in Range(q) /\ x # q[1]
  <2>1. PICK i \in DOMAIN Tail(q) : x = Tail(q)[i]
    BY DEF Range
  <2>2. i + 1 \in DOMAIN q /\ x = q[i + 1] /\ i + 1 # 1 /\ 1 \in DOMAIN q
    BY <1>1, <1>2, <2>1
  <2> QED
    BY <2>2 DEF Range
<1>5. \A i, j \in DOMAIN Tail(q) : i # j => Tail(q)[i] # Tail(q)[j]
  BY <1>1, <1>2
<1>6. q[1] \in Range(q)
  BY <1>1 DEF Range
<1> QED
  BY <1>1, <1>3, <1>4, <1>5, <1>6

(* What push does to a queue.                                              *)
LEMMA PushFacts ==
    ASSUME NEW S, NEW q \in Seq(S), NEW x \in S, x \notin Range(q),
           \A i, j \in DOMAIN q : i # j => q[i] # q[j]
    PROVE  /\ Range(Append(q, x)) = Range(q) \union {x}
           /\ \A i, j \in DOMAIN Append(q, x) : i # j => Append(q, x)[i] # Append(q, x)[j]
<1>1. Len(q) \in Nat /\ DOMAIN q = 1 .. Len(q)
  OBVIOUS
<1>2. /\ DOMAIN Append(q, x) = 1 .. Len(q) + 1
      /\ \A i \in 1 .. Len(q) : Append(q, x)[i] = q[i]
      /\ Append(q, x)[Len(q) + 1] = x
  BY <1>1
<1>3. \A i \in DOMAIN q : q[i] # x
  BY DEF Range
<1>4. ASSUME NEW y \in Range(q) \union {x} PROVE y \in Range(Append(q, x))
  BY <1>1, <1>2 DEF Range
<1>5. ASSUME NEW y \in Range(Append(q, x)) PROVE y \in Range(q) \union {x}
  BY <1>1, <1>2 DEF Range
<1>6. \A i, j \in DOMAIN Append(q, x) : i # j => Append(q, x)[i] # Append(q, x)[j]
  BY <1>1, <1>2, <1>3
<1> QED
  BY <1>4, <1>5, <1>6
(* Every step preserves the invariant.                                     *)
LEMMA PoolStep ==
    ASSUME PoolInv, PoolTypeOK', [PoolNext]_pool
    PROVE  PoolInv'
<1> USE ThreadPoolAssumption DEF WGoTo, SGoTo, DGoTo, Acquire, Release
<1>0. PoolTypeOK /\ ExactlyOnce /\ NoLostWakeup /\ NoSleeperAtJoin /\ ExitInv
  BY DEF PoolInv
<1>1. ASSUME NEW w \in Workers, WorkerLock(w) PROVE PoolInv'
  <2>1. ExactlyOnce'
    BY <1>0, <1>1 DEF WorkerLock, ExactlyOnce, Accepted, Executing, PoolTypeOK
  <2>2. NoLostWakeup'
    BY <1>0, <1>1 DEF WorkerLock, NoLostWakeup, NoSleeperAtJoin, ExitInv, Waiting, stop, PoolTypeOK
  <2>3. NoSleeperAtJoin'
    BY <1>0, <1>1 DEF WorkerLock, NoLostWakeup, NoSleeperAtJoin, ExitInv, Waiting, stop, PoolTypeOK
  <2>4. ExitInv'
    BY <1>0, <1>1 DEF WorkerLock, NoLostWakeup, NoSleeperAtJoin, ExitInv, Waiting, stop, PoolTypeOK
  <2> QED
    BY <2>1, <2>2, <2>3, <2>4 DEF PoolInv
<1>2. ASSUME NEW w \in Workers, WorkerWait(w) PROVE PoolInv'
  <2>1. ExactlyOnce'
    BY <1>0, <1>2 DEF WorkerWait, ExactlyOnce, Accepted, Executing, PoolTypeOK
  <2>2. NoLostWakeup'
    BY <1>0, <1>2 DEF WorkerWait, NoLostWakeup, NoSleeperAtJoin, ExitInv, Waiting, stop, PoolTypeOK
  <2>3. NoSleeperAtJoin'
    BY <1>0, <1>2 DEF WorkerWait, NoLostWakeup, NoSleeperAtJoin, ExitInv, Waiting, stop, PoolTypeOK
  <2>4. ExitInv'
    BY <1>0, <1>2 DEF WorkerWait, NoLostWakeup, NoSleeperAtJoin, ExitInv, Waiting, stop, PoolTypeOK
  <2> QED
    BY <2>1, <2>2, <2>3, <2>4 DEF PoolInv
<1>3. ASSUME NEW w \in Workers, WorkerExit(w) PROVE PoolInv'
  <2>1. ExactlyOnce'
    BY <1>0, <1>3 DEF WorkerExit, ExactlyOnce, Accepted, Executing, PoolTypeOK
  <2>2. NoLostWakeup'
    BY <1>0, <1>3 DEF WorkerExit, NoLostWakeup, NoSleeperAtJoin, ExitInv, Waiting, stop, PoolTypeOK
  <2>3. NoSleeperAtJoin'
    BY <1>0, <1>3 DEF WorkerExit, NoLostWakeup, NoSleeperAtJoin, ExitInv, Waiting, stop, PoolTypeOK
  <2>4. ExitInv'
    BY <1>0, <1>3 DEF WorkerExit, NoLostWakeup, NoSleeperAtJoin, ExitInv, Waiting, stop, PoolTypeOK
  <2> QED
    BY <2>1, <2>2, <2>3, <2>4 DEF PoolInv
<1>4. ASSUME NEW w \in Workers, WorkerPop(w) PROVE PoolInv'
  <2>0. /\ Head(tasks) \in Tasks /\ Head(tasks) \in Range(tasks)
        /\ Range(tasks') = Range(tasks) \ {Head(tasks)}
        /\ \A i, j \in DOMAIN tasks' : i # j => tasks'[i] # tasks'[j]
    BY <1>0, <1>4, PopFacts DEF WorkerPop, ExactlyOnce, PoolTypeOK
  <2>r. Executing' = Executing \union {Head(tasks)}
    BY <1>0, <1>4, <2>0 DEF WorkerPop, Executing, PoolTypeOK
  <2>1. ExactlyOnce'
    <3>1. Accepted' = Accepted /\ ready' = ready
      BY <1>4 DEF WorkerPop, Accepted
    <3>2. \A u, v \in Workers : current'[u] = current'[v] /\ current'[u] # None => u = v
      BY <1>0, <1>4, <2>0 DEF WorkerPop, ExactlyOnce, Executing, PoolTypeOK
    <3> QED
      BY <1>0, <2>0, <2>r, <3>1, <3>2 DEF ExactlyOnce
  <2>2. NoLostWakeup'
    BY <1>0, <1>4 DEF WorkerPop, NoLostWakeup, NoSleeperAtJoin, ExitInv, Waiting, stop, PoolTypeOK
  <2>3. NoSleeperAtJoin'
    BY <1>0, <1>4 DEF WorkerPop, NoLostWakeup, NoSleeperAtJoin, ExitInv, Waiting, stop, PoolTypeOK
  <2>4. ExitInv'
    BY <1>0, <1>4 DEF WorkerPop, NoLostWakeup, NoSleeperAtJoin, ExitInv, Waiting, stop, PoolTypeOK
  <2> QED
    BY <2>1, <2>2, <2>3, <2>4 DEF PoolInv
<1>5. ASSUME NEW w \in Workers, WorkerRun(w) PROVE PoolInv'
  <2>0. current[w] \in Tasks /\ current[w] \in Executing
    BY <1>0, <1>5 DEF WorkerRun, Executing, PoolTypeOK
  <2>r. Executing' = Executing \ {current[w]}
    BY <1>0, <1>5, <2>0 DEF WorkerRun, Executing, ExactlyOnce, PoolTypeOK
  <2>1. ExactlyOnce'
    <3>1. Accepted' = Accepted /\ tasks' = tasks /\ ready' = ready \union {current[w]}
      BY <1>5 DEF WorkerRun, Accepted
    <3>2. \A u, v \in Workers : current'[u] = current'[v] /\ current'[u] # None => u = v
      BY <1>0, <1>5 DEF WorkerRun, ExactlyOnce, PoolTypeOK
    <3> QED
      BY <1>0, <2>0, <2>r, <3>1, <3>2 DEF ExactlyOnce
  <2>2. NoLostWakeup'
    BY <1>0, <1>5 DEF WorkerRun, NoLostWakeup, NoSleeperAtJoin, ExitInv, Waiting, stop, PoolTypeOK
  <2>3. NoSleeperAtJoin'
    BY <1>0, <1>5 DEF WorkerRun, NoLostWakeup, NoSleeperAtJoin, ExitInv, Waiting, stop, PoolTypeOK
  <2>4. ExitInv'
    BY <1>0, <1>5 DEF WorkerRun, NoLostWakeup, NoSleeperAtJoin, ExitInv, Waiting, stop, PoolTypeOK
  <2> QED
    BY <2>1, <2>2, <2>3, <2>4 DEF PoolInv
<1>6. ASSUME NEW w \in Workers, SpuriousWakeup(w) PROVE PoolInv'
  <2>1. ExactlyOnce'
    BY <1>0, <1>6 DEF SpuriousWakeup, ExactlyOnce, Accepted, Executing, PoolTypeOK
  <2>2. NoLostWakeup'
    BY <1>0, <1>6 DEF SpuriousWakeup, NoLostWakeup, NoSleeperAtJoin, ExitInv, Waiting, stop, PoolTypeOK
  <2>3. NoSleeperAtJoin'
    BY <1>0, <1>6 DEF SpuriousWakeup, NoLostWakeup, NoSleeperAtJoin, ExitInv, Waiting, stop, PoolTypeOK
  <2>4. ExitInv'
    BY <1>0, <1>6 DEF SpuriousWakeup, NoLostWakeup, NoSleeperAtJoin, ExitInv, Waiting, stop, PoolTypeOK
  <2> QED
    BY <2>1, <2>2, <2>3, <2>4 DEF PoolInv
<1>7. ASSUME NEW t \in Tasks, EnqueueLock(t) PROVE PoolInv'
  <2>1. ExactlyOnce'
    BY <1>0, <1>7 DEF EnqueueLock, ExactlyOnce, Accepted, Executing, PoolTypeOK
  <2>2. NoLostWakeup'
    BY <1>0, <1>7 DEF EnqueueLock, NoLostWakeup, NoSleeperAtJoin, ExitInv, Waiting, stop, PoolTypeOK
  <2>3. NoSleeperAtJoin'
    BY <1>0, <1>7 DEF EnqueueLock, NoLostWakeup, NoSleeperAtJoin, ExitInv, Waiting, stop, PoolTypeOK
  <2>4. ExitInv'
    BY <1>0, <1>7 DEF EnqueueLock, NoLostWakeup, NoSleeperAtJoin, ExitInv, Waiting, stop, PoolTypeOK
  <2> QED
    BY <2>1, <2>2, <2>3, <2>4 DEF PoolInv
<1>8. ASSUME NEW t \in Tasks, EnqueueThrow(t) PROVE PoolInv'
  <2>1. ExactlyOnce'
    BY <1>0, <1>8 DEF EnqueueThrow, ExactlyOnce, Accepted, Executing, PoolTypeOK
  <2>2. NoLostWakeup'
    BY <1>0, <1>8 DEF EnqueueThrow, NoLostWakeup, NoSleeperAtJoin, ExitInv, Waiting, stop, PoolTypeOK
  <2>3. NoSleeperAtJoin'
    BY <1>0, <1>8 DEF EnqueueThrow, NoLostWakeup, NoSleeperAtJoin, ExitInv, Waiting, stop, PoolTypeOK
  <2>4. ExitInv'
    BY <1>0, <1>8 DEF EnqueueThrow, NoLostWakeup, NoSleeperAtJoin, ExitInv, Waiting, stop, PoolTypeOK
  <2> QED
    BY <2>1, <2>2, <2>3, <2>4 DEF PoolInv
<1>9. ASSUME NEW t \in Tasks, EnqueuePush(t) PROVE PoolInv'
  <2>0. t \notin Accepted /\ Accepted' = Accepted \union {t}
    BY <1>0, <1>9 DEF EnqueuePush, Accepted, PoolTypeOK
  <2>q. /\ Range(tasks') = Range(tasks) \union {t}
        /\ \A i, j \in DOMAIN tasks' : i # j => tasks'[i] # tasks'[j]
    BY <1>0, <1>9, <2>0, PushFacts DEF EnqueuePush, ExactlyOnce, PoolTypeOK
  <2>1. ExactlyOnce'
    <3>1. Executing' = Executing /\ ready' = ready /\ current' = current
      BY <1>9 DEF EnqueuePush, Executing
    <3> QED
      BY <1>0, <2>0, <2>q, <3>1 DEF ExactlyOnce
  <2>2. NoLostWakeup'
    BY <1>0, <1>9 DEF EnqueuePush, NoLostWakeup, NoSleeperAtJoin, ExitInv, Waiting, stop, PoolTypeOK
  <2>3. NoSleeperAtJoin'
    BY <1>0, <1>9 DEF EnqueuePush, NoLostWakeup, NoSleeperAtJoin, ExitInv, Waiting, stop, PoolTypeOK
  <2>4. ExitInv'
    BY <1>0, <1>9 DEF EnqueuePush, NoLostWakeup, NoSleeperAtJoin, ExitInv, Waiting, stop, PoolTypeOK
  <2> QED
    BY <2>1, <2>2, <2>3, <2>4 DEF PoolInv
<1>10. ASSUME NEW t \in Tasks, NotifyOne(t) PROVE PoolInv'
  <2>1. ExactlyOnce'
    BY <1>0, <1>10 DEF NotifyOne, ExactlyOnce, Accepted, Executing, PoolTypeOK
  <2>2. NoLostWakeup'
    BY <1>0, <1>10 DEF NotifyOne, NoLostWakeup, NoSleeperAtJoin, ExitInv, Waiting, stop, PoolTypeOK
  <2>3. NoSleeperAtJoin'
    BY <1>0, <1>10 DEF NotifyOne, NoLostWakeup, NoSleeperAtJoin, ExitInv, Waiting, stop, PoolTypeOK
  <2>4. ExitInv'
    BY <1>0, <1>10 DEF NotifyOne, NoLostWakeup, NoSleeperAtJoin, ExitInv, Waiting, stop, PoolTypeOK
  <2> QED
    BY <2>1, <2>2, <2>3, <2>4 DEF PoolInv
<1>11. CASE DestructorLock
  <2>1. ExactlyOnce'
    BY <1>0, <1>11 DEF DestructorLock, ExactlyOnce, Accepted, Executing, PoolTypeOK
  <2>2. NoLostWakeup'
    BY <1>0, <1>11 DEF DestructorLock, NoLostWakeup, NoSleeperAtJoin, ExitInv, Waiting, stop, PoolTypeOK
  <2>3. NoSleeperAtJoin'
    BY <1>0, <1>11 DEF DestructorLock, NoLostWakeup, NoSleeperAtJoin, ExitInv, Waiting, stop, PoolTypeOK
  <2>4. ExitInv'
    BY <1>0, <1>11 DEF DestructorLock, NoLostWakeup, NoSleeperAtJoin, ExitInv, Waiting, stop, PoolTypeOK
  <2> QED
    BY <2>1, <2>2, <2>3, <2>4 DEF PoolInv
<1>12. CASE SetStop
  <2>1. ExactlyOnce'
    BY <1>0, <1>12 DEF SetStop, ExactlyOnce, Accepted, Executing, PoolTypeOK
  <2>2. NoLostWakeup'
    BY <1>0, <1>12 DEF SetStop, NoLostWakeup, NoSleeperAtJoin, ExitInv, Waiting, stop, PoolTypeOK
  <2>3. NoSleeperAtJoin'
    BY <1>0, <1>12 DEF SetStop, NoLostWakeup, NoSleeperAtJoin, ExitInv, Waiting, stop, PoolTypeOK
  <2>4. ExitInv'
    BY <1>0, <1>12 DEF SetStop, NoLostWakeup, NoSleeperAtJoin, ExitInv, Waiting, stop, PoolTypeOK
  <2> QED
    BY <2>1, <2>2, <2>3, <2>4 DEF PoolInv
<1>13. CASE NotifyAll
  <2>1. ExactlyOnce'
    BY <1>0, <1>13 DEF NotifyAll, ExactlyOnce, Accepted, Executing, PoolTypeOK
  <2>2. NoLostWakeup'
    BY <1>0, <1>13 DEF NotifyAll, NoLostWakeup, NoSleeperAtJoin, ExitInv, Waiting, stop, PoolTypeOK
  <2>3. NoSleeperAtJoin'
    BY <1>0, <1>13 DEF NotifyAll, NoLostWakeup, NoSleeperAtJoin, ExitInv, Waiting, stop, PoolTypeOK
  <2>4. ExitInv'
    BY <1>0, <1>13 DEF NotifyAll, NoLostWakeup, NoSleeperAtJoin, ExitInv, Waiting, stop, PoolTypeOK
  <2> QED
    BY <2>1, <2>2, <2>3, <2>4 DEF PoolInv
<1>14. CASE JoinAll
  <2>1. ExactlyOnce'
    BY <1>0, <1>14 DEF JoinAll, ExactlyOnce, Accepted, Executing, PoolTypeOK
  <2>2. NoLostWakeup'
    BY <1>0, <1>14 DEF JoinAll, NoLostWakeup, NoSleeperAtJoin, ExitInv, Waiting, stop, PoolTypeOK
  <2>3. NoSleeperAtJoin'
    BY <1>0, <1>14 DEF JoinAll, NoLostWakeup, NoSleeperAtJoin, ExitInv, Waiting, stop, PoolTypeOK
  <2>4. ExitInv'
    BY <1>0, <1>14 DEF JoinAll, NoLostWakeup, NoSleeperAtJoin, ExitInv, Waiting, stop, PoolTypeOK
  <2> QED
    BY <2>1, <2>2, <2>3, <2>4 DEF PoolInv
<1>15. CASE UNCHANGED pool
  BY <1>0, <1>15 DEF pool, PoolInv, PoolTypeOK, ExactlyOnce, Accepted, Executing, NoLostWakeup,
                    NoSleeperAtJoin, ExitInv, Waiting, stop
<1> QED
  BY <1>1, <1>2, <1>3, <1>4, <1>5, <1>6, <1>7, <1>8, <1>9, <1>10, <1>11, <1>12, <1>13, <1>14, <1>15
     DEF PoolNext, WorkerStep, EnqueueStep, DestructorStep, Done

(* The invariant holds in every state of every pool.                       *)
LEMMA PoolInvariant == PoolSpec => []PoolInv
<1>1. PoolInit /\ PoolTypeOK => PoolInv
  <2> SUFFICES ASSUME PoolInit, PoolTypeOK PROVE PoolInv
    OBVIOUS
  <2>1. Range(tasks) = {} /\ DOMAIN tasks = {}
    BY DEF PoolInit, Range
  <2>2. ExactlyOnce
    BY <2>1, ThreadPoolAssumption DEF PoolInit, ExactlyOnce, Accepted, Executing
  <2> QED
    BY <2>2 DEF PoolInit, PoolInv, NoLostWakeup, NoSleeperAtJoin, ExitInv
<1>2. PoolInv /\ PoolTypeOK' /\ [PoolNext]_pool => PoolInv'
  BY PoolStep
<1> QED
  BY <1>1, <1>2, TypeCorrect, PTL DEF PoolSpec
(* An accepted task is never lost and never run twice.                     *)
THEOREM TasksExactlyOnce == PoolSpec => []ExactlyOnce
BY PoolInvariant, PTL DEF PoolInv

(* No queued task is forgotten by sleeping workers, although notify_one is *)
(* called outside the lock.                                                *)
THEOREM WakeupNotLost == PoolSpec => []NoLostWakeup
BY PoolInvariant, PTL DEF PoolInv

(* Nobody sleeps once the destructor joins.                                *)
THEOREM JoinReachesAll == PoolSpec => []NoSleeperAtJoin
BY PoolInvariant, PTL DEF PoolInv

(* The destructor returns only after every accepted task was executed.     *)
THEOREM GracefulShutdown == PoolSpec => []DrainedAtDestruction
<1>1. PoolInv => DrainedAtDestruction
  <2> SUFFICES ASSUME PoolInv, dpc = "destroyed"
               PROVE  tasks = <<>> /\ Accepted = ready
    BY DEF DrainedAtDestruction
  <2>1. PICK w \in Workers : TRUE
    BY ThreadPoolAssumption
  <2>2. tasks = <<>> /\ \A v \in Workers : wpc[v] = "exit"
    BY <2>1 DEF PoolInv, ExitInv
  <2>3. Executing = {} /\ Range(tasks) = {}
    BY <2>2, ThreadPoolAssumption DEF PoolInv, PoolTypeOK, Executing, Range
  <2> QED
    BY <2>2, <2>3 DEF PoolInv, ExactlyOnce
<1> QED
  BY <1>1, PoolInvariant, PTL

-----------------------------------------------------------------------------
(* Refinement: every step of the pool is a step of the task service or     *)
(* leaves it unchanged.                                                    *)
LEMMA ServiceStep ==
    ASSUME PoolInv, PoolInv', [PoolNext]_pool
    PROVE  [Service!Next]_(Service!vars)
<1> DEFINE st == [t \in Tasks |-> Status(t)]
<1> USE ThreadPoolAssumption DEF WGoTo, SGoTo, DGoTo, Acquire, Release
<1>0. PoolTypeOK /\ PoolTypeOK' /\ ExactlyOnce /\ ExactlyOnce' /\ ExitInv /\ ExitInv'
  BY DEF PoolInv
<1>1. ASSUME NEW w \in Workers,
             WorkerLock(w) \/ WorkerWait(w) \/ WorkerExit(w) \/ SpuriousWakeup(w)
      PROVE  st' = st /\ Phase' = Phase
  <2>1. UNCHANGED <<spc, ready, current, dpc>>
    BY <1>1 DEF WorkerLock, WorkerWait, WorkerExit, SpuriousWakeup
  <2> QED
    BY <2>1 DEF Status, Executing, Phase
<1>2. ASSUME NEW w \in Workers, WorkerPop(w)
      PROVE  \E h \in Tasks : Service!Begin(h)
  <2> PICK h : h = Head(tasks)
    OBVIOUS
  <2>1. /\ h \in Tasks /\ h \in Range(tasks)
    BY <1>0, <1>2, PopFacts DEF WorkerPop, ExactlyOnce, PoolTypeOK
  <2>2. Executing' = Executing \union {h}
    BY <1>0, <1>2, <2>1 DEF WorkerPop, Executing, PoolTypeOK
  <2>3. /\ h \in Accepted /\ h \notin ready /\ h \notin Executing
    BY <1>0, <2>1 DEF ExactlyOnce
  <2>4. st[h] = "queued" /\ st' = [st EXCEPT ![h] = "running"]
    <3>1. Status(h) = "queued" /\ Status(h)' = "running"
      BY <1>0, <1>2, <2>1, <2>2, <2>3 DEF WorkerPop, Status, Accepted
    <3>2. \A u \in Tasks \ {h} : Status(u)' = Status(u)
      BY <1>0, <1>2, <2>1, <2>2, <2>3 DEF WorkerPop, Status, Accepted
    <3> QED
      BY <2>1, <3>1, <3>2
  <2>5. Phase' = Phase /\ Phase # "terminated"
    BY <1>0, <1>2 DEF WorkerPop, Phase, ExitInv, PoolTypeOK
  <2> QED
    BY <2>1, <2>4, <2>5 DEF Service!Begin, Service!Change
<1>3. ASSUME NEW w \in Workers, WorkerRun(w)
      PROVE  Service!Finish(current[w]) /\ current[w] \in Tasks
  <2>1. current[w] \in Tasks /\ current[w] \in Executing
    BY <1>0, <1>3 DEF WorkerRun, Executing, PoolTypeOK
  <2>2. Executing' = Executing \ {current[w]}
    BY <1>0, <1>3, <2>1 DEF WorkerRun, Executing, ExactlyOnce, PoolTypeOK
  <2>3. current[w] \in Accepted /\ current[w] \notin ready
    BY <1>0, <2>1 DEF ExactlyOnce
  <2>4. st[current[w]] = "running" /\ st' = [st EXCEPT ![current[w]] = "done"]
    BY <1>0, <1>3, <2>1, <2>2, <2>3 DEF WorkerRun, Status, Accepted
  <2>5. Phase' = Phase /\ Phase # "terminated"
    BY <1>0, <1>3 DEF WorkerRun, Phase, ExitInv, PoolTypeOK
  <2> QED
    BY <2>1, <2>4, <2>5 DEF Service!Finish, Service!Change
<1>4. ASSUME NEW t \in Tasks, EnqueueLock(t) \/ NotifyOne(t)
      PROVE  st' = st /\ Phase' = Phase
  <2>1. \A u \in Tasks : Status(u)' = Status(u)
    BY <1>0, <1>4 DEF EnqueueLock, NotifyOne, Status, Executing, PoolTypeOK
  <2> QED
    BY <1>4, <2>1 DEF EnqueueLock, NotifyOne, Phase
<1>5. ASSUME NEW t \in Tasks, EnqueueThrow(t) PROVE Service!Refuse(t)
  <2>1. st[t] = "new" /\ st' = [st EXCEPT ![t] = "refused"]
    <3>1. Status(t) = "new" /\ Status(t)' = "refused"
      <4>1. spc[t] = "locked" /\ spc'[t] = "refused"
        BY <1>0, <1>5 DEF EnqueueThrow, PoolTypeOK
      <4>2. t \notin Accepted /\ t \notin Accepted'
        BY <4>1 DEF Accepted
      <4>3. t \notin ready \union Executing /\ (t \notin ready \union Executing)'
        BY <1>0, <4>2 DEF ExactlyOnce
      <4> QED
        BY <4>1, <4>3 DEF Status
    <3>2. \A u \in Tasks \ {t} : Status(u)' = Status(u)
      BY <1>0, <1>5 DEF EnqueueThrow, Status, Executing, PoolTypeOK
    <3> QED
      BY <3>1, <3>2
  <2>2. Phase' = Phase /\ Phase # "open"
    BY <1>0, <1>5 DEF EnqueueThrow, Phase, stop
  <2> QED
    BY <2>1, <2>2 DEF Service!Refuse, Service!Change
<1>6. ASSUME NEW t \in Tasks, EnqueuePush(t) PROVE Service!Accept(t)
  <2>1. t \notin Accepted
    BY <1>0, <1>6 DEF EnqueuePush, Accepted, PoolTypeOK
  <2>2. t \notin ready /\ t \notin Executing
    BY <1>0, <2>1 DEF ExactlyOnce
  <2>3. st[t] = "new" /\ st' = [st EXCEPT ![t] = "queued"]
    <3>1. Status(t) = "new" /\ Status(t)' = "queued"
      BY <1>0, <1>6, <2>2 DEF EnqueuePush, Status, Executing, PoolTypeOK
    <3>2. \A u \in Tasks \ {t} : Status(u)' = Status(u)
      BY <1>0, <1>6, <2>2 DEF EnqueuePush, Status, Executing, PoolTypeOK
    <3> QED
      BY <2>1, <3>1, <3>2
  <2>4. Phase' = Phase /\ Phase = "open"
    BY <1>0, <1>6 DEF EnqueuePush, Phase, stop, PoolTypeOK
  <2> QED
    BY <2>3, <2>4 DEF Service!Accept, Service!Change
<1>7. ASSUME DestructorLock \/ NotifyAll PROVE st' = st /\ Phase' = Phase
  BY <1>7 DEF DestructorLock, NotifyAll, Status, Executing, Phase
<1>8. CASE SetStop
  <2>1. st' = st /\ Phase = "open" /\ Phase' = "closing"
    BY <1>8 DEF SetStop, Status, Executing, Phase
  <2>2. Service!Close
    BY <2>1 DEF Service!Close
  <2> QED
    BY <2>2 DEF Service!Next
<1>9. CASE JoinAll
  <2>1. st' = st /\ Phase = "closing" /\ Phase' = "terminated"
    BY <1>9 DEF JoinAll, Status, Executing, Phase
  <2>2. tasks = <<>> /\ Range(tasks) = {} /\ Executing = {}
    <3>1. PICK w \in Workers : TRUE
      BY ThreadPoolAssumption
    <3>2. tasks = <<>>
      BY <1>0, <1>9, <3>1 DEF JoinAll, ExitInv
    <3> QED
      BY <1>0, <1>9, <3>2 DEF JoinAll, Executing, Range, PoolTypeOK
  <2>3. \A t \in Tasks : st[t] \notin {"queued", "running"}
    BY <1>0, <2>2 DEF Status, ExactlyOnce, Accepted, PoolTypeOK
  <2>4. Service!Terminate
    BY <2>1, <2>3 DEF Service!Terminate
  <2> QED
    BY <2>4 DEF Service!Next
<1>10. CASE UNCHANGED pool
  <2>1. st' = st /\ Phase' = Phase
    BY <1>10 DEF pool, Status, Executing, Phase
  <2> QED
    BY <2>1 DEF Service!vars
<1> QED
  <2> HIDE DEF st
  <2>1. CASE \E w \in Workers : WorkerStep(w) \/ SpuriousWakeup(w)
    BY <1>1, <1>2, <1>3, <2>1 DEF WorkerStep, Service!Next, Service!vars, st
  <2>2. CASE \E t \in Tasks : EnqueueLock(t) \/ EnqueueStep(t)
    BY <1>4, <1>5, <1>6, <2>2 DEF EnqueueStep, Service!Next, Service!vars, st
  <2>3. CASE DestructorLock \/ DestructorStep
    BY <1>7, <1>8, <1>9, <2>3 DEF DestructorStep, Service!vars, st
  <2> QED
    BY <1>10, <2>1, <2>2, <2>3 DEF PoolNext, Done

(* The pool implements the task service: callers cannot tell it from one   *)
(* that runs accepted tasks once, refuses after closing, and terminates    *)
(* only when it is idle.                                                   *)
THEOREM PoolImplementsService == PoolSpec => ImplementsTaskService
<1>1. PoolInit => Service!Init
  BY ThreadPoolAssumption DEF PoolInit, Service!Init, Status, Executing, Phase
<1>2. PoolInv /\ PoolInv' /\ [PoolNext]_pool => [Service!Next]_(Service!vars)
  BY ServiceStep
<1> QED
  BY <1>1, <1>2, PoolInvariant, PTL DEF PoolSpec, Service!Spec, ImplementsTaskService
=============================================================================
