# TLA+ verification of the Linux Network Gateway

The repository is a C++ network gateway built in phases: header-only components
under `include/` (rate limiter, logger, thread pool, epoll reactor, connection
table, routing table, ...) and one program per phase under `src/`.  This
directory holds TLA+ modules translated from that code, TLC configurations that
model-check them on small instances, and proofs checked by TLAPS for instances
of any size.  Paths below are relative to the repository's root.

Contents: 1 inventory, 2 modules, 3 runs, 4 fairness, 5 proofs,
6 where code and comments disagree, 7 what is not modelled, 8 plan,
9 how to run.

## 1. Inventory

| Part | Code | State | Operations | What makes it hard |
|---|---|---|---|---|
| Rate limiter | `include/ratelimit/RateLimiter.hpp`, phase 12 | `tokens_micro_`, `last_refill_` (atomics) | `try_consume`, `refill` | threads race between a clock reading, two atomics and two CAS loops; integer units, truncation |
| Async logger | `include/logging/AsyncLogger.hpp`, phase 14 | ring of entries with a plain `valid`, `head_`, `tail_`, `running_` | `log`, `consume_loop`, `start`, `stop` | lock-free producers, one consumer, full ring, drain on stop, a `valid` that is not atomic |
| Thread pool | `include/concurrency/ThreadPool.hpp` | queue, mutex, condition variable, `stop_` | `enqueue`, worker loop, destructor | notify outside the lock, spurious wakeups, enqueue racing the destructor |
| Epoll reactor | `include/core/EpollReactor.hpp` | epoll set, `callbacks_`, `events_`, `running_` | `add_socket`, `remove_socket`, `run`, `stop` | a batch of events is a snapshot, callbacks change what it speaks about |
| Connection table | `include/network/ConnectionManager.hpp`, `Connection.hpp` | sessions by descriptor, time of last activity | add, remove, get, counters, expiry | descriptors are reused, ages are truncated to seconds |
| Connection gateway | phase 9 | the three above | accept callback, client callback | three tables must agree, partial failures of epoll and send |
| Blocking servers | phases 1, 2, 3, 4 | one handler per client, `active_clients` | accept, echo loop, `send_all` | handlers and accept interleave, short sends, pool exhausted by silent clients |
| Polling and epoll servers | phases 6, 7, 8 | vector of clients; epoll set | loop rounds | erase while iterating, failing `epoll_ctl` |
| Routing table | `include/routing/RouteTable.hpp`, phase 10 | binary trie | `add_route`, `lookup_ip` | any order of insertion, prefix 0 and full length |
| RAII socket | `include/network/RAIISocket.hpp` | `fd_` per object | constructors, moves, `release`, `reset`, destructor | double close of a reused number, leaks |
| Retrying calls | phase 18 | bytes sent so far | `send_with_retry`, `recv_with_retry` | signals, short transfers, peer closing |
| Telemetry | `include/telemetry/Telemetry.hpp`, phase 15 | nine atomic counters | `record_*`, `snapshot` | counting while loading |
| UDP server | phase 11 | receive queue | epoll loop, `recvfrom`, `sendto` | loss, truncation, failing calls |
| Session authentication | `include/auth/AuthSession.hpp`, phase 13 | session state, nonce, time of creation | challenge, `submit_token` | a timeout looked at only when a token arrives, repeated and foreign tokens |
| Configuration | `include/config/ConfigParser.hpp`, phase 21 | key-value store, fields | load, reload, validate | store survives a reload, conversion throws half-way |
| Binary protocol | `include/protocol/Packet.hpp`, phase 5 | none (pure) | serialize, deserialize | prefixes, lengths at the boundary |
| Packet capture | `include/network/PacketDissector.hpp`, phase 24 | none (pure) | `dissect_frame` | an offset that comes out of the frame |
| Benchmarks | `include/benchmark/BenchmarkingSuite.hpp`, phase 16 | samples, mutex, completion counter | three benchmarks, `compute_results` | locals destroyed while the pool still runs |
| Others | phases 17, 19, 20, 22, 23, `kernel/`, `tools/` | | | see section 7 |

How they interact.  Phase 9 runs the reactor, whose callbacks use the connection
table and the kernel's sockets.  Phase 8 runs the reactor alone, phase 4 the
thread pool, and phase 16 runs tasks on it.  Phase 17 drives the connection table,
the packet parser and the rate limiter one after the other.  The other components
are used by one program each and share no state with each other.

`PROJECT.json` lists the hazards of each part at the line where they bite, and
the properties that would catch them going wrong.

## 2. Modules

### RateLimiter

`TokenBucketRateLimiter`.  One action is one access to the clock or to an
atomic: `ReadClock` (entry of `try_consume` and `refill`), `LoadLastRefill`,
`SkipRefill`, `StoreLastRefill`, `LoadTokens`, `CasRefill`, `CasConsume`,
`CasFails`, `Deny`; `Tick` moves `steady_clock`.  The locals `now`, `to_add` and
`current` are per-thread variables because they are used after other threads
have moved on.  `Wrap` is the two's complement wrap of the `int64_t` product.
`consumed`, `spilled` and `refills` are history variables.

### AsyncLogger

`log` is `Claim` (the `fetch_add` on `head_`), `FindFree` or `Drop`, `Fill`,
`Publish`.  `valid` is a plain `bool`, so another thread may see its store before
the stores of the message: with `Reorder = TRUE` the pair `PublishEarly`,
`FillLate` is possible.  The consumer is `LoopTest`, `HasPending` or
`NothingPending` (slot by slot, since producers interleave), `Sleep`,
`PrintEntry`, `Release`, `Advance`.  The main thread does `Start`, `Stop`,
`Join`.  A message is its ticket number.  The history variable `mishaps` remembers
whether a ticket was ever claimed a whole ring ahead of `tail_` ("overrun"), two calls
shared a slot ("shared") or a store was seen early ("early"): the properties say what
holds until then.

### TaskService, ThreadPool

`TaskService` is what a caller may rely on: a task is new, refused, queued,
running or done; the service is open, closing or terminated; it terminates only
when every accepted task is done.  `ThreadPool` is the code with the mutex, the
set of waiting workers and the steps of the destructor; `stop_` is a function of
where the destructor is.  `ImplementsTaskService` maps one to the other.

### Sockets (external), EpollReactor, ConnectionManager, Gateway, MCGateway

`Sockets` is the kernel as the programs see it: clients that connect, write,
shut down or reset at any time, the accept queue, and descriptors of which
accept takes the lowest free one.  It is not code of the repository.
`EpollReactor` has the loop (`Run`, the wait, dispatch, `Stop`), with the batch as
a function from descriptors to the event still to be dispatched; the order in
which a batch is dispatched is left open.  `reported` remembers for which client
an event was reported.  `ConnectionManager` is the table of sessions.
`Gateway` is the phase 9 program: `AcceptClient` and `AcceptNothing` are the
branches of the listening callback, `HangUp`, `Receive`, `ReceiveEof` and
`ReceiveError` those of a client's callback; `Teardown` is the sequence
`remove_socket`, `remove_connection`, `close`.  A callback is one step: the
reactor is single-threaded, and what clients do in the middle of a callback is
covered by the choice of what `recv` and `send` return.  `MCGateway` bounds
the bytes of all clients together and lets the clients, which differ only in name,
connect in one order.

### ClientHandlers, EventLoops, Servers

The seven simple servers over `Sockets`.  `ClientHandlers` has phases 1 to 4,
which share their accept and their receive loop and differ in who runs it and for
how long (`design`); phase 1 receives once and sends one answer of its own
(`HandlerReply`), and in phases 1 and 2 a failing `accept` ends the program
(`AcceptSingleFails`) where phases 3 and 4 try again.  The thread pool is its queue, from which at most `PoolSize`
workers take clients in order, each once, as `ThreadPool` and its refinement of
`TaskService` justify.  `EventLoops` has phases 6, 7 and 8 (`loop`).
`Servers` composes them: exactly one server runs.

### Subsystems and its units

The components that share no state with the others; `Subsystems` composes them,
and `unit` says whose program runs.

* `RouteTable`: the trie as a function from nodes to routes; `lookup_ip` is the
  walk of the code, with its check after the last bit.  `add_route` begins where the
  text has been read; a text that cannot be read changes nothing.
* `RAIISocket`: any number of objects, every constructor, move, `release`, `reset`
  and the destructor in any order, against the descriptors open in the process.
* `SyscallRetry`: the two loops of phase 18 on the ends of a socketpair, blocking
  or not, with a caller that reads on (`RecvCall`, external).  The audits of phase 18
  call each function once, in one thread; that is one of the interleavings.
* `Telemetry`: `record_*` and `take_snapshot`, one action per atomic access.
* `UdpServer`: the loop of phase 11 with a queue that overflows.
* `AuthSession`: the session map of phase 13.  A nonce is any byte string,
  `compute_token` the two passes of xor and the two digits per byte, for bytes of
  two bits; clients submit any string as long as a token, so their own, that of
  another session or garbage, as often as they like.  `answer` and `answer_at` remember the first submission.
* `ConfigParser`: `Open` or `OpenFails`, then one `ReadLine` per line that has an
  effect, then `Apply` (`apply_kv` with the exception that ends it half-way).  The
  text of a setting is the number it spells, or `Malformed`.  `before` and `given`
  remember the settings when the load began and what its file says.
* `Packet`: a stream of arbitrary bytes (the network, external), and `deserialize` tried after each.
  `htonl` and `ntohl` are digits to a base.
* `PacketDissector`: the headers that `dissect_frame` copies, as offset and length,
  for a frame given by its size and the fields the code branches on.
* `IdleConnections`: the activity stamps of `Connection`, expiry and the purge that
  phase 17 makes: `Collect` takes the list, `RemoveExpired` removes one of it, and
  anything may happen in between.  `silence` counts the ticks since something happened,
  `revived` the listed descriptors that were touched or added again.  `SlowlorisTest`
  is the timeout test of phase 17, line by line, on top of it.
* `Benchmark`: the three benchmarks of phase 16.  A task locks, records sample by
  sample, unlocks and counts; the main thread waits, reports and returns, which
  ends the life of what the tasks refer to.
* `ThreadPool`, above.

### Conventions

A definition whose comment begins "Faulty variant" is not part of any
specification: it is the definition below it with a plausible bug.  Each
property has been seen to fail when the definition is replaced by such a variant
(`mutants` in `PROJECT.json`).

## 3. Runs

Passing runs check what holds; runs marked V look for a counterexample to what a
comment or a document says (section 6) and find one.

| Run | Configuration | Checks | Shows |
|---|---|---|---|
| `rate_limiter` | 2 threads, capacity 1, rate 2, clock with 2 ticks per microsecond, 3 calls each | `SoleCallerBound`, `ContentionBound`, `LossBounded`, `DeniedOnlyWhenEmpty`, `CallsReturn` | the rate is kept for one caller; under every interleaving of two a moment is credited at most three times and a refill loses less than a microsecond; a sole caller is denied only when no token has accrued; calls return |
| `rate_limiter_double_credit` V | 2 threads | `AdmissionBound` | the rate is exceeded when two threads credit the same interval |
| `logger` | 2 producers, 2 slots, 4 messages, 2 starts, `Reorder` | `OwnedUntilOverrun`, `PrintedInClaimOrder`, `NothingLost`, `FlushedOnStop`, `StopReturnsInTime` | until the ring is overrun the logger keeps all its promises, however often slots are reused; overruns and drops alone lose no accepted message |
| `logger_slot` V | 2 producers, 2 slots, 4 messages | `SlotOwnership` | two calls a whole ring apart fill the same slot |
| `logger_stale` V | 1 producer, 2 slots, `Reorder` | `NoStaleText` | old text is printed when `valid` is seen before the message |
| `logger_hang` V | 1 producer, 2 slots, 4 messages | `StopReturns` | after drops, `stop()` may never return |
| `gateway` | 3 clients, 2 descriptors, 2 bytes, 1 fault | `TablesAgree`, `BatchFresh`, `EchoAccounting`, `GoneIsClosed`, `ClientsAccepted`, `StopEnds` | epoll set, callbacks and sessions agree; no event reaches a connection that took over a descriptor; accounts are exact; leavers are closed, waiting clients accepted once a descriptor is free, `stop()` ends `run()` |
| `gateway_idle` V | 1 client | `SilentIsPurged` | an idle connection is never purged |
| `servers` | 2 clients, 2 descriptors, 1 worker, 3 rounds, 1 fault | `OwnSocket`, `EchoedInFull`, `ActiveCount`, `NoOrphan`, `EventFresh`, `LeaversClosed` | each simple server touches only the sockets of its own clients, loses none, echoes in full where it uses `send_all`, and closes who leaves |
| `subsystems` | see below | the properties of the next table | see the next table |
| `config_port` V | ports modulo 4 | `PortIsChecked` | a port beyond 16 bits is accepted |
| `slowloris` V | the five connections of the test | `SenderRemains` | the active connection is purged with the silent ones |

| Unit | Property | Shows |
|---|---|---|
| `RouteTable` | `LookupIsLongestMatch` | the walk finds the longest prefix of all routes asked for, in whatever order |
| `RAIISocket` | `OneOwner` | a descriptor is closed by its one owner and never lost |
| `SyscallRetry` | `DeliveredOnce` | bytes arrive in order and once; end of stream means that all arrived |
| `Telemetry` | `NoCallLost` | no update is lost, snapshots never run backwards |
| `UdpServer` | `EachAnswered` | each datagram taken is answered to its own sender, or its error reported |
| `AuthSession` | `FirstTokenDecides` | the first token alone decides, with the exact timeout; no token serves two nonces |
| `ConfigParser` | `ReloadTakesEffect` | a load that returns has given the settings of its file their new values, whatever earlier loads left behind; one that throws or does not open gives no setting a value from elsewhere |
| `Packet` | `DecodeInvertsEncode` | a packet is recognised exactly when it is complete, and comes out as it went in |
| `PacketDissector` | `ReadsInsideFrame` | nothing is copied from beyond the frame, and complete headers are found |
| `IdleConnections` | `ExpiredAreSilent` | exactly those silent for the whole timeout are listed, and only they are removed, except who comes back after the list was made |
| `Benchmark` | `ReportIsFinal` | a report has all samples, and no task uses destroyed locals |
| `ThreadPool` | `ExactlyOnce`, `NoLostWakeup`, `ImplementsTaskService`, `AcceptedRuns`, `DestructorReturns` | no task is lost or run twice, no wakeup is lost, the pool refines the task service, accepted tasks run, the destructor ends |
| `SyscallRetry`, `Benchmark` | `EverythingReturns` | retried calls and benchmarks come to an end |

The type invariants of the rate limiter, the logger, the pool, the gateway, the
RAII socket, the retried calls and the benchmark, and the pool's
`NoSleeperAtJoin` and `DrainedAtDestruction`, are proved (section 5) and have no
run of their own; the last is also part of what `ImplementsTaskService` checks.

### Bounds, and why they are enough

* **Rate limiter.**  The race in `refill` needs two threads and two clock values;
  clock 5 and three calls let one thread overtake the other twice, which reaches
  the factor of `ContentionBound`.  `Micro = 2` instead of 1000000 keeps the
  difference between tokens and micro-tokens, and two ticks to the microsecond make
  `duration_cast` truncate.  The one-caller properties speak of the behaviours in which
  the second thread has not called yet.  `IntMax` is larger than any product of the
  run: the wrap is modelled, but only the proofs meet it.
* **Logger.**  Four messages in two slots reuse every slot, before and after an
  overrun, with drops at every position, and two producers can be a whole ring apart.
* **Thread pool.**  Two workers and three tasks are the least with a queue that
  is longer than the number of idle workers; one spurious wakeup can hit any
  wait.
* **Gateway.**  A stale event needs a descriptor that is closed and given to
  another client inside one batch: three clients for two descriptors, batches of
  two, and the listening event in the same batch.  Two bytes in all are enough for
  a `recv` that takes part of what is there, and for two clients that both write.
* **Servers.**  `PoolSize = 1` with two clients has one waiting in the queue;
  `RecvSize = 1` with two bytes makes the loops come back.
* **Subsystems.**  Three-bit addresses and three routes contain every nesting
  and the lengths 0 and full; three objects for three descriptors; a message of
  three bytes through a pipe of two with two signals; two recorders and two
  snapshots; three datagrams into a queue of two, with sizes below, at and above
  the limit of `recvfrom`.  Two sessions with every pair of nonces and a clock that
  reaches twice the timeout, and a secret whose two passes of xor do not cancel; files that mention a setting before and one after the
  other in `apply_kv`, with numbers at zero, above the modulus of the port and above
  the largest pool, and malformed ones.  Streams of seven bytes over four byte values
  hold every header, a packet of the largest size with a byte behind it, and
  lengths above the maximum.  Frames of up to 96 bytes hold the largest IP header
  with a TCP header and are shorter and longer than each test.  Two connections
  and two and a half timeouts; three tasks for two workers.

Deadlock is checked in the passing runs except in `servers` and `subsystems`, where
the program really ends (the first server serves one client, the polling loop has a
fixed number of rounds, a route table may have all its routes).  In the other runs the
regular end is the explicit action `Done` or `Exit`.

## 4. Fairness

Only weak fairness is used, and only for threads that are inside a call.

* Rate limiter, logger: no step of `try_consume`, `log` or `consume_loop` blocks,
  so a thread that is in it continues.  Nobody is obliged to call.  `join` returns
  once the thread has ended.
* Thread pool: workers, running submitters and a destructor that has begun.
  The mutex is not assumed to be fair to anyone: weak fairness of a step that
  waits for it says only that it is not left free for ever.  The number of tasks
  is finite, and they end.
* Gateway, servers: the server's thread continues when the call it is in can
  return; `epoll_wait` has a timeout of 500 ms in the reactor.  Clients, `stop()`
  and failures are under no obligation.
* Subsystems: the two ends of the socketpair, each on its own, and each thread of a
  benchmark (tasks do not block except for the mutex; the pool takes up queued
  tasks, as `AcceptedRuns` shows).  Signals are bounded in number.

## 5. Proofs

TLAPS checks these for every value of the constants that satisfies the named
assumptions of the modules.  Each is the usual induction: the invariant
holds initially, each action preserves it (one step per action), it implies the
property.

| Module | Theorems | Inductive invariant |
|---|---|---|
| `RateLimiterProofs` | `TypeCorrect`, `SingleCallerAdmission`, `SingleCallerDenial`, `RefillLossBounded`, `ContendedAdmission` | `TypeOK`; `SoleInv`; `SoleRefilled`; `CreditInv`; `RaceInv` |
| `AsyncLoggerProofs` | `TypeCorrect`, `OwnershipUntilOverrun`, `OrderUntilOverrun`, `NothingLostUnlessShared`, `FlushUnlessShared`, `LoneOwnership`, `LoneConserved` | `RoomInv`: `Window`, `Entries`, `Consumed`; `KeptInv`: `Exclusive`, `Conserved`, `Draining`; with `TypeOK`, `Tickets`, `Control` |
| `ThreadPoolProofs` | `TypeCorrect`, `TasksExactlyOnce`, `WakeupNotLost`, `JoinReachesAll`, `GracefulShutdown`, `PoolImplementsService` | `PoolInv`: `PoolTypeOK`, `ExactlyOnce`, `NoLostWakeup`, `NoSleeperAtJoin`, `ExitInv` |
| `GatewayProofs` | `TypeCorrect`, `TablesConsistent`, `NoStaleDispatch`, `AccountsExact` | `GatewayInv`: the four properties, `OneSocketPerClient`, `Flow` |
| `ServersProofs` | `HandlersOwnSockets`, `HandlersEchoInFull`, `HandlersCounted`, `LoopsKnowSockets`, `LoopEventsFresh` | `ServersInv`: `SocketInv`, `HandlerInv`, `LoopInv`, `OneRuns` |
| `ServiceProofs` | `OneVerdict`, `ReloadIsEffective`, `PurgeIsExact`, `DissectorStaysInside`, `ClosedOnceNeverLost`, `RetriesDeliver`, `ReportsAreFinal` | `AuthInv`; `ConfigInv`; `IdleInv`; `RaiiInv`; `RetryInv`; `BenchInv` (the dissector has no state to keep) |
| `TotalsProofs` | `DatagramsAnswered`, `CallsAccounted` | `UdpInv`; `CountInv`, `SnapshotInv` |
| `DataProofs` | `LongestMatch`, `DecodingInvertsEncoding` | `RoutingInv`; `PacketInv` |

So every invariant and every action property that a passing run checks is also a
theorem, with these conditions beyond the assumptions of the modules:

| Property | Proved for |
|---|---|
| `DeniedOnlyWhenEmpty`, `LossBounded` | `refill_rate_per_s_micro * MaxClock` within `IntMax` |
| `SoleCallerBound` | no condition: an overflow never admits more than the rate |
| `ContentionBound` | any finite set of threads |
| all of the logger | no condition beyond the one each property states about `mishaps` |
| `SlotOwnership` (false in general, section 6) | one producer, any capacity, `Reorder` or not |
| `Conserved` and `Flushed`, what `NothingLost` and `FlushedOnStop` promise until slots are shared | one producer whose stores are seen in order: always (`LoneConserved`) |

The condition on the product is needed: one that overflows credits nothing.

* **Rate limiter, one caller.**  `TypeCorrect` needs that a CAS succeeds only on
  the value that was loaded, and that `current + to_add` fits `int64_t` (the last
  conjunct of `RateLimiterAssumption`).  The bound of `SoleCallerBound` speaks about the clock and
  is not inductive; `Ledger` says the same of `last_refill_`: level, consumed tokens
  and the credit on its way are at most what had accrued by then.  `PendingCredit`
  bounds the credit that is computed but not yet stored.  The proof uses that
  truncated times add up to no more than the truncated sum, and that a wrapped
  product never exceeds the product.  `Refilled` says that nothing has accrued
  between `last_refill_` and the clock reading of a call that is past its refill.
* **Rate limiter, many callers.**  What the threads in `refill` are about to add is
  a sum over threads; it is the size of the set `Credit`, which has `to_add[t]`
  elements for each thread `t`.  `CreditInv` says that what the clock gave up to
  `last_refill_`, less at most `TicksPerUs - 1` ticks for each refill so far, is in the
  bucket, was taken, or is in `Credit`, and that a refill that still has to store its
  reading holds what is missing up to it.
  `ContentionBound` needs a potential: `Chances(u)` is twice the number of times
  that microsecond `u` can still be credited, given how many threads hold a reading
  that may put `last_refill_` back before `u` (`Late`) and how many are going to
  credit `u` (`Covering`).  `RaceInv` says that the level, the consumed tokens, the
  credit on its way and what the chances left are worth are together at most the
  burst plus n(n+1)/2 times what the rate gives for the time that has passed.  A load
  pays for its credit with chances, and a late store pays for the chances it opens.
* **Logger.**  Until the first overrun, `RoomInv` ties every slot to its ticket: the
  tickets of calls in progress lie between `tail_` and `head_`, a window no longer than
  the ring, so that each has its slot to itself; a valid slot holds its own message;
  exactly the messages below `tail_` were printed.  `KeptInv` works without that
  correspondence, which overruns and drops destroy: a call that found its slot free
  keeps it free until it publishes, the consumer clears only a flag it has seen set, so
  accepted messages are the printed ones and those in the ring, and none is in both;
  and the slots that `has_pending` has passed hold nothing that `stop` waits for.
* **Thread pool.**  `NoLostWakeup` is inductive only together with the fact
  that a worker exits only when `stop_` is set and the queue is empty (`ExitInv`).
  The refinement needs no further invariant: `ServiceStep` maps each step to a
  step of the service or a stutter; acceptance is the push, refusal the throw,
  termination the return from the last join.
* **Gateway.**  `BatchFresh` follows from one fact: an event is taken out of the
  batch before its callback runs, and a callback closes only its own descriptor.
  So a closed descriptor has no event left that could be taken for its successor's.
  It needs `TablesAgree` (what is reported is registered, open and has a
  session).  `EchoAccounting` needs `Flow`: from a client that waits in the accept
  queue nothing was received, so a new session begins with its client's accounts.
* **Simple servers.**  `SocketInv` is what holds of the sockets whoever uses them: a
  descriptor belongs to one connected client that has left the accept queue, and what
  nobody has accepted is unread and unanswered.  `HandlerInv` adds that a handler has
  its client's descriptor until it closes it, that nothing is pending between two
  rounds of `send_all`, and that the handlers that are counted are finitely many, even
  if the clients are not.  `LoopInv` is `NoOrphan` and `EventFresh`, for the same reason
  as in the gateway; `erase` of phase 6 keeps every other descriptor once.
* **Services.**  `OneVerdict` rests on `XorCancels` (xor with a byte is undone by the
  same xor, so that tokens determine nonces) and `TruncatedAge` (an age truncated to
  seconds reaches a timeout exactly when the age does), which `PurgeIsExact` uses
  too.  `ConfigInv` says that during a load the store agrees with every line read so far
  and the settings are still those from before, so that `Apply` with a malformed text at
  any place gives a setting of the file its own text or nothing.  `RaiiInv` needs that descriptors handed out by
  `release` are open and owned by nobody else.  In `RetryInv`, `InOrder` says that
  what was received, followed by what is in the pipe, is the prefix of the message that
  `total_sent` counts; a short transfer or a signal only moves the cut between the
  two.  In `BenchInv` the samples are those of the tasks that have unlocked plus the
  recorded part of the one that holds the mutex, and the counter is the number of
  finished tasks times their operations: it is full only when nobody is left.
* **Totals.**  `total_bytes` of the datagram server and the debts of the telemetry's
  callers are sums (`SumFunction`), whose laws are lemmas: one term can be taken out
  or changed.  The library adds in an order that a `CHOOSE` fixes, so the lemmas show
  first that its table of partial sums exists and does not depend on the order.
  `SnapshotInv` keeps the snapshot under way between the last one and the counters.
* **Routing.**  `RoutingInv`: the nodes on the way to each route asked for exist, its
  last node holds it, and no node holds another one.  `RoundOK` is the invariant of the
  loop of `lookup_ip`: after i bits its node is the one reached by these bits, unless
  no route can match any more, and `best_match` is the longest match with fewer bits.
  The check after the loop adds the full length.
* **Packets.**  `NtohlHtonl` and `HtonlNtohl` show that the two conversions are inverse
  to each other on all lengths that fit and on all digits, for any base and number of
  bytes (`PacketAssumption`: the largest payload fits).  With them, the checks of
  `deserialize` succeed exactly when a packet stands complete at the front.

**Induction.**  The induction theorems of the library take an operator as a
parameter, which the provers cannot instantiate.  Two lemmas do without: `Induction`
(over numbers, by the least element outside a set) and `SubsetInduction` (over finite
sets, by a minimal one), both from the library's `WFMin`.  A recursive function is
defined by `CHOOSE`, so `Iteration` and `PartialExists` show that it exists before it
is unfolded.

Only model-checked: all liveness (`CallsReturn`, `StopReturnsInTime`, `AcceptedRuns`,
`DestructorReturns`, `GoneIsClosed`, `ClientsAccepted`, `StopEnds`, `LeaversClosed`
and `EverythingReturns`), since the prover has neither fairness nor `ENABLED`.
The theorems about the units of `Subsystems` are about each unit's own specification
(`RoutingSpec`, `PacketSpec`, ...).  `Subsystems` runs one unit and leaves the
variables of the others alone, so each of its behaviours satisfies all of them; that
step is not machine-checked.

## 6. Where code and comments disagree

* **A shared limiter can exceed its rate** (`rate_limiter_double_credit`).
  "Tokens are added at `refill_rate` tokens per second" and "Thread-safe: uses
  atomic CAS loop + single mutex-free refill" (`include/ratelimit/RateLimiter.hpp:9`,
  `:45`).  `refill` loads `last_refill_` and stores it in separate steps: two threads
  that load the same value both add the tokens of the interval.  A delayed thread
  can also store an older time.  `ContentionBound` is what remains: at most
  n(n+1)/2 times the rate.
* **`stop()` of the logger can hang** (`logger_hang`).  "Graceful shutdown: flush
  remaining entries then stop" (`include/logging/AsyncLogger.hpp:73`).  A dropped
  message advances `head_` without filling a slot, so later messages land in slots
  that the consumer's `tail_` is not at; it sleeps at an empty slot while
  `has_pending()` finds another one valid.  The hang needs that nobody logs any
  more; a later message may fill the slot the consumer waits at.
* **Nothing purges idle connections** (`gateway_idle`).  "Active idle timer purges
  dead connections automatically." (`docs/SecurityAudit.md:41`).  No server
  calls `get_expired_connections`; only the stress test does
  (`src/phase17_stress_fuzzer.cpp:103`).

* **A slot of the logger can have two writers** (`logger_slot`).  "Fill the entry (no
  mutex needed — we own this slot)" (`include/logging/AsyncLogger.hpp:94`).  The test
  of `valid` at line 89 and its store at line 106 are separate: with 1024 calls begun
  in between, another producer finds the same slot free, and one accepted message is
  overwritten.  `OwnedUntilOverrun` and `NothingLost` are what remains.
* **The logger can print old text** (`logger_stale`).  "release ordering ensures
  message bytes are visible before valid flag is seen as true" (`:104-105`).  `valid` is
  a plain `bool`, so nothing orders its store after those of the message.
* **A port above 65535 is accepted** (`config_port`).  `src/phase21_config_subsystem.cpp:48`
  calls port 70000 "Invalid port > 65535".  `apply_kv` cuts it to 16 bits (4464) before
  `validate` looks at it; the test passes because of the pool size of 0 in the next line.
* **The timeout test expects a survivor** (`slowloris`).  `src/phase17_stress_fuzzer.cpp:112`
  asserts that one of five connections is left after the purge, and
  `docs/SecurityAudit.md:42` says "Passes Slowloris test in Phase 17".  The one that was
  active was so 1.5 seconds before, with a timeout of one second: all five are taken.
  (The assertion does nothing in a build with `NDEBUG`.)

One more disagreement is plain from `OpenFails` and has no run: when a file cannot be
opened, `include/config/ConfigParser.hpp:55` prints "Using default settings".  That holds
for the first load only; after others the settings stay as they are, as
`ReloadTakesEffect` says.

## 7. What is not modelled, and why

* `EpollReactor::modify_socket`, and the `rx_buffer` and `tx_buffer` of a
  `Connection`: no program uses them.
* Telemetry's readings of `/proc`, its floating-point rates and the rendering of
  the dashboard; the measured times of the benchmarks and their table.
* Prefix lengths outside 0..32 in `RouteTable`: the shifts are undefined.
* Texts that `std::stoi` accepts although they are no numbers ("80abc"): for the
  model they spell the number that it returns.
* Closures that are destroyed while they run (phase 9, `remove_socket` inside a
  callback): the model takes the intended outcome.
* Phase 17 but for its timeout test: the other drivers are behaviours of the modules
  they drive.  The counts it prints are not modelled.
* Texts that `std::stoi` or `inet_pton` refuse in `add_route` and `lookup`: the call ends
  without touching the table.
* A second `start()` of the logger without a `stop()`, which would end the process
  (`std::terminate`): no program does that.
* The socket, bind and listen calls at the start of the servers, and their failures: the
  models begin with a listening socket.
* Phases 19, 20 and 22 (a sanitizer demonstration, unit tests and an audit that
  prints), the kernel module (counters that never change and a `/proc` file that
  prints them), phase 23, which reads that file, and `tools/env_check.cpp`.

## 8. Plan

Everything that keeps state or computes something is modelled, and what the runs check
of safety is proved.  What could be added: the composition of the units of
`Subsystems` as a theorem, a run of the rate limiter with an `IntMax` that its
products reach, and a bound on what producers that share slots can lose.

## 9. How to run

In this directory: `tlc -workers 2 -config <run>.cfg <Module>` (modules and
configurations are paired in `PROJECT.json`), and `tlapm <Module>Proofs.tla`.
Every run takes less than three minutes, every proof module less than ten minutes.
