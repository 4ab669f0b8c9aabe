----------------------------- MODULE Subsystems -----------------------------
(***************************************************************************)
(* The subsystems that the repository demonstrates one at a time and that  *)
(* share no state. The variable unit is the one whose program runs.        *)
(***************************************************************************)
EXTENDS RouteTable, RAIISocket, SyscallRetry, Telemetry, UdpServer,
        AuthSession, ConfigParser, Packet, PacketDissector, IdleConnections, Benchmark,
        ThreadPool

VARIABLE unit

system == <<routing, raii, retry, telemetry, udp>>

services == <<auth, configuration, packet, dissector, idle, benchmark, pool>>

vars == <<unit, system, services>>

(* A unit that does not run has no choices to make.                        *)
Init ==
    /\ unit \in {"routing", "raii", "retry", "telemetry", "udp",
                 "auth", "config", "packet", "dissector", "idle", "benchmark", "pool"}
    /\ RoutingInit /\ RaiiInit /\ RetryInit /\ TelemetryInit /\ UdpInit
    /\ AuthInit /\ ConfigInit /\ PacketInit /\ DissectorInit /\ IdleInit /\ BenchInit
    /\ PoolInit
    /\ unit # "retry" => blocking = "yes"
    /\ unit # "benchmark" => kind = "reactor"

RoutingUnit == unit = "routing" /\ RoutingNext /\ UNCHANGED <<unit, raii, retry, telemetry, udp, services>>

RaiiUnit == unit = "raii" /\ RaiiNext /\ UNCHANGED <<unit, routing, retry, telemetry, udp, services>>

RetryAlone == unit = "retry" /\ UNCHANGED <<unit, routing, raii, telemetry, udp, services>>

RetryUnit == RetryAlone /\ RetryNext

TelemetryUnit == unit = "telemetry" /\ TelemetryNext /\ UNCHANGED <<unit, routing, raii, retry, udp, services>>

UdpUnit == unit = "udp" /\ UdpNext /\ UNCHANGED <<unit, routing, raii, retry, telemetry, services>>

AuthUnit ==
    unit = "auth" /\ AuthNext
    /\ UNCHANGED <<unit, system, configuration, packet, dissector, idle, benchmark, pool>>

ConfigUnit ==
    unit = "config" /\ ConfigNext
    /\ UNCHANGED <<unit, system, auth, packet, dissector, idle, benchmark, pool>>

PacketUnit ==
    unit = "packet" /\ PacketNext
    /\ UNCHANGED <<unit, system, auth, configuration, dissector, idle, benchmark, pool>>

DissectorUnit ==
    unit = "dissector" /\ DissectorNext
    /\ UNCHANGED <<unit, system, auth, configuration, packet, idle, benchmark, pool>>

IdleUnit ==
    unit = "idle" /\ IdleNext
    /\ UNCHANGED <<unit, system, auth, configuration, packet, dissector, benchmark, pool>>

BenchmarkAlone ==
    /\ unit = "benchmark"
    /\ UNCHANGED <<unit, system, auth, configuration, packet, dissector, idle, pool>>

BenchmarkUnit == BenchmarkAlone /\ BenchNext

PoolAlone ==
    /\ unit = "pool"
    /\ UNCHANGED <<unit, system, auth, configuration, packet, dissector, idle, benchmark>>

PoolUnit == PoolAlone /\ PoolNext

Next ==
    \/ RoutingUnit \/ RaiiUnit \/ RetryUnit \/ TelemetryUnit \/ UdpUnit
    \/ AuthUnit \/ ConfigUnit \/ PacketUnit \/ DissectorUnit \/ IdleUnit \/ BenchmarkUnit
    \/ PoolUnit

(* The shared secret of the sessions, two bytes for the 23 of the code:    *)
(* its bytes are used round and round, and the two passes do not cancel.   *)
SHARED_SECRET == [i \in 0 .. 1 |-> i + 1]

(* The two threads of a socketpair go on whenever their system calls can   *)
(* return, and so do the threads of a benchmark.  Signals, errors and      *)
(* closing are not bound to happen.  The threads of a pool are scheduled,  *)
(* and tasks end; the mutex is not fair: weak fairness only says that it   *)
(* is not left free forever while a thread wants it.  Nobody is obliged to *)
(* call enqueue or the destructor, but a destructor that has begun goes    *)
(* on.                                                                     *)
FairSpec ==
    /\ Init /\ [][Next]_vars
    /\ WF_retry(RetryAlone /\ SendStep)
    /\ WF_retry(RetryAlone /\ RecvStep)
    /\ WF_benchmark(BenchmarkAlone /\ MainStep)
    /\ \A c \in BenchClients : WF_benchmark(BenchmarkAlone /\ TaskStep(c))
    /\ \A w \in Workers : WF_pool(PoolAlone /\ WorkerStep(w))
    /\ \A t \in Tasks : WF_pool(PoolAlone /\ EnqueueStep(t))
    /\ WF_pool(PoolAlone /\ DestructorStep)

-----------------------------------------------------------------------------
(* What has to come to an end does: the retried calls, and the benchmark   *)
(* whose main thread waits for all its tasks.                              *)
EverythingReturns == RetriesEnd /\ (unit = "benchmark" => BenchmarkEnds)
=============================================================================
