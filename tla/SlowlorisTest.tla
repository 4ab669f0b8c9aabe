--------------------------- MODULE SlowlorisTest ---------------------------
(***************************************************************************)
(* run_slowloris_timeout_test (src/phase17_stress_fuzzer.cpp): clients     *)
(* connect, one of them sends, the thread sleeps, and the expired          *)
(* connections are removed.  Time passes only while it sleeps, where it    *)
(* passes most.                                                            *)
(***************************************************************************)
EXTENDS IdleConnections, FiniteSets

CONSTANTS
    Sender,      \* descriptor 10
    SleepTicks   \* 1500 ms

VARIABLE line    \* what the test does next

TestInit == IdleInit /\ line = "add"

TGoTo(from, to) == line = from /\ line' = to

Arrive(f) ==
    /\ f \notin managed /\ \A g \in IdleFds \ managed : f <= g
    /\ add_connection(f)
    /\ \/ managed' # IdleFds /\ TGoTo("add", "add")
       \/ managed' = IdleFds /\ TGoTo("add", "recv")

SenderSends == touch(Sender) /\ TGoTo("recv", "sleep")

Sleep == IdleTick /\ TGoTo("sleep", "sleep")

(* sleep_for returns, not before its time.                                 *)
Identify ==
    /\ idle_clock - last_activity[Sender] >= SleepTicks
    /\ Collect /\ TGoTo("sleep", "cleanup")

Cleanup ==
    \/ \E f \in IdleFds : RemoveExpired(f) /\ TGoTo("cleanup", "cleanup")
    \/ expired = {} /\ TGoTo("cleanup", "assert") /\ UNCHANGED idle

TestNext ==
    \/ \E f \in IdleFds : Arrive(f)
    \/ SenderSends \/ Sleep \/ Identify \/ Cleanup

TestSpec == TestInit /\ [][TestNext]_<<idle, line>>

-----------------------------------------------------------------------------
(* "assert(mgr.active_connection_count() == 1)"                            *)
(* (src/phase17_stress_fuzzer.cpp:112): only the connection that sent data *)
(* is left after the cleanup.                                              *)
SenderRemains == line = "assert" => Cardinality(managed) = 1
=============================================================================
