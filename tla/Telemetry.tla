----------------------------- MODULE Telemetry -----------------------------
(***************************************************************************)
(* Telemetry.hpp with the threads of phase15_telemetry_dashboard.cpp: the  *)
(* recorders count with atomic operations while the dashboard takes        *)
(* snapshots. Every load and every addition is a step of its own. The      *)
(* memory order is relaxed, so a recorder does the additions of one call   *)
(* in any order; the loads stand in the order of the code, which makes no  *)
(* difference to properties that compare a counter with itself.            *)
(*                                                                         *)
(* The readings of /proc and the clock, and the rates that are computed    *)
(* from the loaded values, are left out.                                   *)
(***************************************************************************)
EXTENDS Integers, Sequences, FiniteSets, Functions

CONSTANTS
    Recorders,
    Amounts,        \* byte counts, latencies and connection counts passed to the calls
    MaxCalls,       \* bound: calls of each recorder
    MaxSnapshots    \* bound: snapshots

ASSUME TelemetryAssumption == IsFiniteSet(Recorders) /\ Amounts \subseteq Nat

(* In the order in which take_snapshot loads them.                         *)
Loads == <<"packets_received", "packets_sent", "packets_dropped", "bytes_in", "bytes_out",
           "active_connections", "auth_failures", "total_latency_us", "latency_samples">>

Counter == Range(Loads)

VARIABLES
    counters,   \* the atomic members
    adding,     \* adding[t]: what the call of recorder t still has to add
    calls,      \* calls[t]: calls begun by recorder t
    loaded,     \* the values the snapshot under way has loaded
    snapshots,  \* the snapshots that were returned
    asked       \* the sum of what the calls ask for, for the properties

telemetry == <<counters, adding, calls, loaded, snapshots, asked>>

Nothing == [c \in {} |-> 0]

(* The constructor calls reset(), which nothing else does.                 *)
TelemetryInit ==
    /\ counters = [c \in Counter |-> 0]
    /\ adding = [t \in Recorders |-> Nothing]
    /\ calls = [t \in Recorders |-> 0]
    /\ loaded = <<>>
    /\ snapshots = <<>>
    /\ asked = [c \in Counter |-> 0]

(* What the recording calls add, for the amounts they are given.           *)
Calls ==
    (UNION {{[packets_received |-> 1, bytes_in |-> n], [packets_sent |-> 1, bytes_out |-> n],
             [total_latency_us |-> n, latency_samples |-> 1]} : n \in Amounts})
    \cup {[packets_dropped |-> 1], [auth_failures |-> 1],
          [active_connections |-> 1], [active_connections |-> -1]}

BeginCall(t) ==
    /\ adding[t] = Nothing
    /\ calls[t] < MaxCalls
    /\ \E call \in Calls :
          /\ adding' = [adding EXCEPT ![t] = call]
          /\ asked' = [c \in Counter |-> asked[c] + (IF c \in DOMAIN call THEN call[c] ELSE 0)]
    /\ calls' = [calls EXCEPT ![t] = @ + 1]
    /\ UNCHANGED <<counters, loaded, snapshots>>

(* Faulty variant: only the first fetch_add of a call is there.            *)
AddOnlyOne(t, c) ==
    /\ c \in DOMAIN adding[t]
    /\ counters' = [counters EXCEPT ![c] = @ + adding[t][c]]
    /\ adding' = [adding EXCEPT ![t] = Nothing]
    /\ UNCHANGED <<calls, loaded, snapshots, asked>>

fetch_add(t, c) ==
    /\ c \in DOMAIN adding[t]
    /\ counters' = [counters EXCEPT ![c] = @ + adding[t][c]]
    /\ adding' = [adding EXCEPT ![t] = Restrict(@, DOMAIN @ \ {c})]
    /\ UNCHANGED <<calls, loaded, snapshots, asked>>

(* A store: what others are about to add still comes on top of it.         *)
set_active_connections(t, n) ==
    /\ adding[t] = Nothing
    /\ calls[t] < MaxCalls
    /\ asked' = [asked EXCEPT !["active_connections"] = n + @ - counters["active_connections"]]
    /\ counters' = [counters EXCEPT !["active_connections"] = n]
    /\ calls' = [calls EXCEPT ![t] = @ + 1]
    /\ UNCHANGED <<adding, loaded, snapshots>>

Load ==
    /\ Len(snapshots) < MaxSnapshots
    /\ Len(loaded) < Len(Loads)
    /\ loaded' = Append(loaded, counters[Loads[Len(loaded) + 1]])
    /\ UNCHANGED <<counters, adding, calls, snapshots, asked>>

ReturnSnapshot ==
    /\ Len(loaded) = Len(Loads)
    /\ snapshots' = Append(snapshots, loaded)
    /\ loaded' = <<>>
    /\ UNCHANGED <<counters, adding, calls, asked>>

TelemetryNext ==
    \/ \E t \in Recorders : BeginCall(t) \/ \E c \in Counter : fetch_add(t, c)
    \/ \E t \in Recorders, n \in Amounts : set_active_connections(t, n)
    \/ Load
    \/ ReturnSnapshot

TelemetrySpec == TelemetryInit /\ [][TelemetryNext]_telemetry

-----------------------------------------------------------------------------
(* What the call of recorder t still has to add to counter c.              *)
Pending(t, c) == IF c \in DOMAIN adding[t] THEN adding[t][c] ELSE 0

(* No call is lost however the recorders interleave: a counter is what was *)
(* asked for, less what the calls under way have still to add; and from    *)
(* one snapshot to the next no total goes down.                            *)
NoCallLost ==
    /\ \A c \in Counter :
          counters[c] = asked[c] - SumFunction([t \in Recorders |-> Pending(t, c)])
    /\ \A i \in 2 .. Len(snapshots), k \in 1 .. Len(Loads) :
          Loads[k] # "active_connections" => snapshots[i - 1][k] <= snapshots[i][k]
=============================================================================
