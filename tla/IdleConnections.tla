-------------------------- MODULE IdleConnections --------------------------
(***************************************************************************)
(* The activity stamps of include/network/Connection.hpp and the purge of  *)
(* idle connections that phase17_stress_fuzzer.cpp makes with              *)
(* get_expired_connections of include/network/ConnectionManager.hpp.  (The *)
(* gateway itself does not purge: module ConnectionManager.)               *)
(***************************************************************************)
EXTENDS Integers

CONSTANTS
    IdleFds,
    ClockTicks,   \* ticks of steady_clock in a second
    IdleTimeout,  \* seconds
    MaxIdleClock  \* bound on the clock

ASSUME IdleAssumption ==
    ClockTicks \in Nat \ {0} /\ IdleTimeout \in Nat /\ MaxIdleClock \in Nat

VARIABLES
    managed,       \* descriptors in connections_
    last_activity,
    idle_clock,
    expired,       \* what is left of the collected descriptors
    silence,       \* history: ticks since something happened on the connection
    revived        \* history: those of expired that were touched or added since

idle == <<managed, last_activity, idle_clock, expired, silence, revived>>

IdleInit ==
    /\ managed = {}
    /\ last_activity = [f \in IdleFds |-> 0]
    /\ idle_clock = 0
    /\ expired = {}
    /\ silence = [f \in IdleFds |-> 0]
    /\ revived = {}

Stamp(f) ==
    /\ last_activity' = [last_activity EXCEPT ![f] = idle_clock]
    /\ silence' = [silence EXCEPT ![f] = 0]
    /\ revived' = revived \union ({f} \intersect expired)
    /\ UNCHANGED <<idle_clock, expired>>

(* A connection is stamped when it is made.                                *)
add_connection(f) ==
    /\ managed' = managed \union {f}
    /\ Stamp(f)

(* Faulty variant: traffic does not count as activity.                     *)
TouchForgotten(f) ==
    /\ f \in managed
    /\ silence' = [silence EXCEPT ![f] = 0]
    /\ revived' = revived \union ({f} \intersect expired)
    /\ UNCHANGED <<managed, last_activity, idle_clock, expired>>

(* record_recv, record_send and set_state end in touch.                    *)
touch(f) ==
    /\ f \in managed
    /\ Stamp(f)
    /\ UNCHANGED managed

remove_connection(f) ==
    /\ managed' = managed \ {f}
    /\ UNCHANGED <<last_activity, idle_clock, expired, silence, revived>>

(* duration_cast truncates.                                                *)
get_idle_seconds(f) == (idle_clock - last_activity[f]) \div ClockTicks

get_expired_connections == {f \in managed : get_idle_seconds(f) >= IdleTimeout}

(* The caller of get_expired_connections has a list of descriptors, and    *)
(* removes them one by one; the lock is not held in between.               *)
Collect ==
    /\ expired = {}
    /\ expired' = get_expired_connections
    /\ UNCHANGED <<managed, last_activity, idle_clock, silence, revived>>

RemoveExpired(f) ==
    /\ f \in expired
    /\ managed' = managed \ {f}
    /\ expired' = expired \ {f}
    /\ revived' = revived \ {f}
    /\ UNCHANGED <<last_activity, idle_clock, silence>>

IdleTick ==
    /\ idle_clock < MaxIdleClock
    /\ idle_clock' = idle_clock + 1
    /\ silence' = [f \in IdleFds |-> silence[f] + 1]
    /\ UNCHANGED <<managed, last_activity, expired, revived>>

IdleNext ==
    \/ \E f \in IdleFds : add_connection(f) \/ touch(f) \/ remove_connection(f) \/ RemoveExpired(f)
    \/ Collect
    \/ IdleTick

IdleSpec == IdleInit /\ [][IdleNext]_idle

-----------------------------------------------------------------------------
(* get_expired_connections names, at every moment, exactly the connections *)
(* that were silent for the whole timeout since their last traffic,        *)
(* although ages are truncated to seconds and a descriptor that was        *)
(* removed and added again is another connection.  The purge that follows  *)
(* takes nobody else, except one case: a descriptor that was touched or    *)
(* added between the collection and its removal is removed all the same.   *)
ExpiredAreSilent ==
    /\ get_expired_connections = {f \in managed : silence[f] >= IdleTimeout * ClockTicks}
    /\ \A f \in expired : f \in revived \/ silence[f] >= IdleTimeout * ClockTicks
=============================================================================
