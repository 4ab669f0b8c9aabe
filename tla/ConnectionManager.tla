------------------------- MODULE ConnectionManager -------------------------
(***************************************************************************)
(* ConnectionManager and Connection (include/network): the table from      *)
(* descriptors to sessions with a state and byte counts.  A descriptor     *)
(* without a session has the state "NONE".  last_activity_ is left out:    *)
(* the server that uses the table never reads it (module IdleConnections   *)
(* has it).                                                                *)
(***************************************************************************)
EXTENDS Sockets

VARIABLES
    cstate,            \* state_ of the connection of each descriptor
    bytes_received,
    bytes_sent,
    packets_processed

connections == <<cstate, bytes_received, bytes_sent, packets_processed>>

ConnectionsInit ==
    /\ cstate = [f \in Fds |-> "NONE"]
    /\ bytes_received = [f \in Fds |-> 0]
    /\ bytes_sent = [f \in Fds |-> 0]
    /\ packets_processed = [f \in Fds |-> 0]

Managed == {f \in Fds : cstate[f] # "NONE"}

(* add_connection makes a new Connection; the caller moves it on at once.  *)
AddConnection(f, state) ==
    /\ cstate' = [cstate EXCEPT ![f] = state]
    /\ bytes_received' = [bytes_received EXCEPT ![f] = 0]
    /\ bytes_sent' = [bytes_sent EXCEPT ![f] = 0]
    /\ packets_processed' = [packets_processed EXCEPT ![f] = 0]

(* Faulty variant: the count is set, not increased.                        *)
RecordRecvOverwrites(f, n) ==
    /\ bytes_received' = [bytes_received EXCEPT ![f] = n]
    /\ packets_processed' = [packets_processed EXCEPT ![f] = @ + 1]

RecordRecv(f, n) ==
    /\ bytes_received' = [bytes_received EXCEPT ![f] = @ + n]
    /\ packets_processed' = [packets_processed EXCEPT ![f] = @ + 1]

RecordSend(f, n) == bytes_sent' = [bytes_sent EXCEPT ![f] = @ + n]

SetState(f, state) == cstate' = [cstate EXCEPT ![f] = state]

(* The Connection object goes away with its entry.                         *)
RemoveConnection(f) ==
    /\ cstate' = [cstate EXCEPT ![f] = "NONE"]
    /\ bytes_received' = [bytes_received EXCEPT ![f] = 0]
    /\ bytes_sent' = [bytes_sent EXCEPT ![f] = 0]
    /\ packets_processed' = [packets_processed EXCEPT ![f] = 0]

ConnectionStates == {"CONNECTED", "AUTHENTICATING", "AUTHENTICATED", "CLOSING", "CLOSED"}

ConnectionsTypeOK ==
    /\ cstate \in [Fds -> ConnectionStates \union {"NONE"}]
    /\ bytes_received \in [Fds -> Nat]
    /\ bytes_sent \in [Fds -> Nat]
    /\ packets_processed \in [Fds -> Nat]
=============================================================================
