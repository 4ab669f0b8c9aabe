------------------------------ MODULE Servers ------------------------------
(***************************************************************************)
(* The simple echo servers over the same sockets: one of them runs, and    *)
(* clients connect, write, shut down and reset as they like.               *)
(***************************************************************************)
EXTENDS ClientHandlers, EventLoops

vars == <<sockets, handlers, loops>>

Init ==
    /\ SocketsInit
    /\ HandlersInit
    /\ LoopsInit
    /\ (design = "off") # (loop = "off")

ServerEnded == process # "alive" \/ LoopEnded

Next ==
    \/ HandlersNext /\ UNCHANGED loops
    \/ (LoopRun \/ LoopsStep \/ LoopFault) /\ UNCHANGED handlers
    \/ \E c \in Clients : ClientStep(c) /\ ~ ServerEnded /\ UNCHANGED <<handlers, loops>>

Spec == Init /\ [][Next]_vars

(* Every thread of the running server is scheduled: a handler whose recv   *)
(* or send can return goes on, accept returns when a client waits.         *)
FairSpec ==
    /\ Spec
    /\ WF_vars(AcceptStep /\ UNCHANGED loops)
    /\ \A c \in Clients : WF_vars(HandlerStep(c) /\ UNCHANGED loops)
    /\ WF_vars(LoopsStep /\ UNCHANGED handlers)

(* Whichever server runs, a client that leaves is noticed and closed, if   *)
(* the server is one that can and does not end first: LeaversServed for    *)
(* the blocking servers, LoopCloses for the event loops.                   *)
LeaversClosed == LeaversServed /\ LoopCloses
=============================================================================
