---------------------------- MODULE EpollReactor ----------------------------
(***************************************************************************)
(* EpollReactor (include/core/EpollReactor.hpp): the loop that waits for   *)
(* events and calls the callback registered for the descriptor.  What the  *)
(* callbacks do is the program's; here are the loop, the registration, and *)
(* stop, which another thread calls.                                       *)
(*                                                                         *)
(* A batch, the events_ array that epoll_wait filled, is a function from   *)
(* descriptors to the event still to be dispatched: "in" (EPOLLIN) or      *)
(* "hup" (with EPOLLHUP or EPOLLERR).  Its order is the kernel's: dispatch *)
(* takes any of them.                                                      *)
(***************************************************************************)
EXTENDS Sockets, FiniteSets

CONSTANTS
    Listen,      \* the listening descriptor
    max_events,
    MaxFaults    \* bound: interrupted waits and failing epoll calls

ASSUME EpollReactorAssumption ==
    /\ Listen \in Nat \ Fds
    /\ max_events \in Nat \ {0}
    /\ MaxFaults \in Nat

VARIABLES
    interest,    \* the descriptors in the epoll instance
    callbacks,   \* the keys of callbacks_
    event,       \* events_: what is left of the batch
    reported,    \* history: the client each event was reported for
    running,     \* running_
    rpc,         \* where the reactor thread is
    faults

reactor == <<interest, callbacks, event, reported, running, rpc, faults>>

AllFds == Fds \union {Listen}

ReactorInit ==
    /\ interest = {Listen}
    /\ callbacks = {Listen}
    /\ event = [f \in AllFds |-> "none"]
    /\ reported = [f \in AllFds |-> None]
    /\ running = "no"
    /\ rpc = "new"
    /\ faults = 0

-----------------------------------------------------------------------------
(* add_socket: the callback is stored only if epoll_ctl succeeds.          *)
AddSocket(f) ==
    /\ interest' = interest \union {f}
    /\ callbacks' = callbacks \union {f}
    /\ UNCHANGED faults

AddSocketFails ==
    /\ faults < MaxFaults
    /\ faults' = faults + 1
    /\ UNCHANGED <<interest, callbacks>>

(* Faulty variant: the callback is not erased.                             *)
RemoveSocketKeepsCallback(f) ==
    /\ interest' = interest \ {f}
    /\ UNCHANGED <<callbacks, faults>>

RemoveSocket(f) ==
    /\ interest' = interest \ {f}
    /\ callbacks' = callbacks \ {f}
    /\ UNCHANGED faults

-----------------------------------------------------------------------------
(* run.  A level-triggered descriptor is ready as long as there is         *)
(* something to accept, to receive, or an end to be noticed.               *)
Ready(f) ==
    IF f = Listen THEN backlog # <<>>
    ELSE /\ sock[f] # None
         /\ unread[sock[f]] > 0 \/ peer[sock[f]] \in {"eof", "reset"}

EventOf(f) ==
    IF f # Listen /\ peer[sock[f]] = "reset" THEN "hup" ELSE "in"

RGoTo(from, to) == rpc = from /\ rpc' = to

Run ==
    /\ RGoTo("new", "loop")
    /\ running' = "yes"
    /\ UNCHANGED <<interest, callbacks, event, reported, faults>>

LoopTest ==
    /\ \/ running = "yes" /\ RGoTo("loop", "wait")
       \/ running = "no" /\ RGoTo("loop", "stopped")
    /\ UNCHANGED <<interest, callbacks, event, reported, running, faults>>

(* epoll_wait returns the ready descriptors, at most max_events_ of them.  *)
EpollWait ==
    LET ready == {f \in interest : Ready(f)}
    IN  /\ ready # {}
        /\ RGoTo("wait", "dispatch")
        /\ \E batch \in SUBSET ready :
              /\ batch = ready \/ Cardinality(batch) = max_events
              /\ Cardinality(batch) <= max_events
              /\ event' = [f \in AllFds |-> IF f \in batch THEN EventOf(f) ELSE "none"]
              /\ reported' = [f \in AllFds |-> IF f \in batch \ {Listen} THEN sock[f] ELSE None]
        /\ UNCHANGED <<interest, callbacks, running, faults>>

(* Faulty variant: epoll_wait without a timeout.                           *)
WaitTimeoutInfinite ==
    /\ FALSE
    /\ UNCHANGED reactor

(* Nothing happened for 500 ms.                                            *)
WaitTimeout ==
    /\ \A f \in interest : ~ Ready(f)
    /\ RGoTo("wait", "loop")
    /\ UNCHANGED <<interest, callbacks, event, reported, running, faults>>

(* EINTR continues the loop, another error leaves it.                      *)
WaitFails ==
    /\ faults < MaxFaults
    /\ faults' = faults + 1
    /\ RGoTo("wait", "loop") \/ RGoTo("wait", "stopped")
    /\ UNCHANGED <<interest, callbacks, event, reported, running>>

(* One round of the for loop.                                              *)
Take(f) ==
    /\ rpc = "dispatch" /\ event[f] # "none"
    /\ event' = [event EXCEPT ![f] = "none"]
    /\ reported' = [reported EXCEPT ![f] = None]
    /\ UNCHANGED running

EndOfBatch ==
    /\ \A f \in AllFds : event[f] = "none"
    /\ RGoTo("dispatch", "loop")
    /\ UNCHANGED <<interest, callbacks, event, reported, running, faults>>

LoopStep == LoopTest \/ EpollWait \/ WaitTimeout \/ EndOfBatch

(* stop, called by another thread.  (Before run it has no effect: run sets *)
(* running_ afterwards.)                                                   *)
Stop ==
    /\ running = "yes"
    /\ running' = "no"
    /\ UNCHANGED <<interest, callbacks, event, reported, rpc, faults>>

ReactorTypeOK ==
    /\ interest \subseteq AllFds
    /\ callbacks \subseteq AllFds
    /\ event \in [AllFds -> {"none", "in", "hup"}]
    /\ reported \in [AllFds -> Clients \union {None}]
    /\ running \in {"yes", "no"}
    /\ rpc \in {"new", "loop", "wait", "dispatch", "stopped", "killed"}
    /\ faults \in 0 .. MaxFaults
=============================================================================
