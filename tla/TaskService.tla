---------------------------- MODULE TaskService ----------------------------
(***************************************************************************)
(* What a thread pool promises to its callers, without workers, queue or   *)
(* locks: a task is accepted while the service is open and refused         *)
(* afterwards; an accepted task runs once; the service terminates only     *)
(* when nothing accepted is left.                                          *)
(***************************************************************************)
CONSTANT Tasks

VARIABLES
    status,  \* of each task
    phase    \* "open", "closing", "terminated"

vars == <<status, phase>>

Init ==
    /\ status = [t \in Tasks |-> "new"]
    /\ phase = "open"

Change(t, from, to) ==
    /\ status[t] = from
    /\ status' = [status EXCEPT ![t] = to]
    /\ UNCHANGED phase

Accept(t) == phase = "open" /\ Change(t, "new", "queued")
Refuse(t) == phase # "open" /\ Change(t, "new", "refused")
Begin(t)  == phase # "terminated" /\ Change(t, "queued", "running")
Finish(t) == phase # "terminated" /\ Change(t, "running", "done")

Close ==
    /\ phase = "open"
    /\ phase' = "closing"
    /\ UNCHANGED status

Terminate ==
    /\ phase = "closing"
    /\ \A t \in Tasks : status[t] \notin {"queued", "running"}
    /\ phase' = "terminated"
    /\ UNCHANGED status

Next ==
    \/ \E t \in Tasks : Accept(t) \/ Refuse(t) \/ Begin(t) \/ Finish(t)
    \/ Close \/ Terminate

Spec == Init /\ [][Next]_vars
=============================================================================
