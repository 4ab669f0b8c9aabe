----------------------------- MODULE EventLoops -----------------------------
(***************************************************************************)
(* The echo servers with non-blocking sockets and one thread: the polling  *)
(* loop (src/phase6_non_blocking_server.cpp), the epoll loop               *)
(* (src/phase7_epoll_demo.cpp) and the reactor server                      *)
(* (src/phase8_reactor_server.cpp).  A round of the loops of phases 6 and  *)
(* 7 is counted; phase 8 runs EpollReactor.                                *)
(*                                                                         *)
(* Phase 7 has no callbacks_: there the set follows the epoll instance.    *)
(***************************************************************************)
EXTENDS EpollReactor, Functions

CONSTANTS
    RecvSize,   \* BUFFER_SIZE - 1
    MaxRounds   \* 30 in phase 6, 20 in phase 7

ASSUME EventLoopsAssumption == RecvSize \in Nat \ {0} /\ MaxRounds \in Nat

VARIABLES
    loop,        \* "poll", "epoll", "reactor", or "off" (another server runs)
    rounds,      \* loop_counter, event_loop_runs
    client_fds,  \* phase 6: the vector of clients
    it           \* phase 6: the index of the for loop, 0 at accept

loops == <<loop, rounds, client_fds, it, reactor>>

LoopsInit ==
    /\ loop \in {"poll", "epoll", "reactor", "off"}
    /\ rounds = 0
    /\ client_fds = <<>>
    /\ it = 0
    /\ ReactorInit

LoopEnded == rpc \in {"stopped", "killed"}

(* recv and send back, whatever send returns.                              *)
Echo(f) ==
    LET c == sock[f]
    IN  /\ \E n \in 1 .. RecvSize :
              /\ RecvData(c, n, RecvSize)
              /\ \/ SendQueues(c, n) /\ UNCHANGED rpc
                 \/ SendBroken(c) /\ UNCHANGED <<echoed, rpc>>
                 \/ SendBroken(c) /\ rpc' = "killed" /\ UNCHANGED echoed
        /\ UNCHANGED <<peer, backlog, sock, written>>

(* recv returned 0 or an error other than EAGAIN.                          *)
Finished(f) == RecvEof(sock[f]) \/ RecvError(sock[f])

-----------------------------------------------------------------------------
(* Phase 6.                                                                *)
PollAccept ==
    /\ loop = "poll" /\ it = 0 /\ rounds < MaxRounds /\ ~ LoopEnded
    /\ rounds' = rounds + 1
    /\ it' = 1
    /\ \/ \E f \in Fds : Accepted(f) /\ client_fds' = Append(client_fds, f)
       \/ AcceptError /\ UNCHANGED <<client_fds, sockets>>
    /\ UNCHANGED <<loop, reactor>>

PollEcho ==
    /\ loop = "poll" /\ it \in DOMAIN client_fds /\ ~ LoopEnded
    /\ Echo(client_fds[it])
    /\ it' = it + 1
    /\ UNCHANGED <<loop, rounds, client_fds, interest, callbacks, event, reported, running, faults>>

PollAgain ==
    /\ loop = "poll" /\ it \in DOMAIN client_fds /\ ~ LoopEnded
    /\ RecvAgain(sock[client_fds[it]])
    /\ it' = it + 1
    /\ UNCHANGED <<loop, rounds, client_fds, reactor, sockets>>

(* Faulty variant: the vector keeps the descriptor.                        *)
PollCloseKeeps ==
    /\ loop = "poll" /\ it \in DOMAIN client_fds /\ ~ LoopEnded
    /\ Finished(client_fds[it])
    /\ Close(client_fds[it])
    /\ it' = it + 1
    /\ UNCHANGED <<loop, rounds, client_fds, reactor, backlog, written, unread, echoed>>

(* erase moves the next client to the place of this one.                   *)
Erase(s, i) == SubSeq(s, 1, i - 1) \o SubSeq(s, i + 1, Len(s))

PollClose ==
    /\ loop = "poll" /\ it \in DOMAIN client_fds /\ ~ LoopEnded
    /\ Finished(client_fds[it])
    /\ Close(client_fds[it])
    /\ client_fds' = Erase(client_fds, it)
    /\ UNCHANGED <<loop, rounds, it, reactor, backlog, written, unread, echoed>>

PollSleep ==
    /\ loop = "poll" /\ it = Len(client_fds) + 1 /\ ~ LoopEnded
    /\ it' = 0
    /\ UNCHANGED <<loop, rounds, client_fds, reactor, sockets>>

(* After the last round all clients are closed.                            *)
PollExit ==
    /\ loop = "poll" /\ it = 0 /\ rounds = MaxRounds /\ ~ LoopEnded
    /\ sock' = [f \in Fds |-> IF f \in Range(client_fds) THEN None ELSE sock[f]]
    /\ peer' = [c \in Clients |->
                  IF \E f \in Range(client_fds) : sock[f] = c THEN "done" ELSE peer[c]]
    /\ rpc' = "stopped"
    /\ UNCHANGED <<loop, rounds, client_fds, it, backlog, written, unread, echoed>>
    /\ UNCHANGED <<interest, callbacks, event, reported, running, faults>>

PollStep ==
    PollAccept \/ PollEcho \/ PollAgain \/ PollClose \/ PollSleep \/ PollExit

-----------------------------------------------------------------------------
(* What the two epoll servers do with an event.                            *)
EventAccept(f) ==
    /\ Take(Listen)
    /\ Accepted(f)
    /\ AddSocket(f)
    /\ UNCHANGED <<rpc, loop, rounds, client_fds, it>>

EventAcceptNothing ==
    /\ Take(Listen)
    /\ AcceptError
    /\ UNCHANGED <<interest, callbacks, faults, rpc, loop, rounds, client_fds, it, sockets>>

(* Phase 8 forgets a client it could not register; phase 7 closes it.      *)
EventAcceptForgets(f) ==
    /\ loop = "reactor"
    /\ Take(Listen)
    /\ Accepted(f)
    /\ AddSocketFails
    /\ UNCHANGED <<rpc, loop, rounds, client_fds, it>>

EventAcceptRefuses(f) ==
    /\ loop = "epoll"
    /\ Take(Listen)
    /\ backlog # <<>> /\ f \in Free /\ \A g \in Free : f <= g
    /\ backlog' = Tail(backlog)
    /\ peer' = [peer EXCEPT ![Head(backlog)] = "done"]
    /\ AddSocketFails
    /\ UNCHANGED <<rpc, loop, rounds, client_fds, it, sock, written, unread, echoed>>

EventEcho(f) ==
    /\ loop = "reactor" => event[f] = "in"
    /\ Take(f)
    /\ Echo(f)
    /\ UNCHANGED <<interest, callbacks, faults, loop, rounds, client_fds, it>>

(* Faulty variant: every client that was reset is closed at once.          *)
EventCloseAll(f) ==
    LET gone == {g \in Fds : g = f \/ (sock[g] # None /\ peer[sock[g]] = "reset")}
    IN  /\ Take(f)
        /\ Finished(f) \/ (loop = "reactor" /\ event[f] = "hup")
        /\ interest' = interest \ gone
        /\ callbacks' = callbacks \ gone
        /\ sock' = [g \in Fds |-> IF g \in gone THEN None ELSE sock[g]]
        /\ UNCHANGED <<faults, rpc, loop, rounds, client_fds, it>>
        /\ UNCHANGED <<peer, backlog, written, unread, echoed>>

(* Phase 8 closes on EPOLLHUP or EPOLLERR without reading what is left.    *)
EventClose(f) ==
    /\ Take(f)
    /\ Finished(f) \/ (loop = "reactor" /\ event[f] = "hup")
    /\ RemoveSocket(f)
    /\ Close(f)
    /\ UNCHANGED <<rpc, loop, rounds, client_fds, it>>
    /\ UNCHANGED <<backlog, written, unread, echoed>>

EventStep ==
    \/ EventAcceptNothing
    \/ \E f \in Fds : \/ EventAccept(f) \/ EventAcceptForgets(f) \/ EventAcceptRefuses(f)
                      \/ EventEcho(f) \/ EventClose(f)

(* Phase 8 is EpollReactor's loop.                                         *)
ReactorLoop ==
    /\ loop = "reactor"
    /\ LoopStep
    /\ UNCHANGED <<loop, rounds, client_fds, it, sockets>>

(* Phase 7: epoll_wait without timeout, and no second try after EINTR.     *)
EpollLoop ==
    /\ loop = "epoll"
    /\ \/ rounds < MaxRounds /\ RGoTo("loop", "wait")
          /\ UNCHANGED <<rounds, interest, callbacks, event, reported, running, faults>>
       \/ rounds = MaxRounds /\ RGoTo("loop", "stopped")
          /\ UNCHANGED <<rounds, interest, callbacks, event, reported, running, faults>>
       \/ EpollWait /\ rounds' = rounds + 1
       \/ EndOfBatch /\ UNCHANGED rounds
    /\ UNCHANGED <<loop, client_fds, it, sockets>>

(* The error paths of epoll_wait.  (Phase 8 never calls stop.)             *)
LoopFault ==
    /\ \/ loop = "reactor" /\ WaitFails
       \/ loop = "epoll" /\ WaitFails /\ rpc' = "stopped"
    /\ UNCHANGED <<loop, rounds, client_fds, it, sockets>>

LoopRun ==
    /\ loop \in {"reactor", "epoll"}
    /\ Run
    /\ UNCHANGED <<loop, rounds, client_fds, it, sockets>>

LoopsStep == PollStep \/ ReactorLoop \/ EpollLoop \/ EventStep

-----------------------------------------------------------------------------
(* Properties.                                                             *)
Open == {f \in Fds : sock[f] # None}

(* Each server knows the sockets it holds open: the vector of phase 6 has  *)
(* each of them once; the epoll instance of phase 7 has all of them even   *)
(* when calls fail; in phase 8 one can only be missing after add_socket    *)
(* failed.  After the last round phase 6 leaves none open.                 *)
NoOrphan ==
    /\ loop = "poll" /\ ~ LoopEnded => Open = Range(client_fds) /\ IsInjective(client_fds)
    /\ loop = "poll" /\ rpc = "stopped" => Open = {}
    /\ loop = "epoll" => interest = Open \union {Listen}
    /\ loop = "reactor" => /\ interest \subseteq Open \union {Listen}
                           /\ faults = 0 => interest = Open \union {Listen}

(* No event is handled for another client than the one it was reported     *)
(* for, and none for a socket that is closed.                              *)
EventFresh == \A f \in Fds : event[f] # "none" => f \in interest /\ sock[f] = reported[f]

(* A client that leaves is closed unless the server ends.  (One that phase *)
(* 8 has failed to register is not.)                                       *)
LoopCloses ==
    \A c \in Clients :
        (peer[c] \in {"eof", "reset"}
           /\ \E f \in Fds : sock[f] = c /\ (f \in interest \/ loop = "poll"))
            ~> (LoopEnded \/ \A f \in Fds : sock[f] # c)
=============================================================================
