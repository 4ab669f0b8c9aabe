------------------------------ MODULE Gateway ------------------------------
(***************************************************************************)
(* The connection gateway (src/phase9_connection_manager_server.cpp): an   *)
(* echo server made of EpollReactor and ConnectionManager.  Its callbacks  *)
(* run in the reactor thread, one after the other, so a callback is one    *)
(* step; clients, and a thread that calls stop, act between any two steps: *)
(* between epoll_wait and the callback for an event it reported as well.   *)
(***************************************************************************)
EXTENDS EpollReactor, ConnectionManager

CONSTANT BUFFER_SIZE

ASSUME GatewayAssumption == BUFFER_SIZE \in Nat \ {0, 1}

vars == <<sockets, reactor, connections>>

Init ==
    /\ SocketsInit
    /\ ReactorInit
    /\ ConnectionsInit

-----------------------------------------------------------------------------
(* The callback of the listening socket.                                   *)
AcceptClient(f) ==
    /\ Take(Listen)
    /\ Accepted(f)
    /\ AddConnection(f, "AUTHENTICATING")
    /\ AddSocket(f) \/ AddSocketFails
    /\ UNCHANGED rpc

AcceptNothing ==
    /\ Take(Listen)
    /\ AcceptError
    /\ UNCHANGED <<interest, callbacks, faults, rpc, sockets, connections>>

-----------------------------------------------------------------------------
(* The callback of a client socket.  The early returns for a descriptor    *)
(* without a callback (in run) or without a session have no action: they   *)
(* are never taken (BatchFresh, TablesAgree), and a batch with such an     *)
(* event would be stuck here.                                              *)
(* Faulty variant: the listening socket is unregistered.                   *)
TeardownWrongFd(f) ==
    /\ RemoveSocket(Listen)
    /\ RemoveConnection(f)
    /\ Close(f)
    /\ UNCHANGED <<backlog, written, unread, echoed, rpc>>

(* Faulty variant: every connection that was reset is closed at once.      *)
TeardownAll(f) ==
    LET gone == {g \in Fds : g = f \/ (sock[g] # None /\ peer[sock[g]] = "reset")}
    IN  /\ interest' = interest \ gone
        /\ callbacks' = callbacks \ gone
        /\ cstate' = [g \in Fds |-> IF g \in gone THEN "NONE" ELSE cstate[g]]
        /\ sock' = [g \in Fds |-> IF g \in gone THEN None ELSE sock[g]]
        /\ UNCHANGED <<bytes_received, bytes_sent, packets_processed, faults>>
        /\ UNCHANGED <<peer, backlog, written, unread, echoed, rpc>>

(* set_state(CLOSING) comes first, but the session does not outlive the    *)
(* callback.                                                               *)
Teardown(f) ==
    /\ RemoveSocket(f)
    /\ RemoveConnection(f)
    /\ Close(f)
    /\ UNCHANGED <<backlog, written, unread, echoed, rpc>>

HangUp(f) ==
    /\ f \in callbacks /\ cstate[f] # "NONE"
    /\ event[f] = "hup"
    /\ Take(f)
    /\ Teardown(f)

(* Faulty variant: recv() == 0 is taken for "nothing received".            *)
ReceiveEofIgnored(f) ==
    /\ f \in callbacks /\ cstate[f] # "NONE"
    /\ event[f] = "in"
    /\ Take(f)
    /\ RecvEof(sock[f])
    /\ UNCHANGED <<interest, callbacks, faults, rpc, sockets, connections>>

ReceiveEof(f) ==
    /\ f \in callbacks /\ cstate[f] # "NONE"
    /\ event[f] = "in"
    /\ Take(f)
    /\ RecvEof(sock[f])
    /\ Teardown(f)

(* recv, then send, whose result is not looked at.  The first payload      *)
(* authenticates.                                                          *)
Receive(f) ==
    LET c == sock[f]
    IN  /\ f \in callbacks /\ cstate[f] # "NONE"
        /\ event[f] = "in"
        /\ Take(f)
        /\ \E n \in 1 .. BUFFER_SIZE - 1 :
              /\ RecvData(c, n, BUFFER_SIZE - 1)
              /\ RecordRecv(f, n)
              /\ IF cstate[f] = "AUTHENTICATING" THEN SetState(f, "AUTHENTICATED")
                 ELSE UNCHANGED cstate
              /\ RecordSend(f, n)
              /\ \/ SendQueues(c, n) /\ UNCHANGED rpc
                 \/ SendBroken(c) /\ UNCHANGED <<echoed, rpc>>
                 \/ SendBroken(c) /\ rpc' = "killed" /\ UNCHANGED echoed
        /\ UNCHANGED <<peer, backlog, sock, written, interest, callbacks, faults>>

(* recv returned -1: nothing is done, whatever the error.  (EAGAIN does    *)
(* not happen: an event is reported while there is something to receive.)  *)
ReceiveError(f) ==
    /\ f \in callbacks /\ cstate[f] # "NONE"
    /\ event[f] = "in"
    /\ Take(f)
    /\ RecvError(sock[f])
    /\ UNCHANGED <<interest, callbacks, faults, rpc, sockets, connections>>

CallbackStep ==
    \/ AcceptNothing
    \/ \E f \in Fds : \/ AcceptClient(f) \/ HangUp(f)
                      \/ ReceiveEof(f) \/ Receive(f) \/ ReceiveError(f)

ReactorStep ==
    \/ LoopStep /\ UNCHANGED <<sockets, connections>>
    \/ CallbackStep

(* run has returned, or SIGPIPE has ended the process.                     *)
Ended == rpc \in {"stopped", "killed"}

Exit == Ended /\ UNCHANGED vars

Next ==
    \/ Run /\ UNCHANGED <<sockets, connections>>
    \/ WaitFails /\ UNCHANGED <<sockets, connections>>
    \/ Stop /\ UNCHANGED <<sockets, connections>>
    \/ ReactorStep
    \/ ~ Ended /\ \E c \in Clients : ClientStep(c) /\ UNCHANGED <<reactor, connections>>
    \/ Exit

Spec == Init /\ [][Next]_vars

(* The reactor thread is scheduled and epoll_wait returns, at the latest   *)
(* after 500 ms.  Clients, stop and failures are under no obligation.      *)
FairSpec == Spec /\ WF_vars(ReactorStep)

-----------------------------------------------------------------------------
(* Properties.                                                             *)

(* Types of all variables.                                                 *)
TypeOK ==
    /\ SocketsTypeOK
    /\ ReactorTypeOK
    /\ ConnectionsTypeOK

(* The three tables that name descriptors agree at every moment: the epoll *)
(* instance and callbacks_ hold the same descriptors, each of them open    *)
(* and with a session; an open descriptor without a callback is left over  *)
(* from an add_socket that failed.                                         *)
TablesAgree ==
    /\ callbacks = interest /\ Listen \in interest
    /\ Managed = {f \in Fds : sock[f] # None}
    /\ interest \ {Listen} \subseteq Managed
    /\ faults = 0 => interest = Managed \union {Listen}

(* An event is never dispatched to another connection than the one it was  *)
(* reported for: although accept reuses descriptors inside a batch, each   *)
(* event that is left belongs to the session its descriptor has now, and   *)
(* has a callback.                                                         *)
BatchFresh ==
    \A f \in Fds :
        event[f] # "none" => f \in callbacks /\ sock[f] = reported[f]

(* Two descriptors never lead to the same client, and a client that waits  *)
(* in the accept queue has none.                                           *)
OneSocketPerClient ==
    /\ \A f, g \in Fds : sock[f] = sock[g] /\ sock[f] # None => f = g
    /\ \A i \in DOMAIN backlog : \A f \in Fds : sock[f] # backlog[i]

(* Bytes are neither lost nor invented by the server's accounts: what a    *)
(* session has received is what its client wrote and is not unread, all of *)
(* it is recorded as sent, a session is authenticated once it received     *)
(* something, and no more was echoed than was received.                    *)
Account(f, c) ==
    /\ bytes_received[f] + unread[c] = written[c]
    /\ bytes_sent[f] = bytes_received[f]
    /\ echoed[c] <= bytes_received[f]
    /\ cstate[f] = IF bytes_received[f] = 0 THEN "AUTHENTICATING" ELSE "AUTHENTICATED"
    /\ packets_processed[f] <= bytes_received[f]
    /\ bytes_received[f] <= packets_processed[f] * (BUFFER_SIZE - 1)

EchoAccounting == \A f \in Managed : Account(f, sock[f])

(* "connection teardown on client disconnect / EOF" (ImplementationPlan    *)
(* line 103): a registered connection whose client has gone is closed.     *)
GoneIsClosed ==
    \A c \in Clients :
        (peer[c] \in {"eof", "reset"} /\ \E f \in Fds \intersect interest : sock[f] = c)
            ~> (peer[c] = "done" \/ Ended)

(* A client that connects is accepted, even when descriptors have run out, *)
(* provided that one becomes free again and again: the failing accept      *)
(* leaves the event to be reported once more.                              *)
ClientsAccepted ==
    \A c \in Clients :
        []<>(Free # {} \/ Ended)
            => ((rpc # "new" /\ \E i \in DOMAIN backlog : backlog[i] = c)
                    ~> (Ended \/ \A i \in DOMAIN backlog : backlog[i] # c))

(* stop() ends run() even when nothing happens on any socket.              *)
StopEnds == (rpc # "new" /\ running = "no") ~> Ended

(* "Active idle timer purges dead connections automatically"               *)
(* (docs/SecurityAudit.md:41): a session whose client never sends anything *)
(* does not stay forever.                                                  *)
SilentIsPurged ==
    \A f \in Fds :
        (f \in interest /\ cstate[f] = "AUTHENTICATING")
            ~> (Ended \/ cstate[f] # "AUTHENTICATING")
=============================================================================
