--------------------------- MODULE ClientHandlers ---------------------------
(***************************************************************************)
(* The servers that block in recv and send, one thread to a client at a    *)
(* time: a single request (src/phase1_tcp_server.cpp), a single client     *)
(* (src/phase2_tcp_echo_server.cpp), a detached thread per client          *)
(* (src/phase3_multithreaded_server.cpp) and the thread pool               *)
(* (src/phase4_threadpool_server.cpp).  All but the first share the echo   *)
(* loop; they differ in what accept hands its descriptor to.               *)
(*                                                                         *)
(* The pool is what TaskService promises of it: tasks begin in the order   *)
(* of enqueue, on at most PoolSize threads.  A handler is named by its     *)
(* client, not by its descriptor: close comes before active_clients--, so  *)
(* that the number may belong to another handler already.                  *)
(***************************************************************************)
EXTENDS Sockets, FiniteSets

CONSTANTS
    PoolSize,   \* THREAD_POOL_SIZE
    BufferSize  \* BUFFER_SIZE

ASSUME ClientHandlersAssumption ==
    PoolSize \in Nat \ {0} /\ BufferSize \in Nat \ {0}

VARIABLES
    design,          \* "once", "single", "threads", "pool", or "off" (another server runs)
    handler,         \* where the handler of each client is
    client_fd,       \* its descriptor
    pending,         \* received and not yet sent: length - total_sent of send_all
    queue,           \* clients enqueued in the pool
    active_clients,
    process          \* "alive", "exited", or "killed" by SIGPIPE

handlers == <<design, handler, client_fd, pending, queue, active_clients, process>>

HandlersInit ==
    /\ design \in {"once", "single", "threads", "pool", "off"}
    /\ handler = [c \in Clients |-> "none"]
    /\ client_fd = [c \in Clients |-> 0]
    /\ pending = [c \in Clients |-> 0]
    /\ queue = <<>>
    /\ active_clients = 0
    /\ process = "alive"

HGoTo(c, from, to) ==
    /\ process = "alive"
    /\ handler[c] = from
    /\ handler' = [handler EXCEPT ![c] = to]

(* Handlers that occupy a thread.                                          *)
Running == {c \in Clients : handler[c] \in {"start", "recv", "send", "reply", "close", "leave"}}

(* The servers that end with their only client.                            *)
Alone == design \in {"once", "single"}

-----------------------------------------------------------------------------
(* accept, and what becomes of the client.  When no descriptor is free the *)
(* loops of phases 3 and 4 try again, which changes nothing.               *)
Admit(f, to) ==
    /\ Accepted(f)
    /\ HGoTo(Head(backlog), "none", to)
    /\ client_fd' = [client_fd EXCEPT ![Head(backlog)] = f]
    /\ UNCHANGED <<design, pending, active_clients, process>>

(* Phases 1 and 2 accept once, and serve the client themselves.            *)
AcceptSingle(f) ==
    /\ Alone
    /\ \A c \in Clients : handler[c] = "none"
    /\ Admit(f, "recv")
    /\ UNCHANGED queue

(* There a call of accept that fails, whatever the reason, ends the        *)
(* program with status 1.                                                  *)
AcceptSingleFails ==
    /\ Alone
    /\ process = "alive"
    /\ \A c \in Clients : handler[c] = "none"
    /\ process' = "exited"
    /\ UNCHANGED <<design, handler, client_fd, pending, queue, active_clients, sockets>>

AcceptSpawn(f) ==
    /\ design = "threads"
    /\ Admit(f, "start")
    /\ UNCHANGED queue

AcceptEnqueue(f) ==
    /\ design = "pool"
    /\ Admit(f, "queued")
    /\ queue' = Append(queue, Head(backlog))

(* Faulty variant: one worker too few.                                     *)
DequeueOffByOne(c) ==
    /\ queue # <<>> /\ c = Head(queue)
    /\ Cardinality(Running) < PoolSize - 1
    /\ HGoTo(c, "queued", "start")
    /\ queue' = Tail(queue)
    /\ UNCHANGED <<design, client_fd, pending, active_clients, process, sockets>>

(* A worker of the pool takes the next task.                               *)
Dequeue(c) ==
    /\ queue # <<>> /\ c = Head(queue)
    /\ Cardinality(Running) < PoolSize
    /\ HGoTo(c, "queued", "start")
    /\ queue' = Tail(queue)
    /\ UNCHANGED <<design, client_fd, pending, active_clients, process, sockets>>

-----------------------------------------------------------------------------
(* handle_client, and the loop of phase 2.                                 *)
Enter(c) ==
    /\ HGoTo(c, "start", "recv")
    /\ active_clients' = active_clients + 1
    /\ UNCHANGED <<design, client_fd, pending, queue, process, sockets>>

(* What was received is echoed, unless it begins with "quit" or "exit";    *)
(* phase 1 sends an answer of its own.                                     *)
HandlerRecv(c) ==
    LET d == sock[client_fd[c]]
    IN  /\ handler[c] = "recv"
        /\ \E n \in 1 .. BufferSize :
              /\ RecvData(d, n, BufferSize)
              /\ \/ /\ design # "once"
                    /\ HGoTo(c, "recv", "send") /\ pending' = [pending EXCEPT ![c] = n]
                 \/ /\ design # "once"
                    /\ HGoTo(c, "recv", "close") /\ UNCHANGED pending
                 \/ /\ design = "once"
                    /\ HGoTo(c, "recv", "reply") /\ UNCHANGED pending
        /\ UNCHANGED <<design, client_fd, queue, active_clients, process>>
        /\ UNCHANGED <<peer, backlog, sock, written, echoed>>

HandlerRecvEnds(c) ==
    LET d == sock[client_fd[c]]
    IN  /\ HGoTo(c, "recv", "close")
        /\ RecvEof(d) \/ RecvError(d)
        /\ UNCHANGED <<design, client_fd, pending, queue, active_clients, process, sockets>>

(* Faulty variant: a partial send is taken for the whole.                  *)
HandlerSendOnce(c) ==
    LET d == sock[client_fd[c]]
    IN  /\ handler[c] = "send"
        /\ peer[d] # "reset"
        /\ \E k \in 1 .. pending[c] :
              /\ echoed' = [echoed EXCEPT ![d] = @ + k]
              /\ pending' = [pending EXCEPT ![c] = 0]
              /\ HGoTo(c, "send", "recv")
        /\ UNCHANGED <<design, client_fd, queue, active_clients, process>>
        /\ UNCHANGED <<peer, backlog, sock, written, unread>>

(* One round of send_all.                                                  *)
HandlerSend(c) ==
    LET d == sock[client_fd[c]]
    IN  /\ handler[c] = "send"
        /\ peer[d] # "reset"
        /\ \E k \in 1 .. pending[c] :
              /\ echoed' = [echoed EXCEPT ![d] = @ + k]
              /\ pending' = [pending EXCEPT ![c] = @ - k]
              /\ HGoTo(c, "send", IF k = pending[c] THEN "recv" ELSE "send")
        /\ UNCHANGED <<design, client_fd, queue, active_clients, process>>
        /\ UNCHANGED <<peer, backlog, sock, written, unread>>

(* send fails after a reset, or raises SIGPIPE.                            *)
HandlerSendFails(c) ==
    /\ handler[c] = "send"
    /\ SendBroken(sock[client_fd[c]])
    /\ \/ HGoTo(c, "send", "close") /\ UNCHANGED process
       \/ HGoTo(c, "send", "send") /\ process' = "killed"
    /\ UNCHANGED <<design, client_fd, pending, queue, active_clients, sockets>>

(* The one send of phase 1, whose result is only reported.                 *)
HandlerReply(c) ==
    /\ HGoTo(c, "reply", "close")
    /\ \/ UNCHANGED process
       \/ SendBroken(sock[client_fd[c]]) /\ process' = "killed"
    /\ UNCHANGED <<design, client_fd, pending, queue, active_clients, sockets>>

(* Faulty variant: a handler closes its socket twice.                      *)
HandlerCloseTwice(c) ==
    /\ ~ Alone
    /\ HGoTo(c, "close", "leave") \/ HGoTo(c, "close", "close")
    /\ sock[client_fd[c]] # None
    /\ Close(client_fd[c])
    /\ pending' = [pending EXCEPT ![c] = 0]
    /\ UNCHANGED <<design, client_fd, queue, active_clients, process>>
    /\ UNCHANGED <<backlog, written, unread, echoed>>

HandlerClose(c) ==
    /\ ~ Alone
    /\ HGoTo(c, "close", "leave")
    /\ Close(client_fd[c])
    /\ pending' = [pending EXCEPT ![c] = 0]
    /\ UNCHANGED <<design, client_fd, queue, active_clients, process>>
    /\ UNCHANGED <<backlog, written, unread, echoed>>

(* Faulty variant: active_clients-- is not one atomic step.                *)
LeaveLost(c) ==
    /\ HGoTo(c, "leave", "done")
    /\ active_clients' \in {active_clients, active_clients - 1}
    /\ UNCHANGED <<design, client_fd, pending, queue, process, sockets>>

Leave(c) ==
    /\ HGoTo(c, "leave", "done")
    /\ active_clients' = active_clients - 1
    /\ UNCHANGED <<design, client_fd, pending, queue, process, sockets>>

(* Phases 1 and 2 close both sockets and end.                              *)
SingleExit(c) ==
    /\ Alone
    /\ HGoTo(c, "close", "done")
    /\ Close(client_fd[c])
    /\ pending' = [pending EXCEPT ![c] = 0]
    /\ process' = "exited"
    /\ UNCHANGED <<design, client_fd, queue, active_clients>>
    /\ UNCHANGED <<backlog, written, unread, echoed>>

AcceptStep ==
    \E f \in Fds : AcceptSingle(f) \/ AcceptSpawn(f) \/ AcceptEnqueue(f)

HandlerStep(c) ==
    \/ Dequeue(c) \/ Enter(c)
    \/ HandlerRecv(c) \/ HandlerRecvEnds(c) \/ HandlerSend(c) \/ HandlerSendFails(c)
    \/ HandlerReply(c) \/ HandlerClose(c) \/ Leave(c) \/ SingleExit(c)

HandlersNext == AcceptStep \/ AcceptSingleFails \/ \E c \in Clients : HandlerStep(c)

-----------------------------------------------------------------------------
(* Properties.                                                             *)
(* A handler only ever touches the socket of its own client: although      *)
(* descriptors are reused at once after close, none that still has a recv, *)
(* send or close to come has lost its descriptor to another.               *)
OwnSocket ==
    \A c \in Clients :
        handler[c] \in {"queued", "start", "recv", "send", "reply", "close"} => sock[client_fd[c]] = c

(* "robust full writes" (phase 2 line 12): between two rounds of the loop  *)
(* everything received was sent back, once, whatever send accepted.        *)
EchoedInFull ==
    \A c \in Clients :
        handler[c] \in {"queued", "start", "recv", "send"} =>
            echoed[c] + pending[c] + unread[c] = written[c]

(* active_clients ("track active client connections safely across          *)
(* threads", phase 3 line 14) counts the running handlers, so that it is   *)
(* back at 0 when they have gone, and the pool never runs more than it has *)
(* workers.                                                                *)
ActiveCount ==
    /\ active_clients = Cardinality({c \in Running : ~ Alone /\ handler[c] # "start"})
    /\ design = "pool" => Cardinality(Running) <= PoolSize

(* Who leaves is noticed and closed.  With a thread per client, whatever   *)
(* the others do.  The pool is only this good when clients do not stay,    *)
(* since a silent client keeps a worker: there once all that were accepted *)
(* so far have gone, whoever connects later.                               *)
LeaversServed ==
    \A c \in Clients :
        (/\ handler[c] # "none" /\ peer[c] \in {"eof", "reset"}
         /\ design = "pool" => \A d \in Clients : handler[d] # "none" => peer[d] # "open")
            ~> (handler[c] = "done" \/ process # "alive")
=============================================================================
