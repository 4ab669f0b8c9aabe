------------------------------ MODULE Sockets ------------------------------
(***************************************************************************)
(* The kernel's side of the TCP servers, as far as the programs can see    *)
(* it: clients that connect, write, shut down or abort whenever they like, *)
(* the accept queue of the listening socket, and the table of descriptors, *)
(* of which accept takes the lowest free one.  Nothing here is code of the *)
(* repository; it is what the calls of the socket interface do.            *)
(***************************************************************************)
EXTENDS Integers, Sequences

CONSTANTS
    Clients,
    Fds,       \* descriptors the process can still open (a small limit of open files)
    None,
    MaxBytes   \* bound: bytes written by one client

ASSUME SocketsAssumption ==
    /\ Fds \subseteq Nat
    /\ None \notin Clients
    /\ MaxBytes \in Nat

VARIABLES
    peer,     \* what each client did last: "new", "open", "eof" (FIN), "reset", "done"
    backlog,  \* connections waiting for accept
    sock,     \* the client at the other end of each descriptor, None if it is closed
    written,  \* bytes each client has written
    unread,   \* bytes of each client that the server has not received
    echoed    \* bytes that send has queued for each client

sockets == <<peer, backlog, sock, written, unread, echoed>>

SocketsInit ==
    /\ peer = [c \in Clients |-> "new"]
    /\ backlog = <<>>
    /\ sock = [f \in Fds |-> None]
    /\ written = [c \in Clients |-> 0]
    /\ unread = [c \in Clients |-> 0]
    /\ echoed = [c \in Clients |-> 0]

-----------------------------------------------------------------------------
(* What clients do.                                                        *)
Connect(c) ==
    /\ peer[c] = "new"
    /\ peer' = [peer EXCEPT ![c] = "open"]
    /\ backlog' = Append(backlog, c)
    /\ UNCHANGED <<sock, written, unread, echoed>>

Write(c) ==
    /\ peer[c] = "open" /\ written[c] < MaxBytes
    /\ written' = [written EXCEPT ![c] = @ + 1]
    /\ unread' = [unread EXCEPT ![c] = @ + 1]
    /\ UNCHANGED <<peer, backlog, sock, echoed>>

(* FIN: the client sends no more, but still reads.                         *)
Shutdown(c) ==
    /\ peer[c] = "open"
    /\ peer' = [peer EXCEPT ![c] = "eof"]
    /\ UNCHANGED <<backlog, sock, written, unread, echoed>>

(* RST: an abort, or the answer to data that was sent to a closed socket.  *)
Abort(c) ==
    /\ peer[c] \in {"open", "eof"}
    /\ peer' = [peer EXCEPT ![c] = "reset"]
    /\ UNCHANGED <<backlog, sock, written, unread, echoed>>

ClientStep(c) == Connect(c) \/ Write(c) \/ Shutdown(c) \/ Abort(c)

-----------------------------------------------------------------------------
(* The calls of the server.                                                *)
Free == {f \in Fds : sock[f] = None}

(* accept takes the oldest connection and the lowest free descriptor; with *)
(* no descriptor left it fails (EMFILE).                                   *)
Accepted(f) ==
    /\ backlog # <<>>
    /\ f \in Free /\ \A g \in Free : f <= g
    /\ sock' = [sock EXCEPT ![f] = Head(backlog)]
    /\ backlog' = Tail(backlog)
    /\ UNCHANGED <<peer, written, unread, echoed>>

AcceptError == backlog = <<>> \/ Free = {}

(* recv(fd, buffer, size): n bytes, end of file, an error, or EAGAIN.      *)
RecvData(c, n, size) ==
    /\ unread[c] > 0
    /\ n = IF unread[c] <= size THEN unread[c] ELSE size
    /\ unread' = [unread EXCEPT ![c] = @ - n]

RecvEof(c)   == unread[c] = 0 /\ peer[c] = "eof"
RecvError(c) == unread[c] = 0 /\ peer[c] = "reset"
RecvAgain(c) == unread[c] = 0 /\ peer[c] = "open"

(* send on a non-blocking socket queues what there is room for.            *)
SendQueues(c, n) ==
    /\ peer[c] # "reset"
    /\ \E k \in 0 .. n : echoed' = [echoed EXCEPT ![c] = @ + k]

(* After a reset it fails, or raises SIGPIPE.                              *)
SendBroken(c) == peer[c] = "reset"

Close(f) ==
    /\ sock' = [sock EXCEPT ![f] = None]
    /\ peer' = [peer EXCEPT ![sock[f]] = "done"]

SocketsTypeOK ==
    /\ peer \in [Clients -> {"new", "open", "eof", "reset", "done"}]
    /\ backlog \in Seq(Clients)
    /\ sock \in [Fds -> Clients \union {None}]
    /\ written \in [Clients -> 0 .. MaxBytes]
    /\ unread \in [Clients -> 0 .. MaxBytes]
    /\ echoed \in [Clients -> 0 .. MaxBytes]
=============================================================================
