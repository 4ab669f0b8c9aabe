--------------------------- MODULE ServersProofs ---------------------------
(***************************************************************************)
(* Proofs about the echo servers of phases 1 to 4 and 6 to 8, for any      *)
(* number of clients (infinitely many, too), descriptors, workers, rounds  *)
(* and failing calls, and any buffer and batch size.                       *)
(*                                                                         *)
(* The invariant has three parts: what holds of the sockets whoever uses   *)
(* them, what the blocking handlers add, what the event loops add.  Only   *)
(* one server runs, so that a step of one leaves nothing to show for the   *)
(* other.                                                                  *)
(***************************************************************************)
EXTENDS Servers, FiniteSetTheorems, TLAPS

-----------------------------------------------------------------------------
(* The sockets.  A descriptor belongs to a connected client that has left  *)
(* the accept queue, and to no other descriptor's client; what nobody has  *)
(* accepted yet is unread and unanswered.                                  *)
Connected(c) == peer[c] \in {"open", "eof", "reset"}

Waiting(c) == \E i \in DOMAIN backlog : backlog[i] = c

SocketTypes ==
    /\ peer \in [Clients -> {"new", "open", "eof", "reset", "done"}]
    /\ backlog \in Seq(Clients)
    /\ sock \in [Fds -> Clients \union {None}]
    /\ written \in [Clients -> Nat]
    /\ unread \in [Clients -> Nat]
    /\ echoed \in [Clients -> Nat]

Lines ==
    /\ \A f \in Fds, c \in Clients : sock[f] = c => Connected(c) /\ ~ Waiting(c)
    /\ \A f, g \in Fds, c \in Clients : sock[f] = c /\ sock[g] = c => f = g
    /\ \A c \in Clients : Waiting(c) => Connected(c)
    /\ \A i, j \in DOMAIN backlog : backlog[i] = backlog[j] => i = j

Untouched ==
    \A c \in Clients :
        peer[c] = "new" \/ Waiting(c) => unread[c] = written[c] /\ echoed[c] = 0

SocketInv == SocketTypes /\ Lines /\ Untouched

(* The handlers.  Until it closes, a handler has its client's descriptor;  *)
(* between two rounds of send_all nothing is pending; the handlers that    *)
(* are counted are finitely many even if the clients are not.              *)
HandlerTypes ==
    /\ design \in {"once", "single", "threads", "pool", "off"}
    /\ handler \in [Clients -> {"none", "queued", "start", "recv", "send", "reply",
                                "close", "leave", "done"}]
    /\ client_fd \in [Clients -> Nat]
    /\ pending \in [Clients -> Nat]

Holds ==
    \A c \in Clients :
        handler[c] \in {"queued", "start", "recv", "send", "reply", "close"} =>
            client_fd[c] \in Fds /\ sock[client_fd[c]] = c

NothingPending ==
    \A c \in Clients : handler[c] \in {"none", "queued", "start", "recv"} => pending[c] = 0

Modes ==
    /\ design = "off" => \A c \in Clients : handler[c] = "none"
    /\ Alone => \A c \in Clients : handler[c] \notin {"queued", "start", "leave"}

Counts == IsFiniteSet(Running) /\ ActiveCount

HandlerInv == HandlerTypes /\ Holds /\ NothingPending /\ EchoedInFull /\ Modes /\ Counts

(* The loops.  Only the epoll servers have events.                         *)
LoopTypes ==
    /\ loop \in {"poll", "epoll", "reactor", "off"}
    /\ client_fds \in Seq(Fds)
    /\ interest \subseteq AllFds
    /\ event \in [AllFds -> {"none", "in", "hup"}]
    /\ reported \in [AllFds -> Clients \union {None}]
    /\ faults \in Nat

NoEvents == loop \notin {"epoll", "reactor"} => \A f \in AllFds : event[f] = "none"

LoopInv == LoopTypes /\ NoEvents /\ NoOrphan /\ EventFresh

OneRuns == (design = "off") # (loop = "off")

ServersInv == SocketInv /\ HandlerInv /\ LoopInv /\ OneRuns

-----------------------------------------------------------------------------
(* A client joins the accept queue at its end.                             *)
LEMMA BacklogPush ==
    ASSUME NEW q \in Seq(Clients), NEW c \in Clients
    PROVE  /\ Append(q, c) \in Seq(Clients)
           /\ DOMAIN Append(q, c) = DOMAIN q \union {Len(q) + 1}
           /\ Len(q) + 1 \notin DOMAIN q
           /\ \A i \in DOMAIN q : Append(q, c)[i] = q[i]
           /\ Append(q, c)[Len(q) + 1] = c
OBVIOUS

(* accept takes the client at its head; the others move up.                *)
LEMMA BacklogPop ==
    ASSUME NEW q \in Seq(Clients), q # <<>>
    PROVE  /\ Head(q) \in Clients /\ Tail(q) \in Seq(Clients)
           /\ 1 \in DOMAIN q /\ Head(q) = q[1]
           /\ \A i \in DOMAIN Tail(q) : i \in Nat /\ i + 1 \in DOMAIN q /\ i + 1 # 1 /\ Tail(q)[i] = q[i + 1]
OBVIOUS

(* Steps that leave the sockets alone.                                     *)
LEMMA SocketsStay ==
    ASSUME SocketInv, UNCHANGED sockets
    PROVE  SocketInv'
<1>1. /\ SocketTypes /\ Lines /\ Untouched
      /\ UNCHANGED <<peer, backlog, sock, written, unread, echoed>>
  BY DEF SocketInv, sockets
<1>2. \A c : Waiting(c)' = Waiting(c) /\ Connected(c)' = Connected(c)
  BY <1>1 DEF Waiting, Connected
<1>3. SocketTypes'
  BY <1>1 DEF SocketTypes
<1>4. Lines'
  BY <1>1, <1>2 DEF Lines
<1>5. Untouched'
  BY <1>1, <1>2 DEF Untouched
<1> QED
  BY <1>3, <1>4, <1>5 DEF SocketInv

(* The client at the head of the queue, once it is gone from there.        *)
LEMMA PoppedSockets ==
    ASSUME SocketInv, backlog # <<>>, backlog' = Tail(backlog)
    PROVE  LET c == Head(backlog)
           IN  /\ c \in Clients /\ c # None /\ Waiting(c) /\ Connected(c)
               /\ \A f \in Fds : sock[f] # c
               /\ backlog' \in Seq(Clients)
               /\ \A d \in Clients : Waiting(d)' => Waiting(d) /\ d # c
               /\ \A i, j \in DOMAIN backlog' : backlog'[i] = backlog'[j] => i = j
<1> DEFINE c == Head(backlog)
<1>0. SocketTypes /\ Lines
  BY DEF SocketInv
<1>1. /\ c \in Clients /\ backlog' \in Seq(Clients)
      /\ 1 \in DOMAIN backlog /\ c = backlog[1]
      /\ \A i \in DOMAIN backlog' : i \in Nat /\ i + 1 \in DOMAIN backlog /\ i + 1 # 1 /\ backlog'[i] = backlog[i + 1]
  BY <1>0, BacklogPop DEF SocketTypes
<1> HIDE DEF c
<1>2. Waiting(c) /\ Connected(c) /\ c # None
  BY <1>0, <1>1, SocketsAssumption DEF Waiting, Lines
<1>3. \A f \in Fds : sock[f] # c
  BY <1>0, <1>1, <1>2 DEF Lines
<1>5. \A d \in Clients : Waiting(d)' => Waiting(d) /\ d # c
  BY <1>0, <1>1 DEF Waiting, Lines
<1>6. \A i, j \in DOMAIN backlog' : backlog'[i] = backlog'[j] => i = j
  BY <1>0, <1>1 DEF Lines
<1> QED
  BY <1>1, <1>2, <1>3, <1>5, <1>6 DEF c

(* accept: the descriptor was free, and nothing of the client was read.    *)
LEMMA AcceptedSockets ==
    ASSUME SocketInv, NEW f \in Fds, Accepted(f)
    PROVE  /\ SocketInv'
           /\ sock[f] = None /\ sock' = [sock EXCEPT ![f] = Head(backlog)]
           /\ Head(backlog) \in Clients /\ Head(backlog) # None
           /\ unread[Head(backlog)] = written[Head(backlog)] /\ echoed[Head(backlog)] = 0
           /\ UNCHANGED <<peer, written, unread, echoed>>
<1> DEFINE c == Head(backlog)
<1>0. SocketTypes /\ Lines /\ Untouched
  BY DEF SocketInv
<1>1. /\ backlog # <<>> /\ backlog' = Tail(backlog)
      /\ sock[f] = None /\ sock' = [sock EXCEPT ![f] = c]
      /\ UNCHANGED <<peer, written, unread, echoed>>
  BY DEF Accepted, Free
<1>2. /\ c \in Clients /\ c # None /\ Waiting(c) /\ Connected(c)
      /\ \A g \in Fds : sock[g] # c
      /\ backlog' \in Seq(Clients)
      /\ \A d \in Clients : Waiting(d)' => Waiting(d) /\ d # c
      /\ \A i, j \in DOMAIN backlog' : backlog'[i] = backlog'[j] => i = j
  BY <1>1, PoppedSockets
<1> HIDE DEF c
<1>3. \A g \in Fds : sock'[g] = (IF g = f THEN c ELSE sock[g]) /\ sock[g] \in Clients \union {None}
  BY <1>0, <1>1 DEF SocketTypes
<1>4. SocketTypes'
  BY <1>0, <1>1, <1>2 DEF SocketTypes
<1>5. \A d \in Clients : Connected(d)' = Connected(d)
  BY <1>1 DEF Connected
<1>6. Lines'
  <2>1. \A g \in Fds, d \in Clients : sock'[g] = d => Connected(d)' /\ ~ Waiting(d)'
    BY <1>0, <1>2, <1>3, <1>5 DEF Lines
  <2>2. \A g, h \in Fds, d \in Clients : sock'[g] = d /\ sock'[h] = d => g = h
    BY <1>0, <1>2, <1>3, SocketsAssumption DEF Lines
  <2>3. \A d \in Clients : Waiting(d)' => Connected(d)'
    BY <1>0, <1>2, <1>5 DEF Lines
  <2> QED
    BY <1>2, <2>1, <2>2, <2>3 DEF Lines
<1>7. Untouched'
  BY <1>0, <1>1, <1>2 DEF Untouched
<1>8. unread[c] = written[c] /\ echoed[c] = 0
  BY <1>0, <1>2 DEF Untouched
<1> QED
  BY <1>1, <1>2, <1>4, <1>6, <1>7, <1>8 DEF SocketInv, c

(* close: the client of the descriptor is done.                            *)
LEMMA ClosedSockets ==
    ASSUME SocketInv, NEW f \in Fds, sock[f] # None, Close(f),
           UNCHANGED <<backlog, written, unread, echoed>>
    PROVE  SocketInv'
<1> DEFINE c == sock[f]
<1>0. SocketTypes /\ Lines /\ Untouched
  BY DEF SocketInv
<1>1. sock' = [sock EXCEPT ![f] = None] /\ peer' = [peer EXCEPT ![c] = "done"]
  BY DEF Close
<1>2. c \in Clients /\ ~ Waiting(c) /\ \A g \in Fds : g # f => sock[g] # c
  BY <1>0 DEF SocketTypes, Lines
<1> HIDE DEF c
<1>3. /\ \A g \in Fds : sock'[g] = (IF g = f THEN None ELSE sock[g]) /\ sock[g] \in Clients \union {None}
      /\ \A d \in Clients : peer'[d] = IF d = c THEN "done" ELSE peer[d]
  BY <1>0, <1>1 DEF SocketTypes
<1>4. SocketTypes'
  BY <1>0, <1>1 DEF SocketTypes
<1>5. \A d : Waiting(d)' = Waiting(d)
  BY DEF Waiting
<1>6. Lines'
  <2>1. \A g \in Fds, d \in Clients : sock'[g] = d => Connected(d)' /\ ~ Waiting(d)'
    BY <1>0, <1>2, <1>3, <1>5, SocketsAssumption DEF Lines, Connected
  <2>2. \A g, h \in Fds, d \in Clients : sock'[g] = d /\ sock'[h] = d => g = h
    BY <1>0, <1>3, SocketsAssumption DEF Lines
  <2>4. \A d \in Clients : Waiting(d)' => Connected(d)'
    BY <1>0, <1>2, <1>3, <1>5 DEF Lines, Connected
  <2> QED
    BY <1>0, <2>1, <2>2, <2>4 DEF Lines
<1>7. Untouched'
  BY <1>0, <1>3, <1>5 DEF Untouched
<1> QED
  BY <1>4, <1>6, <1>7 DEF SocketInv

(* recv and send move bytes of a client that was accepted.                 *)
LEMMA MovedBytes ==
    ASSUME SocketInv, NEW f \in Fds, sock[f] # None,
           UNCHANGED <<peer, backlog, sock, written>>,
           unread' \in [Clients -> Nat], echoed' \in [Clients -> Nat],
           \A d \in Clients : d # sock[f] => unread'[d] = unread[d] /\ echoed'[d] = echoed[d]
    PROVE  SocketInv'
<1>0. SocketTypes /\ Lines /\ Untouched
  BY DEF SocketInv
<1>1. \A d : Waiting(d)' = Waiting(d) /\ Connected(d)' = Connected(d)
  BY DEF Waiting, Connected
<1>2. SocketTypes'
  BY <1>0 DEF SocketTypes
<1>3. Lines'
  BY <1>0, <1>1 DEF Lines
<1>4. Untouched'
  <2>1. PICK c \in Clients : c = sock[f]
    BY <1>0 DEF SocketTypes
  <2>2. ~ Waiting(c) /\ peer[c] # "new"
    BY <1>0, <2>1 DEF Lines, Connected
  <2> QED
    BY <1>0, <1>1, <2>1, <2>2 DEF Untouched
<1> QED
  BY <1>2, <1>3, <1>4 DEF SocketInv

(* What clients do leaves descriptors and answers alone, and adds to what  *)
(* is unread as much as to what was written.                               *)
LEMMA ClientSockets ==
    ASSUME SocketInv, NEW c \in Clients, ClientStep(c)
    PROVE  /\ SocketInv'
           /\ sock' = sock /\ echoed' = echoed
           /\ \A d \in Clients : \/ unread'[d] = unread[d] /\ written'[d] = written[d]
                                 \/ unread'[d] = unread[d] + 1 /\ written'[d] = written[d] + 1
<1>0. SocketTypes /\ Lines /\ Untouched
  BY DEF SocketInv
<1>1. CASE Connect(c)
  <2>1. /\ peer[c] = "new" /\ peer' = [peer EXCEPT ![c] = "open"]
        /\ UNCHANGED <<sock, written, unread, echoed>>
    BY <1>1 DEF Connect
  <2>2. /\ backlog' \in Seq(Clients)
        /\ DOMAIN backlog' = DOMAIN backlog \union {Len(backlog) + 1}
        /\ Len(backlog) + 1 \notin DOMAIN backlog
        /\ \A i \in DOMAIN backlog : backlog'[i] = backlog[i]
        /\ backlog'[Len(backlog) + 1] = c
    BY <1>0, <1>1, BacklogPush DEF Connect, SocketTypes
  <2>3. /\ \A d \in Clients : Waiting(d)' = (Waiting(d) \/ d = c)
        /\ \A d \in Clients : peer'[d] = IF d = c THEN "open" ELSE peer[d]
    BY <1>0, <2>1, <2>2 DEF Waiting, SocketTypes
  <2>4. ~ Connected(c) /\ ~ Waiting(c) /\ \A f \in Fds : sock[f] # c
    BY <1>0, <2>1 DEF Connected, Lines
  <2>5. SocketTypes'
    BY <1>0, <2>1, <2>2 DEF SocketTypes
  <2>6. Lines'
    <3>1. \A d \in Clients : Connected(d)' = (Connected(d) \/ d = c)
      BY <2>3 DEF Connected
    <3>2. \A i, j \in DOMAIN backlog' : backlog'[i] = backlog'[j] => i = j
      BY <1>0, <2>2, <2>4 DEF Lines, Waiting
    <3> QED
      BY <1>0, <2>1, <2>3, <2>4, <3>1, <3>2 DEF Lines
  <2>7. Untouched'
    BY <1>0, <2>1, <2>3 DEF Untouched
  <2> QED
    BY <2>1, <2>5, <2>6, <2>7 DEF SocketInv
<1>2. CASE Write(c)
  <2>1. /\ peer[c] = "open"
        /\ written' = [written EXCEPT ![c] = @ + 1] /\ unread' = [unread EXCEPT ![c] = @ + 1]
        /\ UNCHANGED <<peer, backlog, sock, echoed>>
    BY <1>2 DEF Write
  <2>2. \A d \in Clients : /\ written'[d] = IF d = c THEN written[d] + 1 ELSE written[d]
                           /\ unread'[d] = IF d = c THEN unread[d] + 1 ELSE unread[d]
    BY <1>0, <2>1 DEF SocketTypes
  <2>3. SocketTypes'
    BY <1>0, <2>1 DEF SocketTypes
  <2>4. \A d : Waiting(d)' = Waiting(d) /\ Connected(d)' = Connected(d)
    BY <2>1 DEF Waiting, Connected
  <2>5. Lines'
    BY <1>0, <2>1, <2>4 DEF Lines
  <2>6. Untouched'
    BY <1>0, <2>1, <2>2, <2>4 DEF Untouched
  <2> QED
    BY <2>1, <2>2, <2>3, <2>5, <2>6 DEF SocketInv
<1>3. CASE Shutdown(c) \/ Abort(c)
  <2>1. UNCHANGED <<backlog, sock, written, unread, echoed>>
    BY <1>3 DEF Shutdown, Abort
  <2>2. PICK p \in {"eof", "reset"} : peer' = [peer EXCEPT ![c] = p] /\ Connected(c)
    BY <1>3 DEF Shutdown, Abort, Connected
  <2>3. SocketTypes'
    BY <1>0, <2>1, <2>2 DEF SocketTypes
  <2>4. \A d \in Clients : /\ Connected(d)' = Connected(d)
                           /\ (peer'[d] = "new") = (peer[d] = "new")
    BY <1>0, <2>2 DEF SocketTypes, Connected
  <2>5. \A d : Waiting(d)' = Waiting(d)
    BY <2>1 DEF Waiting
  <2>6. Lines'
    BY <1>0, <2>1, <2>4, <2>5 DEF Lines
  <2>7. Untouched'
    BY <1>0, <2>1, <2>4, <2>5 DEF Untouched
  <2> QED
    BY <2>1, <2>3, <2>6, <2>7 DEF SocketInv
<1> QED
  BY <1>1, <1>2, <1>3 DEF ClientStep

-----------------------------------------------------------------------------
(* Handlers that occupy a thread, and those among them that active_clients *)
(* counts, after one handler has moved.                                    *)
Busy == {"start", "recv", "send", "reply", "close", "leave"}

Counted == {c \in Running : ~ Alone /\ handler[c] # "start"}

LEMMA MovedHandler ==
    ASSUME HandlerTypes, NEW c \in Clients, NEW to,
           handler' = [handler EXCEPT ![c] = to], design' = design
    PROVE  /\ Running' = IF to \in Busy THEN Running \union {c} ELSE Running \ {c}
           /\ Counted' = IF to \in Busy \ {"start"} /\ ~ Alone THEN Counted \union {c} ELSE Counted \ {c}
<1>1. \A d \in Clients : handler'[d] = IF d = c THEN to ELSE handler[d]
  BY DEF HandlerTypes
<1>2. Alone' = Alone
  BY DEF Alone
<1>3. Running' = {d \in Clients : handler'[d] \in Busy} /\ Running = {d \in Clients : handler[d] \in Busy}
  BY DEF Running, Busy
<1>4. Running' = IF to \in Busy THEN Running \union {c} ELSE Running \ {c}
  BY <1>1, <1>3
<1>5. Counted' = {d \in Running' : ~ Alone /\ handler'[d] # "start"}
  BY <1>2 DEF Counted
<1>6. Counted' = IF to \in Busy \ {"start"} /\ ~ Alone THEN Counted \union {c} ELSE Counted \ {c}
  BY <1>1, <1>3, <1>5 DEF Counted
<1> QED
  BY <1>4, <1>6

(* A handler that goes on, or ends, without being counted anew.            *)
LEMMA CountsStay ==
    ASSUME HandlerTypes, Counts, NEW c \in Clients, NEW to,
           handler' = [handler EXCEPT ![c] = to],
           UNCHANGED <<design, active_clients>>,
           \/ handler[c] \in Busy \ {"start"} /\ to \in Busy \ {"start"}
           \/ handler[c] \notin Busy /\ to \notin Busy
           \/ handler[c] \notin Busy /\ to = "start" /\ (design = "pool" => Cardinality(Running) < PoolSize)
           \/ Alone
    PROVE  Counts'
<1>0. IsFiniteSet(Running) /\ Cardinality(Running) \in Nat
  BY FS_CardinalityType DEF Counts
<1>1. /\ Running' = IF to \in Busy THEN Running \union {c} ELSE Running \ {c}
      /\ Counted' = IF to \in Busy \ {"start"} /\ ~ Alone THEN Counted \union {c} ELSE Counted \ {c}
  BY MovedHandler
<1>2. IsFiniteSet(Running')
  BY <1>0, <1>1, FS_AddElement, FS_RemoveElement
<1>3. Counted' = Counted
  <2>1. handler[c] \in Busy \ {"start"} /\ ~ Alone => c \in Counted
    BY DEF Counted, Running, Busy
  <2>2. handler[c] \notin Busy \/ Alone => c \notin Counted
    BY DEF Counted, Running, Busy
  <2> QED
    BY <1>1, <2>1, <2>2 DEF Busy
<1>4. ASSUME design = "pool" PROVE Cardinality(Running') <= PoolSize
  <2>1. ~ Alone
    BY <1>4 DEF Alone
  <2>2. CASE handler[c] \in Busy /\ to \in Busy
    <3>1. Running' = Running
      BY <1>1, <2>2 DEF Running, Busy
    <3> QED
      BY <1>4, <3>1 DEF Counts, ActiveCount
  <2>3. CASE handler[c] \notin Busy /\ to \notin Busy
    <3>1. Running' = Running
      BY <1>1, <2>3 DEF Running, Busy
    <3> QED
      BY <1>4, <3>1 DEF Counts, ActiveCount
  <2>4. CASE handler[c] \notin Busy /\ to = "start"
    <3>1. c \notin Running /\ Running' = Running \union {c} /\ Cardinality(Running) < PoolSize
      BY <1>1, <1>4, <2>1, <2>4 DEF Running, Busy
    <3>2. Cardinality(Running') = Cardinality(Running) + 1
      BY <1>0, <3>1, FS_AddElement
    <3> QED
      BY <1>0, <3>1, <3>2, ClientHandlersAssumption
  <2> QED
    BY <2>1, <2>2, <2>3, <2>4
<1>5. active_clients = Cardinality(Counted)
  BY DEF Counts, ActiveCount, Counted
<1>6. ActiveCount'
  <2>1. active_clients' = Cardinality(Counted')
    BY <1>3, <1>5
  <2> QED
    BY <1>4, <2>1 DEF ActiveCount, Counted
<1> QED
  BY <1>2, <1>6 DEF Counts

(* active_clients++ and active_clients--.                                  *)
LEMMA CountsMove ==
    ASSUME HandlerTypes, Counts, NEW c \in Clients, NEW to, ~ Alone, UNCHANGED design,
           handler' = [handler EXCEPT ![c] = to],
           \/ handler[c] = "start" /\ to = "recv" /\ active_clients' = active_clients + 1
           \/ handler[c] = "leave" /\ to = "done" /\ active_clients' = active_clients - 1
    PROVE  Counts'
<1>0. /\ IsFiniteSet(Running) /\ Cardinality(Running) \in Nat
      /\ c \in Running
  BY FS_CardinalityType DEF Counts, Running
<1>1. /\ Running' = IF to \in Busy THEN Running \union {c} ELSE Running \ {c}
      /\ Counted' = IF to \in Busy \ {"start"} THEN Counted \union {c} ELSE Counted \ {c}
  BY MovedHandler
<1>2. /\ IsFiniteSet(Counted) /\ Cardinality(Counted) \in Nat
      /\ active_clients = Cardinality(Counted)
  <2>1. Counted \subseteq Running
    BY DEF Counted
  <2>2. IsFiniteSet(Counted)
    BY <1>0, <2>1, FS_Subset
  <2> QED
    BY <2>2, FS_CardinalityType DEF Counts, ActiveCount, Counted
<1>3. IsFiniteSet(Running') /\ Cardinality(Running') <= Cardinality(Running)
  <2>1. Running' \subseteq Running
    BY <1>0, <1>1
  <2> QED
    BY <1>0, <2>1, FS_Subset
<1>4. active_clients' = Cardinality(Counted')
  <2>1. CASE handler[c] = "start" /\ to = "recv" /\ active_clients' = active_clients + 1
    <3>1. c \notin Counted /\ Counted' = Counted \union {c}
      BY <1>1, <2>1 DEF Counted, Busy
    <3> QED
      BY <1>2, <2>1, <3>1, FS_AddElement
  <2>2. CASE handler[c] = "leave" /\ to = "done" /\ active_clients' = active_clients - 1
    <3>1. c \in Counted /\ Counted' = Counted \ {c}
      BY <1>0, <1>1, <2>2 DEF Counted, Busy
    <3> QED
      BY <1>2, <2>2, <3>1, FS_RemoveElement
  <2> QED
    BY <2>1, <2>2
<1>5. design' = "pool" => Cardinality(Running') <= PoolSize
  <2>1. design = "pool" => Cardinality(Running) <= PoolSize
    BY DEF Counts, ActiveCount
  <2>2. Cardinality(Running') \in Nat
    BY <1>3, FS_CardinalityType
  <2> QED
    BY <1>0, <1>3, <2>1, <2>2, ClientHandlersAssumption
<1> QED
  BY <1>3, <1>4, <1>5 DEF Counts, ActiveCount, Counted

-----------------------------------------------------------------------------
(* Steps of the handlers.  A client is admitted with a fresh descriptor.   *)
LEMMA AdmitKeeps ==
    ASSUME SocketInv, HandlerInv, NEW f \in Fds,
           AcceptSingle(f) \/ AcceptSpawn(f) \/ AcceptEnqueue(f)
    PROVE  SocketInv' /\ HandlerInv'
<1> DEFINE c == Head(backlog)
<1>0. HandlerTypes /\ Holds /\ NothingPending /\ EchoedInFull /\ Modes /\ Counts
  BY DEF HandlerInv
<1>1. PICK to \in {"recv", "start", "queued"} :
          /\ Admit(f, to)
          /\ to = "recv" => Alone /\ \A d \in Clients : handler[d] = "none"
          /\ to = "start" => design = "threads"
          /\ to = "queued" => design = "pool"
  BY DEF AcceptSingle, AcceptSpawn, AcceptEnqueue
<1>2. /\ Accepted(f)
      /\ handler[c] = "none" /\ handler' = [handler EXCEPT ![c] = to]
      /\ client_fd' = [client_fd EXCEPT ![c] = f]
      /\ UNCHANGED <<design, pending, active_clients>>
  BY <1>1 DEF Admit, HGoTo
<1>3. /\ SocketInv'
      /\ sock[f] = None /\ sock' = [sock EXCEPT ![f] = c]
      /\ c \in Clients /\ c # None
      /\ unread[c] = written[c] /\ echoed[c] = 0
      /\ UNCHANGED <<written, unread, echoed>>
  BY <1>2, AcceptedSockets
<1>4. sock \in [Fds -> Clients \union {None}] /\ unread[c] \in Nat
  BY <1>3 DEF SocketInv, SocketTypes
<1> HIDE DEF c
<1>5. \A d \in Clients : /\ handler'[d] = IF d = c THEN to ELSE handler[d]
                         /\ client_fd'[d] = IF d = c THEN f ELSE client_fd[d]
  BY <1>0, <1>2 DEF HandlerTypes
<1>6. HandlerTypes'
  <2>1. f \in Nat
    BY SocketsAssumption
  <2> QED
    BY <1>0, <1>2, <1>3, <2>1 DEF HandlerTypes
<1>7. Holds'
  BY <1>0, <1>2, <1>3, <1>4, <1>5, SocketsAssumption DEF Holds
<1>8. pending[c] = 0 /\ NothingPending'
  BY <1>0, <1>2, <1>3, <1>5 DEF NothingPending
<1>9. EchoedInFull'
  <2>1. echoed[c] + pending[c] + unread[c] = written[c]
    BY <1>3, <1>4, <1>8
  <2> QED
    BY <1>0, <1>2, <1>3, <1>5, <2>1 DEF EchoedInFull
<1>10. Modes'
  BY <1>0, <1>1, <1>2, <1>5 DEF Modes, Alone
<1>11. Counts'
  BY <1>0, <1>1, <1>2, <1>3, CountsStay DEF Busy, Alone
<1> QED
  BY <1>0, <1>3, <1>6, <1>7, <1>8, <1>9, <1>10, <1>11 DEF HandlerInv

(* A handler goes on with the descriptor it has, or has closed it.         *)
LEMMA MoveKeeps ==
    ASSUME HandlerInv, NEW c \in Clients, handler[c] # "none",
           NEW to \in {"start", "recv", "send", "reply", "close", "leave", "done"},
           handler' = [handler EXCEPT ![c] = to],
           UNCHANGED <<design, client_fd>>,
           NEW n \in Nat, pending' = [pending EXCEPT ![c] = n],
           \A d \in Clients \ {c} : handler[d] \in {"queued", "start", "recv", "send", "reply", "close"}
                                        => sock'[client_fd[d]] = d,
           \A d \in Clients \ {c} : /\ echoed'[d] = echoed[d] /\ unread'[d] = unread[d]
                                    /\ written'[d] = written[d],
           to \in {"start", "recv", "send", "reply", "close"} =>
               /\ handler[c] \in {"queued", "start", "recv", "send", "reply", "close"}
               /\ sock'[client_fd[c]] = c,
           to \in {"start", "recv"} => n = 0,
           to \in {"start", "recv", "send"} => echoed'[c] + n + unread'[c] = written'[c],
           Alone => to \notin {"start", "leave"},
           Counts'
    PROVE  HandlerInv'
<1>0. HandlerTypes /\ Holds /\ NothingPending /\ EchoedInFull /\ Modes
  BY DEF HandlerInv
<1>1. \A d \in Clients : /\ handler'[d] = IF d = c THEN to ELSE handler[d]
                         /\ pending'[d] = IF d = c THEN n ELSE pending[d]
  BY <1>0 DEF HandlerTypes
<1>2. HandlerTypes'
  BY <1>0 DEF HandlerTypes
<1>3. Holds'
  BY <1>0, <1>1 DEF Holds
<1>4. NothingPending'
  BY <1>0, <1>1 DEF NothingPending
<1>5. EchoedInFull'
  <2>1. ASSUME NEW d \in Clients, d # c, handler'[d] \in {"queued", "start", "recv", "send"}
        PROVE  echoed'[d] + pending'[d] + unread'[d] = written'[d]
    BY <1>0, <1>1, <2>1 DEF EchoedInFull
  <2>2. ASSUME handler'[c] \in {"queued", "start", "recv", "send"}
        PROVE  echoed'[c] + pending'[c] + unread'[c] = written'[c]
    BY <1>1, <2>2
  <2> QED
    BY <2>1, <2>2 DEF EchoedInFull
<1>6. Modes'
  BY <1>0, <1>1 DEF Modes, Alone
<1> QED
  BY <1>2, <1>3, <1>4, <1>5, <1>6 DEF HandlerInv

(* The steps that change no socket.                                        *)
LEMMA QuietKeeps ==
    ASSUME SocketInv, HandlerInv, NEW c \in Clients,
           \/ Dequeue(c) \/ Enter(c) \/ HandlerRecvEnds(c)
           \/ HandlerSendFails(c) \/ HandlerReply(c) \/ Leave(c)
    PROVE  SocketInv' /\ HandlerInv'
<1>0. HandlerTypes /\ Holds /\ NothingPending /\ EchoedInFull /\ Modes /\ Counts
  BY DEF HandlerInv
<1>1. UNCHANGED <<sockets, design, client_fd, pending>>
  BY DEF Dequeue, Enter, HandlerRecvEnds, HandlerSendFails, HandlerReply, Leave
<1>2. SocketInv'
  BY <1>1, SocketsStay
<1>3. PICK to \in {"start", "recv", "send", "close", "done"} :
          /\ handler' = [handler EXCEPT ![c] = to]
          /\ \/ handler[c] = "queued" /\ to = "start" /\ Cardinality(Running) < PoolSize
                /\ UNCHANGED active_clients
             \/ handler[c] = "start" /\ to = "recv" /\ active_clients' = active_clients + 1
             \/ handler[c] \in {"recv", "send", "reply"} /\ to = "close" /\ UNCHANGED active_clients
             \/ handler[c] = "send" /\ to = "send" /\ UNCHANGED active_clients
             \/ handler[c] = "leave" /\ to = "done" /\ active_clients' = active_clients - 1
  BY DEF Dequeue, Enter, HandlerRecvEnds, HandlerSendFails, HandlerReply, Leave, HGoTo
<1>4. handler[c] \in {"queued", "start", "leave"} => ~ Alone
  BY <1>0 DEF Modes
<1>5. Counts'
  <2>1. CASE handler[c] \in {"start", "leave"}
    BY <1>0, <1>1, <1>3, <1>4, <2>1, CountsMove
  <2>2. CASE handler[c] \notin {"start", "leave"}
    BY <1>0, <1>1, <1>3, <2>2, CountsStay DEF Busy
  <2> QED
    BY <2>1, <2>2
<1>6. pending[c] \in Nat /\ pending' = [pending EXCEPT ![c] = pending[c]]
  BY <1>0, <1>1 DEF HandlerTypes
<1>7. \A d \in Clients : handler[d] \in {"queued", "start", "recv", "send", "reply", "close"}
                            => sock'[client_fd[d]] = d
  BY <1>0, <1>1 DEF Holds, sockets
<1>8. UNCHANGED <<echoed, unread, written>>
  BY <1>1 DEF sockets
<1>9. to \in {"start", "recv"} => pending[c] = 0
  BY <1>0, <1>3 DEF NothingPending
<1>10. to \in {"start", "recv", "send"} => echoed[c] + pending[c] + unread[c] = written[c]
  BY <1>0, <1>3 DEF EchoedInFull
<1>11. handler[c] # "none" /\ (Alone => to \notin {"start", "leave"})
  BY <1>3, <1>4
<1>12. to \in {"start", "recv", "send", "reply", "close"} =>
          handler[c] \in {"queued", "start", "recv", "send", "reply", "close"}
  BY <1>3
<1>13. HandlerInv'
  BY <1>1, <1>3, <1>5, <1>6, <1>7, <1>8, <1>9, <1>10, <1>11, <1>12, MoveKeeps
<1> QED
  BY <1>2, <1>13

(* recv: what is taken from the socket is pending, or is not echoed.       *)
LEMMA RecvKeeps ==
    ASSUME SocketInv, HandlerInv, NEW c \in Clients, HandlerRecv(c)
    PROVE  SocketInv' /\ HandlerInv'
<1>0. HandlerTypes /\ Holds /\ NothingPending /\ EchoedInFull /\ Modes /\ Counts
  BY DEF HandlerInv
<1>1. /\ handler[c] = "recv"
      /\ UNCHANGED <<design, client_fd, active_clients, peer, backlog, sock, written, echoed>>
  BY DEF HandlerRecv
<1>2. client_fd[c] \in Fds /\ sock[client_fd[c]] = c /\ c # None
  BY <1>0, <1>1, SocketsAssumption DEF Holds
<1>3. SocketTypes
  BY DEF SocketInv
<1>4. PICK n \in 1 .. BufferSize, to \in {"send", "close", "reply"} :
          /\ RecvData(c, n, BufferSize)
          /\ handler' = [handler EXCEPT ![c] = to]
          /\ pending' = IF to = "send" THEN [pending EXCEPT ![c] = n] ELSE pending
  BY <1>2 DEF HandlerRecv, HGoTo
<1>5. /\ unread[c] \in Nat /\ pending[c] = 0 /\ n \in Nat /\ n <= unread[c]
      /\ unread' = [unread EXCEPT ![c] = unread[c] - n]
  <2>1. unread[c] \in Nat /\ pending[c] = 0
    BY <1>0, <1>1, <1>3 DEF SocketTypes, NothingPending
  <2>2. n \in Nat /\ n <= unread[c] /\ unread' = [unread EXCEPT ![c] = unread[c] - n]
    BY <1>4, <2>1, ClientHandlersAssumption DEF RecvData
  <2> QED
    BY <2>1, <2>2
<1>6. /\ unread'[c] = unread[c] - n /\ unread[c] - n \in Nat
      /\ \A d \in Clients \ {c} : unread'[d] = unread[d]
      /\ unread' \in [Clients -> Nat]
  BY <1>3, <1>5 DEF SocketTypes
<1>7. SocketInv'
  BY <1>1, <1>2, <1>3, <1>6, MovedBytes DEF SocketTypes
<1>8. Counts'
  BY <1>0, <1>1, <1>4, CountsStay DEF Busy
<1> DEFINE m == IF to = "send" THEN n ELSE 0
<1>9. m \in Nat /\ pending' = [pending EXCEPT ![c] = m]
  BY <1>0, <1>4, <1>5 DEF HandlerTypes
<1>10. to = "send" => echoed'[c] + m + unread'[c] = written'[c]
  <2>1. echoed[c] \in Nat
    BY <1>3 DEF SocketTypes
  <2>2. echoed[c] + 0 + unread[c] = written[c]
    BY <1>0, <1>1, <1>5 DEF EchoedInFull
  <2>3. echoed[c] + n + (unread[c] - n) = written[c]
    BY <1>5, <2>1, <2>2
  <2> QED
    BY <1>1, <1>6, <2>3
<1> HIDE DEF m
<1>11. \A d \in Clients : handler[d] \in {"queued", "start", "recv", "send", "reply", "close"}
                            => sock'[client_fd[d]] = d
  BY <1>0, <1>1 DEF Holds
<1>12. /\ handler' = [handler EXCEPT ![c] = to]
       /\ to \in {"send", "reply", "close"} /\ to \notin {"start", "recv", "leave", "done"}
       /\ \A d \in Clients \ {c} : /\ echoed'[d] = echoed[d] /\ unread'[d] = unread[d]
                                   /\ written'[d] = written[d]
  BY <1>1, <1>4, <1>6
<1>13. HandlerInv'
  BY <1>1, <1>8, <1>9, <1>10, <1>11, <1>12, MoveKeeps
<1> QED
  BY <1>7, <1>13

(* A round of send_all: what is queued is no longer pending.               *)
LEMMA SendKeeps ==
    ASSUME SocketInv, HandlerInv, NEW c \in Clients, HandlerSend(c)
    PROVE  SocketInv' /\ HandlerInv'
<1>0. HandlerTypes /\ Holds /\ NothingPending /\ EchoedInFull /\ Modes /\ Counts
  BY DEF HandlerInv
<1>1. /\ handler[c] = "send"
      /\ UNCHANGED <<design, client_fd, active_clients, peer, backlog, sock, written, unread>>
  BY DEF HandlerSend
<1>2. client_fd[c] \in Fds /\ sock[client_fd[c]] = c /\ c # None
  BY <1>0, <1>1, SocketsAssumption DEF Holds
<1>3. SocketTypes
  BY DEF SocketInv
<1>4. PICK k \in 1 .. pending[c] :
          /\ echoed' = [echoed EXCEPT ![c] = @ + k]
          /\ pending' = [pending EXCEPT ![c] = @ - k]
          /\ handler' = [handler EXCEPT ![c] = IF k = pending[c] THEN "recv" ELSE "send"]
  BY <1>2 DEF HandlerSend, HGoTo
<1>5. echoed[c] \in Nat /\ pending[c] \in Nat /\ unread[c] \in Nat
  BY <1>0, <1>3 DEF HandlerTypes, SocketTypes
<1>6. /\ k \in Nat /\ pending[c] - k \in Nat
      /\ k = pending[c] => pending[c] - k = 0
      /\ (echoed[c] + k) + (pending[c] - k) + unread[c] = echoed[c] + pending[c] + unread[c]
  BY <1>4, <1>5
<1>7. /\ echoed'[c] = echoed[c] + k
      /\ \A d \in Clients \ {c} : echoed'[d] = echoed[d]
      /\ echoed' \in [Clients -> Nat]
  BY <1>3, <1>4, <1>5, <1>6 DEF SocketTypes
<1>8. SocketInv'
  BY <1>1, <1>2, <1>3, <1>7, MovedBytes DEF SocketTypes
<1>9. PICK to \in {"recv", "send"} :
          handler' = [handler EXCEPT ![c] = to] /\ (to = "recv" => pending[c] - k = 0)
  BY <1>4, <1>6
<1>10. Counts'
  BY <1>0, <1>1, <1>9, CountsStay DEF Busy
<1>11. echoed'[c] + (pending[c] - k) + unread'[c] = written'[c]
  <2>1. echoed[c] + pending[c] + unread[c] = written[c]
    BY <1>0, <1>1 DEF EchoedInFull
  <2> QED
    BY <1>1, <1>6, <1>7, <2>1
<1>12. \A d \in Clients : handler[d] \in {"queued", "start", "recv", "send", "reply", "close"}
                            => sock'[client_fd[d]] = d
  BY <1>0, <1>1 DEF Holds
<1>13. pending' = [pending EXCEPT ![c] = pending[c] - k]
  BY <1>4
<1>14. HandlerInv'
  BY <1>1, <1>6, <1>7, <1>9, <1>10, <1>11, <1>12, <1>13, MoveKeeps
<1> QED
  BY <1>8, <1>14

(* close: nobody else has the descriptor.                                  *)
LEMMA CloseKeeps ==
    ASSUME SocketInv, HandlerInv, NEW c \in Clients, HandlerClose(c) \/ SingleExit(c)
    PROVE  SocketInv' /\ HandlerInv'
<1>0. HandlerTypes /\ Holds /\ NothingPending /\ EchoedInFull /\ Modes /\ Counts
  BY DEF HandlerInv
<1>1. /\ handler[c] = "close" /\ Close(client_fd[c])
      /\ pending' = [pending EXCEPT ![c] = 0]
      /\ UNCHANGED <<design, client_fd, active_clients, backlog, written, unread, echoed>>
  BY DEF HandlerClose, SingleExit, HGoTo
<1>2. PICK to \in {"leave", "done"} :
          /\ handler' = [handler EXCEPT ![c] = to]
          /\ to = "leave" => ~ Alone
          /\ to = "done" => Alone
  <2>1. CASE HandlerClose(c)
    BY <2>1 DEF HandlerClose, HGoTo
  <2>2. CASE SingleExit(c)
    BY <2>2 DEF SingleExit, HGoTo
  <2> QED
    BY <2>1, <2>2
<1>3. client_fd[c] \in Fds /\ sock[client_fd[c]] = c /\ c # None
  BY <1>0, <1>1, SocketsAssumption DEF Holds
<1>4. SocketInv'
  BY <1>1, <1>3, ClosedSockets
<1>5. Counts'
  BY <1>0, <1>1, <1>2, CountsStay DEF Busy
<1>6. \A d \in Clients \ {c} : handler[d] \in {"queued", "start", "recv", "send", "reply", "close"}
                            => sock'[client_fd[d]] = d
  BY <1>0, <1>1, <1>3 DEF Holds, Close, SocketInv, SocketTypes
<1>7. HandlerInv'
  BY <1>1, <1>2, <1>5, <1>6, MoveKeeps
<1> QED
  BY <1>4, <1>7

-----------------------------------------------------------------------------
(* The loops.  The elements of a concatenation.                            *)
LEMMA ConcatElements ==
    ASSUME NEW S, NEW a \in Seq(S), NEW b \in Seq(S)
    PROVE  /\ a \o b \in Seq(S) /\ Len(a \o b) = Len(a) + Len(b)
           /\ \A j \in 1 .. Len(a) + Len(b) :
                 (a \o b)[j] = IF j <= Len(a) THEN a[j] ELSE b[j - Len(a)]
OBVIOUS

(* erase takes one descriptor out of the vector and keeps the others, each *)
(* once.                                                                   *)
LEMMA EraseSeq ==
    ASSUME NEW s \in Seq(Fds), NEW i \in DOMAIN s, IsInjective(s)
    PROVE  /\ Erase(s, i) \in Seq(Fds)
           /\ Range(Erase(s, i)) = Range(s) \ {s[i]}
           /\ IsInjective(Erase(s, i))
<1> DEFINE t == Erase(s, i)
           a == SubSeq(s, 1, i - 1)
           b == SubSeq(s, i + 1, Len(s))
           old(j) == IF j < i THEN j ELSE j + 1
<1>1. DOMAIN s = 1 .. Len(s) /\ Len(s) \in Nat /\ i \in 1 .. Len(s)
  OBVIOUS
<1>2. /\ a \in Seq(Fds) /\ Len(a) = i - 1
      /\ \A j \in 1 .. i - 1 : a[j] = s[j]
  BY <1>1
<1>3. /\ b \in Seq(Fds) /\ Len(b) = Len(s) - i
      /\ \A j \in 1 .. Len(s) - i : b[j] = s[i + j]
  BY <1>1
<1> HIDE DEF a, b
<1>4. /\ t \in Seq(Fds) /\ Len(t) = Len(s) - 1
      /\ \A j \in 1 .. Len(s) - 1 : t[j] = s[old(j)]
  <2>0. t = a \o b
    BY DEF Erase, a, b
  <2> HIDE DEF t
  <2>1. t \in Seq(Fds) /\ Len(t) = Len(a) + Len(b)
    BY <1>2, <1>3, <2>0, ConcatElements
  <2>2. Len(t) = Len(s) - 1
    BY <1>1, <1>2, <1>3, <2>1
  <2>3. \A j \in 1 .. Len(a) + Len(b) : t[j] = IF j <= Len(a) THEN a[j] ELSE b[j - Len(a)]
    BY <1>2, <1>3, <2>0, ConcatElements
  <2>4. ASSUME NEW j \in 1 .. Len(s) - 1, j < i PROVE t[j] = s[j]
    <3>1. j \in 1 .. Len(a) + Len(b) /\ j <= Len(a) /\ j \in 1 .. i - 1
      BY <1>1, <1>2, <1>3, <2>4
    <3> QED
      BY <1>2, <2>3, <3>1
  <2>5. ASSUME NEW j \in 1 .. Len(s) - 1, ~ (j < i) PROVE t[j] = s[j + 1]
    <3>1. /\ j \in 1 .. Len(a) + Len(b) /\ ~ (j <= Len(a))
          /\ j - Len(a) \in 1 .. Len(s) - i /\ i + (j - Len(a)) = j + 1
      BY <1>1, <1>2, <1>3, <2>5
    <3> QED
      BY <1>3, <2>3, <3>1
  <2> QED
    BY <2>1, <2>2, <2>4, <2>5
<1>5. DOMAIN t = 1 .. Len(s) - 1
  BY <1>4
<1> HIDE DEF t
<1>6. \A j \in 1 .. Len(s) - 1 : old(j) \in 1 .. Len(s) /\ old(j) # i
  BY <1>1
<1>7. \A k \in 1 .. Len(s) : k # i => \E j \in 1 .. Len(s) - 1 : old(j) = k
  <2> TAKE k \in 1 .. Len(s)
  <2>1. CASE k < i
    BY <1>1, <2>1
  <2>2. CASE k > i
    <3>1. k - 1 \in 1 .. Len(s) - 1 /\ old(k - 1) = k
      BY <1>1, <2>2
    <3> QED
      BY <3>1
  <2> QED
    BY <1>1, <2>1, <2>2
<1>8. \A j, k \in 1 .. Len(s) - 1 : old(j) = old(k) => j = k
  BY <1>1
<1> HIDE DEF old
<1>9. Range(t) = Range(s) \ {s[i]}
  <2>1. \A x \in Range(t) : x \in Range(s) /\ x # s[i]
    <3> TAKE x \in Range(t)
    <3>1. PICK j \in 1 .. Len(s) - 1 : x = t[j]
      BY <1>5 DEF Range
    <3>2. x = s[old(j)] /\ old(j) \in DOMAIN s /\ old(j) # i
      BY <1>1, <1>4, <1>6, <3>1
    <3> QED
      BY <3>2 DEF Range, IsInjective
  <2>2. \A x \in Range(s) : x # s[i] => x \in Range(t)
    <3> TAKE x \in Range(s)
    <3> HAVE x # s[i]
    <3>1. PICK k \in 1 .. Len(s) : x = s[k]
      BY <1>1 DEF Range
    <3>2. PICK j \in 1 .. Len(s) - 1 : old(j) = k
      BY <1>7, <3>1
    <3> QED
      BY <1>4, <1>5, <3>1, <3>2 DEF Range
  <2> QED
    BY <2>1, <2>2
<1>10. IsInjective(t)
  BY <1>1, <1>4, <1>5, <1>6, <1>8, SMTT(15) DEF IsInjective
<1> QED
  BY <1>4, <1>9, <1>10 DEF t

(* push_back of a descriptor that was not there.                           *)
LEMMA PushSeq ==
    ASSUME NEW s \in Seq(Fds), NEW f \in Fds, IsInjective(s), f \notin Range(s)
    PROVE  /\ Append(s, f) \in Seq(Fds)
           /\ Range(Append(s, f)) = Range(s) \union {f}
           /\ IsInjective(Append(s, f))
<1>1. /\ Append(s, f) \in Seq(Fds)
      /\ DOMAIN Append(s, f) = DOMAIN s \union {Len(s) + 1}
      /\ Len(s) + 1 \notin DOMAIN s
      /\ \A i \in DOMAIN s : Append(s, f)[i] = s[i]
      /\ Append(s, f)[Len(s) + 1] = f
  OBVIOUS
<1>2. Range(Append(s, f)) = Range(s) \union {f}
  BY <1>1 DEF Range
<1>3. IsInjective(Append(s, f))
  BY <1>1 DEF IsInjective, Range
<1> QED
  BY <1>1, <1>2, <1>3

(* What accept and close do to the open descriptors.                       *)
LEMMA OpenAfter ==
    ASSUME SocketInv, NEW f \in Fds
    PROVE  /\ \A c \in Clients : sock' = [sock EXCEPT ![f] = c] => Open' = Open \union {f}
           /\ sock' = [sock EXCEPT ![f] = None] => Open' = Open \ {f}
           /\ sock' = sock => Open' = Open
<1>1. sock \in [Fds -> Clients \union {None}]
  BY DEF SocketInv, SocketTypes
<1> QED
  BY <1>1, SocketsAssumption DEF Open

(* A step of phase 6: it has no events, and the vector and the open        *)
(* sockets stay the same set.                                              *)
LEMMA PollFrame ==
    ASSUME LoopInv, loop = "poll", loop' = "poll",
           client_fds' \in Seq(Fds), UNCHANGED <<interest, event, reported, faults>>,
           ~ LoopEnded' => Open' = Range(client_fds') /\ IsInjective(client_fds'),
           rpc' = "stopped" => Open' = {}
    PROVE  LoopInv'
<1>1. LoopTypes /\ NoEvents
  BY DEF LoopInv
<1>2. LoopTypes'
  BY <1>1 DEF LoopTypes
<1>3. NoEvents' /\ EventFresh'
  BY <1>1 DEF NoEvents, EventFresh, AllFds
<1>4. NoOrphan'
  BY DEF NoOrphan
<1> QED
  BY <1>2, <1>3, <1>4 DEF LoopInv

(* recv and send move bytes of the descriptor's client only.               *)
LEMMA EchoKeeps ==
    ASSUME SocketInv, NEW f \in Fds, sock[f] # None, Echo(f)
    PROVE  SocketInv' /\ sock' = sock /\ (rpc' = rpc \/ rpc' = "killed")
<1> DEFINE c == sock[f]
<1>1. SocketTypes /\ c \in Clients
  BY DEF SocketInv, SocketTypes
<1> HIDE DEF c
<1>2. PICK n \in 1 .. RecvSize :
          /\ RecvData(c, n, RecvSize)
          /\ SendQueues(c, n) \/ UNCHANGED echoed
          /\ rpc' = rpc \/ rpc' = "killed"
  BY DEF Echo, c
<1>3. UNCHANGED <<peer, backlog, sock, written>>
  BY DEF Echo
<1>4. unread[c] \in Nat /\ echoed[c] \in Nat
  BY <1>1 DEF SocketTypes
<1>5. n \in Nat /\ n <= unread[c] /\ unread' = [unread EXCEPT ![c] = unread[c] - n]
  BY <1>2, <1>4, EventLoopsAssumption DEF RecvData
<1>6. unread' \in [Clients -> Nat] /\ \A d \in Clients : d # c => unread'[d] = unread[d]
  BY <1>1, <1>4, <1>5 DEF SocketTypes
<1>7. echoed' \in [Clients -> Nat] /\ \A d \in Clients : d # c => echoed'[d] = echoed[d]
  <2>1. CASE UNCHANGED echoed
    BY <1>1, <2>1 DEF SocketTypes
  <2>2. CASE SendQueues(c, n)
    <3>1. PICK k \in 0 .. n : echoed' = [echoed EXCEPT ![c] = @ + k]
      BY <2>2 DEF SendQueues
    <3>2. k \in Nat /\ echoed[c] + k \in Nat
      BY <1>4, <1>5, <3>1
    <3> QED
      BY <1>1, <3>1, <3>2 DEF SocketTypes
  <2> QED
    BY <1>2, <2>1, <2>2
<1>8. SocketInv'
  BY <1>3, <1>6, <1>7, MovedBytes DEF c
<1> QED
  BY <1>2, <1>3, <1>8

(* Phase 6.                                                                *)
LEMMA PollKeeps ==
    ASSUME SocketInv, LoopInv, PollStep
    PROVE  SocketInv' /\ LoopInv' /\ loop = "poll" /\ loop' = "poll"
<1>0. LoopTypes /\ NoOrphan
  BY DEF LoopInv
<1>1. /\ loop = "poll" /\ loop' = "poll" /\ ~ LoopEnded
      /\ UNCHANGED <<interest, event, reported, faults>>
  BY DEF PollStep, PollAccept, PollEcho, PollAgain, PollClose, PollSleep, PollExit, reactor
<1>2. /\ client_fds \in Seq(Fds) /\ sock \in [Fds -> Clients \union {None}]
      /\ Open = Range(client_fds) /\ IsInjective(client_fds)
  BY <1>0, <1>1 DEF LoopTypes, NoOrphan, SocketInv, SocketTypes
<1>3. it \in DOMAIN client_fds => client_fds[it] \in Fds /\ sock[client_fds[it]] # None
  BY <1>2 DEF Open, Range
<1>4. rpc' = rpc => rpc' # "stopped"
  BY <1>1 DEF LoopEnded
<1>5. CASE UNCHANGED <<sockets, client_fds, rpc>>
  <2>1. SocketInv'
    BY <1>5, SocketsStay
  <2>2. Open' = Open
    BY <1>5 DEF sockets, Open
  <2>3. LoopInv'
    BY <1>1, <1>2, <1>4, <1>5, <2>2, PollFrame
  <2> QED
    BY <1>1, <2>1, <2>3
<1>6. ASSUME NEW f \in Fds, Accepted(f), client_fds' = Append(client_fds, f), UNCHANGED rpc
      PROVE  SocketInv' /\ LoopInv'
  <2>1. /\ SocketInv' /\ sock[f] = None /\ Head(backlog) \in Clients
        /\ sock' = [sock EXCEPT ![f] = Head(backlog)]
    BY <1>6, AcceptedSockets
  <2>2. Open' = Open \union {f} /\ f \notin Open
    BY <2>1, OpenAfter DEF Open
  <2>3. LoopInv'
    BY <1>1, <1>2, <1>4, <1>6, <2>2, PushSeq, PollFrame
  <2> QED
    BY <2>1, <2>3
<1>7. CASE PollEcho
  <2>1. Echo(client_fds[it]) /\ it \in DOMAIN client_fds /\ UNCHANGED client_fds
    BY <1>7 DEF PollEcho
  <2>2. SocketInv' /\ sock' = sock /\ (rpc' = rpc \/ rpc' = "killed")
    BY <1>3, <2>1, EchoKeeps
  <2>3. Open' = Open
    BY <2>2 DEF Open
  <2>4. LoopInv'
    BY <1>1, <1>2, <1>4, <2>1, <2>2, <2>3, PollFrame
  <2> QED
    BY <1>1, <2>2, <2>4
<1>8. CASE PollClose
  <2>1. /\ Close(client_fds[it]) /\ it \in DOMAIN client_fds
        /\ client_fds' = Erase(client_fds, it)
        /\ UNCHANGED <<rpc, backlog, written, unread, echoed>>
    BY <1>8 DEF PollClose, reactor
  <2>2. SocketInv'
    BY <1>3, <2>1, ClosedSockets
  <2>3. Open' = Open \ {client_fds[it]}
    BY <1>3, <2>1, OpenAfter DEF Close
  <2>4. LoopInv'
    BY <1>1, <1>2, <1>4, <2>1, <2>3, EraseSeq, PollFrame
  <2> QED
    BY <1>1, <2>2, <2>4
<1>9. CASE PollExit
  <2>1. /\ sock' = [f \in Fds |-> IF f \in Range(client_fds) THEN None ELSE sock[f]]
        /\ peer' = [c \in Clients |->
                      IF \E f \in Range(client_fds) : sock[f] = c THEN "done" ELSE peer[c]]
        /\ rpc' = "stopped"
        /\ UNCHANGED <<client_fds, backlog, written, unread, echoed>>
    BY <1>9 DEF PollExit
  <2>2. \A f \in Fds : sock'[f] = None
    BY <1>2, <2>1 DEF Open
  <2>3. /\ SocketTypes /\ Lines /\ Untouched
        /\ \A c \in Clients : Waiting(c)' = Waiting(c)
    BY <2>1 DEF SocketInv, Waiting
  <2>4. \A c \in Clients : peer'[c] = peer[c] \/ (peer'[c] = "done" /\ ~ Waiting(c))
    <3> TAKE c \in Clients
    <3>1. CASE \E f \in Range(client_fds) : sock[f] = c
      <4>1. PICK f \in Fds : sock[f] = c
        BY <1>2, <3>1 DEF Open
      <4> QED
        BY <2>1, <2>3, <4>1, <3>1 DEF Lines
    <3> QED
      BY <2>1, <3>1
  <2>5. SocketTypes'
    BY <2>1, <2>3 DEF SocketTypes
  <2>6. Lines'
    <3>1. \A c \in Clients : Waiting(c)' => Connected(c)'
      BY <2>3, <2>4 DEF Lines, Connected
    <3> QED
      BY <2>1, <2>2, <2>3, <3>1, SocketsAssumption DEF Lines
  <2>7. Untouched'
    BY <2>1, <2>3, <2>4 DEF Untouched
  <2>8. Open' = {} /\ LoopEnded'
    BY <2>1, <2>2 DEF Open, LoopEnded
  <2>9. LoopInv'
    BY <1>1, <1>2, <2>1, <2>8, PollFrame
  <2> QED
    BY <1>1, <2>5, <2>6, <2>7, <2>9 DEF SocketInv
<1>10. CASE PollAccept
  BY <1>1, <1>5, <1>6, <1>10 DEF PollAccept, reactor, sockets
<1>11. CASE PollAgain \/ PollSleep
  BY <1>5, <1>11 DEF PollAgain, PollSleep, reactor
<1> QED
  BY <1>7, <1>8, <1>9, <1>10, <1>11 DEF PollStep

-----------------------------------------------------------------------------
(* A step of the epoll servers: the epoll instance has the open sockets,   *)
(* and an event still has its client.                                      *)
LEMMA EpollFrame ==
    ASSUME LoopInv, loop \in {"epoll", "reactor"}, loop' = loop,
           client_fds' = client_fds, interest' \subseteq AllFds,
           event' \in [AllFds -> {"none", "in", "hup"}],
           reported' \in [AllFds -> Clients \union {None}], faults' \in Nat,
           loop = "epoll" => interest' = Open' \union {Listen},
           interest' \subseteq Open' \union {Listen},
           faults' = 0 => interest' = Open' \union {Listen},
           EventFresh'
    PROVE  LoopInv'
<1>1. LoopTypes'
  BY DEF LoopInv, LoopTypes
<1>2. NoEvents' /\ NoOrphan'
  BY DEF NoEvents, NoOrphan
<1> QED
  BY <1>1, <1>2 DEF LoopInv

(* What is known when an event is taken, and after.                        *)
LEMMA Taken ==
    ASSUME LoopInv, NEW f \in AllFds, Take(f)
    PROVE  /\ loop \in {"epoll", "reactor"}
           /\ interest \subseteq Open \union {Listen} /\ interest \subseteq AllFds
           /\ loop = "epoll" => interest = Open \union {Listen}
           /\ faults \in Nat /\ (faults = 0 => interest = Open \union {Listen})
           /\ f \in Fds => f \in interest /\ f \in Open
           /\ event' \in [AllFds -> {"none", "in", "hup"}]
           /\ reported' \in [AllFds -> Clients \union {None}]
           /\ \A g \in Fds : event'[g] # "none" =>
                 g # f /\ g \in interest /\ sock[g] = reported'[g]
<1>1. LoopTypes /\ NoEvents /\ NoOrphan /\ EventFresh
  BY DEF LoopInv
<1>2. event[f] # "none" /\ event' = [event EXCEPT ![f] = "none"] /\ reported' = [reported EXCEPT ![f] = None]
  BY DEF Take
<1>3. loop \in {"epoll", "reactor"}
  BY <1>1, <1>2 DEF NoEvents
<1>4. /\ interest \subseteq Open \union {Listen} /\ interest \subseteq AllFds
      /\ loop = "epoll" => interest = Open \union {Listen}
      /\ faults \in Nat /\ (faults = 0 => interest = Open \union {Listen})
  BY <1>1, <1>3 DEF LoopTypes, NoOrphan
<1>5. f \in Fds => f \in interest /\ f \in Open
  BY <1>1, <1>2, <1>4, EpollReactorAssumption DEF EventFresh
<1>6. /\ event' \in [AllFds -> {"none", "in", "hup"}]
      /\ reported' \in [AllFds -> Clients \union {None}]
  BY <1>1, <1>2 DEF LoopTypes
<1>7. \A g \in Fds : event'[g] # "none" => g # f /\ g \in interest /\ sock[g] = reported'[g]
  BY <1>1, <1>2 DEF LoopTypes, EventFresh, AllFds
<1> QED
  BY <1>3, <1>4, <1>5, <1>6, <1>7

(* The listening socket's event: a descriptor that accept returns is not   *)
(* one with an event left in the batch.                                    *)
LEMMA EventAcceptKeeps ==
    ASSUME SocketInv, LoopInv,
           \/ EventAcceptNothing
           \/ \E f \in Fds : EventAccept(f) \/ EventAcceptForgets(f) \/ EventAcceptRefuses(f)
    PROVE  SocketInv' /\ LoopInv'
<1>1. Take(Listen) /\ UNCHANGED <<loop, client_fds>> /\ Listen \in AllFds
  BY DEF EventAcceptNothing, EventAccept, EventAcceptForgets, EventAcceptRefuses, AllFds
<1>2. /\ loop \in {"epoll", "reactor"}
      /\ interest \subseteq Open \union {Listen} /\ interest \subseteq AllFds
      /\ loop = "epoll" => interest = Open \union {Listen}
      /\ faults \in Nat /\ (faults = 0 => interest = Open \union {Listen})
      /\ event' \in [AllFds -> {"none", "in", "hup"}]
      /\ reported' \in [AllFds -> Clients \union {None}]
      /\ \A g \in Fds : event'[g] # "none" => g \in interest /\ sock[g] = reported'[g]
  BY <1>1, Taken
<1>3. CASE EventAcceptNothing
  <2>1. UNCHANGED <<interest, faults, sockets>>
    BY <1>3 DEF EventAcceptNothing
  <2>2. SocketInv'
    BY <2>1, SocketsStay
  <2>3. Open' = Open /\ EventFresh'
    BY <1>2, <2>1 DEF sockets, Open, EventFresh
  <2>4. LoopInv'
    BY <1>1, <1>2, <2>1, <2>3, EpollFrame
  <2> QED
    BY <2>2, <2>4
<1>4. ASSUME NEW f \in Fds, EventAccept(f) \/ EventAcceptForgets(f)
      PROVE  SocketInv' /\ LoopInv'
  <2>1. /\ Accepted(f)
        /\ \/ interest' = interest \union {f} /\ UNCHANGED faults
           \/ interest' = interest /\ faults' = faults + 1 /\ loop = "reactor"
    BY <1>4 DEF EventAccept, EventAcceptForgets, AddSocket, AddSocketFails
  <2>2. /\ SocketInv' /\ sock[f] = None /\ Head(backlog) \in Clients
        /\ sock' = [sock EXCEPT ![f] = Head(backlog)]
    BY <2>1, AcceptedSockets
  <2>3. Open' = Open \union {f} /\ f \notin Open
    BY <2>2, OpenAfter DEF Open
  <2>4. f \notin interest /\ f \in AllFds
    BY <1>2, <2>3, EpollReactorAssumption DEF AllFds
  <2>5. sock \in [Fds -> Clients \union {None}]
    BY DEF SocketInv, SocketTypes
  <2>6. EventFresh'
    BY <1>2, <2>1, <2>2, <2>4, <2>5 DEF EventFresh
  <2>7. faults' \in Nat /\ (faults' = 0 => faults = 0 /\ interest' = interest \union {f})
    BY <1>2, <2>1
  <2>8. /\ interest' \subseteq AllFds
        /\ loop = "epoll" => interest' = Open' \union {Listen}
        /\ interest' \subseteq Open' \union {Listen}
        /\ faults' = 0 => interest' = Open' \union {Listen}
    BY <1>2, <2>1, <2>3, <2>4, <2>7
  <2>9. LoopInv'
    BY <1>1, <1>2, <2>6, <2>7, <2>8, EpollFrame
  <2> QED
    BY <2>2, <2>9
<1>5. ASSUME NEW f \in Fds, EventAcceptRefuses(f)
      PROVE  SocketInv' /\ LoopInv'
  <2> DEFINE c == Head(backlog)
  <2>1. /\ backlog # <<>> /\ backlog' = Tail(backlog)
        /\ peer' = [peer EXCEPT ![c] = "done"]
        /\ faults' = faults + 1
        /\ UNCHANGED <<interest, sock, written, unread, echoed>>
    BY <1>5 DEF EventAcceptRefuses, AddSocketFails
  <2>2. /\ c \in Clients
        /\ \A g \in Fds : sock[g] # c
        /\ backlog' \in Seq(Clients)
        /\ \A d \in Clients : Waiting(d)' => Waiting(d) /\ d # c
        /\ \A i, j \in DOMAIN backlog' : backlog'[i] = backlog'[j] => i = j
    BY <2>1, PoppedSockets
  <2>3. SocketTypes /\ Lines /\ Untouched
    BY DEF SocketInv
  <2> HIDE DEF c
  <2>4. \A d \in Clients : peer'[d] = IF d = c THEN "done" ELSE peer[d]
    BY <2>1, <2>2, <2>3 DEF SocketTypes
  <2>5. SocketTypes'
    BY <2>1, <2>2, <2>3 DEF SocketTypes
  <2>6. Lines'
    <3>1. \A d \in Clients : d # c => Connected(d)' = Connected(d)
      BY <2>4 DEF Connected
    <3> QED
      BY <2>1, <2>2, <2>3, <3>1 DEF Lines
  <2>7. Untouched'
    <3>1. \A d \in Clients : peer'[d] = "new" => peer[d] = "new"
      BY <2>4
    <3> QED
      BY <2>1, <2>2, <2>3, <3>1 DEF Untouched
  <2>8. Open' = Open /\ EventFresh' /\ faults' \in Nat /\ faults' # 0
    BY <1>2, <2>1, SMTT(15) DEF Open, EventFresh
  <2>9. LoopInv'
    BY <1>1, <1>2, <2>1, <2>8, EpollFrame
  <2> QED
    BY <2>5, <2>6, <2>7, <2>9 DEF SocketInv
<1> QED
  BY <1>3, <1>4, <1>5

(* A client's event: its socket is the one it was reported for.            *)
LEMMA EventClientKeeps ==
    ASSUME SocketInv, LoopInv, NEW f \in Fds, EventEcho(f) \/ EventClose(f)
    PROVE  SocketInv' /\ LoopInv'
<1>1. Take(f) /\ UNCHANGED <<loop, client_fds, faults>> /\ f \in AllFds
  BY DEF EventEcho, EventClose, RemoveSocket, AllFds
<1>2. /\ loop \in {"epoll", "reactor"}
      /\ interest \subseteq Open \union {Listen} /\ interest \subseteq AllFds
      /\ loop = "epoll" => interest = Open \union {Listen}
      /\ faults \in Nat /\ (faults = 0 => interest = Open \union {Listen})
      /\ f \in interest /\ f \in Open
      /\ event' \in [AllFds -> {"none", "in", "hup"}]
      /\ reported' \in [AllFds -> Clients \union {None}]
      /\ \A g \in Fds : event'[g] # "none" => g # f /\ g \in interest /\ sock[g] = reported'[g]
  BY <1>1, Taken
<1>3. sock[f] # None /\ sock \in [Fds -> Clients \union {None}]
  BY <1>2 DEF Open, SocketInv, SocketTypes
<1>4. CASE EventEcho(f)
  <2>1. Echo(f) /\ UNCHANGED interest
    BY <1>4 DEF EventEcho
  <2>2. SocketInv' /\ sock' = sock
    BY <1>3, <2>1, EchoKeeps
  <2>3. Open' = Open /\ EventFresh'
    BY <1>2, <2>1, <2>2 DEF Open, EventFresh
  <2>4. LoopInv'
    BY <1>1, <1>2, <2>1, <2>3, EpollFrame
  <2> QED
    BY <2>2, <2>4
<1>5. CASE EventClose(f)
  <2>1. Close(f) /\ interest' = interest \ {f} /\ UNCHANGED <<backlog, written, unread, echoed>>
    BY <1>5 DEF EventClose, RemoveSocket
  <2>2. SocketInv'
    BY <1>3, <2>1, ClosedSockets
  <2>3. Open' = Open \ {f} /\ sock' = [sock EXCEPT ![f] = None]
    BY <2>1, OpenAfter DEF Close
  <2>4. EventFresh'
    BY <1>2, <1>3, <2>1, <2>3 DEF EventFresh
  <2>5. f # Listen
    BY EpollReactorAssumption
  <2>6. LoopInv'
    <3>1. /\ interest' \subseteq AllFds
          /\ loop = "epoll" => interest' = Open' \union {Listen}
          /\ interest' \subseteq Open' \union {Listen}
          /\ faults' = 0 => interest' = Open' \union {Listen}
      BY <1>1, <1>2, <2>1, <2>3, <2>5
    <3> QED
      BY <1>1, <1>2, <2>4, <3>1, EpollFrame
  <2> QED
    BY <2>2, <2>6
<1> QED
  BY <1>4, <1>5

(* The steps around the batch: epoll_wait reports open sockets only.       *)
LEMMA WaitKeeps ==
    ASSUME SocketInv, LoopInv, LoopRun \/ ReactorLoop \/ EpollLoop \/ LoopFault
    PROVE  SocketInv' /\ LoopInv' /\ loop \in {"epoll", "reactor"} /\ loop' = loop
<1>0. LoopTypes /\ NoOrphan /\ EventFresh /\ sock \in [Fds -> Clients \union {None}]
  BY DEF LoopInv, SocketInv, SocketTypes
<1>1. /\ loop \in {"epoll", "reactor"}
      /\ UNCHANGED <<loop, client_fds, interest, sockets>>
      /\ faults' \in {faults, faults + 1}
      /\ EpollWait \/ UNCHANGED <<event, reported>>
  BY DEF LoopRun, ReactorLoop, EpollLoop, LoopFault, Run, LoopStep, LoopTest, EpollWait,
         WaitTimeout, EndOfBatch, WaitFails
<1>2. SocketInv'
  BY <1>1, SocketsStay
<1>3. Open' = Open /\ sock' = sock /\ faults' \in Nat /\ (faults' = 0 => faults = 0)
  BY <1>0, <1>1 DEF sockets, Open, LoopTypes
<1>4. /\ event' \in [AllFds -> {"none", "in", "hup"}]
      /\ reported' \in [AllFds -> Clients \union {None}]
      /\ EventFresh'
  <2>1. CASE UNCHANGED <<event, reported>>
    BY <1>0, <1>1, <1>3, <2>1 DEF LoopTypes, EventFresh
  <2>2. CASE EpollWait
    <3>1. PICK batch \in SUBSET interest :
              /\ event' = [f \in AllFds |-> IF f \in batch THEN EventOf(f) ELSE "none"]
              /\ reported' = [f \in AllFds |-> IF f \in batch \ {Listen} THEN sock[f] ELSE None]
      BY <2>2 DEF EpollWait
    <3>2. \A f : EventOf(f) \in {"in", "hup"}
      BY DEF EventOf
    <3>3. \A f \in AllFds : f \in batch \ {Listen} => f \in Fds
      BY DEF AllFds
    <3>4. event' \in [AllFds -> {"none", "in", "hup"}]
      BY <3>1, <3>2
    <3>5. reported' \in [AllFds -> Clients \union {None}]
      BY <1>0, <3>1, <3>3
    <3>6. EventFresh'
      BY <1>1, <1>3, <3>1, EpollReactorAssumption DEF EventFresh, AllFds
    <3> QED
      BY <3>4, <3>5, <3>6
  <2> QED
    BY <1>1, <2>1, <2>2
<1>5. LoopInv'
  BY <1>0, <1>1, <1>3, <1>4, EpollFrame DEF LoopTypes, NoOrphan
<1> QED
  BY <1>1, <1>2, <1>5

-----------------------------------------------------------------------------
(* The server that does not run, and a step of a client.                   *)
LEMMA IdleHandlers ==
    ASSUME HandlerInv, design = "off", UNCHANGED handlers
    PROVE  HandlerInv'
<1>1. /\ HandlerTypes /\ Modes /\ Counts /\ NothingPending
      /\ UNCHANGED <<design, handler, client_fd, pending, active_clients>>
  BY DEF HandlerInv, handlers
<1>2. \A c \in Clients : handler'[c] = "none"
  BY <1>1 DEF Modes
<1>3. HandlerTypes' /\ Modes' /\ NothingPending'
  BY <1>1 DEF HandlerTypes, Modes, NothingPending, Alone
<1>4. Holds' /\ EchoedInFull'
  BY <1>2 DEF Holds, EchoedInFull
<1>5. Counts'
  BY <1>1 DEF Counts, ActiveCount, Running, Alone
<1> QED
  BY <1>3, <1>4, <1>5 DEF HandlerInv

LEMMA IdleLoops ==
    ASSUME LoopInv, loop = "off", UNCHANGED loops
    PROVE  LoopInv'
<1>1. /\ LoopTypes /\ NoEvents
      /\ UNCHANGED <<loop, client_fds, interest, event, reported, faults>>
  BY DEF LoopInv, loops, reactor
<1>2. LoopTypes' /\ NoEvents'
  BY <1>1 DEF LoopTypes, NoEvents
<1>3. NoOrphan' /\ EventFresh'
  BY <1>1 DEF NoOrphan, EventFresh, NoEvents, AllFds
<1> QED
  BY <1>2, <1>3 DEF LoopInv

LEMMA ClientKeeps ==
    ASSUME SocketInv, HandlerInv, LoopInv, NEW c \in Clients, ClientStep(c),
           UNCHANGED <<handlers, loops>>
    PROVE  SocketInv' /\ HandlerInv' /\ LoopInv'
<1>1. /\ SocketInv' /\ UNCHANGED <<sock, echoed>>
      /\ \A d \in Clients : \/ unread'[d] = unread[d] /\ written'[d] = written[d]
                            \/ unread'[d] = unread[d] + 1 /\ written'[d] = written[d] + 1
  BY ClientSockets
<1>2. /\ UNCHANGED <<design, handler, client_fd, pending, active_clients>>
      /\ UNCHANGED <<loop, client_fds, interest, event, reported, faults, rpc>>
  BY DEF handlers, loops, reactor
<1>3. /\ HandlerTypes /\ Holds /\ NothingPending /\ EchoedInFull /\ Modes /\ Counts
      /\ SocketTypes
  BY DEF HandlerInv, SocketInv
<1>4. HandlerTypes' /\ Modes' /\ NothingPending' /\ Holds'
  BY <1>1, <1>2, <1>3 DEF HandlerTypes, Modes, NothingPending, Alone, Holds
<1>5. Counts'
  BY <1>2, <1>3 DEF Counts, ActiveCount, Running, Alone
<1>6. EchoedInFull'
  <2>1. ASSUME NEW d \in Clients, handler[d] \in {"queued", "start", "recv", "send"}
        PROVE  echoed'[d] + pending'[d] + unread'[d] = written'[d]
    <3>1. echoed[d] \in Nat /\ pending[d] \in Nat /\ unread[d] \in Nat
      BY <1>3 DEF HandlerTypes, SocketTypes
    <3>2. echoed[d] + pending[d] + unread[d] = written[d]
      BY <1>3, <2>1 DEF EchoedInFull
    <3>3. \A i, j, k \in Nat : i + j + (k + 1) = (i + j + k) + 1
      OBVIOUS
    <3>4. echoed[d] + pending[d] + (unread[d] + 1) = written[d] + 1
      BY <3>1, <3>2, <3>3
    <3> QED
      BY <1>1, <1>2, <3>2, <3>4
  <2> QED
    BY <1>2, <2>1 DEF EchoedInFull
<1>7. LoopInv'
  <2>1. LoopTypes' /\ NoEvents'
    BY <1>2 DEF LoopInv, LoopTypes, NoEvents
  <2>2. NoOrphan' /\ EventFresh'
    BY <1>1, <1>2 DEF LoopInv, NoOrphan, EventFresh, Open, LoopEnded
  <2> QED
    BY <2>1, <2>2 DEF LoopInv
<1> QED
  BY <1>1, <1>4, <1>5, <1>6, <1>7 DEF HandlerInv

-----------------------------------------------------------------------------
LEMMA ServersStart == Init => ServersInv
<1> SUFFICES ASSUME Init PROVE ServersInv
  OBVIOUS
<1>1. SocketInv
  <2>1. SocketTypes
    BY DEF Init, SocketsInit, SocketTypes
  <2>2. backlog = <<>> /\ \A c : ~ Waiting(c)
    BY DEF Init, SocketsInit, Waiting
  <2>3. Lines /\ Untouched
    BY <2>2, SocketsAssumption DEF Init, SocketsInit, Lines, Untouched
  <2> QED
    BY <2>1, <2>3 DEF SocketInv
<1>2. HandlerInv
  <2>1. /\ HandlerTypes /\ Holds /\ NothingPending /\ EchoedInFull /\ Modes
        /\ active_clients = 0
    BY DEF Init, HandlersInit, HandlerTypes, Holds, NothingPending, EchoedInFull, Modes
  <2>2. Running = {} /\ {c \in Running : ~ Alone /\ handler[c] # "start"} = {}
    BY DEF Init, HandlersInit, Running
  <2>3. IsFiniteSet(Running) /\ Cardinality(Running) = 0
    BY <2>2, FS_EmptySet
  <2>4. Counts
    BY <2>1, <2>2, <2>3, ClientHandlersAssumption DEF Counts, ActiveCount
  <2> QED
    BY <2>1, <2>4 DEF HandlerInv
<1>3. LoopInv
  <2>1. LoopTypes /\ NoEvents
    BY DEF Init, LoopsInit, ReactorInit, LoopTypes, NoEvents, AllFds
  <2>2. Open = {} /\ EventFresh
    BY DEF Init, SocketsInit, LoopsInit, ReactorInit, Open, EventFresh, AllFds
  <2>3. Range(client_fds) = {} /\ IsInjective(client_fds) /\ interest = {Listen} /\ rpc = "new"
    BY DEF Init, LoopsInit, ReactorInit, Range, IsInjective
  <2> QED
    BY <2>1, <2>2, <2>3 DEF LoopInv, NoOrphan, LoopEnded
<1> QED
  BY <1>1, <1>2, <1>3 DEF ServersInv, OneRuns, Init

(* What no handler sees leaves the handlers' part of the invariant: a      *)
(* process that ends because accept fails, and a stuttering step.          *)
LEMMA HandlersStay ==
    ASSUME HandlerInv,
           UNCHANGED <<design, handler, client_fd, pending, active_clients, sock, echoed, unread, written>>
    PROVE  HandlerInv'
<1>1. HandlerTypes' /\ Holds' /\ NothingPending' /\ EchoedInFull' /\ Modes'
  BY DEF HandlerInv, HandlerTypes, Holds, NothingPending, EchoedInFull, Modes, Alone
<1>2. Counts'
  BY DEF HandlerInv, Counts, ActiveCount, Running, Alone
<1> QED
  BY <1>1, <1>2 DEF HandlerInv

LEMMA ServersStep == ServersInv /\ [Next]_vars => ServersInv'
<1> SUFFICES ASSUME ServersInv, [Next]_vars PROVE ServersInv'
  OBVIOUS
<1>0. SocketInv /\ HandlerInv /\ LoopInv /\ OneRuns /\ HandlerTypes /\ Modes
  BY DEF ServersInv, HandlerInv
<1>1. CASE HandlersNext /\ UNCHANGED loops
  <2>1. SocketInv' /\ HandlerInv' /\ design # "off" /\ design' = design
    <3>1. CASE AcceptStep
      <4>1. PICK f \in Fds : AcceptSingle(f) \/ AcceptSpawn(f) \/ AcceptEnqueue(f)
        BY <3>1 DEF AcceptStep
      <4>2. design # "off" /\ design' = design
        BY <4>1 DEF AcceptSingle, AcceptSpawn, AcceptEnqueue, Alone, Admit
      <4> QED
        BY <1>0, <4>1, <4>2, AdmitKeeps
    <3>2. ASSUME NEW c \in Clients, HandlerStep(c)
          PROVE  SocketInv' /\ HandlerInv' /\ design # "off" /\ design' = design
      <4>1. handler[c] # "none" /\ design' = design
        BY <3>2 DEF HandlerStep, Dequeue, Enter, HandlerRecv, HandlerRecvEnds, HandlerSend,
                    HandlerSendFails, HandlerReply, HandlerClose, Leave, SingleExit, HGoTo
      <4>2. design # "off"
        BY <1>0, <4>1 DEF Modes
      <4>3. SocketInv' /\ HandlerInv'
        BY <1>0, <3>2, QuietKeeps, RecvKeeps, SendKeeps, CloseKeeps DEF HandlerStep
      <4> QED
        BY <4>1, <4>2, <4>3
    <3>3. CASE AcceptSingleFails
      <4>1. design # "off" /\ design' = design
        BY <3>3 DEF AcceptSingleFails, Alone
      <4>2. SocketInv'
        BY <1>0, <3>3, SocketsStay DEF AcceptSingleFails
      <4>3. HandlerInv'
        BY <1>0, <3>3, HandlersStay DEF AcceptSingleFails, sockets
      <4> QED
        BY <4>1, <4>2, <4>3
    <3> QED
      BY <1>1, <3>1, <3>2, <3>3 DEF HandlersNext
  <2>2. loop = "off" /\ loop' = loop
    BY <1>0, <1>1, <2>1 DEF OneRuns, loops
  <2>3. LoopInv'
    BY <1>0, <1>1, <2>2, IdleLoops
  <2> QED
    BY <1>0, <2>1, <2>2, <2>3 DEF ServersInv, OneRuns
<1>2. CASE (LoopRun \/ LoopsStep \/ LoopFault) /\ UNCHANGED handlers
  <2>1. SocketInv' /\ LoopInv' /\ loop # "off" /\ loop' = loop
    <3>1. CASE PollStep
      BY <1>0, <3>1, PollKeeps
    <3>2. CASE LoopRun \/ ReactorLoop \/ EpollLoop \/ LoopFault
      BY <1>0, <3>2, WaitKeeps
    <3>3. CASE EventStep
      <4>1. PICK f \in AllFds : Take(f) /\ loop' = loop
        BY <3>3 DEF EventStep, EventAcceptNothing, EventAccept, EventAcceptForgets,
                    EventAcceptRefuses, EventEcho, EventClose, AllFds
      <4>2. loop # "off"
        BY <1>0, <4>1, Taken
      <4>3. SocketInv' /\ LoopInv'
        BY <1>0, <3>3, EventAcceptKeeps, EventClientKeeps DEF EventStep
      <4> QED
        BY <4>1, <4>2, <4>3
    <3> QED
      BY <1>2, <3>1, <3>2, <3>3 DEF LoopsStep
  <2>2. design = "off" /\ design' = design
    BY <1>0, <1>2, <2>1 DEF OneRuns, handlers
  <2>3. HandlerInv'
    BY <1>0, <1>2, <2>2, IdleHandlers
  <2> QED
    BY <1>0, <2>1, <2>2, <2>3 DEF ServersInv, OneRuns
<1>3. CASE \E c \in Clients : ClientStep(c) /\ ~ ServerEnded /\ UNCHANGED <<handlers, loops>>
  <2>1. SocketInv' /\ HandlerInv' /\ LoopInv' /\ UNCHANGED <<handlers, loops>>
    BY <1>0, <1>3, ClientKeeps
  <2> QED
    BY <1>0, <2>1 DEF ServersInv, OneRuns, handlers, loops
<1>4. CASE UNCHANGED vars
  <2>1. UNCHANGED <<sockets, handlers, loops>>
    BY <1>4 DEF vars
  <2>2. SocketInv'
    BY <1>0, <2>1, SocketsStay
  <2>3. HandlerInv'
    BY <1>0, <2>1, HandlersStay DEF handlers, sockets
  <2>4. LoopInv'
    BY <1>0, <2>1 DEF sockets, loops, reactor, LoopInv, LoopTypes, NoEvents, NoOrphan, EventFresh, Open, LoopEnded
  <2> QED
    BY <1>0, <2>1, <2>2, <2>3, <2>4 DEF ServersInv, OneRuns, handlers, loops
<1> QED
  BY <1>1, <1>2, <1>3, <1>4 DEF Next

(* The invariant of the echo servers: sockets, handlers and loops fit      *)
(* together after every step of accept, handlers, loops and clients.       *)
THEOREM ServersInvariant == Spec => []ServersInv
<1> QED
  BY ServersStart, ServersStep, PTL DEF Spec

(* No handler of phases 1 to 4 touches another client's socket, although   *)
(* descriptors are reused as soon as they are closed.                      *)
THEOREM HandlersOwnSockets == Spec => []OwnSocket
<1>1. ServersInv => OwnSocket
  BY DEF ServersInv, HandlerInv, Holds, OwnSocket
<1> QED
  BY <1>1, ServersInvariant, PTL

(* Whatever send accepts at a time, send_all leaves nothing out and sends  *)
(* nothing twice.                                                          *)
THEOREM HandlersEchoInFull == Spec => []EchoedInFull
<1>1. ServersInv => EchoedInFull
  BY DEF ServersInv, HandlerInv
<1> QED
  BY <1>1, ServersInvariant, PTL

(* active_clients counts the handlers between its ++ and its --, and the   *)
(* pool never runs more handlers than it has workers.                      *)
THEOREM HandlersCounted == Spec => []ActiveCount
<1>1. ServersInv => ActiveCount
  BY DEF ServersInv, HandlerInv, Counts
<1> QED
  BY <1>1, ServersInvariant, PTL

(* The vector of phase 6 and the epoll instances of phases 7 and 8 have    *)
(* the open sockets, but for those add_socket failed for in phase 8.       *)
THEOREM LoopsKnowSockets == Spec => []NoOrphan
<1>1. ServersInv => NoOrphan
  BY DEF ServersInv, LoopInv
<1> QED
  BY <1>1, ServersInvariant, PTL

(* No event of a batch is handled for a socket closed or reused since      *)
(* epoll_wait returned.                                                    *)
THEOREM LoopEventsFresh == Spec => []EventFresh
<1>1. ServersInv => EventFresh
  BY DEF ServersInv, LoopInv
<1> QED
  BY <1>1, ServersInvariant, PTL
=============================================================================
