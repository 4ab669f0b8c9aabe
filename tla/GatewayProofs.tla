--------------------------- MODULE GatewayProofs ---------------------------
(***************************************************************************)
(* Proofs about Gateway, for any number of clients and descriptors, any    *)
(* buffer size and any batch size.                                         *)
(***************************************************************************)
EXTENDS Gateway, TLAPS

-----------------------------------------------------------------------------
(* The accounts of a connection begin before it is accepted, so their      *)
(* invariant must speak about clients that are new or wait in the accept   *)
(* queue: nothing was received from them yet.  Only a client that is       *)
(* connected has a descriptor, or a place (and one place) in the queue.    *)
Connected(c) == peer[c] \in {"open", "eof", "reset"}

Queued(c) == \E i \in DOMAIN backlog : backlog[i] = c

Flow ==
    /\ \A c \in Clients : unread[c] <= written[c]
    /\ \A c \in Clients : peer[c] = "new" => written[c] = 0
    /\ \A c \in Clients :
          peer[c] = "new" \/ Queued(c) => unread[c] = written[c] /\ echoed[c] = 0
    /\ \A i \in DOMAIN backlog : Connected(backlog[i])
    /\ \A f \in Fds : sock[f] # None => Connected(sock[f])
    /\ \A i, j \in DOMAIN backlog : backlog[i] = backlog[j] => i = j

GatewayInv ==
    /\ TypeOK
    /\ TablesAgree
    /\ BatchFresh
    /\ OneSocketPerClient
    /\ EchoAccounting
    /\ Flow

(* The invariant holds when the server starts.                             *)
LEMMA GatewayInit == Init => GatewayInv
<1> SUFFICES ASSUME Init PROVE GatewayInv
  OBVIOUS
<1> USE SocketsAssumption, EpollReactorAssumption, GatewayAssumption DEF Init, SocketsInit, ReactorInit, ConnectionsInit, AllFds
<1>1. TypeOK
  BY DEF TypeOK, SocketsTypeOK, ReactorTypeOK, ConnectionsTypeOK, ConnectionStates
<1>2. Managed = {}
  BY DEF Managed
<1>3. TablesAgree /\ BatchFresh /\ OneSocketPerClient /\ EchoAccounting
  BY <1>2 DEF TablesAgree, BatchFresh, OneSocketPerClient, EchoAccounting
<1>4. Flow
  BY DEF Flow, Queued, Connected
<1> QED
  BY <1>1, <1>3, <1>4 DEF GatewayInv

(* A client joins the accept queue at its end.                             *)
LEMMA QueuePush ==
    ASSUME NEW S, NEW q \in Seq(S), NEW e \in S
    PROVE  /\ Append(q, e) \in Seq(S)
           /\ DOMAIN Append(q, e) = DOMAIN q \union {Len(q) + 1}
           /\ Len(q) + 1 \notin DOMAIN q
           /\ \A i \in DOMAIN q : Append(q, e)[i] = q[i]
           /\ Append(q, e)[Len(q) + 1] = e
OBVIOUS

(* accept takes the client at its head; the others move up.                *)
LEMMA QueuePop ==
    ASSUME NEW S, NEW q \in Seq(S), q # <<>>
    PROVE  /\ Head(q) \in S /\ Tail(q) \in Seq(S)
           /\ 1 \in DOMAIN q /\ Head(q) = q[1]
           /\ \A i \in DOMAIN Tail(q) : i \in Nat /\ i + 1 \in DOMAIN q /\ i + 1 # 1 /\ Tail(q)[i] = q[i + 1]
OBVIOUS

(* A step that leaves sockets, sessions and registrations alone.           *)
LEMMA QuietStep ==
    ASSUME GatewayInv, UNCHANGED <<sockets, connections, interest, callbacks>>,
           faults' = 0 => faults = 0, ReactorTypeOK', BatchFresh'
    PROVE  GatewayInv'
<1>1. /\ UNCHANGED <<peer, backlog, sock, written, unread, echoed>>
      /\ UNCHANGED <<cstate, bytes_received, bytes_sent, packets_processed>>
      /\ interest' = interest /\ callbacks' = callbacks
  BY DEF sockets, connections
<1>2. TypeOK'
  BY <1>1 DEF GatewayInv, TypeOK, SocketsTypeOK, ConnectionsTypeOK
<1>3. TablesAgree'
  BY <1>1 DEF GatewayInv, TablesAgree, Managed
<1>4. OneSocketPerClient'
  BY <1>1 DEF GatewayInv, OneSocketPerClient
<1>5. EchoAccounting'
  BY <1>1 DEF GatewayInv, EchoAccounting, Account, Managed
<1>6. Flow'
  BY <1>1 DEF GatewayInv, Flow, Queued, Connected
<1> QED
  BY <1>2, <1>3, <1>4, <1>5, <1>6 DEF GatewayInv

(* The steps of the loop change nothing but the reactor's own state.       *)
LEMMA LoopKeeps ==
    ASSUME GatewayInv,
           UNCHANGED <<sockets, connections>>,
           Run \/ Stop \/ WaitFails \/ LoopStep
    PROVE  GatewayInv'
<1> USE SocketsAssumption, EpollReactorAssumption DEF RGoTo, AllFds
<1>0. SocketsTypeOK /\ ReactorTypeOK /\ TablesAgree /\ BatchFresh
  BY DEF GatewayInv, TypeOK
<1>1. UNCHANGED <<peer, backlog, sock, written, unread, echoed>>
  BY DEF sockets
<1>2. CASE Run \/ Stop \/ LoopTest \/ WaitTimeout \/ EndOfBatch
  <2>1. UNCHANGED <<interest, callbacks, event, reported, faults>>
    BY <1>2 DEF Run, Stop, LoopTest, WaitTimeout, EndOfBatch
  <2>2. ReactorTypeOK'
    BY <1>0, <1>2, <2>1 DEF ReactorTypeOK, Run, Stop, LoopTest, WaitTimeout, EndOfBatch
  <2>3. BatchFresh'
    BY <1>0, <1>1, <2>1 DEF BatchFresh
  <2> QED
    BY <2>1, <2>2, <2>3, QuietStep
<1>3. CASE WaitFails
  <2>1. UNCHANGED <<interest, callbacks, event, reported>> /\ faults' = faults + 1 /\ faults \in 0 .. MaxFaults
    BY <1>0, <1>3 DEF WaitFails, ReactorTypeOK
  <2>2. ReactorTypeOK'
    BY <1>0, <1>3, <2>1 DEF ReactorTypeOK, WaitFails
  <2>3. BatchFresh'
    BY <1>0, <1>1, <2>1 DEF BatchFresh
  <2> QED
    BY <2>1, <2>2, <2>3, QuietStep
<1>4. CASE EpollWait
  <2>1. UNCHANGED <<interest, callbacks, running, faults>> /\ rpc' = "dispatch"
    BY <1>4 DEF EpollWait
  <2>2. PICK batch \in SUBSET interest :
           /\ event' = [f \in AllFds |-> IF f \in batch THEN EventOf(f) ELSE "none"]
           /\ reported' = [f \in AllFds |-> IF f \in batch \ {Listen} THEN sock[f] ELSE None]
    BY <1>4 DEF EpollWait
  <2>3. ReactorTypeOK'
    <3>1. event' \in [AllFds -> {"none", "in", "hup"}]
      BY <2>2 DEF EventOf
    <3>2. reported' \in [AllFds -> Clients \union {None}]
      BY <1>0, <2>2 DEF SocketsTypeOK
    <3> QED
      BY <1>0, <2>1, <3>1, <3>2 DEF ReactorTypeOK
  <2>4. BatchFresh'
    <3> SUFFICES ASSUME NEW f \in Fds, event'[f] # "none"
                 PROVE  f \in callbacks' /\ sock'[f] = reported'[f]
      BY DEF BatchFresh
    <3>1. f \in batch /\ f # Listen
      BY <2>2
    <3> QED
      BY <1>0, <1>1, <2>1, <2>2, <3>1 DEF TablesAgree
  <2> QED
    BY <2>1, <2>3, <2>4, QuietStep
<1> QED
  BY <1>2, <1>3, <1>4 DEF LoopStep

(* A callback that only takes its event.                                   *)
LEMMA TakeKeeps ==
    ASSUME GatewayInv, NEW f \in AllFds, Take(f),
           UNCHANGED <<interest, callbacks, faults, rpc, sockets, connections>>
    PROVE  GatewayInv'
<1>1. ReactorTypeOK'
  BY DEF GatewayInv, TypeOK, ReactorTypeOK, Take
<1>2. sock' = sock
  BY DEF sockets
<1>3. BatchFresh'
  BY <1>2 DEF GatewayInv, TypeOK, ReactorTypeOK, BatchFresh, Take, AllFds
<1> QED
  BY <1>1, <1>3, QuietStep

(* The listening socket's callback: the oldest client gets a descriptor    *)
(* that was free, so no event of the batch is left for it.                 *)
LEMMA AcceptKeeps ==
    ASSUME GatewayInv, NEW f \in Fds, AcceptClient(f)
    PROVE  GatewayInv'
<1> USE SocketsAssumption, EpollReactorAssumption, GatewayAssumption
<1> PICK c : c = Head(backlog)
  OBVIOUS
<1>0. /\ SocketsTypeOK /\ ReactorTypeOK /\ ConnectionsTypeOK /\ TablesAgree
      /\ BatchFresh /\ OneSocketPerClient /\ EchoAccounting /\ Flow
  BY DEF GatewayInv, TypeOK
<1>1. /\ backlog # <<>> /\ sock[f] = None
      /\ sock' = [sock EXCEPT ![f] = c] /\ backlog' = Tail(backlog)
      /\ UNCHANGED <<peer, written, unread, echoed>>
  BY DEF AcceptClient, Accepted, Free
<1>2. /\ cstate' = [cstate EXCEPT ![f] = "AUTHENTICATING"]
      /\ bytes_received' = [bytes_received EXCEPT ![f] = 0]
      /\ bytes_sent' = [bytes_sent EXCEPT ![f] = 0]
      /\ packets_processed' = [packets_processed EXCEPT ![f] = 0]
  BY DEF AcceptClient, AddConnection
<1>3. /\ event' = [event EXCEPT ![Listen] = "none"]
      /\ reported' = [reported EXCEPT ![Listen] = None]
      /\ UNCHANGED <<running, rpc>>
  BY DEF AcceptClient, Take
<1>4. \/ interest' = interest \union {f} /\ callbacks' = callbacks \union {f} /\ faults' = faults
      \/ interest' = interest /\ callbacks' = callbacks /\ faults' = faults + 1 /\ faults < MaxFaults
  BY DEF AcceptClient, AddSocket, AddSocketFails
<1>5. /\ c \in Clients /\ backlog' \in Seq(Clients)
      /\ 1 \in DOMAIN backlog /\ c = backlog[1]
      /\ \A i \in DOMAIN backlog' : i \in Nat /\ i + 1 \in DOMAIN backlog /\ i + 1 # 1 /\ backlog'[i] = backlog[i + 1]
  BY <1>0, <1>1, QueuePop DEF SocketsTypeOK
<1>6. f \notin Managed /\ f \notin callbacks /\ f \notin interest /\ event[f] = "none"
  BY <1>0, <1>1 DEF TablesAgree, BatchFresh
<1>7. Managed' = Managed \union {f}
  BY <1>0, <1>2 DEF Managed, ConnectionsTypeOK
<1>8. Queued(c) /\ Connected(c) /\ unread[c] = written[c] /\ echoed[c] = 0
  BY <1>0, <1>5 DEF Flow, Queued
<1>9. TypeOK'
  <2>1. SocketsTypeOK'
    BY <1>0, <1>1, <1>5 DEF SocketsTypeOK
  <2>2. ReactorTypeOK'
    <3>1. interest' \subseteq AllFds /\ callbacks' \subseteq AllFds
      BY <1>0, <1>4 DEF ReactorTypeOK, AllFds
    <3>3. faults' \in 0 .. MaxFaults
      BY <1>0, <1>4 DEF ReactorTypeOK
    <3>2. event' \in [AllFds -> {"none", "in", "hup"}] /\ reported' \in [AllFds -> Clients \union {None}]
      BY <1>0, <1>3 DEF ReactorTypeOK
    <3> QED
      BY <1>0, <1>3, <3>1, <3>2, <3>3 DEF ReactorTypeOK
  <2>3. ConnectionsTypeOK'
    BY <1>0, <1>2 DEF ConnectionsTypeOK, ConnectionStates
  <2> QED
    BY <2>1, <2>2, <2>3 DEF TypeOK
<1>10. TablesAgree'
  <2>1. Managed' = {g \in Fds : sock'[g] # None}
    BY <1>0, <1>1, <1>5, <1>7 DEF TablesAgree, SocketsTypeOK
  <2>2. /\ callbacks' = interest' /\ Listen \in interest'
        /\ interest' \ {Listen} \subseteq Managed'
    BY <1>0, <1>4, <1>7 DEF TablesAgree
  <2>3. faults' = 0 => interest' = Managed' \union {Listen}
    BY <1>0, <1>4, <1>7 DEF TablesAgree, ReactorTypeOK
  <2> QED
    BY <2>1, <2>2, <2>3 DEF TablesAgree
<1>11. BatchFresh'
  BY <1>0, <1>1, <1>3, <1>4, <1>6 DEF BatchFresh, ReactorTypeOK, SocketsTypeOK, AllFds
<1>12. OneSocketPerClient'
  <2>1. \A g \in Fds : sock[g] # c
    BY <1>0, <1>5 DEF OneSocketPerClient
  <2>2. \A i \in DOMAIN backlog' : backlog'[i] # c
    BY <1>0, <1>5 DEF Flow
  <2>3. \A g \in Fds : sock'[g] = IF g = f THEN c ELSE sock[g]
    BY <1>0, <1>1 DEF SocketsTypeOK
  <2>4. \A g, h \in Fds : sock'[g] = sock'[h] /\ sock'[g] # None => g = h
    BY <1>0, <2>1, <2>3 DEF OneSocketPerClient
  <2>5. \A i \in DOMAIN backlog' : \A g \in Fds : sock'[g] # backlog'[i]
    <3>1. \A i \in DOMAIN backlog' : \A g \in Fds : sock[g] # backlog'[i]
      BY <1>0, <1>5 DEF OneSocketPerClient
    <3> QED
      BY <2>2, <2>3, <3>1
  <2> QED
    BY <2>4, <2>5 DEF OneSocketPerClient
<1>13. EchoAccounting'
  <2>1. Account(f, c)'
    BY <1>0, <1>1, <1>2, <1>5, <1>8 DEF Account, ConnectionsTypeOK, SocketsTypeOK
  <2>2. ASSUME NEW g \in Managed, g # f PROVE Account(g, sock[g])' /\ sock'[g] = sock[g]
    BY <1>0, <1>1, <1>2, <2>2 DEF EchoAccounting, Account, ConnectionsTypeOK, SocketsTypeOK, Managed
  <2> QED
    BY <1>0, <1>1, <1>5, <1>7, <2>1, <2>2 DEF EchoAccounting, SocketsTypeOK, Account
<1>14. Flow'
  <2>1. \A d \in Clients : Queued(d)' => Queued(d)
    BY <1>5 DEF Queued
  <2>2. \A i \in DOMAIN backlog' : Connected(backlog'[i])
    BY <1>0, <1>5 DEF Flow
  <2>3. \A i, j \in DOMAIN backlog' : backlog'[i] = backlog'[j] => i = j
    BY <1>0, <1>5 DEF Flow
  <2>4. \A g \in Fds : sock'[g] # None => Connected(sock'[g])
    BY <1>0, <1>1, <1>8 DEF Flow, SocketsTypeOK
  <2>5. \A d : Connected(d)' <=> Connected(d)
    BY <1>1 DEF Connected
  <2> QED
    BY <1>0, <1>1, <2>1, <2>2, <2>3, <2>4, <2>5 DEF Flow
<1> QED
  BY <1>9, <1>10, <1>11, <1>12, <1>13, <1>14 DEF GatewayInv

(* Hang-up and end of file: the descriptor leaves all tables in one step.  *)
LEMMA TeardownKeeps ==
    ASSUME GatewayInv, NEW f \in Fds, cstate[f] # "NONE", Take(f), Teardown(f)
    PROVE  GatewayInv'
<1> USE SocketsAssumption, EpollReactorAssumption, GatewayAssumption
<1> PICK c : c = sock[f]
  OBVIOUS
<1>0. /\ SocketsTypeOK /\ ReactorTypeOK /\ ConnectionsTypeOK /\ TablesAgree
      /\ BatchFresh /\ OneSocketPerClient /\ EchoAccounting /\ Flow
  BY DEF GatewayInv, TypeOK
<1>1. /\ sock' = [sock EXCEPT ![f] = None] /\ peer' = [peer EXCEPT ![c] = "done"]
      /\ UNCHANGED <<backlog, written, unread, echoed>>
  BY DEF Teardown, Close
<1>2. /\ cstate' = [cstate EXCEPT ![f] = "NONE"]
      /\ bytes_received' = [bytes_received EXCEPT ![f] = 0]
      /\ bytes_sent' = [bytes_sent EXCEPT ![f] = 0]
      /\ packets_processed' = [packets_processed EXCEPT ![f] = 0]
  BY DEF Teardown, RemoveConnection
<1>3. /\ event' = [event EXCEPT ![f] = "none"]
      /\ reported' = [reported EXCEPT ![f] = None]
      /\ UNCHANGED <<running, rpc, faults>>
      /\ interest' = interest \ {f} /\ callbacks' = callbacks \ {f}
  BY DEF Take, Teardown, RemoveSocket
<1>4. c \in Clients /\ c # None /\ \A g \in Fds : g # f => sock[g] # c
  BY <1>0 DEF TablesAgree, Managed, SocketsTypeOK, OneSocketPerClient
<1>5. Managed' = Managed \ {f}
  BY <1>0, <1>2 DEF Managed, ConnectionsTypeOK
<1>6. TypeOK'
  <2>1. SocketsTypeOK'
    BY <1>0, <1>1 DEF SocketsTypeOK
  <2>2. ReactorTypeOK'
    BY <1>0, <1>3 DEF ReactorTypeOK
  <2>3. ConnectionsTypeOK'
    BY <1>0, <1>2 DEF ConnectionsTypeOK
  <2> QED
    BY <2>1, <2>2, <2>3 DEF TypeOK
<1>7. TablesAgree'
  <2>1. Managed' = {g \in Fds : sock'[g] # None}
    BY <1>0, <1>1, <1>5 DEF TablesAgree, SocketsTypeOK
  <2> QED
    BY <1>0, <1>3, <1>5, <2>1 DEF TablesAgree
<1>8. BatchFresh'
  BY <1>0, <1>1, <1>3 DEF BatchFresh, ReactorTypeOK, SocketsTypeOK, AllFds
<1>9. OneSocketPerClient'
  <2>1. \A i \in DOMAIN backlog : backlog[i] \in Clients /\ backlog[i] # None
    BY <1>0 DEF SocketsTypeOK
  <2>2. \A g \in Fds : sock'[g] = IF g = f THEN None ELSE sock[g]
    BY <1>0, <1>1 DEF SocketsTypeOK
  <2>3. \A g, h \in Fds : sock'[g] = sock'[h] /\ sock'[g] # None => g = h
    BY <1>0, <2>2 DEF OneSocketPerClient
  <2>4. \A i \in DOMAIN backlog : \A g \in Fds : sock'[g] # backlog[i]
    BY <1>0, <2>1, <2>2 DEF OneSocketPerClient
  <2> QED
    BY <1>1, <2>3, <2>4 DEF OneSocketPerClient
<1>10. EchoAccounting'
  <2>1. ASSUME NEW g \in Managed, g # f PROVE Account(g, sock[g])' /\ sock'[g] = sock[g]
    BY <1>0, <1>1, <1>2, <2>1 DEF EchoAccounting, Account, ConnectionsTypeOK, SocketsTypeOK, Managed
  <2> QED
    BY <1>5, <2>1 DEF EchoAccounting, Account
<1>11. Flow'
  BY <1>0, <1>1, <1>4 DEF Flow, Queued, Connected, SocketsTypeOK, OneSocketPerClient
<1> QED
  BY <1>6, <1>7, <1>8, <1>9, <1>10, <1>11 DEF GatewayInv

(* Receive and echo: only the accounts move.                               *)
LEMMA ReceiveKeeps ==
    ASSUME GatewayInv, NEW f \in Fds, Receive(f)
    PROVE  GatewayInv'
<1> USE SocketsAssumption, EpollReactorAssumption, GatewayAssumption
<1> PICK c : c = sock[f]
  OBVIOUS
<1>0. /\ SocketsTypeOK /\ ReactorTypeOK /\ ConnectionsTypeOK /\ TablesAgree
      /\ BatchFresh /\ OneSocketPerClient /\ EchoAccounting /\ Flow
  BY DEF GatewayInv, TypeOK
<1>1. /\ cstate[f] # "NONE"
      /\ event' = [event EXCEPT ![f] = "none"]
      /\ reported' = [reported EXCEPT ![f] = None]
      /\ UNCHANGED <<peer, backlog, sock, written, interest, callbacks, faults, running>>
  BY DEF Receive, Take
<1>2. PICK n \in 1 .. BUFFER_SIZE - 1 :
         /\ n <= unread[c]
         /\ unread' = [unread EXCEPT ![c] = @ - n]
         /\ bytes_received' = [bytes_received EXCEPT ![f] = @ + n]
         /\ packets_processed' = [packets_processed EXCEPT ![f] = @ + 1]
         /\ cstate' = [cstate EXCEPT ![f] = IF @ = "AUTHENTICATING" THEN "AUTHENTICATED" ELSE @]
         /\ bytes_sent' = [bytes_sent EXCEPT ![f] = @ + n]
         /\ \E k \in 0 .. n : echoed' = [echoed EXCEPT ![c] = @ + k]
         /\ rpc' \in {rpc, "killed"}
  <2>1. c \in Clients /\ unread[c] \in Nat
    BY <1>0, <1>1 DEF TablesAgree, Managed, SocketsTypeOK
  <2>2. PICK n \in 1 .. BUFFER_SIZE - 1 :
           /\ RecvData(c, n, BUFFER_SIZE - 1)
           /\ RecordRecv(f, n)
           /\ IF cstate[f] = "AUTHENTICATING" THEN SetState(f, "AUTHENTICATED")
              ELSE UNCHANGED cstate
           /\ RecordSend(f, n)
           /\ \/ SendQueues(c, n) /\ UNCHANGED rpc
              \/ SendBroken(c) /\ UNCHANGED <<echoed, rpc>>
              \/ SendBroken(c) /\ rpc' = "killed" /\ UNCHANGED echoed
    BY DEF Receive
  <2>3. n <= unread[c] /\ unread' = [unread EXCEPT ![c] = @ - n]
    BY <2>1, <2>2 DEF RecvData
  <2>4. cstate' = [cstate EXCEPT ![f] = IF @ = "AUTHENTICATING" THEN "AUTHENTICATED" ELSE @]
    BY <1>0, <2>2 DEF SetState, ConnectionsTypeOK
  <2>5. \E k \in 0 .. n : echoed' = [echoed EXCEPT ![c] = @ + k]
    <3>1. echoed = [echoed EXCEPT ![c] = @ + 0]
      BY <1>0, <2>1 DEF SocketsTypeOK
    <3> QED
      BY <2>2, <3>1 DEF SendQueues
  <2>6. rpc' \in {rpc, "killed"}
    BY <2>2
  <2> QED
    BY <2>2, <2>3, <2>4, <2>5, <2>6 DEF RecordRecv, RecordSend
<1>3. PICK k \in 0 .. n : echoed' = [echoed EXCEPT ![c] = @ + k]
  BY <1>2
<1>4. f \in Managed /\ c \in Clients /\ Account(f, c) /\ \A g \in Fds : g # f => sock[g] # c
  <2>1. f \in Managed
    BY <1>1 DEF Managed
  <2>2. c \in Clients /\ c # None
    BY <1>0, <2>1 DEF TablesAgree, SocketsTypeOK
  <2>3. Account(f, c)
    BY <1>0, <2>1 DEF EchoAccounting
  <2> QED
    BY <1>0, <2>1, <2>2, <2>3 DEF OneSocketPerClient
<1>5. Managed' = Managed
  BY <1>0, <1>2, <1>4 DEF Managed, ConnectionsTypeOK
<1>6. Account(f, c)'
  <2> DEFINE r == bytes_received[f]
             p == packets_processed[f]
             B == BUFFER_SIZE - 1
  <2>1. r \in Nat /\ p \in Nat /\ B \in Nat /\ r <= p * B /\ p <= r /\ n \in 1 .. B
    BY <1>0, <1>4 DEF Account, ConnectionsTypeOK
  <2>2. r + n <= (p + 1) * B /\ p + 1 <= r + n
    <3> HIDE DEF r, p, B
    <3>1. (p + 1) * B = p * B + B
      BY <2>1
    <3> QED
      BY <2>1, <3>1
  <2>3. /\ bytes_received'[f] = r + n /\ packets_processed'[f] = p + 1
        /\ bytes_sent'[f] = bytes_sent[f] + n
        /\ cstate'[f] = "AUTHENTICATED"
        /\ unread'[c] = unread[c] - n /\ echoed'[c] = echoed[c] + k /\ written'[c] = written[c]
    BY <1>0, <1>1, <1>2, <1>3, <1>4 DEF ConnectionsTypeOK, SocketsTypeOK, Account
  <2>4. unread[c] \in Nat /\ written[c] \in Nat /\ echoed[c] \in Nat
    BY <1>0, <1>4 DEF SocketsTypeOK
  <2>5. /\ bytes_received[f] + unread[c] = written[c] /\ bytes_sent[f] = r
        /\ echoed[c] <= r
    BY <1>4 DEF Account
  <2>6. bytes_received'[f] + unread'[c] = written'[c] /\ echoed'[c] <= bytes_received'[f]
    BY <1>3, <2>1, <2>3, <2>4, <2>5
  <2>7. bytes_received'[f] # 0
    BY <2>1, <2>3
  <2>8. /\ packets_processed'[f] <= bytes_received'[f]
        /\ bytes_received'[f] <= packets_processed'[f] * (BUFFER_SIZE - 1)
    BY <2>2, <2>3
  <2> QED
    BY <2>3, <2>5, <2>6, <2>7, <2>8 DEF Account
<1>7. TypeOK'
  <2>1. SocketsTypeOK'
    <3>1. unread' \in [Clients -> 0 .. MaxBytes]
      <4>1. unread \in [Clients -> 0 .. MaxBytes] /\ unread[c] \in 0 .. MaxBytes
        BY <1>0, <1>4 DEF SocketsTypeOK
      <4>2. unread[c] - n \in 0 .. MaxBytes
        BY <1>2, <4>1
      <4> QED
        BY <1>2, <4>1, <4>2
    <3>2. echoed'[c] \in 0 .. MaxBytes
      <4>1. /\ echoed[c] \in Nat /\ written[c] \in 0 .. MaxBytes
            /\ bytes_received[f] \in Nat /\ unread'[c] \in Nat
        BY <1>0, <1>4, <3>1 DEF SocketsTypeOK, ConnectionsTypeOK
      <4>3. /\ echoed'[c] = echoed[c] + k /\ written'[c] = written[c]
            /\ bytes_received'[f] = bytes_received[f] + n
        BY <1>0, <1>1, <1>2, <1>3, <1>4 DEF SocketsTypeOK, ConnectionsTypeOK
      <4>2. echoed'[c] <= bytes_received'[f] /\ bytes_received'[f] + unread'[c] = written'[c]
        BY <1>6 DEF Account
      <4> QED
        BY <4>1, <4>2, <4>3
    <3>3. echoed' \in [Clients -> 0 .. MaxBytes]
      BY <1>0, <1>3, <1>4, <3>2 DEF SocketsTypeOK
    <3> QED
      BY <1>0, <1>1, <3>1, <3>3 DEF SocketsTypeOK
  <2>2. ReactorTypeOK'
    BY <1>0, <1>1, <1>2 DEF ReactorTypeOK
  <2>3. ConnectionsTypeOK'
    BY <1>0, <1>2 DEF ConnectionsTypeOK, ConnectionStates
  <2> QED
    BY <2>1, <2>2, <2>3 DEF TypeOK
<1>8. TablesAgree'
  BY <1>0, <1>1, <1>5 DEF TablesAgree
<1>9. BatchFresh'
  BY <1>0, <1>1 DEF BatchFresh, ReactorTypeOK, AllFds
<1>10. OneSocketPerClient'
  BY <1>0, <1>1 DEF OneSocketPerClient
<1>11. EchoAccounting'
  <2>1. ASSUME NEW g \in Managed, g # f PROVE Account(g, sock[g])'
    BY <1>0, <1>1, <1>2, <1>3, <1>4, <2>1 DEF EchoAccounting, Account, ConnectionsTypeOK, SocketsTypeOK, Managed, TablesAgree
  <2> QED
    BY <1>1, <1>5, <1>6, <2>1 DEF EchoAccounting, Account
<1>12. Flow'
  <2>1. peer[c] # "new" /\ ~ Queued(c)
    BY <1>0, <1>4 DEF Flow, Connected, Queued, OneSocketPerClient, SocketsTypeOK
  <2>2. \A d \in Clients : d # c => unread'[d] = unread[d] /\ echoed'[d] = echoed[d]
    BY <1>0, <1>2, <1>3 DEF SocketsTypeOK
  <2>3. \A d \in Clients : Queued(d)' = Queued(d) /\ Connected(d)' = Connected(d)
    BY <1>1 DEF Queued, Connected
  <2>4. \A d \in Clients : unread'[d] <= written'[d]
    BY <1>0, <1>1, <1>2, <1>4 DEF Flow, SocketsTypeOK
  <2> QED
    BY <1>0, <1>1, <2>1, <2>2, <2>4 DEF Flow, Queued, Connected
<1> QED
  BY <1>7, <1>8, <1>9, <1>10, <1>11, <1>12 DEF GatewayInv

-----------------------------------------------------------------------------
(* The clients.  A new client joins the accept queue.                      *)
LEMMA ConnectKeeps ==
    ASSUME GatewayInv, NEW c \in Clients, Connect(c), UNCHANGED <<reactor, connections>>
    PROVE  GatewayInv'
<1> USE SocketsAssumption, EpollReactorAssumption, GatewayAssumption
<1>0. /\ SocketsTypeOK /\ ReactorTypeOK /\ ConnectionsTypeOK /\ TablesAgree
      /\ BatchFresh /\ OneSocketPerClient /\ EchoAccounting /\ Flow
  BY DEF GatewayInv, TypeOK
<1>1. /\ peer[c] = "new"
      /\ peer' = [peer EXCEPT ![c] = "open"]
      /\ UNCHANGED <<sock, written, unread, echoed>>
      /\ UNCHANGED <<interest, callbacks, event, reported, running, rpc, faults>>
      /\ UNCHANGED <<cstate, bytes_received, bytes_sent, packets_processed>>
  BY DEF Connect, reactor, connections
<1>2. /\ backlog' \in Seq(Clients)
      /\ DOMAIN backlog' = DOMAIN backlog \union {Len(backlog) + 1}
      /\ Len(backlog) + 1 \notin DOMAIN backlog
      /\ \A i \in DOMAIN backlog : backlog'[i] = backlog[i]
      /\ backlog'[Len(backlog) + 1] = c
  BY <1>0, QueuePush DEF Connect, SocketsTypeOK
<1>3. /\ \A d \in Clients : peer'[d] = IF d = c THEN "open" ELSE peer[d]
      /\ \A i \in DOMAIN backlog : backlog[i] \in Clients /\ backlog[i] # c
      /\ \A f \in Fds : sock[f] # c /\ (sock[f] # None => sock[f] \in Clients)
  <2>1. \A d \in Clients : peer'[d] = IF d = c THEN "open" ELSE peer[d]
    BY <1>0, <1>1 DEF SocketsTypeOK
  <2>2. \A i \in DOMAIN backlog : backlog[i] \in Clients
    BY <1>0 DEF SocketsTypeOK
  <2>3. \A f \in Fds : sock[f] # None => sock[f] \in Clients
    BY <1>0 DEF SocketsTypeOK
  <2>4. ~ Connected(c) /\ c # None
    BY <1>1 DEF Connected
  <2> QED
    BY <1>0, <2>1, <2>2, <2>3, <2>4 DEF Flow
<1>4. TypeOK'
  <2>1. SocketsTypeOK'
    BY <1>0, <1>1, <1>2 DEF SocketsTypeOK
  <2> QED
    BY <1>0, <1>1, <2>1 DEF TypeOK, ReactorTypeOK, ConnectionsTypeOK
<1>5. TablesAgree' /\ BatchFresh'
  BY <1>0, <1>1 DEF TablesAgree, BatchFresh, Managed
<1>6. OneSocketPerClient'
  BY <1>0, <1>1, <1>2, <1>3 DEF OneSocketPerClient
<1>7. EchoAccounting'
  BY <1>0, <1>1 DEF EchoAccounting, Account, Managed
<1>8. Flow'
  <2>1. \A d \in Clients : peer'[d] = "new" => written'[d] = 0
    BY <1>0, <1>1, <1>3 DEF Flow
  <2>2. ASSUME NEW d \in Clients, peer'[d] = "new" \/ Queued(d)'
        PROVE  unread'[d] = written'[d] /\ echoed'[d] = 0
    <3>1. peer[d] = "new" \/ Queued(d)
      BY <1>1, <1>2, <1>3, <2>2 DEF Queued
    <3> QED
      BY <1>0, <1>1, <3>1 DEF Flow
  <2>3. \A i \in DOMAIN backlog' : peer'[backlog'[i]] \in {"open", "eof", "reset"}
    BY <1>0, <1>2, <1>3 DEF Flow, Connected
  <2>4. \A f \in Fds : sock'[f] # None => peer'[sock'[f]] \in {"open", "eof", "reset"}
    BY <1>0, <1>1, <1>3 DEF Flow, Connected
  <2>5. \A i, j \in DOMAIN backlog' : backlog'[i] = backlog'[j] => i = j
    BY <1>0, <1>2, <1>3 DEF Flow
  <2>6. \A d \in Clients : unread'[d] <= written'[d]
    BY <1>0, <1>1 DEF Flow
  <2> QED
    BY <2>1, <2>2, <2>3, <2>4, <2>5, <2>6 DEF Flow, Connected
<1> QED
  BY <1>4, <1>5, <1>6, <1>7, <1>8 DEF GatewayInv

(* What a client writes is unread until the server receives it.            *)
LEMMA WriteKeeps ==
    ASSUME GatewayInv, NEW c \in Clients, Write(c), UNCHANGED <<reactor, connections>>
    PROVE  GatewayInv'
<1> USE SocketsAssumption, EpollReactorAssumption, GatewayAssumption
<1>0. /\ SocketsTypeOK /\ ReactorTypeOK /\ ConnectionsTypeOK /\ TablesAgree
      /\ BatchFresh /\ OneSocketPerClient /\ EchoAccounting /\ Flow
  BY DEF GatewayInv, TypeOK
<1>1. /\ peer[c] = "open" /\ written[c] < MaxBytes
      /\ written' = [written EXCEPT ![c] = @ + 1]
      /\ unread' = [unread EXCEPT ![c] = @ + 1]
      /\ UNCHANGED <<peer, backlog, sock, echoed>>
      /\ UNCHANGED <<interest, callbacks, event, reported, running, rpc, faults>>
      /\ UNCHANGED <<cstate, bytes_received, bytes_sent, packets_processed>>
  BY DEF Write, reactor, connections
<1>2. /\ \A d \in Clients : /\ written'[d] = IF d = c THEN written[c] + 1 ELSE written[d]
                            /\ unread'[d] = IF d = c THEN unread[c] + 1 ELSE unread[d]
      /\ \A d \in Clients : written[d] \in 0 .. MaxBytes /\ unread[d] \in 0 .. MaxBytes
  BY <1>0, <1>1 DEF SocketsTypeOK
<1>3. unread[c] <= written[c]
  BY <1>0 DEF Flow
<1>4. TypeOK'
  <2>1. written' \in [Clients -> 0 .. MaxBytes] /\ unread' \in [Clients -> 0 .. MaxBytes]
    BY <1>0, <1>1, <1>2, <1>3 DEF SocketsTypeOK
  <2> QED
    BY <1>0, <1>1, <2>1 DEF TypeOK, SocketsTypeOK, ReactorTypeOK, ConnectionsTypeOK
<1>5. TablesAgree' /\ BatchFresh' /\ OneSocketPerClient'
  BY <1>0, <1>1 DEF TablesAgree, BatchFresh, Managed, OneSocketPerClient
<1>6. EchoAccounting'
  <2>1. Managed' = Managed
    BY <1>1 DEF Managed
  <2>2. ASSUME NEW f \in Managed PROVE Account(f, sock[f])'
    <3>1. f \in Fds /\ sock[f] \in Clients /\ Account(f, sock[f]) /\ bytes_received[f] \in Nat
      BY <1>0, <2>2 DEF TablesAgree, EchoAccounting, SocketsTypeOK, ConnectionsTypeOK, Managed
    <3>2. bytes_received'[f] + unread'[sock[f]] = written'[sock[f]]
      <4> PICK d : d = sock[f]
        OBVIOUS
      <4>1. bytes_received[f] + unread[d] = written[d] /\ bytes_received'[f] = bytes_received[f]
        BY <1>1, <3>1 DEF Account
      <4>2. /\ unread[d] \in Int /\ written[d] \in Int
            /\ \/ unread'[d] = unread[d] /\ written'[d] = written[d]
               \/ unread'[d] = unread[d] + 1 /\ written'[d] = written[d] + 1
        BY <1>2, <3>1
      <4>3. bytes_received'[f] \in Nat
        BY <3>1, <4>1
      <4>4. bytes_received'[f] + unread'[d] = written'[d]
        BY <4>1, <4>2, <4>3
      <4> QED
        BY <4>4
    <3> QED
      BY <1>1, <3>1, <3>2 DEF Account
  <2> QED
    BY <1>1, <2>1, <2>2 DEF EchoAccounting
<1>7. Flow'
  <2>1. peer[c] = "open" /\ peer[c] # "new"
    BY DEF Write
  <2>2. \A d \in Clients : /\ unread[d] <= written[d] => unread'[d] <= written'[d]
                           /\ unread[d] = written[d] => unread'[d] = written'[d]
    BY <1>2
  <2>3. \A d \in Clients : d # c => unread'[d] = unread[d] /\ written'[d] = written[d]
    BY <1>2
  <2>4. \A d \in Clients : peer[d] = "new" => written'[d] = 0
    BY <1>0, <2>1, <2>3 DEF Flow
  <2> QED
    BY <1>0, <1>1, <2>2, <2>4 DEF Flow, Queued, Connected
<1> QED
  BY <1>4, <1>5, <1>6, <1>7 DEF GatewayInv

(* A client that leaves stays connected until the server closes.           *)
LEMMA LeaveKeeps ==
    ASSUME GatewayInv, NEW c \in Clients, Shutdown(c) \/ Abort(c),
           UNCHANGED <<reactor, connections>>
    PROVE  GatewayInv'
<1> USE SocketsAssumption, EpollReactorAssumption
<1>0. /\ SocketsTypeOK /\ ReactorTypeOK /\ ConnectionsTypeOK /\ TablesAgree
      /\ BatchFresh /\ OneSocketPerClient /\ EchoAccounting /\ Flow
  BY DEF GatewayInv, TypeOK
<1>1. /\ UNCHANGED <<backlog, sock, written, unread, echoed>>
      /\ UNCHANGED <<interest, callbacks, event, reported, running, rpc, faults>>
      /\ UNCHANGED <<cstate, bytes_received, bytes_sent, packets_processed>>
  BY DEF Shutdown, Abort, reactor, connections
<1>2. PICK p \in {"eof", "reset"} : peer' = [peer EXCEPT ![c] = p] /\ Connected(c)
  BY DEF Shutdown, Abort, Connected
<1>3. \A d \in Clients : (peer'[d] = "new") = (peer[d] = "new") /\ Connected(d)' = Connected(d)
  BY <1>0, <1>2 DEF SocketsTypeOK, Connected
<1>4. TypeOK'
  BY <1>0, <1>1, <1>2 DEF TypeOK, SocketsTypeOK, ReactorTypeOK, ConnectionsTypeOK
<1>5. TablesAgree' /\ BatchFresh' /\ OneSocketPerClient' /\ EchoAccounting'
  BY <1>0, <1>1 DEF TablesAgree, BatchFresh, Managed, OneSocketPerClient, EchoAccounting, Account
<1>6. Flow'
  <2>1. /\ \A i \in DOMAIN backlog : backlog[i] \in Clients
        /\ \A f \in Fds : sock[f] # None => sock[f] \in Clients
    BY <1>0 DEF SocketsTypeOK
  <2> QED
    BY <1>0, <1>1, <1>3, <2>1 DEF Flow, Queued, Connected
<1> QED
  BY <1>4, <1>5, <1>6 DEF GatewayInv

-----------------------------------------------------------------------------
LEMMA GatewayStep == GatewayInv /\ [Next]_vars => GatewayInv'
<1> SUFFICES ASSUME GatewayInv, [Next]_vars PROVE GatewayInv'
  OBVIOUS
<1>1. CASE UNCHANGED vars
  <2>1. UNCHANGED <<sockets, connections, interest, callbacks, event, reported, running, rpc, faults>>
    BY <1>1 DEF vars, reactor
  <2>2. ReactorTypeOK' /\ BatchFresh'
    BY <2>1 DEF GatewayInv, TypeOK, ReactorTypeOK, BatchFresh, sockets
  <2> QED
    BY <2>1, <2>2, QuietStep
<1>2. CASE (Run \/ WaitFails \/ Stop \/ LoopStep) /\ UNCHANGED <<sockets, connections>>
  BY <1>2, LoopKeeps
<1>3. CASE CallbackStep
  <2>1. CASE AcceptNothing
    BY <2>1, TakeKeeps DEF AcceptNothing, AllFds
  <2>2. ASSUME NEW f \in Fds, AcceptClient(f) PROVE GatewayInv'
    BY <2>2, AcceptKeeps
  <2>3. ASSUME NEW f \in Fds, HangUp(f) \/ ReceiveEof(f) PROVE GatewayInv'
    BY <2>3, TeardownKeeps DEF HangUp, ReceiveEof
  <2>4. ASSUME NEW f \in Fds, Receive(f) PROVE GatewayInv'
    BY <2>4, ReceiveKeeps
  <2>5. ASSUME NEW f \in Fds, ReceiveError(f) PROVE GatewayInv'
    BY <2>5, TakeKeeps DEF ReceiveError, AllFds
  <2> QED
    BY <1>3, <2>1, <2>2, <2>3, <2>4, <2>5 DEF CallbackStep
<1>4. ASSUME NEW c \in Clients, ClientStep(c), UNCHANGED <<reactor, connections>>
      PROVE  GatewayInv'
  BY <1>4, ConnectKeeps, WriteKeeps, LeaveKeeps DEF ClientStep
<1> QED
  BY <1>1, <1>2, <1>3, <1>4 DEF Next, ReactorStep, Exit

(* The invariant holds in every state the gateway of phase 9 reaches.      *)
THEOREM GatewayInvariant == Spec => []GatewayInv
  BY GatewayInit, GatewayStep, PTL DEF Spec

(* Every variable of the gateway keeps its type.                           *)
THEOREM TypeCorrect == Spec => []TypeOK
<1>1. GatewayInv => TypeOK
  BY DEF GatewayInv
<1> QED
  BY <1>1, GatewayInvariant, PTL

(* The epoll instance, callbacks_ and the connection table name the same   *)
(* descriptors in every state, whatever the callbacks add and remove.      *)
THEOREM TablesConsistent == Spec => []TablesAgree
<1>1. GatewayInv => TablesAgree
  BY DEF GatewayInv
<1> QED
  BY <1>1, GatewayInvariant, PTL

(* No event of a batch is dispatched to a connection that took over the    *)
(* descriptor after epoll_wait returned.                                   *)
THEOREM NoStaleDispatch == Spec => []BatchFresh
<1>1. GatewayInv => BatchFresh
  BY DEF GatewayInv
<1> QED
  BY <1>1, GatewayInvariant, PTL

(* The byte counts of a session are those of its own client, from its      *)
(* first byte on, although descriptors are reused.                         *)
THEOREM AccountsExact == Spec => []EchoAccounting
<1>1. GatewayInv => EchoAccounting
  BY DEF GatewayInv
<1> QED
  BY <1>1, GatewayInvariant, PTL

=============================================================================
