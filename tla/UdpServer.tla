----------------------------- MODULE UdpServer -----------------------------
(***************************************************************************)
(* The datagram server of phase11_udp_server.cpp: epoll on one socket, one *)
(* recvfrom and one sendto per event. Datagrams arrive from anyone at any  *)
(* time, which covers what the network loses, repeats and reorders, and    *)
(* the kernel drops what does not fit the queue of the socket. A datagram  *)
(* is its sender and its size; the code does not look inside.              *)
(***************************************************************************)
EXTENDS Integers, Sequences, Functions

CONSTANTS
    Senders,
    Sizes,          \* payload sizes that senders use
    RecvLimit,      \* sizeof(buf) - 1
    QueueSize,      \* datagrams the kernel queues for the socket
    MaxArrivals,    \* bound: datagrams that arrive
    MaxUdpErrors    \* bound: failing system calls

ASSUME UdpAssumption == Sizes \subseteq Nat /\ RecvLimit \in Nat

Datagram == [from : Senders, size : Sizes]

Lost == [from |-> "nobody", size |-> 0] \* a reply that sendto did not take

VARIABLES
    arrivals,   \* datagrams that arrived, for the bound
    recv_queue, \* the queue of the socket
    udp_pc,     \* "wait", "recv" and "send" in the event loop, "ended" after it
    total_datagrams,
    total_bytes,
    udp_errors,
    delivered,  \* what recvfrom took from the queue so far
    replies     \* what became of the answers to it

udp == <<arrivals, recv_queue, udp_pc, total_datagrams, total_bytes, udp_errors, delivered, replies>>

UdpInit ==
    /\ arrivals = 0 /\ recv_queue = <<>>
    /\ udp_pc = "wait"
    /\ total_datagrams = 0 /\ total_bytes = 0
    /\ udp_errors = 0
    /\ delivered = <<>> /\ replies = <<>>

Received(d) == IF d.size > RecvLimit THEN RecvLimit ELSE d.size

Arrive(d) ==
    /\ arrivals < MaxArrivals
    /\ arrivals' = arrivals + 1
    /\ recv_queue' = IF Len(recv_queue) < QueueSize THEN Append(recv_queue, d) ELSE recv_queue
    /\ UNCHANGED <<udp_pc, total_datagrams, total_bytes, udp_errors, delivered, replies>>

(* epoll_wait is level-triggered. After a timeout it is called again.      *)
UdpWait ==
    /\ udp_pc = "wait" /\ recv_queue # <<>>
    /\ udp_pc' = "recv"
    /\ UNCHANGED <<arrivals, recv_queue, total_datagrams, total_bytes, udp_errors, delivered, replies>>

(* Any error of epoll_wait, EINTR too, leaves the loop.                    *)
UdpWaitFails ==
    /\ udp_pc = "wait" /\ udp_errors < MaxUdpErrors
    /\ udp_pc' = "ended"
    /\ udp_errors' = udp_errors + 1
    /\ UNCHANGED <<arrivals, recv_queue, total_datagrams, total_bytes, delivered, replies>>

(* recvfrom takes one datagram; what exceeds the buffer is cut off.        *)
RecvFrom ==
    LET d == Head(recv_queue) IN
    /\ udp_pc = "recv"
    /\ recv_queue' = Tail(recv_queue)
    /\ delivered' = Append(delivered, d)
    /\ total_datagrams' = total_datagrams + 1
    /\ total_bytes' = total_bytes + Received(d)
    /\ udp_pc' = "send"
    /\ UNCHANGED <<arrivals, udp_errors, replies>>

RecvFromFails ==
    /\ udp_pc = "recv" /\ udp_errors < MaxUdpErrors
    /\ udp_errors' = udp_errors + 1
    /\ udp_pc' = "wait"
    /\ UNCHANGED <<arrivals, recv_queue, total_datagrams, total_bytes, delivered, replies>>

(* Faulty variant: the reply goes to whoever is next in the queue.         *)
SendToNext ==
    LET d == IF recv_queue = <<>> THEN delivered[Len(delivered)] ELSE Head(recv_queue) IN
    /\ udp_pc = "send"
    /\ replies' = Append(replies, [from |-> d.from, size |-> Received(delivered[Len(delivered)])])
    /\ udp_pc' = "wait"
    /\ UNCHANGED <<arrivals, recv_queue, total_datagrams, total_bytes, udp_errors, delivered>>

SendTo ==
    LET d == delivered[Len(delivered)] IN
    /\ udp_pc = "send"
    /\ replies' = Append(replies, [from |-> d.from, size |-> Received(d)])
    /\ udp_pc' = "wait"
    /\ UNCHANGED <<arrivals, recv_queue, total_datagrams, total_bytes, udp_errors, delivered>>

(* An error of sendto is only reported: the datagram has no answer.        *)
SendToFails ==
    /\ udp_pc = "send" /\ udp_errors < MaxUdpErrors
    /\ udp_errors' = udp_errors + 1
    /\ replies' = Append(replies, Lost)
    /\ udp_pc' = "wait"
    /\ UNCHANGED <<arrivals, recv_queue, total_datagrams, total_bytes, delivered>>

UdpStep == UdpWait \/ RecvFrom \/ SendTo

UdpNext ==
    \/ UdpStep
    \/ UdpWaitFails \/ RecvFromFails \/ SendToFails
    \/ udp_pc # "ended" /\ \E d \in Datagram : Arrive(d)

UdpSpec == UdpInit /\ [][UdpNext]_udp

-----------------------------------------------------------------------------
(* "Echo the datagram back to the exact sender": every datagram taken has  *)
(* one answer, to its own sender and as long as what was received of it,   *)
(* and the totals of the summary count exactly these datagrams.            *)
EachAnswered ==
    /\ Len(replies) = IF udp_pc = "send" THEN Len(delivered) - 1 ELSE Len(delivered)
    /\ \A i \in 1 .. Len(replies) :
          replies[i] \in {Lost, [from |-> delivered[i].from, size |-> Received(delivered[i])]}
    /\ total_datagrams = Len(delivered)
    /\ total_bytes = SumFunction([i \in 1 .. Len(delivered) |-> Received(delivered[i])])
=============================================================================
