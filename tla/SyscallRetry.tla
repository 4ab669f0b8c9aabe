---------------------------- MODULE SyscallRetry ----------------------------
(***************************************************************************)
(* send_with_retry and recv_with_retry of phase18_resilience_audit.cpp on  *)
(* the two ends of a socketpair. The writer sends one message; the reader  *)
(* calls recv_with_retry until it sees the end of the stream or an error,  *)
(* or closes its end. The bytes of the message are its positions 1 .. len. *)
(* Signals interrupt a call before it has moved any byte.                  *)
(*                                                                         *)
(* The two functions are meant for the ends of a connection, so writer and *)
(* reader may be two threads. The audits of that file make one call of     *)
(* each, in one thread: those are behaviours in which the reader begins    *)
(* when the writer is done.                                                *)
(***************************************************************************)
EXTENDS Integers, Sequences

CONSTANTS
    MsgLen,         \* len of send_with_retry
    PipeSize,       \* bytes the kernel buffers between the two ends
    MaxInterrupts   \* bound: signals

ASSUME SyscallRetryAssumption == MsgLen \in Nat /\ PipeSize \in Nat /\ MaxInterrupts \in Nat

Running == -9 \* the call has not returned
Idle == -8    \* there was no call

VARIABLES
    blocking,   \* "yes" or "no": O_NONBLOCK is not or is set on both ends
    pipe,       \* bytes sent and not received
    total_sent,
    send_ret,   \* Idle, Running, or the result of send_with_retry
    received,   \* bytes that recv_with_retry returned
    recv_ret,   \* Idle, Running, or the last result of recv_with_retry
    reader,     \* "open" or "closed"
    writer,     \* "open", "closed", or "reset" by a close with SO_LINGER 0
    interrupts

retry == <<blocking, pipe, total_sent, send_ret, received, recv_ret, reader, writer, interrupts>>

RetryInit ==
    /\ blocking \in {"yes", "no"}
    /\ pipe = <<>> /\ received = <<>>
    /\ total_sent = 0
    /\ send_ret = Idle /\ recv_ret = Idle
    /\ reader = "open" /\ writer = "open"
    /\ interrupts = 0

SendCall ==
    /\ send_ret = Idle /\ writer = "open"
    /\ send_ret' = Running
    /\ UNCHANGED <<blocking, pipe, total_sent, received, recv_ret, reader, writer, interrupts>>

(* Faulty variant: the rest is sent from the start of buf again.           *)
SendFromStart(n) ==
    /\ send_ret = Running /\ reader = "open"
    /\ total_sent + n <= MsgLen /\ Len(pipe) + n <= PipeSize
    /\ pipe' = pipe \o [i \in 1 .. n |-> i]
    /\ total_sent' = total_sent + n
    /\ UNCHANGED <<blocking, send_ret, received, recv_ret, reader, writer, interrupts>>

(* send accepts the next n bytes, perhaps fewer than asked for.            *)
SendSome(n) ==
    /\ send_ret = Running /\ reader = "open"
    /\ total_sent + n <= MsgLen /\ Len(pipe) + n <= PipeSize
    /\ pipe' = pipe \o [i \in 1 .. n |-> total_sent + i]
    /\ total_sent' = total_sent + n
    /\ UNCHANGED <<blocking, send_ret, received, recv_ret, reader, writer, interrupts>>

(* The loop is left; the break on 0 is never taken, send on a stream does  *)
(* not return 0 for a positive length.                                     *)
SendDone ==
    /\ send_ret = Running /\ total_sent = MsgLen
    /\ send_ret' = total_sent
    /\ UNCHANGED <<blocking, pipe, total_sent, received, recv_ret, reader, writer, interrupts>>

(* Faulty variant: the end of the reader is taken for an interruption.     *)
SendRetriesAll ==
    /\ send_ret = Running /\ total_sent < MsgLen
    /\ blocking = "no" /\ Len(pipe) = PipeSize
    /\ send_ret' = -1
    /\ UNCHANGED <<blocking, pipe, total_sent, received, recv_ret, reader, writer, interrupts>>

(* EPIPE or ECONNRESET after the reader has closed, EAGAIN on a full       *)
(* non-blocking socket.                                                    *)
SendFails ==
    /\ send_ret = Running /\ total_sent < MsgLen
    /\ reader = "closed" \/ (blocking = "no" /\ Len(pipe) = PipeSize)
    /\ send_ret' = -1
    /\ UNCHANGED <<blocking, pipe, total_sent, received, recv_ret, reader, writer, interrupts>>

(* EINTR in send or recv: the call is repeated.                            *)
Interrupted ==
    /\ \/ send_ret = Running /\ total_sent < MsgLen /\ blocking = "yes" /\ Len(pipe) = PipeSize
       \/ recv_ret = Running /\ blocking = "yes" /\ pipe = <<>> /\ writer = "open"
    /\ interrupts < MaxInterrupts
    /\ interrupts' = interrupts + 1
    /\ UNCHANGED <<blocking, pipe, total_sent, send_ret, received, recv_ret, reader, writer>>

(* The caller of recv_with_retry, which is external to it: one that tries  *)
(* again after data and after -2.                                          *)
RecvCall ==
    /\ reader = "open"
    /\ recv_ret > 0 \/ recv_ret \in {Idle, -2}
    /\ recv_ret' = Running
    /\ UNCHANGED <<blocking, pipe, total_sent, send_ret, received, reader, writer, interrupts>>

RecvSome(n) ==
    /\ reader = "open" /\ recv_ret = Running /\ writer # "reset"
    /\ n <= Len(pipe)
    /\ received' = received \o SubSeq(pipe, 1, n)
    /\ pipe' = SubSeq(pipe, n + 1, Len(pipe))
    /\ recv_ret' = n
    /\ UNCHANGED <<blocking, total_sent, send_ret, reader, writer, interrupts>>

(* recv with nothing left: 0 at the end, -1 after a reset, -2 would block. *)
RecvNothing ==
    /\ reader = "open" /\ recv_ret = Running /\ pipe = <<>>
    /\ writer # "open" \/ blocking = "no"
    /\ recv_ret' = CASE writer = "reset" -> -1 [] writer = "closed" -> 0 [] OTHER -> -2
    /\ UNCHANGED <<blocking, pipe, total_sent, send_ret, received, reader, writer, interrupts>>

(* The RAIISocket of the reader goes out of scope; unread bytes are lost.  *)
CloseReader ==
    /\ reader = "open" /\ recv_ret # Running
    /\ reader' = "closed" /\ pipe' = <<>>
    /\ UNCHANGED <<blocking, total_sent, send_ret, received, recv_ret, writer, interrupts>>

CloseWriter ==
    /\ writer = "open" /\ send_ret # Running
    /\ \/ writer' = "closed" /\ UNCHANGED pipe
       \/ writer' = "reset" /\ pipe' = <<>>
    /\ UNCHANGED <<blocking, total_sent, send_ret, received, recv_ret, reader, interrupts>>

SendStep == SendDone \/ SendFails \/ \E n \in 1 .. MsgLen : SendSome(n)

RecvStep == RecvCall \/ RecvNothing \/ \E n \in 1 .. MsgLen : RecvSome(n)

RetryNext == SendCall \/ SendStep \/ RecvStep \/ Interrupted \/ CloseReader \/ CloseWriter

RetrySpec == RetryInit /\ [][RetryNext]_retry

-----------------------------------------------------------------------------
(* Retrying neither repeats nor skips a byte: what was received, followed  *)
(* by what is under way, is the start of the message up to total_sent, as  *)
(* long as nobody has thrown bytes away.                                   *)
EachByteOnce ==
    IF reader = "open" /\ writer # "reset"
    THEN received \o pipe = [i \in 1 .. total_sent |-> i]
    ELSE received = [i \in 1 .. Len(received) |-> i] /\ Len(received) <= total_sent

(* A reader that is told of the end of the stream has everything that      *)
(* send_with_retry reported as sent.                                       *)
EofMeansAll == recv_ret = 0 /\ send_ret >= 0 => received = [i \in 1 .. MsgLen |-> i]

(* The stream that the two retrying calls make: each byte once and in      *)
(* order, all of them before the end.                                      *)
DeliveredOnce == EachByteOnce /\ EofMeansAll

(* However the signals fall, both sides come to an end: send_with_retry    *)
(* returns when the reader goes on reading or closes, and a reader learns  *)
(* that the writer is gone.                                                *)
RetriesEnd ==
    /\ send_ret = Running ~> send_ret # Running
    /\ writer # "open" ~> reader = "closed" \/ recv_ret \in {0, -1}
=============================================================================
