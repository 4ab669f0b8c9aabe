------------------------------- MODULE Packet -------------------------------
(***************************************************************************)
(* The binary protocol (include/protocol/Packet.hpp): a header of version, *)
(* type and big-endian length, and a payload.  Bytes of a stream arrive    *)
(* one by one, anything at all, and deserialize is tried on what is there; *)
(* truncated, corrupted and oversized packets are among the streams.       *)
(***************************************************************************)
EXTENDS Integers, Sequences, SequencesExt

CONSTANTS
    ByteBase,           \* 256
    LengthBytes,        \* 4
    MAX_PAYLOAD_SIZE,
    MaxStream           \* bound: bytes that arrive

PROTOCOL_VERSION == 1
DataType == 3

Octet == 0 .. ByteBase - 1

HeaderSize == 2 + LengthBytes

(* The place value of byte k of a length, counted from the last.           *)
PlaceValue[k \in 0 .. LengthBytes] == IF k = 0 THEN 1 ELSE ByteBase * PlaceValue[k - 1]

ASSUME PacketAssumption ==
    /\ ByteBase \in Nat \ {0} /\ LengthBytes \in Nat
    /\ MAX_PAYLOAD_SIZE \in Nat /\ MAX_PAYLOAD_SIZE < PlaceValue[LengthBytes]

VARIABLES
    rx,         \* what has arrived
    out_packet, \* the Packet handed to deserialize
    parsed      \* what deserialize returned

packet == <<rx, out_packet, parsed>>

htonl(n) == [i \in 1 .. LengthBytes |-> (n \div PlaceValue[LengthBytes - i]) % ByteBase]

ntohl(digits) ==
    LET value[i \in 0 .. LengthBytes] == IF i = 0 THEN 0 ELSE value[i - 1] * ByteBase + digits[i]
    IN  value[LengthBytes]

(* Packet(type, data), which throws for a payload above the maximum.  The  *)
(* length is kept in network order.  Any byte may be the type: the types   *)
(* are an enumeration with the values of a byte, and nothing tests them.   *)
MakePacket(type, data) ==
    [version |-> PROTOCOL_VERSION, type |-> type, length |-> htonl(Len(data)), payload |-> data]

Constructible ==
    {MakePacket(t, d) : t \in Octet, d \in BoundedSeq(Octet, MAX_PAYLOAD_SIZE)}

serialize(p) == <<p.version, p.type>> \o p.length \o p.payload

PacketInit ==
    /\ rx = <<>>
    /\ out_packet = MakePacket(DataType, <<>>)
    /\ parsed = FALSE

(* Faulty variant: any length that fits the buffer is accepted.            *)
CompleteUnlimited(buffer) ==
    /\ Len(buffer) >= HeaderSize
    /\ buffer[1] = PROTOCOL_VERSION
    /\ Len(buffer) >= HeaderSize + ntohl(SubSeq(buffer, 3, HeaderSize))

(* The checks of deserialize, each of which returns false.                 *)
Complete(buffer) ==
    /\ Len(buffer) >= HeaderSize
    /\ buffer[1] = PROTOCOL_VERSION
    /\ LET payload_len == ntohl(SubSeq(buffer, 3, HeaderSize))
       IN  /\ payload_len <= MAX_PAYLOAD_SIZE
           /\ Len(buffer) >= HeaderSize + payload_len

(* The packet at the front of the buffer; bytes after it are not looked    *)
(* at, and neither is the type.                                            *)
Decoded(buffer) ==
    LET length == SubSeq(buffer, 3, HeaderSize)
    IN  [version |-> buffer[1], type |-> buffer[2], length |-> length,
         payload |-> SubSeq(buffer, HeaderSize + 1, HeaderSize + ntohl(length))]

deserialize(buffer) ==
    /\ parsed' = Complete(buffer)
    /\ out_packet' = IF Complete(buffer) THEN Decoded(buffer) ELSE out_packet

(* The network, which is not part of the code.                             *)
ArriveByte(b) ==
    /\ Len(rx) < MaxStream
    /\ rx' = Append(rx, b)
    /\ deserialize(rx')

PacketNext == \E b \in Octet : ArriveByte(b)

PacketSpec == PacketInit /\ [][PacketNext]_packet

-----------------------------------------------------------------------------
(* deserialize inverts serialize on every stream: it succeeds exactly when *)
(* a packet that can be constructed stands complete at the front, returns  *)
(* that packet whatever follows it, and until then leaves the output       *)
(* packet as it was.                                                       *)
DecodeInvertsEncode ==
    /\ parsed <=> \E p \in Constructible : IsPrefix(serialize(p), rx)
    /\ parsed => out_packet \in Constructible /\ IsPrefix(serialize(out_packet), rx)
    /\ ~ parsed => out_packet = MakePacket(DataType, <<>>)
=============================================================================
