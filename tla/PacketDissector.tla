-------------------------- MODULE PacketDissector --------------------------
(***************************************************************************)
(* dissect_frame (include/network/PacketDissector.hpp): which parts of a   *)
(* captured frame are copied into header structures.  A frame is its size  *)
(* and the fields that the code branches on; a read is a layer, an offset  *)
(* and a length.                                                           *)
(***************************************************************************)
EXTENDS Integers

CONSTANT MaxFrame   \* bound: bytes of a frame

EthernetHeader == 14
IPv4Header == 20

(* The transport headers by ip.protocol.                                   *)
TransportHeader == [p \in {6, 17} |-> IF p = 6 THEN 20 ELSE 8]

(* protocol 1 stands for those that are not dissected.                     *)
Frame == [size : 0 .. MaxFrame, ether_type : {"ipv4", "other"}, ihl : 0 .. 15, protocol : {1, 6, 17}]

VARIABLES
    frames, \* the frames dissected, at most one
    reads   \* the headers copied out of it

dissector == <<frames, reads>>

DissectorInit == frames = {} /\ reads = {}

Read(layer, at, length) == [layer |-> layer, at |-> at, length |-> length]

(* Faulty variant: the options of the IP header are not counted.           *)
TransportFitsNoOptions(f) ==
    /\ f.protocol \in DOMAIN TransportHeader
    /\ f.size >= EthernetHeader + IPv4Header + TransportHeader[f.protocol]

TransportFits(f) ==
    /\ f.protocol \in DOMAIN TransportHeader
    /\ f.size >= EthernetHeader + f.ihl * 4 + TransportHeader[f.protocol]

(* Each test that fails returns.                                           *)
Headers(f) ==
    LET l2 == {Read(2, 0, EthernetHeader)}
        l3 == {Read(3, EthernetHeader, IPv4Header)}
        l4 == {Read(4, EthernetHeader + f.ihl * 4, TransportHeader[f.protocol])}
    IN  IF f.size < EthernetHeader THEN {}
        ELSE IF f.ether_type # "ipv4" \/ f.size < EthernetHeader + IPv4Header THEN l2
        ELSE IF TransportFits(f) THEN l2 \union l3 \union l4
        ELSE l2 \union l3

dissect_frame(f) ==
    /\ frames = {}
    /\ frames' = {f}
    /\ reads' = Headers(f)

DissectorNext == \E f \in Frame : dissect_frame(f)

DissectorSpec == DissectorInit /\ [][DissectorNext]_dissector

-----------------------------------------------------------------------------
(* Whatever length the frame claims for its IP header, no header is copied *)
(* from beyond the end of the frame; the copies do not overlap when the    *)
(* length is one that IPv4 allows (at least 20 bytes: the code does not    *)
(* test this); and the transport header of a complete frame is found.      *)
ReadsInsideFrame ==
    \A f \in frames :
        /\ \A r \in reads : r.at + r.length <= f.size
        /\ f.ihl * 4 >= IPv4Header =>
              \A r, s \in reads : r.layer < s.layer => r.at + r.length <= s.at
        /\ \A p \in {6, 17} :
              f.protocol = p /\ f.ether_type = "ipv4" /\ f.ihl * 4 >= IPv4Header
              /\ f.size >= EthernetHeader + f.ihl * 4 + TransportHeader[p]
              => \E r \in reads : r.layer = 4
=============================================================================
