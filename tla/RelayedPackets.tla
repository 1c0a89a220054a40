---------------------------- MODULE RelayedPackets ----------------------------
(***************************************************************************)
(* The relay packets that frames carry: Codec, at its real widths, on top  *)
(* of FrameStream.  A capture encodes what it read (server/broadcast.go),  *)
(* the write pump sends it as a frame of type MsgRelayPacket, the client   *)
(* decodes the payload of such a frame (client/connection.go) and builds   *)
(* the packet again for each of its interfaces (client/rawsend_linux.go).  *)
(*                                                                         *)
(* The stream tells two runs of bytes of a packet apart, which no Write    *)
(* and no Read treats differently: its relay header and what follows it.   *)
(***************************************************************************)
EXTENDS FrameStream, Codec

CONSTANTS
    PacketMsgs,    \* the messages that are relay packets
    Captured       \* what was captured: a header and a payload for each of them

ASSUME PacketAssumption ==
    /\ PacketMsgs \subseteq Msgs
    /\ \A m \in PacketMsgs :
          /\ Size[m] = 2
          /\ Captured[m].h \in Headers
          /\ Captured[m].payload \in Seq(Octets) /\ Len(Captured[m].payload) \in PayloadSizes

Carried(m) == EncodeRelayPacket(Captured[m].h, Captured[m].payload)

\* The bytes that an element of the stream stands for, and those of the payload that
\* ReadFrame returns for a frame.
Run(byte) ==
    IF byte.i = 1 THEN SubSeq(Carried(byte.m), 1, RelayHeaderSize)
                  ELSE SubSeq(Carried(byte.m), RelayHeaderSize + 1, Len(Carried(byte.m)))
PayloadRead(f) == Run(f[2]) \o Run(f[3])

\* The packet built again for a broadcast address says what was captured.
SaysCaptured(packet, m, broadcast) ==
    /\ ParseIPUDPPacket(packet) =
           [ok |-> TRUE, src |-> Captured[m].h.src, dst |-> broadcast,
            srcPort |-> Captured[m].h.srcPort, dstPort |-> Captured[m].h.dstPort,
            payload |-> Captured[m].payload]
    /\ Uint16(packet, 2) = Len(packet)

(* A frame that arrives as a relay packet fits a frame, decodes to the     *)
(* rule, the addresses, the ports and the payload that were captured, and  *)
(* what is built of it for any interface says the same, up to the largest  *)
(* payload UDP can carry; as long as no two frames are mixed.              *)
RelayedIntact ==
    ~mixed => \A i \in DOMAIN received, m \in PacketMsgs :
        received[i][1] = TypeByte(m) =>
            LET data    == PayloadRead(received[i])
                relayed == DecodeRelayPacket(data)
            IN  /\ 1 + Len(data) <= MaxFrameSize
                /\ relayed = [ok |-> TRUE, h |-> Captured[m].h, payload |-> Captured[m].payload]
                /\ \A broadcast \in Addresses :
                      SaysCaptured(BuildIPUDPPacket(relayed.h.src, broadcast, relayed.h.srcPort,
                                                    relayed.h.dstPort, relayed.payload),
                                   m, broadcast)

(* And the header of that IP packet passes its receivers' check.           *)
HeaderVerifies ==
    \A i \in DOMAIN received, m \in PacketMsgs : received[i] = Whole(m) => HeadersVerify
=============================================================================
