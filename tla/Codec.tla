--------------------------------- MODULE Codec ---------------------------------
(***************************************************************************)
(* The relay packet that is the payload of a MsgRelayPacket frame          *)
(* (internal/protocol/protocol.go) and the IP packet a client makes of it  *)
(* again (packet.go, checksum.go): sequences of bytes and numbers of their *)
(* widths.                                                                 *)
(***************************************************************************)
EXTENDS Integers, Sequences

CONSTANTS
    RuleNumbers,    \* rule ids, of 32 bits
    Ports,          \* of 16 bits
    Addresses,      \* sequences of 4 bytes
    PayloadSizes    \* sizes of captured UDP payloads

Word    == 65536    \* 2^16
Octets  == {b \in Nat : b < 256}

ASSUME CodecAssumption ==
    /\ RuleNumbers \subseteq {n \in Nat : n \div Word < Word}
    /\ Ports \subseteq {n \in Nat : n < Word}
    /\ Addresses \subseteq [1 .. 4 -> Octets]
    /\ PayloadSizes \subseteq {n \in Nat : 28 + n < Word}    \* what a packet can carry

Refused == [ok |-> FALSE]

PutUint16(n) == <<(n % Word) \div 256, n % 256>>
PutUint32(n) == PutUint16(n \div Word) \o PutUint16(n)

\* The number at byte i, counted from 0 as in the code.
Uint16(b, i) == b[i + 1] * 256 + b[i + 2]
Uint32(b, i) == Uint16(b, i) * Word + Uint16(b, i + 2)
Slice(b, i, j) == SubSeq(b, i + 1, j)

RelayHeaderSize == 18
MaxFrameSize    == 65536

\* Mutant: the length on the wire includes the header.
EncodeWithHeaderLength(h, payload) ==
    PutUint32(h.rule) \o h.src \o h.dst \o PutUint16(h.srcPort) \o PutUint16(h.dstPort)
        \o PutUint16(RelayHeaderSize + Len(payload)) \o payload

EncodeRelayPacket(h, payload) ==
    PutUint32(h.rule) \o h.src \o h.dst \o PutUint16(h.srcPort) \o PutUint16(h.dstPort)
        \o PutUint16(Len(payload)) \o payload

DecodeRelayPacket(data) ==
    IF Len(data) < RelayHeaderSize \/ Len(data) - RelayHeaderSize < Uint16(data, 16)
    THEN Refused
    ELSE [ok      |-> TRUE,
          h       |-> [rule    |-> Uint32(data, 0),
                       src     |-> Slice(data, 4, 8), dst |-> Slice(data, 8, 12),
                       srcPort |-> Uint16(data, 12), dstPort |-> Uint16(data, 14)],
          payload |-> Slice(data, RelayHeaderSize, RelayHeaderSize + Uint16(data, 16))]

-----------------------------------------------------------------------------
Words(data) ==
    [i \in 1 .. (Len(data) + 1) \div 2 |->
        data[2 * i - 1] * 256 + IF 2 * i <= Len(data) THEN data[2 * i] ELSE 0]

\* The sums of the first words, up to all of them.
Sums(words) ==
    LET sum[i \in 0 .. Len(words)] == IF i = 0 THEN 0 ELSE sum[i - 1] + words[i]
    IN  sum

SumOfWords(data) == Sums(Words(data))[Len(Words(data))]

Folded[sum \in Nat] == IF sum < Word THEN sum ELSE Folded[(sum % Word) + (sum \div Word)]

\* Mutant: the carries are dropped.
ChecksumWithoutCarry(data) == (Word - 1) - (SumOfWords(data) % Word)

Checksum(data) == (Word - 1) - Folded[SumOfWords(data)]

\* The first 20 bytes: version 4 and 5 words, TTL 64, protocol 17.
IPHeader(totalLen, checksum, src, dst) ==
    <<69, 0>> \o PutUint16(totalLen) \o <<0, 0, 0, 0, 64, 17>> \o PutUint16(checksum) \o src \o dst

UDPHeader(srcPort, dstPort, udpLen) ==
    PutUint16(srcPort) \o PutUint16(dstPort) \o PutUint16(udpLen) \o <<0, 0>>

BuildIPUDPPacket(src, dst, srcPort, dstPort, payload) ==
    LET totalLen == 28 + Len(payload)
    IN  IPHeader(totalLen, Checksum(IPHeader(totalLen, 0, src, dst)), src, dst)
            \o UDPHeader(srcPort, dstPort, 8 + Len(payload)) \o payload

ParseIPUDPPacket(packet) ==
    LET ihl    == (packet[1] % 16) * 4
        udpLen == Uint16(packet, ihl + 4)
    IN  IF \/ Len(packet) < 28
           \/ packet[1] \div 16 # 4
           \/ ihl < 20 \/ Len(packet) < ihl + 8
           \/ packet[10] # 17
           \/ udpLen < 8 \/ ihl + udpLen > Len(packet)
        THEN Refused
        ELSE [ok |-> TRUE, src |-> Slice(packet, 12, 16), dst |-> Slice(packet, 16, 20),
              srcPort |-> Uint16(packet, ihl), dstPort |-> Uint16(packet, ihl + 2),
              payload |-> Slice(packet, ihl + 8, ihl + udpLen)]

-----------------------------------------------------------------------------
Headers == [rule : RuleNumbers, src : Addresses, dst : Addresses, srcPort : Ports, dstPort : Ports]

\* A payload of n bytes that differ from their neighbours.
PayloadOf(n) == [i \in 1 .. n |-> i % 256]

\* The header of a packet that was built adds up to all ones, as its receivers
\* check (RFC 1071).
HeadersVerify ==
    \A src, dst \in Addresses, n \in PayloadSizes :
        SumOfWords(Slice(BuildIPUDPPacket(src, dst, 1, 1, PayloadOf(n)), 0, 20)) % (Word - 1) = 0
=============================================================================
