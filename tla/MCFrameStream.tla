---------------------------- MODULE MCFrameStream ----------------------------
(* FrameStream on small instances, with the relay packets its frames carry *)
(* at their real widths: see the FrameStream_*.cfg files.                  *)
EXTENDS RelayedPackets

\* A ping or a pong, two packets, and a list of rules too long to send.
AllMsgs     == {"ping", "packet", "longer", "rules"}
PacketNames == {"packet", "longer"}
Sizes       == [ping |-> 0, packet |-> 2, longer |-> 2, rules |-> 5]
WhatCame    ==
    [packet |-> [h |-> [rule |-> 65536, src |-> <<10, 0, 255, 1>>, dst |-> <<255, 255, 255, 255>>,
                        srcPort |-> 255, dstPort |-> 65535],
                 payload |-> <<>>],
     longer |-> [h |-> [rule |-> 2147483647, src |-> <<255, 255, 255, 255>>,
                        dst |-> <<10, 0, 255, 1>>, srcPort |-> 1, dstPort |-> 255],
                 payload |-> PayloadOf(65507)]]

\* Numbers at the bounds of their widths; 65507 bytes is what UDP can carry.
SomeRules     == {1, 256, 65536, 2147483647}
SomePorts     == {1, 255, 65535}
SomeAddresses == {<<10, 0, 255, 1>>, <<255, 255, 255, 255>>}
SomeSizes     == {0, 1, 2, 255, 256, 65507}
=============================================================================
