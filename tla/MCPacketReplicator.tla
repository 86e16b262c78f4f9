------------------------ MODULE MCPacketReplicator ------------------------
EXTENDS PacketReplicator

Good == [eth |-> "ip", proto |-> "udp", ihl |-> 5, len |-> 60, udpLen |-> 26, toTarget |-> TRUE]

\* A packet to replicate, one whose UDP length is wrong, and one for another
\* address
MCShapes == {Good, [Good EXCEPT !.udpLen = 27], [Good EXCEPT !.toTarget = FALSE]}
ASSUME MCShapes \subseteq Shape
=============================================================================
