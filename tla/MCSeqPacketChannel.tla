------------------------ MODULE MCSeqPacketChannel ------------------------
(* Values of the constants of SeqPacketChannel for TLC. *)
EXTENDS SeqPacketChannelInv

\* With MaxData = 2 and MaxFds = 1: an object of one packet, one of two whose
\* first packet is full of bytes, and one of no bytes and more descriptors
\* than a packet holds (end-of-stream after its first packet must not look
\* like a boundary although data_pos = 0).
MCValues == {[data |-> 0, fds |-> 0], [data |-> 3, fds |-> 1], [data |-> 0, fds |-> 2]}

\* Three packets: bytes go on into the second, descriptors into the third, which
\* has no bytes.
MCLongValues == {[data |-> 3, fds |-> 3]}

OnlyA == {"a"}
OnlyB == {"b"}
Nobody == {}
=============================================================================
