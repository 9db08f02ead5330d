--------------------------- MODULE MCUdpEndpoint ---------------------------
(* Small instances of the UDP endpoint: a unit of size is a third of a      *)
(* packet, the header takes two units of five.                              *)
EXTENDS UdpEndpoint

CONSTANTS c1, c2, t1, t2

Datagram(i, c, s, q) == [id |-> i, from |-> c, size |-> s, query |-> q]

\* Two queries of two clients, the second as long as a packet may be, and a
\* datagram shorter than a header.
ThreeDatagrams ==
  {Datagram(1, c1, 3, TRUE), Datagram(2, c2, 5, TRUE), Datagram(3, c2, 1, FALSE)}

\* The two queries alone, for the runs with two tasks.
TwoDatagrams == {Datagram(1, c1, 3, TRUE), Datagram(2, c2, 5, TRUE)}

\* One packet object per task and per datagram is as many as are ever live.
FourBuffers == 1..4
=============================================================================
