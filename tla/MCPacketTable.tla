---------------------------- MODULE MCPacketTable ----------------------------
(***************************************************************************)
(* Small captures for PacketTable.  A UDP packet has one cell of headers   *)
(* here, a TCP packet two.                                                 *)
(***************************************************************************)
EXTENDS PacketTable, Sequences, TLC

CONSTANTS p1, p2, p3, p4, p5, p6

Captured(headers, payload) ==
  LET bytes == headers \o payload
  IN [ignored |-> FALSE, LengthIncluded |-> Len(bytes), PayloadOffset |-> Len(headers),
      Data |-> [k \in 0 .. Len(bytes) - 1 |-> bytes[k + 1]]]

Udp(payload) == Captured(<<0>>, payload)
Tcp(payload) == Captured(<<0, 9>>, payload)
Small == [ignored |-> TRUE, LengthIncluded |-> 1]

\* More packets for table 0 than its slots: a payload that comes twice, the
\* beginning of it, and a packet whose comparison with p1 reads past what was
\* captured of p1.  One that is ignored, and one for another table.
Capture ==
  (p1 :> Udp(<<4, 0>>)) @@ (p2 :> Udp(<<4, 0>>)) @@ (p3 :> Udp(<<4>>)) @@
  (p4 :> Tcp(<<0, 7>>)) @@ (p5 :> Small) @@ (p6 :> Udp(<<1, 1>>))

\* four payloads for one table
Distinct ==
  (p1 :> Udp(<<0, 1>>)) @@ (p2 :> Udp(<<4, 1>>)) @@ (p3 :> Udp(<<8, 1>>)) @@
  (p4 :> Udp(<<12, 1>>))

\* three of one payload
Repeats ==
  (p1 :> Udp(<<0, 1>>)) @@ (p2 :> Udp(<<0, 1>>)) @@ (p3 :> Udp(<<0, 1>>))
=============================================================================
