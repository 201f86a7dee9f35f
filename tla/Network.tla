------------------------------ MODULE Network ------------------------------
(***************************************************************************)
(* The UDP network between two tftp endpoints, seen as one channel per     *)
(* direction.  It is external code: conn.go only calls WriteTo and         *)
(* ReadFrom on a net.UDPConn.                                              *)
(*                                                                         *)
(* Ordered = FALSE is UDP at its worst.  A channel is the set of all the   *)
(* datagrams ever sent through it; any of them may be delivered at any     *)
(* time, any number of times, or never: loss, duplication and reordering.  *)
(*                                                                         *)
(* Ordered = TRUE is the usual case of a single path.  A channel is a FIFO *)
(* queue, and a datagram is delivered once unless it is lost.              *)
(***************************************************************************)
EXTENDS Naturals, Sequences

CONSTANT Ordered

ASSUME OrderedAssumption == Ordered \in BOOLEAN

\* The channels that carry datagrams of the set D.
Channel(D) == IF Ordered THEN Seq(D) ELSE SUBSET D

\* The datagrams a channel holds.
Elems(ch) == IF Ordered THEN {ch[i] : i \in 1 .. Len(ch)} ELSE ch

\* UDPConn.WriteTo: the channel after m has been sent.
Put(ch, m) == IF Ordered THEN Append(ch, m) ELSE ch \cup {m}

\* UDPConn.ReadFrom: the datagrams that may be delivered next ...
Arrivals(ch) ==
    IF Ordered THEN IF ch = << >> THEN {} ELSE {Head(ch)} ELSE ch

\* ... and the channel after one of them has been.
Rest(ch) == IF Ordered THEN Tail(ch) ELSE ch

\* The number of datagrams on the way in a FIFO channel.
InFlight(ch) == IF Ordered THEN Len(ch) ELSE 0
=============================================================================
