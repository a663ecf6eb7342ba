----------------------------- MODULE MCPipeline -----------------------------
(* Device 1 is a protected sensor, device 2 a protected device without      *)
(* telemetry.  A window has four ticks.                                      *)
EXTENDS SessionReplay

Known(d) == [mac |-> d, ip |-> d]
ByIp(d) == [mac |-> Outside, ip |-> d]
Stranger == [mac |-> Outside, ip |-> Outside]

Packet(ts, src, dst) == [ts |-> ts, src |-> src, dst |-> dst, usable |-> TRUE]
Broken == [Packet(0, Stranger, Stranger) EXCEPT !.usable = FALSE]

(* Well before the start, just before it, in the first and in later windows. *)
PacketTimes == {-5, -1, 1, 4, 9}
Packets ==
    {Packet(t, Known(1), Known(2)) : t \in PacketTimes}
        \cup {Packet(t, ByIp(1), Stranger) : t \in {-5, 9}}
        \cup {Packet(t, Stranger, Stranger) : t \in {1, 9}}
        \cup {Broken}

EventTimes == {-5, -1, 3, 5, 9, 14}
Events == [ts : EventTimes, dev : {1}] \cup {[ts |-> 14, dev |-> Outside]}

Upto(S, n) == UNION {[1 .. k -> S] : k \in 0 .. n}

SomePackets == <<Packet(1, Known(1), Known(2)), Packet(4, Known(2), Known(1)), Packet(9, Known(1), Known(2))>>
SomeEvents == <<[ts |-> 3, dev |-> 1], [ts |-> 5, dev |-> 1]>>

Files ==
    [packets : Upto(Packets, 3), events : {SomeEvents}]
        \cup [packets : {SomePackets}, events : Upto(Events, 3)]
=============================================================================
