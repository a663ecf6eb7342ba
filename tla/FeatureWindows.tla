--------------------------- MODULE FeatureWindows ---------------------------
(***************************************************************************)
(* The window managers of src/datasets/datasense: the watermark of         *)
(* ordering.py, the grid of windowing.py and the three managers of         *)
(* network_features.py, communication.py and behavior_features.py.         *)
(*                                                                         *)
(* A manager is a record, an operation a function of it.  What an          *)
(* accumulator computes from its packets is abstracted to the set of their *)
(* positions in the raw file: every feature is a function of that set.     *)
(* Time is in ticks since the scenario's start; devices are numbers, in    *)
(* the order of their names.                                               *)
(***************************************************************************)
EXTENDS Integers, Sequences, SequencesExt, FiniteSetsExt

CONSTANTS
    Devices,        \* the inventory
    Protected,      \* those that are neither attacker nor cloud
    Sensors,        \* those with a supported behaviour profile
    WindowTicks,    \* window_ns
    Tolerance,      \* clock_tolerance_ns
    Quantum,        \* ticks in the millisecond that ISO text keeps
    EdgeCapacity    \* active_window_capacity

ASSUME WindowAssumption ==
    /\ Devices \subseteq Nat \ {0} /\ Protected \subseteq Devices /\ Sensors \subseteq Devices
    /\ WindowTicks \in Nat \ {0} /\ Tolerance \in Nat /\ Quantum \in Nat \ {0}
    /\ WindowTicks % Quantum = 0 /\ Tolerance % Quantum = 0
    /\ EdgeCapacity \in Nat \ {0}

(* No inventory device: an endpoint that does not resolve. *)
Outside == 0

(* No previous event to measure the gap from. *)
NoGap == -1

(* WindowGrid.assign: just before the start snaps into window 0, earlier     *)
(* events keep a negative window.                                            *)
Assign(ts) ==
    LET raw == ts \div WindowTicks
    IN  IF raw < 0 /\ -ts <= Tolerance THEN 0 ELSE raw

(* iso_utc_from_ns followed by epoch_ns_from_iso. *)
ThroughIso(ts) == ts - (ts % Quantum)

-----------------------------------------------------------------------------
(* WatermarkTracker.  The three bounds are set together by the first event.  *)
Tracker(lateness) ==
    [seen |-> FALSE, max |-> 0, min |-> 0, floor |-> 0,
     windows |-> -((-lateness) \div WindowTicks)]

(* Mutant: a packet one window behind the floor still gets through. *)
AcceptableNearly(t, wid) == t.seen => wid >= t.floor - 1

Acceptable(t, wid) == t.seen => wid >= t.floor

Observe(t, wid) ==
    LET max == IF t.seen THEN Max({t.max, wid}) ELSE wid
    IN  [t EXCEPT !.seen = TRUE,
                  !.max = max,
                  !.min = IF t.seen THEN Min({t.min, wid}) ELSE wid,
                  !.floor = IF t.seen THEN Max({t.floor, max - t.windows}) ELSE max - t.windows]

DueWindows(t) == IF t.seen THEN t.min .. (t.floor - 1) ELSE {}

AfterDue(t) == IF DueWindows(t) = {} THEN t ELSE [t EXCEPT !.min = t.floor]

-----------------------------------------------------------------------------
(* Accumulators: a function from keys, a window first, to the positions of   *)
(* the events that went into them.                                           *)
Credit(acc, keys, i) ==
    [k \in DOMAIN acc \cup keys |->
        (IF k \in DOMAIN acc THEN acc[k] ELSE {}) \cup (IF k \in keys THEN {i} ELSE {})]

Without(acc, keys) == [k \in DOMAIN acc \ keys |-> acc[k]]

KeyLess(a, b) ==
    \E i \in DOMAIN a : a[i] < b[i] /\ \A j \in 1 .. (i - 1) : a[j] = b[j]

(* sorted(): by rank. *)
SortedKeys(keys) ==
    [i \in 1 .. Cardinality(keys) |->
        CHOOSE k \in keys : Cardinality({j \in keys : KeyLess(j, k)}) = i - 1]

Row(k, ids, gap) == [wid |-> k[1], key |-> k, ids |-> ids, gap |-> gap]

(* finalize of each key, in the order of sorted(keys). *)
Rows(acc, keys, gap) ==
    LET order == SortedKeys(keys)
    IN  [i \in DOMAIN order |-> Row(order[i], acc[order[i]], gap[order[i]])]

DueKeys(m) == {k \in DOMAIN m.acc : k[1] \in DueWindows(m.tracker)}

Manager(lateness) ==
    [tracker |-> Tracker(lateness), acc |-> [k \in {} |-> {}], history |-> [d \in Sensors |-> {}]]

(* What an operation on a manager gives its caller. *)
Result(m, rows) == [ok |-> TRUE, manager |-> m, rows |-> rows]
Raised(m) == [ok |-> FALSE, manager |-> m, rows |-> <<>>]

-----------------------------------------------------------------------------
(* NetworkWindowManager and CommunicationWindowManager. *)
NoHistory(m) == [k \in DOMAIN m.acc |-> NoGap]

FinalizeDue(m) ==
    Result([m EXCEPT !.tracker = AfterDue(m.tracker), !.acc = Without(m.acc, DueKeys(m))],
           Rows(m.acc, DueKeys(m), NoHistory(m)))

PacketFinish(m) == Rows(m.acc, DOMAIN m.acc, NoHistory(m))

(* The inventory devices a packet is charged to: by MAC, and by IP only when *)
(* neither MAC is known.                                                     *)
Participants(p) ==
    LET byMac == {p.src.mac, p.dst.mac} \cap Devices
    IN  IF byMac # {} THEN byMac ELSE {p.src.ip, p.dst.ip} \cap Devices

(* A packet between strangers moves the watermark but finalizes nothing.     *)
AddNetworkPacket(m, p, i) ==
    LET wid == Assign(p.ts)
        seen == [m EXCEPT !.tracker = Observe(m.tracker, wid)]
        keys == {<<wid, d>> : d \in Participants(p)}
    IN  IF ~Acceptable(m.tracker, wid) THEN Raised(m)
        ELSE IF keys = {} THEN Result(seen, <<>>)
        ELSE FinalizeDue([seen EXCEPT !.acc = Credit(m.acc, keys, i)])

(* EndpointResolver.resolve, each endpoint on its own: MAC, then IP.         *)
Entity(e) ==
    IF e.mac \in Devices THEN e.mac ELSE IF e.ip \in Devices THEN e.ip ELSE Outside

(* A new edge above the capacity raises, after the watermark has moved.      *)
AddCommunicationPacket(m, p, i) ==
    LET wid == Assign(p.ts)
        seen == [m EXCEPT !.tracker = Observe(m.tracker, wid)]
        key == <<wid, Entity(p.src), Entity(p.dst)>>
    IN  IF ~Acceptable(m.tracker, wid) THEN Raised(m)
        ELSE IF key \notin DOMAIN m.acc /\ Cardinality(DOMAIN m.acc) >= EdgeCapacity
             THEN Raised(seen)
        ELSE FinalizeDue([seen EXCEPT !.acc = Credit(m.acc, {key}, i)])

-----------------------------------------------------------------------------
(* BehaviorWindowManager.  Its accumulators hold pairs: timestamp, position. *)

(* _cross_window_gap: from the latest earlier event still remembered.        *)
CrossWindowGap(m) ==
    [k \in DOMAIN m.acc |->
        LET first == Min({e[1] : e \in m.acc[k]})
            earlier == {ts \in m.history[k[2]] : ts < first}
        IN  IF earlier = {} THEN NoGap ELSE first - Max(earlier)]

(* _prune_history: only what is not before the first open window stays.      *)
PruneHistory(m) ==
    IF DueWindows(m.tracker) = {} THEN m.history
    ELSE [d \in Sensors |-> {ts \in m.history[d] : ts >= m.tracker.floor * WindowTicks}]

BehaviorFinalizeDue(m) ==
    Result([m EXCEPT !.tracker = AfterDue(m.tracker),
                     !.acc = Without(m.acc, DueKeys(m)),
                     !.history = PruneHistory(m)],
           Rows(m.acc, DueKeys(m), CrossWindowGap(m)))

BehaviorFinish(m) == Rows(m.acc, DOMAIN m.acc, CrossWindowGap(m))

(* An event of no inventory device, or of one without a profile, is ignored  *)
(* before it reaches the watermark.                                          *)
AddEvent(m, e) ==
    LET wid == Assign(e.ts)
    IN  IF e.dev \notin Sensors THEN Result(m, <<>>)
        ELSE IF ~Acceptable(m.tracker, wid) THEN Raised(m)
        ELSE BehaviorFinalizeDue(
                [m EXCEPT !.tracker = Observe(m.tracker, wid),
                          !.acc = Credit(m.acc, {<<wid, e.dev>>}, <<e.ts, e.id>>),
                          !.history[e.dev] = @ \cup {e.ts}])

-----------------------------------------------------------------------------
(* The dense fill at the end of iter_pcap_feature_rows and                   *)
(* iter_behavior_rows: a row without evidence for every device of the        *)
(* universe and every window of the span that emitted none, device by        *)
(* device.  present is the PresenceBitmap.                                   *)
DenseFill(t, universe, present) ==
    LET lo == Min({t.min, 0})
        hi == Max({t.max, 0})
        missing == {p \in universe \X (lo .. hi) : <<p[2], p[1]>> \notin present}
        order == SortedKeys(missing)
    IN  [i \in DOMAIN order |-> Row(<<order[i][2], order[i][1]>>, {}, NoGap)]
=============================================================================
