-------------------------- MODULE ExtractionStore ---------------------------
(***************************************************************************)
(* ExtractionEngine of src/datasets/datasense/extraction.py and the        *)
(* feature store of feature_store.py it writes, for one session.           *)
(*                                                                         *)
(* The raw files never change.  A process runs run_session: it decides     *)
(* whether to resume, clears what an earlier attempt left, checkpoints,    *)
(* reads packets and then telemetry through the window managers into three *)
(* temporary directories, renames these into place and checkpoints again.  *)
(* It may die at any step; the directories and the checkpoint survive.     *)
(* What it writes, renames or removes may fail; such an error may leave a  *)
(* temporary directory where it is.                                        *)
(***************************************************************************)
EXTENDS FeatureWindows, WindowSort

CONSTANTS
    RawFiles,       \* the pairs of raw files considered
    Lateness,       \* values of max_event_lateness_ns a process may run with
    BufferRows,     \* output_buffer_rows
    MaxStarts,      \* bound: calls of run_session
    MaxDiskErrors   \* bound: disk errors that leave a temporary directory

ASSUME StoreAssumption ==
    /\ BufferRows \in Nat \ {0} /\ MaxDiskErrors \in Nat
    /\ \A c \in Lateness : c \in Nat

VARIABLES
    raw,            \* the session's raw pcap and raw json
    checkpoint,     \* extraction_state/<scenario>.json
    final,          \* per modality: the output directory
    tmp,            \* per modality: the writer and its temporary directory
    stale,          \* modalities with temporary directories that nobody writes
    undeleted,      \* ... those among them that a disk error left there
    errors,         \* number of such errors
    pc,             \* where run_session is
    config,         \* the max_event_lateness_ns of the running process
    position,       \* records read from the current raw file
    net, comm, beh, \* the window managers
    present,        \* net_presence, then presence
    events,         \* the telemetry after the sorter
    starts          \* calls so far

litterVars == <<stale, undeleted, errors>>
diskVars == <<checkpoint, final, tmp, litterVars>>
passVars == <<position, net, comm, beh, present, events>>
extractVars == <<raw, checkpoint, final, tmp, stale, undeleted, errors, pc, config, position, net,
                 comm, beh, present, events, starts>>

(* cleanup_partial_output clears in this order; the writers' with statement  *)
(* leaves them in the opposite order of its items.                           *)
Modalities == <<"network", "behavior", "communication">>
ExitOrder == <<"communication", "behavior", "network">>
Modality == Range(Modalities)

NoDir == [there |-> FALSE, parts |-> <<>>]
NoWriter == [there |-> FALSE, parts |-> <<>>, buffer |-> <<>>]

(* FeatureStoreWriter.write_rows: rows are appended to the buffer, which is  *)
(* flushed into a part whenever it is full.                                  *)
Write(w, rows) ==
    LET all == w.buffer \o rows
        full == (Len(all) \div BufferRows) * BufferRows
    IN  [w EXCEPT !.parts = @ \o Grouped(SubSeq(all, 1, full), BufferRows),
                  !.buffer = SubSeq(all, full + 1, Len(all))]

Fresh ==
    /\ position' = 0
    /\ net' = Manager(0) /\ comm' = Manager(0) /\ beh' = Manager(0)
    /\ present' = {}
    /\ events' = <<>>

ExtractInit ==
    /\ raw \in RawFiles
    /\ checkpoint = [status |-> "none", config |-> 0]
    /\ final = [m \in Modality |-> NoDir]
    /\ tmp = [m \in Modality |-> NoWriter]
    /\ stale = {} /\ undeleted = {} /\ errors = 0
    /\ pc = "idle"
    /\ config = 0
    /\ position = 0
    /\ net = Manager(0) /\ comm = Manager(0) /\ beh = Manager(0)
    /\ present = {}
    /\ events = <<>>
    /\ starts = 0

-----------------------------------------------------------------------------
(* All three output directories exist. *)
InPlace == \A m \in Modality : final[m].there

(* decide_resume: the action for a process with lateness c.  A completed     *)
(* session is kept, redone when that is forced, and refused otherwise.       *)
DecideResume(c, force) ==
    CASE checkpoint.status = "none" ->
            IF \E m \in Modality : final[m].there THEN "regenerate" ELSE "run"
      [] checkpoint.status = "completed" ->
            IF checkpoint.config = c /\ InPlace THEN "skip"
            ELSE IF force THEN "regenerate" ELSE "refuse"
      [] OTHER -> "rerun"

(* run_session up to cleanup_partial_output. *)
Start(c, force) ==
    /\ pc = "idle" /\ starts < MaxStarts
    /\ starts' = starts + 1
    /\ config' = c
    /\ pc' = CASE DecideResume(c, force) \in {"skip", "refuse"} -> "idle"
               [] DecideResume(c, force) = "run" -> "save"
               [] DecideResume(c, force) \in {"regenerate", "rerun"} -> "clean"
    /\ UNCHANGED <<raw, diskVars, passVars>>

(* cleanup_partial_output: a directory goes file by file, then itself.       *)
CleanFinal ==
    /\ pc = "clean"
    /\ \E n \in DOMAIN Modalities :
        LET m == Modalities[n]
        IN  /\ final[m].there
            /\ \A k \in 1 .. (n - 1) : ~final[Modalities[k]].there
            /\ \/ /\ final[m].parts = <<>>
                  /\ final' = [final EXCEPT ![m] = NoDir]
               \/ \E i \in DOMAIN final[m].parts :
                    final' = [final EXCEPT ![m].parts = RemoveAt(@, i)]
    /\ UNCHANGED <<raw, checkpoint, tmp, litterVars, pc, config, starts, passVars>>

(* Mutant: temporary directories are not looked for. *)
CleanStaleNot ==
    /\ pc = "clean"
    /\ \A m \in Modality : ~final[m].there
    /\ pc' = "save"
    /\ UNCHANGED <<raw, diskVars, config, starts, passVars>>

(* The temporary directories go; errors are ignored, and leave them. *)
CleanStale ==
    /\ pc = "clean"
    /\ \A m \in Modality : ~final[m].there
    /\ \E kept \in SUBSET stale :
        /\ errors + Cardinality(kept) <= MaxDiskErrors
        /\ stale' = kept /\ undeleted' = kept
        /\ errors' = errors + Cardinality(kept)
    /\ pc' = "save"
    /\ UNCHANGED <<raw, checkpoint, final, tmp, config, starts, passVars>>

SaveInProgress ==
    /\ pc = "save"
    /\ checkpoint' = [status |-> "in_progress", config |-> config]
    /\ pc' = "open"
    /\ UNCHANGED <<raw, final, tmp, litterVars, config, starts, passVars>>

(* The writers' __enter__, and the start of iter_pcap_feature_rows. *)
Open ==
    /\ pc = "open"
    /\ tmp' = [m \in Modality |-> [NoWriter EXCEPT !.there = TRUE]]
    /\ pc' = "packets"
    /\ position' = 0
    /\ net' = Manager(config) /\ comm' = Manager(config) /\ beh' = Manager(config)
    /\ present' = {}
    /\ events' = <<>>
    /\ UNCHANGED <<raw, checkpoint, final, litterVars, config, starts>>

(* A directory cannot be made: the writers entered before it are aborted. *)
OpenFails ==
    /\ pc = "open"
    /\ \E n \in DOMAIN Modalities :
        /\ tmp' = [m \in Modality |->
                      [NoWriter EXCEPT !.there = \E k \in 1 .. (n - 1) : m = Modalities[k]]]
        /\ pc' = IF n = 1 THEN "fail" ELSE "abort"
    /\ UNCHANGED <<raw, checkpoint, final, litterVars, config, passVars, starts>>

-----------------------------------------------------------------------------
Keys(rows) == {rows[i].key : i \in DOMAIN rows}

(* The body of generate's loop: the network manager, then the communication  *)
(* manager.  A record without a timestamp, or that does not decode, is       *)
(* skipped.                                                                  *)
ReadPacket ==
    /\ pc = "packets" /\ position < Len(raw.packets)
    /\ LET i == position + 1
           p == raw.packets[i]
           n == AddNetworkPacket(net, p, i)
           c == AddCommunicationPacket(comm, p, i)
       IN  \/ /\ ~p.usable
              /\ UNCHANGED <<pc, tmp, net, comm, present>>
           \/ /\ p.usable /\ n.ok /\ c.ok
              /\ net' = n.manager /\ comm' = c.manager
              /\ present' = present \cup Keys(n.rows)
              /\ tmp' = [tmp EXCEPT !["network"] = Write(@, n.rows),
                                    !["communication"] = Write(@, c.rows)]
              /\ UNCHANGED pc
           \/ /\ p.usable /\ ~(n.ok /\ c.ok)
              /\ pc' = "abort"
              /\ UNCHANGED <<tmp, net, comm, present>>
    /\ position' = position + 1
    /\ UNCHANGED <<raw, checkpoint, final, litterVars, config, beh, events, starts>>

(* The end of the pcap: what is still open is finalized, unseen pairs of     *)
(* device and window get rows without evidence, and the telemetry is read    *)
(* into the sorter.  Its rows come back with their timestamps through ISO    *)
(* text.                                                                     *)
SortedEvents ==
    LET keyed == [i \in DOMAIN raw.events |->
                    [wid |-> Assign(raw.events[i].ts), id |-> i, dev |-> raw.events[i].dev,
                     ts |-> ThroughIso(raw.events[i].ts)]]
    IN  IterSorted(keyed)

PacketsEnd ==
    /\ pc = "packets" /\ position = Len(raw.packets)
    /\ LET rows == PacketFinish(net)
           seen == present \cup Keys(rows)
           universe == Protected \cup {k[2] : k \in seen}
       IN  tmp' = [tmp EXCEPT
                    !["network"] = Write(@, rows \o DenseFill(net.tracker, universe, seen)),
                    !["communication"] = Write(@, PacketFinish(comm))]
    /\ events' = SortedEvents
    /\ present' = {}
    /\ position' = 0
    /\ pc' = "events"
    /\ UNCHANGED <<raw, checkpoint, final, litterVars, config, net, comm, beh, starts>>

(* The loop of iter_behavior_rows over the sorted events. *)
ReadEvent ==
    /\ pc = "events" /\ position < Len(events)
    /\ LET b == AddEvent(beh, events[position + 1])
       IN  \/ /\ b.ok
              /\ beh' = b.manager
              /\ present' = present \cup Keys(b.rows)
              /\ tmp' = [tmp EXCEPT !["behavior"] = Write(@, b.rows)]
              /\ UNCHANGED pc
           \/ /\ ~b.ok
              /\ pc' = "abort"
              /\ UNCHANGED <<beh, present, tmp>>
    /\ position' = position + 1
    /\ UNCHANGED <<raw, checkpoint, final, litterVars, config, net, comm, events, starts>>

EventsEnd ==
    /\ pc = "events" /\ position = Len(events)
    /\ LET rows == BehaviorFinish(beh)
           fill == IF beh.tracker.seen
                   THEN DenseFill(beh.tracker, Sensors, present \cup Keys(rows)) ELSE <<>>
       IN  tmp' = [tmp EXCEPT !["behavior"] = Write(@, rows \o fill)]
    /\ pc' = "finalize"
    /\ UNCHANGED <<raw, checkpoint, final, litterVars, config, passVars, starts>>

(* A raw file that cannot be read, or a part that cannot be written. *)
ReadFails ==
    /\ pc \in {"packets", "events"}
    /\ pc' = "abort"
    /\ UNCHANGED <<raw, diskVars, config, passVars, starts>>

-----------------------------------------------------------------------------
(* The writers are left from the last to the first: n is the next. *)
Leaves(n) ==
    /\ tmp[ExitOrder[n]].there
    /\ \A k \in 1 .. (n - 1) : ~tmp[ExitOrder[k]].there
    /\ tmp' = [tmp EXCEPT ![ExitOrder[n]] = NoWriter]

(* A disk error leaves a writer's temporary directory where it is. *)
LeaveDirectory(m) ==
    /\ errors < MaxDiskErrors
    /\ errors' = errors + 1
    /\ stale' = stale \cup {m} /\ undeleted' = undeleted \cup {m}

(* FeatureStoreWriter.finalize. *)
Finalize ==
    /\ pc = "finalize"
    /\ \E n \in DOMAIN ExitOrder :
        LET m == ExitOrder[n]
        IN  /\ Leaves(n)
            /\ final' = [final EXCEPT ![m] =
                    [there |-> TRUE,
                     parts |-> IF tmp[m].buffer = <<>> THEN tmp[m].parts
                               ELSE Append(tmp[m].parts, tmp[m].buffer)]]
            /\ pc' = IF n = Len(ExitOrder) THEN "mark" ELSE pc
    /\ UNCHANGED <<raw, checkpoint, litterVars, config, passVars, starts>>

(* finalize raises in __exit__, before the rename: nobody aborts its writer, *)
(* but those that are left after it.                                         *)
FinalizeFails ==
    /\ pc = "finalize"
    /\ \E n \in DOMAIN ExitOrder : Leaves(n) /\ LeaveDirectory(ExitOrder[n])
    /\ pc' = IF \E m \in Modality : tmp'[m].there THEN "abort" ELSE "fail"
    /\ UNCHANGED <<raw, checkpoint, final, config, passVars, starts>>

(* FeatureStoreWriter.abort: the flush it begins with may raise, and then    *)
(* nothing is removed; what the removal meets is ignored.  The next writer's *)
(* __exit__ follows all the same.  The generators end with the exception.    *)
Abort ==
    /\ pc = "abort"
    /\ \E n \in DOMAIN ExitOrder :
        /\ Leaves(n)
        /\ UNCHANGED litterVars \/ LeaveDirectory(ExitOrder[n])
    /\ pc' = IF \E m \in Modality : tmp'[m].there THEN "abort" ELSE "fail"
    /\ Fresh
    /\ UNCHANGED <<raw, checkpoint, final, config, starts>>

SaveFailed ==
    /\ pc = "fail"
    /\ checkpoint' = [checkpoint EXCEPT !.status = "failed"]
    /\ pc' = "idle"
    /\ Fresh
    /\ UNCHANGED <<raw, final, tmp, litterVars, config, starts>>

SaveCompleted ==
    /\ pc = "mark"
    /\ checkpoint' = [checkpoint EXCEPT !.status = "completed"]
    /\ pc' = "idle"
    /\ Fresh
    /\ UNCHANGED <<raw, final, tmp, litterVars, config, starts>>

(* The process dies, or an exception leaves run_session outside of its try   *)
(* block; its temporary directories stay.                                    *)
Crash ==
    /\ pc # "idle"
    /\ stale' = stale \cup {m \in Modality : tmp[m].there}
    /\ tmp' = [m \in Modality |-> NoWriter]
    /\ pc' = "idle"
    /\ Fresh
    /\ UNCHANGED <<raw, checkpoint, final, undeleted, errors, config, starts>>

ExtractNext ==
    \/ \E c \in Lateness, force \in BOOLEAN : Start(c, force)
    \/ CleanFinal \/ CleanStale \/ SaveInProgress \/ Open \/ OpenFails
    \/ ReadPacket \/ PacketsEnd \/ ReadEvent \/ EventsEnd \/ ReadFails
    \/ Finalize \/ FinalizeFails \/ Abort \/ SaveFailed \/ SaveCompleted
    \/ Crash

-----------------------------------------------------------------------------
StoredRows(m) == FlattenSeq(final[m].parts)

Ids(rows, k) == UNION {rows[i].ids : i \in {j \in DOMAIN rows : rows[j].key = k}}

NoKeyTwice(rows) == \A i, j \in DOMAIN rows : rows[i].key = rows[j].key => i = j

(* What the raw files say: the packets of a device in a window, the packets  *)
(* of a link in a window, the events of a sensor in a window.                *)
PacketsOf(w, d) ==
    {i \in DOMAIN raw.packets : /\ raw.packets[i].usable
                                /\ Assign(raw.packets[i].ts) = w
                                /\ d \in Participants(raw.packets[i])}

PacketsBetween(w, s, d) ==
    {i \in DOMAIN raw.packets : /\ raw.packets[i].usable
                                /\ Assign(raw.packets[i].ts) = w
                                /\ Entity(raw.packets[i].src) = s
                                /\ Entity(raw.packets[i].dst) = d}

EventsOf(w, d) ==
    {i \in DOMAIN raw.events : raw.events[i].dev = d /\ Assign(raw.events[i].ts) = w}

PacketWindows == {Assign(raw.packets[i].ts) : i \in {j \in DOMAIN raw.packets : raw.packets[j].usable}}
EventWindows == {Assign(raw.events[i].ts) : i \in {j \in DOMAIN raw.events : raw.events[j].dev \in Sensors}}

(* A session's output is whole: each modality is a directory in which no     *)
(* device or link has two rows for a window, each packet and event is in     *)
(* exactly the rows the raw files call for, and no window from the start to  *)
(* the last one seen lacks a row of a protected device or a sensor.          *)
Whole ==
    /\ InPlace
    /\ \A m \in Modality : NoKeyTwice(StoredRows(m))
    /\ LET rows == StoredRows("network")
       IN  \A w \in PacketWindows \cup 0 .. Max(PacketWindows \cup {0}) :
            /\ \A d \in Devices : Ids(rows, <<w, d>>) = PacketsOf(w, d)
            /\ w >= 0 => \A d \in Protected : <<w, d>> \in Keys(rows)
    /\ LET rows == StoredRows("communication")
       IN  \A w \in PacketWindows, s, d \in Devices \cup {Outside} :
            Ids(rows, <<w, s, d>>) = PacketsBetween(w, s, d)
    /\ LET rows == StoredRows("behavior")
       IN  \A w \in EventWindows \cup (IF EventWindows = {} THEN {} ELSE 0 .. Max(EventWindows \cup {0})),
              d \in Sensors :
            /\ {e[2] : e \in Ids(rows, <<w, d>>)} = EventsOf(w, d)
            /\ w >= 0 => <<w, d>> \in Keys(rows)

-----------------------------------------------------------------------------
(* The writers flush in time (output_buffer_rows bounds what a process       *)
(* holds), temporary directories belong to a run in progress, and the live   *)
(* edges stay within active_window_capacity.                                 *)
ExtractTypeOK ==
    /\ checkpoint.status \in {"none", "in_progress", "failed", "completed"}
    /\ pc \in {"idle", "clean", "save", "open", "packets", "events", "finalize", "abort", "fail", "mark"}
    /\ \A m \in Modality : /\ Len(tmp[m].buffer) < BufferRows
                           /\ tmp[m].there => pc \in {"packets", "events", "finalize", "abort"}
    /\ stale \subseteq Modality /\ undeleted \subseteq stale
    /\ errors \in 0 .. MaxDiskErrors
    /\ Cardinality(DOMAIN comm.acc) <= EdgeCapacity

(* A session is marked complete only when all of its output is on disk and   *)
(* every valid packet and event contributed to it exactly once, however      *)
(* often processes died, failed or ran with other settings before            *)
(* (extraction.py run_session; ordering.py).                                 *)
MarkedWhenWhole ==
    [][checkpoint'.status = "completed" /\ checkpoint # checkpoint' => Whole']_extractVars

(* A completed or failed session leaves no temporary directory behind, of    *)
(* its own run or of a process that died earlier, but for those that a disk  *)
(* error kept from being renamed or removed since the last clean-up          *)
(* (cleanup_partial_output, FeatureStoreWriter.finalize and abort).          *)
NoLitter ==
    pc = "idle" /\ checkpoint.status \in {"completed", "failed"} => stale \subseteq undeleted

(* A marked session has a network row for every inventory device in every    *)
(* window from the first observed to the last, those before the start        *)
(* included, as docs/datasense_raw_pipeline_methodology.md:233-236 says.     *)
(* Violated: due_windows moves min_wid_seen, from which the dense fill       *)
(* starts, past the windows it has finalized (ordering.py:76,                *)
(* extraction.py:218).                                                       *)
ObservedSpanIsFilled ==
    pc = "idle" /\ checkpoint.status = "completed" /\ InPlace /\ PacketWindows # {} =>
        \A w \in Min(PacketWindows) .. Max(PacketWindows), d \in Protected :
            <<w, d>> \in Keys(StoredRows("network"))

(* The gap of a row is the time since the latest strictly earlier event of   *)
(* the same device, as _cross_window_gap says.  Violated: _prune_history     *)
(* forgets the events of a finalized window, and with them the event from    *)
(* which the next window's gap is measured.                                  *)
GapIsToThePreviousEvent ==
    \A i \in DOMAIN StoredRows("behavior") :
        LET row == StoredRows("behavior")[i]
            first == Min({e[1] : e \in row.ids})
            earlier == {ts \in {ThroughIso(raw.events[j].ts) :
                                    j \in {n \in DOMAIN raw.events : raw.events[n].dev = row.key[2]}} :
                            ts < first}
        IN  row.ids # {} /\ earlier # {} => row.gap = first - Max(earlier)
=============================================================================
