-------------------------- MODULE BlackboardReads ---------------------------
(***************************************************************************)
(* Reads and operator-driven repair of the Blackboard, running against the *)
(* writes of Blackboard: coordinator.py (_read, _observe_replica,          *)
(* resync_replicas_from_majority, _read_internal_majority) and replica.py  *)
(* (upsert_external, row_to_record).                                       *)
(*                                                                         *)
(* Neither takes the write lock.  Each looks at the replicas one after the *)
(* other, so writes land between two observations.  A stored row whose     *)
(* bytes no longer verify (tampered) is reported as an integrity failure.  *)
(***************************************************************************)
EXTENDS Blackboard

CONSTANTS
    Readers,        \* threads that read or repair
    RepairTargets,  \* the replica_ids arguments of a resync; {} for no resync
    MaxReads,       \* bound on reads and repairs
    MaxTampered     \* bound on rows whose stored bytes are damaged

ASSUME ReadersAssumption ==
    /\ RepairTargets \subseteq SUBSET Replicas
    /\ MaxReads \in Nat
    /\ MaxTampered \in Nat

VARIABLES
    tampered,   \* committed rows that fail verification when loaded
    rpc,        \* rpc[x]: where reader x is
    request,    \* request[x]: what x was asked, and by whom
    left,       \* left[x]: the replicas x has still to visit
    seen,       \* seen[x]: what x observed so far
    source,     \* source[x]: the majority record a repair copies, and the
                \*   acknowledgement of the upsert in progress
    reads,      \* every ReadResult returned (history)
    repairs,    \* every per-replica repair verdict (history)
    started     \* reads and repairs started so far

readVars == <<tampered, rpc, request, left, seen, source, reads, repairs, started>>
allVars == <<committed, heads, pending, health, pc, job, todo, prepared, refusals,
             durable, used, results, faults,
             tampered, rpc, request, left, seen, source, reads, repairs, started>>

\* Version 0 asks for the latest version.
Latest == 0

\* What callers have been told so far: writes reported COMMITTED and records
\* that a read returned as authoritative.
Told == {[key |-> w.key, version |-> w.version, id |-> w.id] :
            w \in {w \in results : w.outcome = "COMMITTED"}}
        \cup {[key |-> q.key, version |-> q.version, id |-> q.id] :
            q \in {q \in reads : q.id # None}}

ReadsInit ==
    /\ Init
    /\ tampered = {}
    /\ rpc = [x \in Readers |-> "idle"]
    /\ request = [x \in Readers |-> None]
    /\ left = [x \in Readers |-> {}]
    /\ seen = [x \in Readers |-> {}]
    /\ source = [x \in Readers |-> None]
    /\ reads = {}
    /\ repairs = {}
    /\ started = 0

-----------------------------------------------------------------------------
(* Observing one replica. *)

\* get_head_row orders the committed table; it does not consult key_heads.
HeadRows(r, k) ==
    {row \in committed :
        /\ row.replica = r /\ row.key = k
        /\ \A other \in committed :
              other.replica = r /\ other.key = k => other.version <= row.version}

RowsAt(r, k, v) ==
    IF v = Latest THEN HeadRows(r, k) ELSE Slot(committed, r, k, v)

Observation(r, answer, v, id) ==
    [replica |-> r, answer |-> answer, version |-> v, id |-> id]

\* _observe_replica: silent when unavailable, otherwise absent, an integrity
\* failure, or the record found.
Observe(c, r, k, v) ==
    LET rows == RowsAt(r, k, v)
    IN  IF ~ Responsive(c, r) THEN {Observation(r, "silent", 0, None)}
        ELSE IF rows = {} THEN {Observation(r, "absent", 0, None)}
        ELSE {IF row \in tampered THEN Observation(r, "integrity", 0, None)
              ELSE Observation(r, "found", row.version, row.id) : row \in rows}

Visits(x, r) == r \in left[x] /\ \A q \in left[x] : r <= q

-----------------------------------------------------------------------------
(* Judging the observations. *)

Responses(x) == {o \in seen[x] : o.answer # "silent"}
Found(x) == {o \in seen[x] : o.answer = "found"}
Alike(x, o) == {p \in Found(x) : p.version = o.version /\ p.id = o.id}
\* Mutant: the largest group counts as the majority, whatever its size.
MajorityOfAny(x) ==
    {o \in Found(x) : \A p \in Found(x) :
        Cardinality(Alike(x, p)) <= Cardinality(Alike(x, o))}
\* Mutant: any record found is as good as the majority's.
MajorityOfOne(x) == Found(x)

Majority(x) == {o \in Found(x) : Cardinality(Alike(x, o)) >= QuorumSize}

ReadOutcome(x) ==
    CASE Responses(x) = {} -> "UNAVAILABLE"
      [] Responses(x) # {} /\ Cardinality(Responses(x)) < QuorumSize
            -> "INSUFFICIENT_QUORUM"
      [] Cardinality(Responses(x)) >= QuorumSize /\ Found(x) = {} -> "NOT_FOUND"
      [] Cardinality(Responses(x)) >= QuorumSize /\ Found(x) # {} ->
            IF \E o \in Found(x) : Cardinality(Alike(x, o)) = Cardinality(Replicas)
            THEN "CONSISTENT"
            ELSE IF Majority(x) # {} THEN "DEGRADED_CONSISTENT" ELSE "INCONSISTENT"

\* The replicas a read marks DIVERGED: integrity failures as soon as anything
\* was found; dissenting and lagging replicas when a majority is returned.
Blamed(x) ==
    {o.replica : o \in {o \in seen[x] : o.answer = "integrity" /\ Found(x) # {}}}
    \cup
    IF ReadOutcome(x) # "DEGRADED_CONSISTENT" THEN {}
    ELSE {o.replica : o \in Responses(x) \ Majority(x)}

MarkDiverged(c, blamed) ==
    health' = [health EXCEPT ![c] =
                  [r \in Replicas |-> IF r \in blamed THEN "DIVERGED" ELSE @[r]]]

ReleaseReader(x) ==
    /\ rpc' = [rpc EXCEPT ![x] = "idle"]
    /\ request' = [request EXCEPT ![x] = None]
    /\ left' = [left EXCEPT ![x] = {}]
    /\ seen' = [seen EXCEPT ![x] = {}]
    /\ source' = [source EXCEPT ![x] = None]

-----------------------------------------------------------------------------
(* Reads. *)

\* The newest version of k that callers know of: what a read started now must
\* not fall behind (history, for the properties).
NewestTold(k) ==
    LET versions == {t.version : t \in {t \in Told : t.key = k}} \cup {0}
    IN  CHOOSE n \in versions : \A m \in versions : m <= n

\* read_latest and read_version, authorised.
StartRead(x) ==
    /\ rpc[x] = "idle"
    /\ started < MaxReads
    /\ \E c \in Coordinators, k \in Keys, v \in Versions \cup {Latest} :
          request' = [request EXCEPT ![x] =
                         [coordinator |-> c, key |-> k, version |-> v,
                          known |-> NewestTold(k), targets |-> {}]]
    /\ rpc' = [rpc EXCEPT ![x] = "read"]
    /\ left' = [left EXCEPT ![x] = Replicas]
    /\ started' = started + 1
    /\ UNCHANGED <<tampered, seen, source, reads, repairs>>
    /\ UNCHANGED vars

\* Query the next replica; a read or a repair probe.  The query may raise.
ObserveReplica(x, r) ==
    /\ rpc[x] \in {"read", "probe"}
    /\ Visits(x, r)
    /\ \/ /\ seen' = [seen EXCEPT ![x] = @ \cup
                Observe(request[x].coordinator, r, request[x].key, request[x].version)]
          /\ UNCHANGED faults
       \/ /\ seen' = [seen EXCEPT ![x] = @ \cup {Observation(r, "silent", 0, None)}]
          /\ Responsive(request[x].coordinator, r)
          /\ Fault
    /\ left' = [left EXCEPT ![x] = @ \ {r}]
    /\ UNCHANGED <<tampered, rpc, request, source, reads, repairs, started>>
    /\ UNCHANGED <<committed, heads, pending, health, writerVars, used, results>>

\* All replicas queried: mark the blamed ones and return.
FinishRead(x) ==
    /\ rpc[x] = "read"
    /\ left[x] = {}
    /\ \E id \in Ids \cup {None}, v \in Versions \cup {0} :
          /\ IF ReadOutcome(x) \in {"CONSISTENT", "DEGRADED_CONSISTENT"}
             THEN \E o \in Majority(x) : id = o.id /\ v = o.version
             ELSE id = None /\ v = 0
          /\ reads' = reads \cup
                {[key |-> request[x].key, requested |-> request[x].version,
                  known |-> request[x].known, outcome |-> ReadOutcome(x),
                  version |-> v, id |-> id]}
    /\ MarkDiverged(request[x].coordinator, Blamed(x))
    /\ ReleaseReader(x)
    /\ UNCHANGED <<tampered, repairs, started>>
    /\ UNCHANGED <<committed, heads, pending, writerVars, used, results, faults>>

-----------------------------------------------------------------------------
(* resync_replicas_from_majority. *)

StartResync(x) ==
    /\ rpc[x] = "idle"
    /\ started < MaxReads
    /\ \E c \in Coordinators, k \in Keys, targets \in RepairTargets :
          request' = [request EXCEPT ![x] =
                         [coordinator |-> c, key |-> k, version |-> Latest,
                          known |-> 0, targets |-> targets]]
    /\ rpc' = [rpc EXCEPT ![x] = "probe"]
    /\ left' = [left EXCEPT ![x] = Replicas]
    /\ started' = started + 1
    /\ UNCHANGED <<tampered, seen, source, reads, repairs>>
    /\ UNCHANGED vars

\* No compatible majority of heads: NO_MAJORITY_SOURCE.
NoMajoritySource(x) ==
    /\ rpc[x] = "probe"
    /\ left[x] = {}
    /\ Majority(x) = {}
    /\ ReleaseReader(x)
    /\ UNCHANGED <<tampered, reads, repairs, started>>
    /\ UNCHANGED vars

\* The majority head becomes the source; visit the targets.
StartRepair(x) ==
    /\ rpc[x] = "probe"
    /\ left[x] = {}
    /\ \E o \in Majority(x) :
          source' = [source EXCEPT ![x] =
                        [version |-> o.version, id |-> o.id, ack |-> "NONE"]]
    /\ rpc' = [rpc EXCEPT ![x] = "upsert"]
    /\ left' = [left EXCEPT ![x] = request[x].targets]
    /\ seen' = [seen EXCEPT ![x] = {}]
    /\ UNCHANGED <<tampered, request, reads, repairs, started>>
    /\ UNCHANGED vars

\* replica.upsert_external on the next target.
UpsertReplica(x, r) ==
    LET c == request[x].coordinator
        k == request[x].key
        v == source[x].version
        id == source[x].id
        Acks(status) == source' = [source EXCEPT ![x].ack = status]
    IN  /\ rpc[x] = "upsert"
        /\ Visits(x, r)
        /\ \/ /\ ~ Responsive(c, r)
              /\ Acks("UNAVAILABLE")
              /\ UNCHANGED <<committed, heads, pending, faults>>
           \/ /\ Responsive(c, r)
              /\ UpsertExternal(r, k, v, id, RepairOp)
              /\ Acks("ACK_COMMITTED")
              /\ UNCHANGED faults
           \/ /\ Responsive(c, r)
              /\ UpsertOutcome(r, k, v, id) # "INSERTED"
              /\ Acks(IF UpsertOutcome(r, k, v, id) = "IDENTICAL"
                      THEN "ACK_COMMITTED" ELSE "REJECT_CONFLICT")
              /\ UNCHANGED <<committed, heads, pending, faults>>
           \/ /\ Responsive(c, r)
              /\ Acks("STORAGE_ERROR")
              /\ Fault
              /\ UNCHANGED <<committed, heads, pending>>
        /\ rpc' = [rpc EXCEPT ![x] = "judge"]
        /\ UNCHANGED <<tampered, request, left, seen, reads, repairs, started>>
        /\ UNCHANGED <<health, writerVars, used, results>>

\* Re-read the target's head, in a transaction of its own, and judge it: a
\* head equal to the source clears DIVERGED, a newer head is preserved and
\* marked, anything else - also a head that could not be read - is refused.
JudgeHead(x, r, head) ==
    LET c == request[x].coordinator
        aligned == \E row \in head :
                      row.version = source[x].version /\ row.id = source[x].id
        ahead == \E row \in head : row.version > source[x].version
        verdict == CASE source[x].ack = "ACK_COMMITTED" /\ aligned -> "REPAIRED"
                     [] ~ (source[x].ack = "ACK_COMMITTED" /\ aligned) /\ ahead
                           -> "PRESERVED_DIVERGENT_HEAD"
                     [] OTHER -> "REFUSED"
    IN  /\ health' = [health EXCEPT ![c][r] =
              IF verdict = "REPAIRED" /\ @ = "DIVERGED" THEN "HEALTHY"
              ELSE IF verdict = "PRESERVED_DIVERGENT_HEAD" THEN "DIVERGED" ELSE @]
        /\ repairs' = repairs \cup
              {[verdict |-> verdict, ack |-> source[x].ack,
                behind |-> IF ~ ahead /\ ~ aligned
                              /\ heads[r][request[x].key] < source[x].version
                           THEN "behind" ELSE "not behind"]}

\* The head is re-read, which may raise, and judged.
JudgeReplica(x, r) ==
    /\ rpc[x] = "judge"
    /\ Visits(x, r)
    /\ \/ JudgeHead(x, r, HeadRows(r, request[x].key)) /\ UNCHANGED faults
       \/ JudgeHead(x, r, {}) /\ Fault
    /\ left' = [left EXCEPT ![x] = @ \ {r}]
    /\ source' = [source EXCEPT ![x].ack = "NONE"]
    /\ rpc' = [rpc EXCEPT ![x] = "upsert"]
    /\ UNCHANGED <<tampered, request, seen, reads, started>>
    /\ UNCHANGED <<committed, heads, pending, writerVars, used, results>>

FinishResync(x) ==
    /\ rpc[x] = "upsert"
    /\ left[x] = {}
    /\ ReleaseReader(x)
    /\ UNCHANGED <<tampered, reads, repairs, started>>
    /\ UNCHANGED vars

-----------------------------------------------------------------------------

\* The stored bytes of a committed row are damaged.
Tamper ==
    /\ Cardinality(tampered) < MaxTampered
    /\ \E row \in committed \ tampered : tampered' = tampered \cup {row}
    /\ UNCHANGED <<rpc, request, left, seen, source, reads, repairs, started>>
    /\ UNCHANGED vars

\* A process takes its readers with it.
CrashAll(c) ==
    LET mine == {x \in Readers : rpc[x] # "idle" /\ request[x].coordinator = c}
    IN  /\ Crash(c)
        /\ rpc' = [x \in Readers |-> IF x \in mine THEN "idle" ELSE rpc[x]]
        /\ request' = [x \in Readers |-> IF x \in mine THEN None ELSE request[x]]
        /\ left' = [x \in Readers |-> IF x \in mine THEN {} ELSE left[x]]
        /\ seen' = [x \in Readers |-> IF x \in mine THEN {} ELSE seen[x]]
        /\ source' = [x \in Readers |-> IF x \in mine THEN None ELSE source[x]]
        /\ UNCHANGED <<tampered, reads, repairs, started>>

ReaderStep(x) ==
    \/ StartRead(x)
    \/ FinishRead(x)
    \/ StartResync(x)
    \/ NoMajoritySource(x)
    \/ StartRepair(x)
    \/ FinishResync(x)
    \/ \E r \in Replicas : \/ ObserveReplica(x, r)
                           \/ UpsertReplica(x, r)
                           \/ JudgeReplica(x, r)

ReadsNext ==
    \/ \E c \in Coordinators :
          \/ Step(c) /\ UNCHANGED readVars
          \/ CrashAll(c)
          \/ \E r \in Replicas :
                (SetUnavailable(c, r) \/ SetAvailable(c, r)) /\ UNCHANGED readVars
    \/ LeasePasses /\ UNCHANGED readVars
    \/ \E x \in Readers : ReaderStep(x)
    \/ Tamper

ReadsSpec == ReadsInit /\ [][ReadsNext]_allVars

-----------------------------------------------------------------------------
(* Properties. *)

ReadOutcomes == {"CONSISTENT", "DEGRADED_CONSISTENT", "NOT_FOUND", "INCONSISTENT",
                 "INSUFFICIENT_QUORUM", "UNAVAILABLE"}

ReadsTypeOK ==
    /\ TypeOK
    /\ tampered \subseteq committed
    /\ rpc \in [Readers -> {"idle", "read", "probe", "upsert", "judge"}]
    /\ left \in [Readers -> SUBSET Replicas]
    /\ \A x \in Readers : seen[x] \subseteq
          [replica : Replicas, answer : {"silent", "absent", "integrity", "found"},
           version : Versions \cup {0}, id : Ids \cup {None}]
    /\ reads \subseteq
          [key : Keys, requested : Versions \cup {Latest},
           known : Versions \cup {0}, outcome : ReadOutcomes,
           version : Versions \cup {0}, id : Ids \cup {None}]

\* Every record a caller was ever told about - by a COMMITTED result or by an
\* authoritative read, torn across concurrent commits or not - is the only one
\* anybody was ever told for its slot.
ToldAgreement ==
    \A s, t \in Told : s.key = t.key /\ s.version = t.version => s = t

\* A read that starts after a version was reported COMMITTED, or was read,
\* never answers with an older version and never with NOT_FOUND.
NeverReadBackwards ==
    tampered = {} =>
    \A q \in reads :
        q.requested = Latest =>
        /\ q.outcome = "NOT_FOUND" => q.known = 0
        /\ q.id # None => q.version >= q.known

\* Writes, reads and repairs together still implement the register: an
\* authoritative read - its observations torn across concurrent commits - only
\* tells of a record that is decided, and a repair decides nothing twice.
ReadsRegister == INSTANCE CommitRegister WITH chosen <- Chosen, told <- Told
ReadsImplementRegister == ReadsRegister!RegisterSpec

\* Repair only ever copies a record a quorum of replicas had already
\* committed: it never promotes the leftover of a partial commit.
RepairsCopyTheMajority ==
    \A row \in committed :
        row.op = RepairOp =>
        Cardinality(Holders(row.key, row.version, row.id) \ {row.replica})
            >= QuorumSize

\* Absence obeys the same quorum discipline as presence: a key of which a
\* version was reported COMMITTED is never NOT_FOUND, damaged rows or not.
AbsenceIsConfirmed ==
    \A q \in reads :
        q.requested = Latest /\ q.outcome = "NOT_FOUND" => q.known = 0

\* A replica that lags behind the majority is brought up to it by a repair
\* that could reach it.
RepairCatchesUp ==
    \A rep \in repairs :
        rep.behind = "behind" /\ rep.ack \notin {"UNAVAILABLE", "STORAGE_ERROR"}
        => rep.verdict = "REPAIRED"
=============================================================================
