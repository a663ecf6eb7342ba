----------------------------- MODULE Blackboard -----------------------------
(***************************************************************************)
(* The Blackboard write path: blackboard/coordinator.py (propose) calling  *)
(* blackboard/replica.py (prepare, commit, abort) over the durable stores  *)
(* of ReplicaStorage.                                                      *)
(*                                                                         *)
(* A coordinator serialises its writes behind _write_lock, so it runs one  *)
(* write at a time; each replica call it makes is a step of its own.       *)
(* Several coordinators (processes) may share the stores; each has its own *)
(* replica objects, hence its own in-memory health of every replica.       *)
(*                                                                         *)
(* Faults are part of the model and bounded by MaxFaults: a replica set    *)
(* unavailable, a call that raises (SQLite error or fault hook), a process *)
(* that dies and restarts.                                                 *)
(***************************************************************************)
EXTENDS ReplicaStorage, FiniteSets

CONSTANTS
    Coordinators,   \* processes that share the replica stores
    QuorumSize,     \* settings.quorum_size
    None,           \* no write running, no record
    RepairOp,       \* stands for the operation ids of resync repairs
    Substitutes,    \* records a fault hook may stage instead; {} in production
    PrepareFaults,  \* statuses an injected fault may give a prepare call
    EarlyOutcomes,  \* rejections propose may return before any replica call
    MaxFaults       \* bound on injected faults

\* The coordinator dispatches in the order of the replica list: 1, 2, 3.
\* A quorum is a majority (2 of 3); settings.py only checks that it is >= 1.
ASSUME ReplicasAssumption == Replicas \subseteq Nat /\ IsFiniteSet(Replicas)
ASSUME QuorumAssumption ==
    /\ QuorumSize \in Nat
    /\ Cardinality(Replicas) < 2 * QuorumSize
ASSUME ConstantsAssumption ==
    /\ RepairOp \in OpIds
    /\ Substitutes \subseteq Ids
    /\ PrepareFaults \subseteq
          {"UNAVAILABLE", "STORAGE_ERROR", "REJECT_INTEGRITY", "REJECT_SCHEMA"}
    /\ EarlyOutcomes \subseteq {"REJECTED_AUTHORIZATION", "REJECTED_SCHEMA"}
    /\ MaxFaults \in Nat

WriteOps == OpIds \ {RepairOp}

VARIABLES
    health,     \* health[c][r]: coordinator c's replica object r
    pc,         \* pc[c]: where c's propose() is
    job,        \* job[c]: the write c is running
    todo,       \* todo[c]: the replicas c's current loop has still to call
    prepared,   \* prepared[c]: the ACK_PREPARED answers, with what was staged
    refusals,   \* refusals[c]: the statuses of the other prepare answers
    durable,    \* durable[c]: the replicas that answered ACK_COMMITTED
    used,       \* operation ids handed out so far
    results,    \* every WriteResult returned to a caller (history)
    faults      \* faults injected so far

writerVars == <<pc, job, todo, prepared, refusals, durable>>
vars == <<committed, heads, pending, health, pc, job, todo, prepared, refusals,
          durable, used, results, faults>>

PrepareStatuses == {"UNAVAILABLE", "STORAGE_ERROR", "REJECT_STALE",
                    "REJECT_CONFLICT", "REJECT_SCHEMA", "REJECT_INTEGRITY"}

WriteOutcomes == {"COMMITTED", "PARTIAL_COMMIT", "REJECTED_STALE",
                  "REJECTED_CONFLICT", "REJECTED_SCHEMA",
                  "REJECTED_AUTHORIZATION", "FAILED_QUORUM", "FAILED_STORAGE"}

Jobs == [op : WriteOps, key : Keys, version : Versions, id : Ids]

\* The sentinel is neither a write nor a record.
ASSUME NoneAssumption == None \notin Jobs \cup Ids

Results == [op : WriteOps, key : Keys, version : Versions, id : Ids,
            outcome : WriteOutcomes]

AllHealthy == [r \in Replicas |-> "HEALTHY"]

Init ==
    /\ StoreInit
    /\ health = [c \in Coordinators |-> AllHealthy]
    /\ pc = [c \in Coordinators |-> "idle"]
    /\ job = [c \in Coordinators |-> None]
    /\ todo = [c \in Coordinators |-> {}]
    /\ prepared = [c \in Coordinators |-> {}]
    /\ refusals = [c \in Coordinators |-> {}]
    /\ durable = [c \in Coordinators |-> {}]
    /\ used = {}
    /\ results = {}
    /\ faults = 0

-----------------------------------------------------------------------------
(* Helpers. *)

\* Every loop over the replicas takes the next one in list order.
Calls(c, r) == r \in todo[c] /\ \A q \in todo[c] : r <= q

\* A replica object answers unless it was set unavailable; a DIVERGED one does.
Responsive(c, r) == health[c][r] # "UNAVAILABLE"

\* replica.prepare maps the storage outcome to an acknowledgement status.
PrepareStatus(outcome) ==
    IF outcome = "REJECT_AHEAD" THEN "REJECT_SCHEMA" ELSE outcome

\* evaluate_quorum: prepared answers are compatible when they staged the same
\* record; a group of QuorumSize wins.  With a majority quorum at most one does.
Group(c, id) == {p \in prepared[c] : p.id = id}
Winning(c, id) == Cardinality(Group(c, id)) >= QuorumSize
QuorumMet(c) == \E p \in prepared[c] : Winning(c, p.id)

\* _classify_total_rejection: no replica prepared.
ClassifyTotalRejection(statuses) ==
    LET terminal == statuses \ {"UNAVAILABLE", "STORAGE_ERROR"}
    IN  CASE terminal = {"REJECT_STALE"}     -> "REJECTED_STALE"
          [] terminal = {"REJECT_CONFLICT"}  -> "REJECTED_CONFLICT"
          [] terminal = {"REJECT_SCHEMA"}    -> "REJECTED_SCHEMA"
          [] terminal = {"REJECT_INTEGRITY"} -> "REJECTED_SCHEMA"
          [] OTHER                           -> "FAILED_QUORUM"

\* Mutant: being in the commit phase with one durable commit is enough.
CommitPhaseOutcomeLenient(n) == IF n >= 1 THEN "COMMITTED" ELSE "FAILED_STORAGE"
\* Mutant: everything short of a quorum is called FAILED_QUORUM.
CommitPhaseOutcomeNoPartial(n) ==
    IF n >= QuorumSize THEN "COMMITTED" ELSE "FAILED_QUORUM"
\* Mutant: everything short of a quorum is called FAILED_STORAGE.
CommitPhaseOutcomeAllOrFailed(n) ==
    IF n >= QuorumSize THEN "COMMITTED" ELSE "FAILED_STORAGE"

\* The commit phase is judged by durable commits, not by prepares.
CommitPhaseOutcome(n) ==
    CASE n >= QuorumSize           -> "COMMITTED"
      [] n < QuorumSize /\ n = 1   -> "PARTIAL_COMMIT"
      [] n < QuorumSize /\ n # 1   -> "FAILED_STORAGE"

\* An injected fault uses up one unit of the budget.
Fault == faults < MaxFaults /\ faults' = faults + 1

\* Back to idle, whether propose returned or its process died.
Release(c) ==
    /\ pc' = [pc EXCEPT ![c] = "idle"]
    /\ job' = [job EXCEPT ![c] = None]
    /\ todo' = [todo EXCEPT ![c] = {}]
    /\ prepared' = [prepared EXCEPT ![c] = {}]
    /\ refusals' = [refusals EXCEPT ![c] = {}]
    /\ durable' = [durable EXCEPT ![c] = {}]

\* propose returns a WriteResult and drops the lock.
Return(c, outcome) ==
    /\ results' = results \cup
          {[op |-> job[c].op, key |-> job[c].key, version |-> job[c].version,
            id |-> job[c].id, outcome |-> outcome]}
    /\ Release(c)

-----------------------------------------------------------------------------
(* propose(), one step per replica call. *)

\* Validated, authorised and holding the write lock: start the PREPARE loop.
Propose(c) ==
    /\ pc[c] = "idle"
    /\ \E op \in WriteOps \ used, k \in Keys, v \in Versions, id \in Ids :
          /\ job' = [job EXCEPT ![c] =
                        [op |-> op, key |-> k, version |-> v, id |-> id]]
          /\ used' = used \cup {op}
    /\ pc' = [pc EXCEPT ![c] = "prepare"]
    /\ todo' = [todo EXCEPT ![c] = Replicas]
    /\ UNCHANGED <<committed, heads, pending, health, prepared, refusals,
                   durable, results, faults>>

\* Schema or authorisation rejection, before the lock and any replica call.
RejectDraft(c) ==
    /\ pc[c] = "idle"
    /\ \E op \in WriteOps \ used, k \in Keys, v \in Versions, id \in Ids,
          outcome \in EarlyOutcomes :
          /\ results' = results \cup {[op |-> op, key |-> k, version |-> v,
                                       id |-> id, outcome |-> outcome]}
          /\ used' = used \cup {op}
    /\ UNCHANGED <<committed, heads, pending, health, pc, job, todo, prepared,
                   refusals, durable, faults>>

\* A fault hook may have put another record in the place of the proposed one.
Stages(c, id) ==
    /\ id \in {job[c].id} \cup Substitutes
    /\ IF id = job[c].id THEN UNCHANGED faults ELSE Fault

\* replica.prepare stages the record, or what a hook put in its place.
PrepareAcked(c, r) ==
    /\ pc[c] = "prepare"
    /\ Calls(c, r)
    /\ Responsive(c, r)
    /\ \E id \in Ids :
          /\ Stages(c, id)
          /\ PrepareInsert(r, job[c].key, job[c].version, id, job[c].op)
          /\ prepared' = [prepared EXCEPT ![c] = @ \cup {[replica |-> r, id |-> id]}]
    /\ todo' = [todo EXCEPT ![c] = @ \ {r}]
    /\ UNCHANGED <<health, pc, job, refusals, durable, used, results>>

\* replica.prepare answers anything else: unavailable, refused by the store,
\* or failed.  A failed transaction is rolled back, so the store is unchanged.
PrepareRefused(c, r) ==
    /\ pc[c] = "prepare"
    /\ Calls(c, r)
    /\ \E status \in PrepareStatuses :
          /\ \/ /\ ~ Responsive(c, r)
                /\ status = "UNAVAILABLE"
                /\ UNCHANGED faults
             \/ /\ Responsive(c, r)
                /\ \E id \in Ids :
                      LET outcome == PrepareOutcome(r, job[c].key, job[c].version, id)
                      IN  Stages(c, id) /\ outcome # "PREPARED" /\ status = PrepareStatus(outcome)
             \/ /\ Responsive(c, r)
                /\ status \in PrepareFaults
                /\ Fault
          /\ refusals' = [refusals EXCEPT ![c] = @ \cup {status}]
    /\ todo' = [todo EXCEPT ![c] = @ \ {r}]
    /\ UNCHANGED <<committed, heads, pending, health, pc, job, prepared, durable,
                   used, results>>

\* All prepares answered and none succeeded: return without any abort.
RejectAll(c) ==
    /\ pc[c] = "prepare"
    /\ todo[c] = {}
    /\ prepared[c] = {}
    /\ Return(c, ClassifyTotalRejection(refusals[c]))
    /\ UNCHANGED <<committed, heads, pending, health, used, faults>>

\* Mutant: a failed quorum returns without aborting what was prepared.
DecideWithoutAborts(c) ==
    /\ pc[c] = "prepare"
    /\ todo[c] = {}
    /\ prepared[c] # {}
    /\ pc' = [pc EXCEPT ![c] = IF QuorumMet(c) THEN "commit" ELSE "abort"]
    /\ todo' = [todo EXCEPT ![c] =
                   {p.replica : p \in {p \in prepared[c] : QuorumMet(c)}}]
    /\ UNCHANGED <<committed, heads, pending, health, job, prepared, refusals,
                   durable, used, results, faults>>

\* All prepares answered: enter the commit loop with a compatible quorum,
\* otherwise the loop that aborts what was prepared.
Decide(c) ==
    /\ pc[c] = "prepare"
    /\ todo[c] = {}
    /\ prepared[c] # {}
    /\ pc' = [pc EXCEPT ![c] = IF QuorumMet(c) THEN "commit" ELSE "abort"]
    /\ todo' = [todo EXCEPT ![c] = {p.replica : p \in prepared[c]}]
    /\ UNCHANGED <<committed, heads, pending, health, job, prepared, refusals,
                   durable, used, results, faults>>

\* A member of the winning group promotes its staging.
CommitAcked(c, r) ==
    /\ pc[c] = "commit"
    /\ Calls(c, r)
    /\ \E p \in prepared[c] : p.replica = r /\ Winning(c, p.id)
    /\ Responsive(c, r)
    /\ CommitPromote(r, job[c].key, job[c].version, job[c].id, job[c].op)
    /\ durable' = [durable EXCEPT ![c] = @ \cup {r}]
    /\ todo' = [todo EXCEPT ![c] = @ \ {r}]
    /\ UNCHANGED <<health, pc, job, prepared, refusals, used, results, faults>>

\* The commit is not acknowledged: the replica is unavailable, no longer has
\* the matching staging, or raised.  It is marked DIVERGED.
CommitMissed(c, r) ==
    /\ pc[c] = "commit"
    /\ Calls(c, r)
    /\ \E p \in prepared[c] : p.replica = r /\ Winning(c, p.id)
    /\ \/ ~ Responsive(c, r) /\ UNCHANGED faults
       \/ /\ Responsive(c, r)
          /\ PromoteOutcome(r, job[c].key, job[c].version, job[c].id, job[c].op)
                # "COMMITTED"
          /\ UNCHANGED faults
       \/ Responsive(c, r) /\ Fault
    /\ health' = [health EXCEPT ![c][r] = "DIVERGED"]
    /\ todo' = [todo EXCEPT ![c] = @ \ {r}]
    /\ UNCHANGED <<committed, heads, pending, pc, job, prepared, refusals, durable,
                   used, results>>

\* replica.abort, best effort: nothing is removed when it is unavailable or
\* raises.
AbortCall(c, r) ==
    \/ /\ Responsive(c, r)
       /\ AbortPending(r, job[c].key, job[c].version, job[c].op)
       /\ UNCHANGED faults
    \/ ~ Responsive(c, r) /\ UNCHANGED <<committed, heads, pending, faults>>
    \/ Responsive(c, r) /\ Fault /\ UNCHANGED <<committed, heads, pending>>

\* A replica that prepared a losing record is aborted inside the commit loop.
AbortLoser(c, r) ==
    /\ pc[c] = "commit"
    /\ Calls(c, r)
    /\ \A p \in prepared[c] : p.replica = r => ~ Winning(c, p.id)
    /\ AbortCall(c, r)
    /\ todo' = [todo EXCEPT ![c] = @ \ {r}]
    /\ UNCHANGED <<health, pc, job, prepared, refusals, durable, used, results>>

\* The commit loop is over: abort on the replicas that did not prepare.
StartCleanup(c) ==
    /\ pc[c] = "commit"
    /\ todo[c] = {}
    /\ pc' = [pc EXCEPT ![c] = "cleanup"]
    /\ todo' = [todo EXCEPT ![c] = Replicas \ {p.replica : p \in prepared[c]}]
    /\ UNCHANGED <<committed, heads, pending, health, job, prepared, refusals,
                   durable, used, results, faults>>

\* _abort_prepared after a failed quorum, _abort_unprepared after a commit.
AbortReplica(c, r) ==
    /\ pc[c] \in {"abort", "cleanup"}
    /\ Calls(c, r)
    /\ AbortCall(c, r)
    /\ todo' = [todo EXCEPT ![c] = @ \ {r}]
    /\ UNCHANGED <<health, pc, job, prepared, refusals, durable, used, results>>

\* The last loop is over: return the outcome.
Finish(c) ==
    /\ pc[c] \in {"abort", "cleanup"}
    /\ todo[c] = {}
    /\ Return(c, IF pc[c] = "abort" THEN "FAILED_QUORUM"
                 ELSE CommitPhaseOutcome(Cardinality(durable[c])))
    /\ UNCHANGED <<committed, heads, pending, health, used, faults>>

-----------------------------------------------------------------------------
(* The environment. *)

SetUnavailable(c, r) ==
    /\ health[c][r] # "UNAVAILABLE"
    /\ Fault
    /\ health' = [health EXCEPT ![c][r] = "UNAVAILABLE"]
    /\ UNCHANGED <<committed, heads, pending, writerVars, used, results>>

SetAvailable(c, r) ==
    /\ health[c][r] # "HEALTHY"
    /\ health' = [health EXCEPT ![c][r] = "HEALTHY"]
    /\ UNCHANGED <<committed, heads, pending, writerVars, used, results, faults>>

\* The process dies, perhaps in the middle of a write, and restarts: the
\* stores keep what was written, the new replica objects start HEALTHY,
\* nobody gets the result.  (Dying with nothing in memory changes nothing.)
Crash(c) ==
    /\ pc[c] # "idle" \/ health[c] # AllHealthy
    /\ Fault
    /\ health' = [health EXCEPT ![c] = AllHealthy]
    /\ Release(c)
    /\ UNCHANGED <<committed, heads, pending, used, results>>

LeasePasses ==
    /\ \E row \in pending : ExpireLease(row)
    /\ UNCHANGED <<health, writerVars, used, results, faults>>

Step(c) ==
    \/ Propose(c)
    \/ RejectDraft(c)
    \/ RejectAll(c)
    \/ Decide(c)
    \/ StartCleanup(c)
    \/ Finish(c)
    \/ \E r \in Replicas : \/ PrepareAcked(c, r)
                           \/ PrepareRefused(c, r)
                           \/ CommitAcked(c, r)
                           \/ CommitMissed(c, r)
                           \/ AbortLoser(c, r)
                           \/ AbortReplica(c, r)

Environment(c) ==
    \/ Crash(c)
    \/ \E r \in Replicas : SetUnavailable(c, r) \/ SetAvailable(c, r)

Next ==
    \/ \E c \in Coordinators : Step(c) \/ Environment(c)
    \/ LeasePasses

Spec == Init /\ [][Next]_vars

-----------------------------------------------------------------------------
(* Properties. *)

TypeOK ==
    /\ StoreTypeOK
    /\ health \in [Coordinators -> [Replicas -> {"HEALTHY", "UNAVAILABLE", "DIVERGED"}]]
    /\ pc \in [Coordinators -> {"idle", "prepare", "commit", "abort", "cleanup"}]
    /\ job \in [Coordinators -> Jobs \cup {None}]
    /\ todo \in [Coordinators -> SUBSET Replicas]
    /\ prepared \in [Coordinators -> SUBSET [replica : Replicas, id : Ids]]
    /\ refusals \in [Coordinators -> SUBSET PrepareStatuses]
    /\ durable \in [Coordinators -> SUBSET Replicas]
    /\ used \subseteq WriteOps
    /\ results \subseteq Results
    /\ faults \in 0 .. MaxFaults

\* The replicas whose committed table holds this record in this slot.
Holders(k, v, id) ==
    {r \in Replicas : \E row \in committed : /\ row.replica = r
                                             /\ row.key = k
                                             /\ row.version = v
                                             /\ row.id = id}

\* A write reported COMMITTED is, and stays, in the committed table of a
\* quorum of replicas: neither competing coordinators, lease takeovers,
\* substituted records nor crashes make propose() count a commit that is not
\* durable, and nothing later undoes one.
CommittedIsDurable ==
    \A w \in results :
        w.outcome = "COMMITTED" =>
        Cardinality(Holders(w.key, w.version, w.id)) >= QuorumSize

\* Two writes reported COMMITTED for one slot carry the same record, also when
\* separate coordinators raced for it and leases expired in between.
CommittedAgreement ==
    \A w1, w2 \in results :
        /\ w1.outcome = "COMMITTED" /\ w2.outcome = "COMMITTED"
        /\ w1.key = w2.key /\ w1.version = w2.version
        => w1.id = w2.id

\* A write that returned a rejection or FAILED_QUORUM has committed nothing on
\* any replica, and never will: no staging of it is promoted behind its back.
RejectedWritesCommitNothing ==
    \A w \in results : \A row \in committed :
        row.op = w.op => w.outcome \in {"COMMITTED", "PARTIAL_COMMIT", "FAILED_STORAGE"}

\* FAILED_STORAGE means that zero replicas completed the commit phase.
FailedStorageCommitsNothing ==
    \A w \in results : \A row \in committed :
        row.op = w.op => w.outcome # "FAILED_STORAGE"

\* As long as no fault was injected, a write that returned, whatever its
\* outcome, leaves no staging behind to block the slot until the lease ends.
NoStrandedStaging ==
    faults = 0 =>
    \A w \in results : \A row \in pending : row.op # w.op

\* The storage of any two replicas agrees on every slot both hold.
ForkFree ==
    \A a, b \in committed : a.key = b.key /\ a.version = b.version => a.id = b.id

\* The abstract state the replicas implement: a slot is decided when a quorum
\* holds the same record, and writers are told by COMMITTED results.
Records == [key : Keys, version : Versions, id : Ids]
Chosen ==
    {rec \in Records :
        Cardinality(Holders(rec.key, rec.version, rec.id)) >= QuorumSize}
Acknowledged ==
    {[key |-> w.key, version |-> w.version, id |-> w.id] :
        w \in {w \in results : w.outcome = "COMMITTED"}}
Register == INSTANCE CommitRegister WITH chosen <- Chosen, told <- Acknowledged

\* The two-phase write over replicas implements the register: no step of any
\* coordinator - commit, takeover of an expired lease, restart after a crash -
\* decides a slot twice, undoes a decision, or reports COMMITTED for a record
\* that a quorum does not hold at that moment.
ImplementsRegister == Register!RegisterSpec
=============================================================================
