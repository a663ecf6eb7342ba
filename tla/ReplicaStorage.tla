--------------------------- MODULE ReplicaStorage ---------------------------
(***************************************************************************)
(* The durable half of a Blackboard replica: blackboard/storage.py, class  *)
(* ReplicaDatabase.  Each replica owns one SQLite file; every transition   *)
(* is one BEGIN IMMEDIATE transaction, so every transition is one action.  *)
(*                                                                         *)
(* The tables are modelled as tables, i.e. sets of rows.  That a table has *)
(* one row per (key, version) is what PRIMARY KEY would enforce by raising *)
(* an exception; here it is an invariant, so a step that would have raised *)
(* shows up as a violation.  A record is represented by its record_id,     *)
(* which is a digest of the key, the version and the content.              *)
(***************************************************************************)
EXTENDS Naturals

CONSTANTS
    Replicas,   \* one store per replica
    Keys,       \* record_key values
    Versions,   \* the record_version values callers ask for
    Ids,        \* record_id values: what a record says
    OpIds       \* operation_id values

\* Record drafts refuse versions below one.
ASSUME VersionsAssumption == Versions \subseteq Nat \ {0}

VARIABLES
    committed,  \* table committed_records, of all replicas
    heads,      \* table key_heads; a missing head is head 0
    pending     \* table pending_prepares, of all replicas

storeVars == <<committed, heads, pending>>

CommittedRows ==
    [replica : Replicas, key : Keys, version : Versions, id : Ids, op : OpIds]

\* lease abstracts created_epoch: whether the row is older than the lease.
PendingRows ==
    [replica : Replicas, key : Keys, version : Versions, id : Ids, op : OpIds,
     lease : {"live", "expired"}]

Slot(table, r, k, v) ==
    {row \in table : row.replica = r /\ row.key = k /\ row.version = v}

StoreInit ==
    /\ committed = {}
    /\ heads = [r \in Replicas |-> [k \in Keys |-> 0]]
    /\ pending = {}

-----------------------------------------------------------------------------
(* What each call would answer in the current state. *)

\* prepare_insert: compare-and-stage against the head, then against the lease.
PrepareOutcome(r, k, v, id) ==
    CASE v <= heads[r][k]     -> "REJECT_STALE"
      [] v > heads[r][k] + 1  -> "REJECT_AHEAD"
      [] v = heads[r][k] + 1  ->
            IF \E row \in Slot(pending, r, k, v) : row.id # id /\ row.lease = "live"
            THEN "REJECT_CONFLICT"
            ELSE "PREPARED"

\* Mutant: commit_promote trusts its caller and checks neither the staging nor
\* the head.
PromoteOutcomeUnchecked(r, k, v, id, op) == "COMMITTED"

\* commit_promote: only the operation that staged this very record may promote.
PromoteOutcome(r, k, v, id, op) ==
    IF \A row \in Slot(pending, r, k, v) : row.op # op \/ row.id # id
    THEN "UNKNOWN_OPERATION"
    ELSE IF v # heads[r][k] + 1 THEN "REFUSED_NON_FORWARD" ELSE "COMMITTED"

\* Mutant: a repair may insert any version the replica does not have.
UpsertOutcomeAnyVersion(r, k, v, id) ==
    IF Slot(committed, r, k, v) # {}
    THEN IF \E row \in Slot(committed, r, k, v) : row.id = id
         THEN "IDENTICAL" ELSE "REFUSED"
    ELSE "INSERTED"
\* upsert_committed_external: absent or identical, and strictly forward.
UpsertOutcome(r, k, v, id) ==
    IF Slot(committed, r, k, v) # {}
    THEN IF \E row \in Slot(committed, r, k, v) : row.id = id
         THEN "IDENTICAL" ELSE "REFUSED"
    ELSE IF v # heads[r][k] + 1 THEN "REFUSED" ELSE "INSERTED"

-----------------------------------------------------------------------------
(* The transactions. *)

\* Stage a proposal.  A fresh insert, the restaging of identical content by a
\* newer operation (which then owns the commit rights and a fresh lease) and
\* the takeover of an expired lease all leave exactly this row in the slot.
PrepareInsert(r, k, v, id, op) ==
    /\ PrepareOutcome(r, k, v, id) = "PREPARED"
    /\ pending' = (pending \ Slot(pending, r, k, v)) \cup
                    {[replica |-> r, key |-> k, version |-> v, id |-> id,
                      op |-> op, lease |-> "live"]}
    /\ UNCHANGED <<committed, heads>>

\* The tail commit_promote and upsert_committed_external share: insert the
\* row, move the head to it, and drop whatever was staged in the slot.
AppendCommitted(r, k, v, id, op) ==
    /\ committed' = committed \cup
                      {[replica |-> r, key |-> k, version |-> v, id |-> id,
                        op |-> op]}
    /\ heads' = [heads EXCEPT ![r][k] = v]
    /\ pending' = pending \ Slot(pending, r, k, v)

CommitPromote(r, k, v, id, op) ==
    /\ PromoteOutcome(r, k, v, id, op) = "COMMITTED"
    /\ AppendCommitted(r, k, v, id, op)

UpsertExternal(r, k, v, id, op) ==
    /\ UpsertOutcome(r, k, v, id) = "INSERTED"
    /\ AppendCommitted(r, k, v, id, op)

\* Remove the staging of one operation, and of no other.
AbortPending(r, k, v, op) ==
    /\ pending' = pending \ {row \in Slot(pending, r, k, v) : row.op = op}
    /\ UNCHANGED <<committed, heads>>

\* The wall clock passes created_epoch + lease_seconds.
ExpireLease(row) ==
    /\ row \in pending
    /\ row.lease = "live"
    /\ pending' = (pending \ {row}) \cup {[row EXCEPT !.lease = "expired"]}
    /\ UNCHANGED <<committed, heads>>

\* A store serves callers it knows nothing about: any of them may issue any
\* call with any argument at any time.
StoreNext ==
    \/ \E r \in Replicas, k \in Keys, v \in Versions, op \in OpIds :
          \/ AbortPending(r, k, v, op)
          \/ \E id \in Ids : \/ PrepareInsert(r, k, v, id, op)
                             \/ CommitPromote(r, k, v, id, op)
                             \/ UpsertExternal(r, k, v, id, op)
    \/ \E row \in pending : ExpireLease(row)

StoreSpec == StoreInit /\ [][StoreNext]_storeVars

-----------------------------------------------------------------------------
(* Properties. *)

StoreTypeOK ==
    /\ committed \subseteq CommittedRows
    /\ heads \in [Replicas -> [Keys -> Versions \cup {0}]]
    /\ pending \subseteq PendingRows

\* Neither table ever holds two rows for one (key, version) slot of one
\* replica: the INSERTs of prepare_insert, commit_promote and
\* upsert_committed_external never trip over the PRIMARY KEY, whatever
\* sequence of restagings, takeovers, promotions and repairs preceded them.
SlotsUnique ==
    /\ \A a, b \in committed :
          a.replica = b.replica /\ a.key = b.key /\ a.version = b.version
          => a = b
    /\ \A a, b \in pending :
          a.replica = b.replica /\ a.key = b.key /\ a.version = b.version
          => a = b

\* The history of a key on a replica is 1 .. head with no gap: the key_heads
\* row and the committed_records rows, written by separate statements, agree.
HistoryGapFree ==
    /\ \A row \in committed : row.version <= heads[row.replica][row.key]
    /\ \A r \in Replicas, k \in Keys : \A n \in 1 .. heads[r][k] :
          \E row \in committed :
              row.replica = r /\ row.key = k /\ row.version = n

\* A staged proposal always targets the version right after the head.  So a
\* promotion by its owner can never be refused as non-forward: the
\* REFUSED_NON_FORWARD branch of commit_promote is dead code.
StagedNextToHead ==
    \A row \in pending : row.version = heads[row.replica][row.key] + 1

\* No transaction ever deletes or rewrites a committed row, and a head only
\* moves forward, by one version at a time.
ForwardOnly ==
    [][/\ committed \subseteq committed'
       /\ \A r \in Replicas, k \in Keys :
             heads'[r][k] = heads[r][k] \/ heads'[r][k] = heads[r][k] + 1]_storeVars
=============================================================================
