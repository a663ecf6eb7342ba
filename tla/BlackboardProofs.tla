-------------------------- MODULE BlackboardProofs --------------------------
(***************************************************************************)
(* Theorems about the Blackboard's stores and its write path, for any      *)
(* number of replicas, coordinators, keys, versions, records and           *)
(* operations, and any majority quorum.                                    *)
(***************************************************************************)
EXTENDS Blackboard, FiniteSetTheorems, TLAPS

-----------------------------------------------------------------------------
(* The stores, whoever calls them. *)

\* The inductive invariant of the store.  SlotsUnique alone is not inductive:
\* that AppendCommitted inserts into an empty slot is HistoryGapFree plus the
\* head check, and that it leaves no other version staged is StagedNextToHead.
StoreInv ==
    /\ StoreTypeOK
    /\ SlotsUnique
    /\ HistoryGapFree
    /\ StagedNextToHead

LEMMA StoreInitInv == StoreInit => StoreInv
<1> SUFFICES ASSUME StoreInit PROVE StoreInv
  OBVIOUS
<1> USE VersionsAssumption DEF StoreInit
<1>1. StoreTypeOK
  BY DEF StoreTypeOK, CommittedRows, PendingRows
<1>2. SlotsUnique /\ StagedNextToHead
  BY DEF SlotsUnique, StagedNextToHead
<1>3. HistoryGapFree
  BY DEF HistoryGapFree
<1> QED
  BY <1>1, <1>2, <1>3 DEF StoreInv

\* Heads and versions are natural numbers.
LEMMA HeadsAreNaturals ==
    /\ \A v \in Versions : v \in Nat
    /\ StoreTypeOK => \A r \in Replicas, k \in Keys : heads[r][k] \in Nat
<1>1. \A v \in Versions \cup {0} : v \in Nat
  BY VersionsAssumption
<1>2. ASSUME StoreTypeOK, NEW r \in Replicas, NEW k \in Keys
      PROVE  heads[r][k] \in Versions \cup {0}
  BY <1>2 DEF StoreTypeOK
<1> QED
  BY <1>1, <1>2

\* Staging a proposal preserves the invariant.
LEMMA PrepareInsertInv ==
    ASSUME StoreInv,
           NEW r \in Replicas, NEW k \in Keys, NEW v \in Versions,
           NEW id \in Ids, NEW op \in OpIds,
           PrepareInsert(r, k, v, id, op)
    PROVE  StoreInv'
<1> USE VersionsAssumption
<1>1. v = heads[r][k] + 1
  BY DEF PrepareInsert, PrepareOutcome, StoreInv, StoreTypeOK
<1>2. StoreTypeOK'
  BY DEF PrepareInsert, StoreInv, StoreTypeOK, PendingRows, Slot
<1>3. SlotsUnique'
  BY DEF PrepareInsert, StoreInv, SlotsUnique, StoreTypeOK, PendingRows, Slot
<1>4. HistoryGapFree'
  BY DEF PrepareInsert, StoreInv, HistoryGapFree
<1>5. StagedNextToHead'
  BY <1>1 DEF PrepareInsert, StoreInv, StagedNextToHead, StoreTypeOK,
              PendingRows, Slot
<1> QED
  BY <1>2, <1>3, <1>4, <1>5 DEF StoreInv

\* Appending a row right after the head preserves the invariant.
LEMMA AppendCommittedInv ==
    ASSUME StoreInv,
           NEW r \in Replicas, NEW k \in Keys, NEW v \in Versions,
           NEW id \in Ids, NEW op \in OpIds,
           v = heads[r][k] + 1,
           AppendCommitted(r, k, v, id, op)
    PROVE  StoreInv'
<1> USE VersionsAssumption
<1> DEFINE new == [replica |-> r, key |-> k, version |-> v, id |-> id, op |-> op]
<1>0. v \in Nat /\ \A q \in Replicas, j \in Keys : heads[q][j] \in Nat
  BY HeadsAreNaturals DEF StoreInv
<1>1. StoreTypeOK'
  BY DEF AppendCommitted, StoreInv, StoreTypeOK, CommittedRows, Slot
<1>2. heads' = [heads EXCEPT ![r][k] = v] /\ committed' = committed \cup {new}
  BY DEF AppendCommitted
<1>3. \A q \in Replicas, j \in Keys :
          heads'[q][j] = IF q = r /\ j = k THEN v ELSE heads[q][j]
  BY <1>2 DEF StoreInv, StoreTypeOK
<1>4. SlotsUnique'
  <2>1. \A row \in committed :
            ~ (row.replica = r /\ row.key = k /\ row.version = v)
    <3> SUFFICES ASSUME NEW row \in committed, row.replica = r, row.key = k,
                        row.version = v
                 PROVE  FALSE
      OBVIOUS
    <3>1. v <= heads[r][k]
      BY DEF StoreInv, HistoryGapFree
    <3> QED
      BY <1>0, <3>1
  <2>2. \A row \in pending' : row \in pending
    BY DEF AppendCommitted
  <2> QED
    BY <1>2, <2>1, <2>2 DEF StoreInv, SlotsUnique
<1>5. HistoryGapFree'
  <2>1. \A row \in committed' : row.version <= heads'[row.replica][row.key]
    <3> SUFFICES ASSUME NEW row \in committed'
                 PROVE  row.version <= heads'[row.replica][row.key]
      OBVIOUS
    <3>1. CASE row = new
      BY <1>3, <3>1
    <3>2. CASE row \in committed
      BY <1>3, <3>2 DEF StoreInv, StoreTypeOK, HistoryGapFree, CommittedRows
    <3> QED
      BY <1>2, <3>1, <3>2
  <2>2. ASSUME NEW q \in Replicas, NEW j \in Keys, NEW n \in 1 .. heads'[q][j]
        PROVE  \E row \in committed' :
                   row.replica = q /\ row.key = j /\ row.version = n
    <3>1. CASE q = r /\ j = k /\ n = v
      <4>1. new \in committed'
        BY <1>2
      <4> QED
        BY <3>1, <4>1
    <3>2. CASE ~ (q = r /\ j = k /\ n = v)
      <4>1. n \in 1 .. heads[q][j]
        BY <1>0, <1>3, <3>2
      <4> QED
        BY <1>2, <4>1 DEF StoreInv, HistoryGapFree
    <3> QED
      BY <3>1, <3>2
  <2> QED
    BY <2>1, <2>2 DEF HistoryGapFree
<1>6. StagedNextToHead'
  <2> SUFFICES ASSUME NEW row \in pending'
               PROVE  row.version = heads'[row.replica][row.key] + 1
    BY DEF StagedNextToHead
  <2>1. row \in pending /\ ~ (row.replica = r /\ row.key = k /\ row.version = v)
    BY DEF AppendCommitted, Slot
  <2>2. row.version = heads[row.replica][row.key] + 1
    BY <2>1 DEF StoreInv, StagedNextToHead
  <2>3. ~ (row.replica = r /\ row.key = k)
    BY <2>1, <2>2
  <2> QED
    BY <1>3, <2>1, <2>2, <2>3 DEF StoreInv, StoreTypeOK, PendingRows
<1> QED
  BY <1>1, <1>4, <1>5, <1>6 DEF StoreInv

\* Removing staged rows preserves the invariant.
LEMMA AbortPendingInv ==
    ASSUME StoreInv,
           NEW r \in Replicas, NEW k \in Keys, NEW v \in Versions,
           NEW op \in OpIds,
           AbortPending(r, k, v, op)
    PROVE  StoreInv'
BY DEF AbortPending, StoreInv, StoreTypeOK, SlotsUnique, HistoryGapFree,
       StagedNextToHead

\* The passing of a lease preserves the invariant.
LEMMA ExpireLeaseInv ==
    ASSUME StoreInv, NEW row \in pending, ExpireLease(row)
    PROVE  StoreInv'
<1>1. StoreTypeOK'
  BY DEF ExpireLease, StoreInv, StoreTypeOK, PendingRows
<1>2. SlotsUnique'
  BY DEF ExpireLease, StoreInv, StoreTypeOK, PendingRows, SlotsUnique
<1>3. HistoryGapFree'
  BY DEF ExpireLease, StoreInv, HistoryGapFree
<1>4. StagedNextToHead'
  BY DEF ExpireLease, StoreInv, StoreTypeOK, PendingRows, StagedNextToHead
<1> QED
  BY <1>1, <1>2, <1>3, <1>4 DEF StoreInv

\* A promotion, when it is granted, appends right after the head.
LEMMA CommitPromoteInv ==
    ASSUME StoreInv,
           NEW r \in Replicas, NEW k \in Keys, NEW v \in Versions,
           NEW id \in Ids, NEW op \in OpIds,
           CommitPromote(r, k, v, id, op)
    PROVE  StoreInv'
<1>1. v = heads[r][k] + 1 /\ AppendCommitted(r, k, v, id, op)
  BY DEF CommitPromote, PromoteOutcome
<1> QED
  BY <1>1, AppendCommittedInv

\* So does a repair.
LEMMA UpsertExternalInv ==
    ASSUME StoreInv,
           NEW r \in Replicas, NEW k \in Keys, NEW v \in Versions,
           NEW id \in Ids, NEW op \in OpIds,
           UpsertExternal(r, k, v, id, op)
    PROVE  StoreInv'
<1>1. v = heads[r][k] + 1 /\ AppendCommitted(r, k, v, id, op)
  BY DEF UpsertExternal, UpsertOutcome
<1> QED
  BY <1>1, AppendCommittedInv

\* Every transition of the store, and a stuttering step, preserves StoreInv.
LEMMA StoreStepInv == StoreInv /\ [StoreNext]_storeVars => StoreInv'
<1> SUFFICES ASSUME StoreInv, [StoreNext]_storeVars PROVE StoreInv'
  OBVIOUS
<1>1. CASE UNCHANGED storeVars
  BY <1>1 DEF storeVars, StoreInv, StoreTypeOK, SlotsUnique, HistoryGapFree,
              StagedNextToHead
<1>2. ASSUME NEW r \in Replicas, NEW k \in Keys, NEW v \in Versions,
             NEW op \in OpIds, AbortPending(r, k, v, op)
      PROVE  StoreInv'
  BY <1>2, AbortPendingInv
<1>3. ASSUME NEW r \in Replicas, NEW k \in Keys, NEW v \in Versions,
             NEW op \in OpIds, NEW id \in Ids,
             \/ PrepareInsert(r, k, v, id, op)
             \/ CommitPromote(r, k, v, id, op)
             \/ UpsertExternal(r, k, v, id, op)
      PROVE  StoreInv'
  BY <1>3, PrepareInsertInv, CommitPromoteInv, UpsertExternalInv
<1>4. ASSUME NEW row \in pending, ExpireLease(row)
      PROVE  StoreInv'
  BY <1>4, ExpireLeaseInv
<1> QED
  BY <1>1, <1>2, <1>3, <1>4, Zenon DEF StoreNext

\* Whatever calls prepare_insert, commit_promote, abort_pending and
\* upsert_committed_external in whatever order, every slot holds at most one
\* row, histories have no gap, and staging sits right after the head.
THEOREM StoreSafety ==
    StoreSpec => [](StoreTypeOK /\ SlotsUnique /\ HistoryGapFree
                    /\ StagedNextToHead)
<1>1. StoreInv => StoreTypeOK /\ SlotsUnique /\ HistoryGapFree /\ StagedNextToHead
  BY DEF StoreInv
<1> QED
  BY <1>1, StoreInitInv, StoreStepInv, PTL DEF StoreSpec

\* What a transaction of the store may do to committed rows and heads.
LEMMA StoreStepForward ==
    ASSUME StoreInv, [StoreNext]_storeVars
    PROVE  /\ committed \subseteq committed'
           /\ \A r \in Replicas, k \in Keys :
                 heads'[r][k] = heads[r][k] \/ heads'[r][k] = heads[r][k] + 1
<1> DEFINE Forward ==
               /\ committed \subseteq committed'
               /\ \A r \in Replicas, k \in Keys :
                     heads'[r][k] = heads[r][k] \/ heads'[r][k] = heads[r][k] + 1
<1>1. ASSUME NEW r \in Replicas, NEW k \in Keys, NEW v \in Versions,
             NEW id \in Ids, NEW op \in OpIds,
             v = heads[r][k] + 1, AppendCommitted(r, k, v, id, op)
      PROVE  Forward
  BY <1>1 DEF AppendCommitted, StoreInv, StoreTypeOK
<1>2. ASSUME UNCHANGED <<committed, heads>> PROVE Forward
  BY <1>2
<1>3. ASSUME NEW r \in Replicas, NEW k \in Keys, NEW v \in Versions,
             NEW op \in OpIds, NEW id \in Ids,
             CommitPromote(r, k, v, id, op) \/ UpsertExternal(r, k, v, id, op)
      PROVE  Forward
  <2>1. v = heads[r][k] + 1 /\ AppendCommitted(r, k, v, id, op)
    BY <1>3 DEF CommitPromote, PromoteOutcome, UpsertExternal, UpsertOutcome
  <2> QED
    BY <1>1, <2>1
<1>4. ASSUME NEW r \in Replicas, NEW k \in Keys, NEW v \in Versions,
             NEW op \in OpIds, AbortPending(r, k, v, op)
      PROVE  Forward
  BY <1>2, <1>4 DEF AbortPending
<1>5. ASSUME NEW r \in Replicas, NEW k \in Keys, NEW v \in Versions,
             NEW op \in OpIds, NEW id \in Ids, PrepareInsert(r, k, v, id, op)
      PROVE  Forward
  BY <1>2, <1>5 DEF PrepareInsert
<1>6. ASSUME NEW row \in pending, ExpireLease(row)
      PROVE  Forward
  BY <1>2, <1>6 DEF ExpireLease
<1>7. ASSUME UNCHANGED storeVars PROVE Forward
  BY <1>2, <1>7 DEF storeVars
<1> HIDE DEF Forward
<1>8. ASSUME StoreNext PROVE Forward
  BY <1>3, <1>4, <1>5, <1>6, <1>8 DEF StoreNext
<1>9. Forward
  BY <1>7, <1>8
<1> QED
  BY <1>9 DEF Forward

\* No transaction of the store deletes or rewrites a committed row, or moves
\* a head by anything but one version forward.
THEOREM StoreForwardOnly == StoreSpec => ForwardOnly
<1>1. StoreInv /\ [StoreNext]_storeVars =>
          [/\ committed \subseteq committed'
           /\ \A r \in Replicas, k \in Keys :
                 heads'[r][k] = heads[r][k] \/ heads'[r][k] = heads[r][k] + 1]_storeVars
  BY StoreStepForward
<1>2. StoreSpec => []StoreInv
  BY StoreInitInv, StoreStepInv, PTL DEF StoreSpec
<1> QED
  BY <1>1, <1>2, PTL DEF StoreSpec, ForwardOnly

-----------------------------------------------------------------------------
(* The write path. *)

Running(c) == pc[c] # "idle"

\* A running write has a job of its own: no two share an operation id.
JobsDistinct ==
    /\ \A c \in Coordinators : Running(c) => job[c] \in Jobs /\ job[c].op \in used
    /\ \A c, d \in Coordinators :
          Running(c) /\ Running(d) /\ job[c].op = job[d].op => c = d

\* Returned writes are over, and rows carry operation ids handed out before.
OpsAccounted ==
    /\ \A w \in results :
          /\ w.op \in used
          /\ \A c \in Coordinators : Running(c) => job[c].op # w.op
    /\ \A row \in committed : row.op \in used \cup {RepairOp}

\* durable[c] is exactly the set of replicas that hold a row of c's write.
DurableRows ==
    \A c \in Coordinators :
        /\ pc[c] \in {"idle", "prepare", "abort"} => durable[c] = {}
        /\ Running(c) =>
              /\ durable[c] \subseteq Holders(job[c].key, job[c].version, job[c].id)
              /\ \A row \in committed : row.op = job[c].op => row.replica \in durable[c]

\* The inductive invariant.
WriteInv ==
    /\ TypeOK
    /\ StoreInv
    /\ JobsDistinct
    /\ OpsAccounted
    /\ DurableRows
    /\ CommittedIsDurable
    /\ RejectedWritesCommitNothing

-----------------------------------------------------------------------------
(* Facts about quorums and holders. *)

\* Two quorums of replicas share a replica.
LEMMA QuorumsIntersect ==
    ASSUME NEW A \in SUBSET Replicas, NEW B \in SUBSET Replicas,
           Cardinality(A) >= QuorumSize, Cardinality(B) >= QuorumSize
    PROVE  A \cap B # {}
<1>1. /\ IsFiniteSet(A) /\ IsFiniteSet(B) /\ IsFiniteSet(A \cap B)
      /\ IsFiniteSet(A \cup B) /\ IsFiniteSet(Replicas)
  BY ReplicasAssumption, FS_Subset
<1>2. /\ Cardinality(A) \in Nat /\ Cardinality(B) \in Nat
      /\ Cardinality(A \cap B) \in Nat /\ Cardinality(A \cup B) \in Nat
      /\ Cardinality(Replicas) \in Nat
  BY <1>1, FS_CardinalityType
<1>3. Cardinality(A \cup B) <= Cardinality(Replicas)
  BY <1>1, FS_Subset
<1>4. Cardinality(A \cup B) = Cardinality(A) + Cardinality(B) - Cardinality(A \cap B)
  BY <1>1, FS_Union
<1>5. Cardinality(A \cap B) # 0
  BY <1>2, <1>3, <1>4, QuorumAssumption
<1> QED
  BY <1>5, FS_EmptySet

\* A larger set of replicas is a quorum if a smaller one is.
LEMMA QuorumsGrow ==
    ASSUME NEW A \in SUBSET Replicas, NEW B \in SUBSET Replicas, A \subseteq B,
           Cardinality(A) >= QuorumSize
    PROVE  Cardinality(B) >= QuorumSize
<1>1. IsFiniteSet(A) /\ IsFiniteSet(B)
  BY ReplicasAssumption, FS_Subset
<1>2. Cardinality(A) \in Nat /\ Cardinality(B) \in Nat
  BY <1>1, FS_CardinalityType
<1>3. Cardinality(A) <= Cardinality(B)
  BY <1>1, FS_Subset
<1> QED
  BY <1>2, <1>3, QuorumAssumption

\* Two records held by quorums in one slot are the same record.
LEMMA QuorumsAgree ==
    ASSUME SlotsUnique, NEW k, NEW v, NEW id1, NEW id2,
           Cardinality(Holders(k, v, id1)) >= QuorumSize,
           Cardinality(Holders(k, v, id2)) >= QuorumSize
    PROVE  id1 = id2
<1>1. Holders(k, v, id1) \in SUBSET Replicas /\ Holders(k, v, id2) \in SUBSET Replicas
  BY DEF Holders
<1>2. PICK r : r \in Holders(k, v, id1) \cap Holders(k, v, id2)
  BY <1>1, QuorumsIntersect
<1> QED
  BY <1>2 DEF Holders, SlotsUnique

LEMMA WriteInit == Init => WriteInv
<1> SUFFICES ASSUME Init PROVE WriteInv
  OBVIOUS
<1>1. StoreInv
  BY StoreInitInv DEF Init
<1>2. TypeOK
  BY <1>1, ConstantsAssumption DEF Init, TypeOK, StoreInv, AllHealthy
<1>3. JobsDistinct /\ OpsAccounted /\ DurableRows
  BY DEF Init, StoreInit, JobsDistinct, OpsAccounted, DurableRows, Running
<1>4. CommittedIsDurable /\ RejectedWritesCommitNothing
  BY DEF Init, CommittedIsDurable, RejectedWritesCommitNothing
<1> QED
  BY <1>1, <1>2, <1>3, <1>4 DEF WriteInv

-----------------------------------------------------------------------------
(* Every step of the system is a transaction of one store, or none. *)

LEMMA AbortCallStore ==
    ASSUME NEW c \in Coordinators, NEW r \in Replicas, job[c] \in Jobs,
           AbortCall(c, r)
    PROVE  [StoreNext]_storeVars
<1>1. job[c].key \in Keys /\ job[c].version \in Versions /\ job[c].op \in OpIds
  BY DEF Jobs, WriteOps
<1>2. CASE AbortPending(r, job[c].key, job[c].version, job[c].op)
  BY <1>1, <1>2 DEF StoreNext
<1>3. CASE UNCHANGED <<committed, heads, pending>>
  BY <1>3 DEF storeVars
<1> QED
  BY <1>2, <1>3 DEF AbortCall

LEMMA StepStore ==
    ASSUME WriteInv, NEW c \in Coordinators, Step(c)
    PROVE  [StoreNext]_storeVars
<1> USE DEF storeVars
<1>1. Running(c) => /\ job[c] \in Jobs
                    /\ job[c].key \in Keys /\ job[c].version \in Versions
                    /\ job[c].id \in Ids /\ job[c].op \in OpIds
  BY DEF WriteInv, JobsDistinct, Jobs, WriteOps
<1>2. ASSUME \/ Propose(c) \/ RejectDraft(c) \/ RejectAll(c) \/ Decide(c)
             \/ StartCleanup(c) \/ Finish(c)
      PROVE  UNCHANGED storeVars
  BY <1>2 DEF Propose, RejectDraft, RejectAll, Decide, StartCleanup, Finish
<1>3. ASSUME NEW r \in Replicas, PrepareAcked(c, r)
      PROVE  StoreNext
  <2>1. PICK id \in Ids :
            PrepareInsert(r, job[c].key, job[c].version, id, job[c].op)
    BY <1>3 DEF PrepareAcked
  <2>2. Running(c)
    BY <1>3 DEF PrepareAcked, Running
  <2> QED
    BY <1>1, <2>1, <2>2 DEF StoreNext
<1>4. ASSUME NEW r \in Replicas, PrepareRefused(c, r) \/ CommitMissed(c, r)
      PROVE  UNCHANGED storeVars
  BY <1>4 DEF PrepareRefused, CommitMissed
<1>5. ASSUME NEW r \in Replicas, CommitAcked(c, r)
      PROVE  StoreNext
  <2>1. CommitPromote(r, job[c].key, job[c].version, job[c].id, job[c].op)
    BY <1>5 DEF CommitAcked
  <2>2. Running(c)
    BY <1>5 DEF CommitAcked, Running
  <2> QED
    BY <1>1, <2>1, <2>2 DEF StoreNext
<1>6. ASSUME NEW r \in Replicas, AbortLoser(c, r) \/ AbortReplica(c, r)
      PROVE  [StoreNext]_storeVars
  BY <1>1, <1>6, AbortCallStore DEF AbortLoser, AbortReplica, Running
<1> QED
  BY <1>2, <1>3, <1>4, <1>5, <1>6 DEF Step

LEMMA NextStore == WriteInv /\ [Next]_vars => [StoreNext]_storeVars
<1> SUFFICES ASSUME WriteInv, [Next]_vars PROVE [StoreNext]_storeVars
  OBVIOUS
<1>1. ASSUME NEW c \in Coordinators, Environment(c)
      PROVE  UNCHANGED storeVars
  BY <1>1 DEF Environment, Crash, SetUnavailable, SetAvailable, storeVars
<1>2. CASE LeasePasses
  BY <1>2 DEF LeasePasses, StoreNext
<1>3. CASE UNCHANGED vars
  BY <1>3 DEF vars, storeVars
<1> QED
  BY <1>1, <1>2, <1>3, StepStore DEF Next

-----------------------------------------------------------------------------
(* Type correctness, one step per action. *)

\* The part of TypeOK that is not about the stores.
WriterTypeOK ==
    /\ health \in [Coordinators -> [Replicas -> {"HEALTHY", "UNAVAILABLE", "DIVERGED"}]]
    /\ pc \in [Coordinators -> {"idle", "prepare", "commit", "abort", "cleanup"}]
    /\ job \in [Coordinators -> Jobs \cup {None}]
    /\ todo \in [Coordinators -> SUBSET Replicas]
    /\ prepared \in [Coordinators -> SUBSET [replica : Replicas, id : Ids]]
    /\ refusals \in [Coordinators -> SUBSET PrepareStatuses]
    /\ durable \in [Coordinators -> SUBSET Replicas]
    /\ used \subseteq WriteOps
    /\ results \subseteq Results
    /\ faults \in 0 .. MaxFaults

LEMMA ReleaseType ==
    ASSUME WriterTypeOK, NEW c \in Coordinators, Release(c)
    PROVE  /\ pc' \in [Coordinators -> {"idle", "prepare", "commit", "abort", "cleanup"}]
           /\ job' \in [Coordinators -> Jobs \cup {None}]
           /\ todo' \in [Coordinators -> SUBSET Replicas]
           /\ prepared' \in [Coordinators -> SUBSET [replica : Replicas, id : Ids]]
           /\ refusals' \in [Coordinators -> SUBSET PrepareStatuses]
           /\ durable' \in [Coordinators -> SUBSET Replicas]
BY DEF WriterTypeOK, Release

LEMMA ReturnType ==
    ASSUME WriterTypeOK, NEW c \in Coordinators, job[c] \in Jobs,
           NEW outcome \in WriteOutcomes, Return(c, outcome),
           UNCHANGED <<health, used, faults>>
    PROVE  WriterTypeOK'
<1>1. results' \subseteq Results
  BY DEF WriterTypeOK, Return, Results, Jobs
<1> QED
  BY <1>1, ReleaseType DEF WriterTypeOK, Return

LEMMA StepType ==
    ASSUME WriteInv, NEW c \in Coordinators, Step(c)
    PROVE  WriterTypeOK'
<1>1. WriterTypeOK
  BY DEF WriteInv, TypeOK, WriterTypeOK
<1>2. Running(c) => job[c] \in Jobs
  BY DEF WriteInv, JobsDistinct
<1> USE <1>1
<1>3. CASE Propose(c)
  BY <1>3 DEF WriterTypeOK, Propose, Jobs
<1>4. CASE RejectDraft(c)
  BY <1>4, ConstantsAssumption DEF WriterTypeOK, RejectDraft, Results, WriteOutcomes
<1>5. CASE RejectAll(c)
  <2>1. ClassifyTotalRejection(refusals[c]) \in WriteOutcomes
    BY DEF ClassifyTotalRejection, WriteOutcomes
  <2> QED
    BY <1>2, <1>5, <2>1, ReturnType DEF RejectAll, Running
<1>6. CASE Decide(c) \/ StartCleanup(c)
  <2>1. {p.replica : p \in prepared[c]} \in SUBSET Replicas
    BY DEF WriterTypeOK
  <2>2. todo' \in [Coordinators -> SUBSET Replicas]
    BY <1>6, <2>1 DEF WriterTypeOK, Decide, StartCleanup
  <2>3. pc' \in [Coordinators -> {"idle", "prepare", "commit", "abort", "cleanup"}]
    BY <1>6 DEF WriterTypeOK, Decide, StartCleanup
  <2> QED
    BY <1>6, <2>2, <2>3 DEF WriterTypeOK, Decide, StartCleanup
<1>7. CASE Finish(c)
  <2> DEFINE outcome == IF pc[c] = "abort" THEN "FAILED_QUORUM"
                        ELSE CommitPhaseOutcome(Cardinality(durable[c]))
  <2>1. durable[c] \in SUBSET Replicas
    BY DEF WriterTypeOK
  <2>2. Cardinality(durable[c]) \in Nat
    BY <2>1, ReplicasAssumption, FS_Subset, FS_CardinalityType
  <2>3. outcome \in WriteOutcomes
    BY <2>2, QuorumAssumption DEF CommitPhaseOutcome, WriteOutcomes
  <2> QED
    BY <1>2, <1>7, <2>3, ReturnType DEF Finish, Running
<1>8. ASSUME NEW r \in Replicas, PrepareAcked(c, r)
      PROVE  WriterTypeOK'
  <2>1. faults' \in 0 .. MaxFaults
    BY <1>8, ConstantsAssumption DEF WriterTypeOK, PrepareAcked, Stages, Fault
  <2> QED
    BY <1>8, <2>1 DEF WriterTypeOK, PrepareAcked
<1>9. ASSUME NEW r \in Replicas, PrepareRefused(c, r)
      PROVE  WriterTypeOK'
  <2>1. faults' \in 0 .. MaxFaults
    BY <1>9, ConstantsAssumption DEF WriterTypeOK, PrepareRefused, Stages, Fault
  <2> QED
    BY <1>9, <2>1 DEF WriterTypeOK, PrepareRefused
<1>10. ASSUME NEW r \in Replicas, CommitAcked(c, r)
       PROVE  WriterTypeOK'
  BY <1>10 DEF WriterTypeOK, CommitAcked
<1>11. ASSUME NEW r \in Replicas, CommitMissed(c, r)
       PROVE  WriterTypeOK'
  <2>1. faults' \in 0 .. MaxFaults
    BY <1>11, ConstantsAssumption DEF WriterTypeOK, CommitMissed, Fault
  <2> QED
    BY <1>11, <2>1 DEF WriterTypeOK, CommitMissed
<1>12. ASSUME NEW r \in Replicas, AbortLoser(c, r) \/ AbortReplica(c, r)
       PROVE  WriterTypeOK'
  <2>1. faults' \in 0 .. MaxFaults
    BY <1>12, ConstantsAssumption
    DEF WriterTypeOK, AbortLoser, AbortReplica, AbortCall, Fault
  <2> QED
    BY <1>12, <2>1 DEF WriterTypeOK, AbortLoser, AbortReplica
<1> QED
  BY <1>3, <1>4, <1>5, <1>6, <1>7, <1>8, <1>9, <1>10, <1>11, <1>12 DEF Step

LEMMA EnvironmentType ==
    ASSUME WriteInv, NEW c \in Coordinators, Environment(c)
    PROVE  WriterTypeOK'
<1>1. WriterTypeOK
  BY DEF WriteInv, TypeOK, WriterTypeOK
<1>2. faults' \in 0 .. MaxFaults
  BY <1>1, ConstantsAssumption
  DEF WriterTypeOK, Environment, Crash, SetUnavailable, SetAvailable, Fault
<1>3. CASE Crash(c)
  BY <1>1, <1>2, <1>3, ReleaseType DEF WriterTypeOK, Crash, AllHealthy
<1>4. ASSUME NEW r \in Replicas, SetUnavailable(c, r) \/ SetAvailable(c, r)
      PROVE  WriterTypeOK'
  <2>1. health' \in [Coordinators -> [Replicas -> {"HEALTHY", "UNAVAILABLE", "DIVERGED"}]]
    <3>1. PICK h \in {"HEALTHY", "UNAVAILABLE"} : health' = [health EXCEPT ![c][r] = h]
      BY <1>4 DEF SetUnavailable, SetAvailable
    <3>2. health \in [Coordinators -> [Replicas -> {"HEALTHY", "UNAVAILABLE", "DIVERGED"}]]
      BY <1>1 DEF WriterTypeOK
    <3> QED
      BY <3>1, <3>2
  <2>2. UNCHANGED <<pc, job, todo, prepared, refusals, durable, used, results>>
    BY <1>4 DEF SetUnavailable, SetAvailable, writerVars
  <2> QED
    BY <1>1, <1>2, <2>1, <2>2 DEF WriterTypeOK
<1> QED
  BY <1>3, <1>4 DEF Environment

LEMMA NextType == WriteInv /\ [Next]_vars => TypeOK' /\ StoreInv'
<1> SUFFICES ASSUME WriteInv, [Next]_vars PROVE TypeOK' /\ StoreInv'
  OBVIOUS
<1>1. StoreInv'
  BY NextStore, StoreStepInv DEF WriteInv
<1>2. WriterTypeOK'
  <2>1. CASE LeasePasses \/ UNCHANGED vars
    BY <2>1 DEF WriteInv, TypeOK, WriterTypeOK, LeasePasses, writerVars, vars
  <2> QED
    BY <2>1, StepType, EnvironmentType DEF Next
<1> QED
  BY <1>1, <1>2 DEF TypeOK, WriterTypeOK, StoreInv

-----------------------------------------------------------------------------
(* The rest of the invariant. *)

\* What WriteInv says beyond types and the stores themselves.
WriteFacts ==
    /\ JobsDistinct
    /\ OpsAccounted
    /\ DurableRows
    /\ CommittedIsDurable
    /\ RejectedWritesCommitNothing

\* Most steps only stage, abort, or move on: no row is committed, no write
\* begins or ends, and the commit phase is not left again.
Quiet ==
    /\ UNCHANGED <<committed, job, durable, used, results>>
    /\ \A c \in Coordinators :
          /\ pc'[c] = "idle" <=> pc[c] = "idle"
          /\ pc'[c] \in {"idle", "prepare", "abort"} =>
                pc[c] \in {"idle", "prepare", "abort"}

LEMMA QuietFacts == WriteInv /\ Quiet => WriteFacts'
<1> SUFFICES ASSUME WriteInv, Quiet PROVE WriteFacts'
  OBVIOUS
<1>1. \A c \in Coordinators : Running(c)' <=> Running(c)
  BY DEF Quiet, Running
<1>2. \A k, v, id : Holders(k, v, id)' = Holders(k, v, id)
  BY DEF Quiet, Holders
<1>3. JobsDistinct' /\ OpsAccounted'
  BY <1>1 DEF WriteInv, Quiet, JobsDistinct, OpsAccounted
<1>4. DurableRows'
  BY <1>1, <1>2 DEF WriteInv, Quiet, DurableRows
<1>5. CommittedIsDurable' /\ RejectedWritesCommitNothing'
  BY <1>2 DEF WriteInv, Quiet, CommittedIsDurable, RejectedWritesCommitNothing
<1> QED
  BY <1>3, <1>4, <1>5 DEF WriteFacts

LEMMA ProposeFacts ==
    ASSUME WriteInv, NEW c \in Coordinators, Propose(c)
    PROVE  WriteFacts'
<1>1. PICK op \in WriteOps \ used, k \in Keys, v \in Versions, id \in Ids :
          /\ job' = [job EXCEPT ![c] = [op |-> op, key |-> k, version |-> v, id |-> id]]
          /\ used' = used \cup {op}
  BY DEF Propose
<1>2. /\ job'[c] \in Jobs /\ job'[c].op = op
      /\ \A d \in Coordinators \ {c} : job'[d] = job[d]
  BY <1>1 DEF WriteInv, TypeOK, Jobs
<1>3. /\ Running(c)' /\ pc'[c] = "prepare" /\ ~ Running(c)
      /\ \A d \in Coordinators \ {c} : pc'[d] = pc[d] /\ (Running(d)' <=> Running(d))
  BY DEF Propose, Running, WriteInv, TypeOK
<1>4. \A d \in Coordinators \ {c} : Running(d) => job[d].op # op
  BY <1>1 DEF WriteInv, JobsDistinct
<1>5. \A row \in committed : row.op # op
  BY <1>1 DEF WriteInv, OpsAccounted, WriteOps
<1>6. JobsDistinct'
  BY <1>1, <1>2, <1>3, <1>4 DEF WriteInv, JobsDistinct
<1>7. OpsAccounted'
  BY <1>1, <1>2, <1>3, <1>4 DEF Propose, WriteInv, OpsAccounted
<1>8. \A j, n, i : Holders(j, n, i)' = Holders(j, n, i)
  BY DEF Propose, Holders
<1>9. DurableRows'
  <2> SUFFICES ASSUME NEW d \in Coordinators
               PROVE  /\ pc'[d] \in {"idle", "prepare", "abort"} => durable'[d] = {}
                      /\ Running(d)' =>
                         /\ durable'[d] \subseteq
                               Holders(job[d].key, job[d].version, job[d].id)'
                         /\ \A row \in committed' :
                               row.op = job'[d].op => row.replica \in durable'[d]
    BY DEF DurableRows
  <2>1. CASE d = c
    BY <1>2, <1>3, <1>5, <2>1 DEF Propose, WriteInv, DurableRows, Running
  <2>2. CASE d # c
    BY <1>2, <1>3, <1>8, <2>2 DEF Propose, WriteInv, DurableRows
  <2> QED
    BY <2>1, <2>2
<1>10. CommittedIsDurable' /\ RejectedWritesCommitNothing'
  BY <1>8 DEF Propose, WriteInv, CommittedIsDurable, RejectedWritesCommitNothing
<1> QED
  BY <1>6, <1>7, <1>9, <1>10 DEF WriteFacts

LEMMA RejectDraftFacts ==
    ASSUME WriteInv, NEW c \in Coordinators, RejectDraft(c)
    PROVE  WriteFacts'
<1>1. PICK op \in WriteOps \ used, k \in Keys, v \in Versions, id \in Ids,
           outcome \in EarlyOutcomes :
          /\ results' = results \cup {[op |-> op, key |-> k, version |-> v,
                                       id |-> id, outcome |-> outcome]}
          /\ used' = used \cup {op}
  BY DEF RejectDraft
<1>2. outcome \notin {"COMMITTED", "PARTIAL_COMMIT", "FAILED_STORAGE"}
  BY ConstantsAssumption
<1>3. /\ \A d \in Coordinators : Running(d) => job[d].op # op
      /\ \A row \in committed : row.op # op
  BY <1>1 DEF WriteInv, JobsDistinct, OpsAccounted, WriteOps
<1>4. /\ \A d \in Coordinators : Running(d)' <=> Running(d)
      /\ \A j, n, i : Holders(j, n, i)' = Holders(j, n, i)
  BY DEF RejectDraft, Holders, Running
<1>5. JobsDistinct'
  BY <1>1, <1>4 DEF RejectDraft, WriteInv, JobsDistinct
<1>6. OpsAccounted'
  BY <1>1, <1>3, <1>4 DEF RejectDraft, WriteInv, OpsAccounted
<1>7. DurableRows'
  BY <1>4 DEF RejectDraft, WriteInv, DurableRows
<1>8. CommittedIsDurable'
  BY <1>1, <1>2, <1>4 DEF WriteInv, CommittedIsDurable
<1>9. RejectedWritesCommitNothing'
  BY <1>1, <1>3 DEF RejectDraft, WriteInv, RejectedWritesCommitNothing
<1> QED
  BY <1>5, <1>6, <1>7, <1>8, <1>9 DEF WriteFacts

\* A coordinator that goes idle leaves the facts about the others alone.
LEMMA ReleaseFacts ==
    ASSUME WriteInv, NEW c \in Coordinators, Release(c),
           UNCHANGED <<committed, used>>
    PROVE  /\ JobsDistinct' /\ DurableRows'
           /\ ~ Running(c)'
           /\ \A d \in Coordinators \ {c} :
                 job'[d] = job[d] /\ (Running(d)' <=> Running(d))
<1>1. /\ ~ Running(c)' /\ pc'[c] = "idle" /\ durable'[c] = {}
      /\ \A d \in Coordinators \ {c} :
            /\ job'[d] = job[d] /\ pc'[d] = pc[d] /\ durable'[d] = durable[d]
            /\ Running(d)' <=> Running(d)
  BY DEF Release, Running, WriteInv, TypeOK
<1>2. JobsDistinct'
  BY <1>1 DEF WriteInv, JobsDistinct
<1>3. \A k, v, id : Holders(k, v, id)' = Holders(k, v, id)
  BY DEF Holders
<1>4. DurableRows'
  BY <1>1, <1>3 DEF WriteInv, DurableRows
<1> QED
  BY <1>1, <1>2, <1>4

\* A write returns: what its result claims must be true of its rows.
LEMMA ReturnFacts ==
    ASSUME WriteInv, NEW c \in Coordinators, Running(c), NEW outcome,
           outcome = "COMMITTED" => Cardinality(durable[c]) >= QuorumSize,
           durable[c] = {} \/
              outcome \in {"COMMITTED", "PARTIAL_COMMIT", "FAILED_STORAGE"},
           Return(c, outcome), UNCHANGED <<committed, used>>
    PROVE  WriteFacts'
<1> DEFINE new == [op |-> job[c].op, key |-> job[c].key, version |-> job[c].version,
                   id |-> job[c].id, outcome |-> outcome]
<1>1. results' = results \cup {new} /\ Release(c)
  BY DEF Return
<1>2. /\ JobsDistinct' /\ DurableRows' /\ ~ Running(c)'
      /\ \A d \in Coordinators \ {c} :
            job'[d] = job[d] /\ (Running(d)' <=> Running(d))
  BY <1>1, ReleaseFacts
<1>3. /\ job[c].op \in used
      /\ \A d \in Coordinators \ {c} : Running(d) => job[d].op # job[c].op
  BY DEF WriteInv, JobsDistinct
<1>4. OpsAccounted'
  BY <1>1, <1>2, <1>3 DEF WriteInv, OpsAccounted
<1>5. CommittedIsDurable'
  <2>1. \A k, v, id : Holders(k, v, id)' = Holders(k, v, id)
    BY DEF Holders
  <2>2. /\ durable[c] \in SUBSET Replicas
        /\ Holders(job[c].key, job[c].version, job[c].id) \in SUBSET Replicas
        /\ durable[c] \subseteq Holders(job[c].key, job[c].version, job[c].id)
    BY DEF WriteInv, TypeOK, DurableRows, Holders
  <2>3. outcome = "COMMITTED" =>
           Cardinality(Holders(job[c].key, job[c].version, job[c].id)) >= QuorumSize
    BY <2>2, QuorumsGrow
  <2> QED
    BY <1>1, <2>1, <2>3 DEF WriteInv, CommittedIsDurable
<1>6. RejectedWritesCommitNothing'
  <2>1. ASSUME NEW row \in committed, row.op = new.op
        PROVE  outcome \in {"COMMITTED", "PARTIAL_COMMIT", "FAILED_STORAGE"}
    BY <2>1 DEF WriteInv, DurableRows
  <2> QED
    BY <1>1, <2>1 DEF WriteInv, RejectedWritesCommitNothing
<1> QED
  BY <1>2, <1>4, <1>5, <1>6 DEF WriteFacts

LEMMA RejectAllFacts ==
    ASSUME WriteInv, NEW c \in Coordinators, RejectAll(c)
    PROVE  WriteFacts'
<1>1. Running(c) /\ durable[c] = {}
  BY DEF RejectAll, Running, WriteInv, DurableRows
<1>2. ClassifyTotalRejection(refusals[c]) # "COMMITTED"
  BY DEF ClassifyTotalRejection
<1> QED
  BY <1>1, <1>2, ReturnFacts DEF RejectAll

LEMMA FinishFacts ==
    ASSUME WriteInv, NEW c \in Coordinators, Finish(c)
    PROVE  WriteFacts'
<1> DEFINE outcome == IF pc[c] = "abort" THEN "FAILED_QUORUM"
                      ELSE CommitPhaseOutcome(Cardinality(durable[c]))
<1>1. Running(c) /\ Return(c, outcome) /\ UNCHANGED <<committed, used>>
  BY DEF Finish, Running
<1>2. durable[c] \in SUBSET Replicas /\ Cardinality(durable[c]) \in Nat
  BY ReplicasAssumption, FS_Subset, FS_CardinalityType DEF WriteInv, TypeOK
<1>3. outcome = "COMMITTED" => Cardinality(durable[c]) >= QuorumSize
  BY <1>2, QuorumAssumption DEF CommitPhaseOutcome
<1>4. durable[c] = {} \/
         outcome \in {"COMMITTED", "PARTIAL_COMMIT", "FAILED_STORAGE"}
  BY <1>2, QuorumAssumption DEF CommitPhaseOutcome, WriteInv, DurableRows
<1> HIDE DEF outcome
<1> QED
  BY <1>1, <1>3, <1>4, ReturnFacts

\* A commit adds one row, of the committing write, and counts its replica.
LEMMA CommitAckedFacts ==
    ASSUME WriteInv, NEW c \in Coordinators, NEW r \in Replicas, CommitAcked(c, r)
    PROVE  WriteFacts'
<1> DEFINE new == [replica |-> r, key |-> job[c].key, version |-> job[c].version,
                   id |-> job[c].id, op |-> job[c].op]
<1>1. /\ committed' = committed \cup {new}
      /\ UNCHANGED <<pc, job, used, results>>
      /\ Running(c) /\ pc[c] = "commit"
  BY DEF CommitAcked, CommitPromote, AppendCommitted, Running
<1>2. /\ durable'[c] = durable[c] \cup {r}
      /\ \A d \in Coordinators \ {c} : durable'[d] = durable[d]
      /\ \A d \in Coordinators : Running(d)' <=> Running(d)
  BY <1>1 DEF CommitAcked, Running, WriteInv, TypeOK
<1>3. \A k, v, id : /\ Holders(k, v, id) \in SUBSET Replicas
                    /\ Holders(k, v, id)' \in SUBSET Replicas
                    /\ Holders(k, v, id) \subseteq Holders(k, v, id)'
  BY <1>1 DEF Holders
<1>4. r \in Holders(job[c].key, job[c].version, job[c].id)'
  <2>1. /\ new \in committed' /\ new.replica = r /\ new.key = job'[c].key
        /\ new.version = job'[c].version /\ new.id = job'[c].id
    BY <1>1
  <2> QED
    BY <2>1 DEF Holders
<1>5. /\ job[c].op \in used
      /\ \A d \in Coordinators \ {c} : Running(d) => job[d].op # job[c].op
      /\ \A w \in results : w.op # job[c].op
  BY <1>1 DEF WriteInv, JobsDistinct, OpsAccounted
<1>6. JobsDistinct' /\ OpsAccounted'
  BY <1>1, <1>2, <1>5 DEF WriteInv, JobsDistinct, OpsAccounted
<1>7. DurableRows'
  <2> SUFFICES ASSUME NEW d \in Coordinators
               PROVE  /\ pc'[d] \in {"idle", "prepare", "abort"} => durable'[d] = {}
                      /\ Running(d)' =>
                         /\ durable'[d] \subseteq
                               Holders(job[d].key, job[d].version, job[d].id)'
                         /\ \A row \in committed' :
                               row.op = job'[d].op => row.replica \in durable'[d]
    BY DEF DurableRows
  <2>1. CASE d = c
    <3>1. durable'[c] \subseteq Holders(job[c].key, job[c].version, job[c].id)'
      BY <1>1, <1>2, <1>3, <1>4 DEF WriteInv, DurableRows
    <3>2. \A row \in committed' : row.op = job[c].op => row.replica \in durable'[c]
      BY <1>1, <1>2 DEF WriteInv, DurableRows
    <3> QED
      BY <1>1, <2>1, <3>1, <3>2
  <2>2. CASE d # c
    <3>1. Running(d) =>
             /\ durable[d] \subseteq Holders(job[d].key, job[d].version, job[d].id)
             /\ \A row \in committed : row.op = job[d].op => row.replica \in durable[d]
      BY DEF WriteInv, DurableRows
    <3>2. pc[d] \in {"idle", "prepare", "abort"} => durable[d] = {}
      BY DEF WriteInv, DurableRows
    <3> QED
      BY <1>1, <1>2, <1>3, <1>5, <2>2, <3>1, <3>2
  <2> QED
    BY <2>1, <2>2
<1>8. CommittedIsDurable'
  <2> SUFFICES ASSUME NEW w \in results, w.outcome = "COMMITTED"
               PROVE  Cardinality(Holders(w.key, w.version, w.id)') >= QuorumSize
    BY <1>1 DEF CommittedIsDurable
  <2>1. Cardinality(Holders(w.key, w.version, w.id)) >= QuorumSize
    BY DEF WriteInv, CommittedIsDurable
  <2> QED
    BY <1>3, <2>1, QuorumsGrow
<1>9. RejectedWritesCommitNothing'
  BY <1>1, <1>5 DEF WriteInv, RejectedWritesCommitNothing
<1> QED
  BY <1>6, <1>7, <1>8, <1>9 DEF WriteFacts

LEMMA CrashFacts ==
    ASSUME WriteInv, NEW c \in Coordinators, Crash(c)
    PROVE  WriteFacts'
<1>1. Release(c) /\ UNCHANGED <<committed, used, results>>
  BY DEF Crash
<1>2. /\ JobsDistinct' /\ DurableRows' /\ ~ Running(c)'
      /\ \A d \in Coordinators \ {c} :
            job'[d] = job[d] /\ (Running(d)' <=> Running(d))
  BY <1>1, ReleaseFacts
<1>3. OpsAccounted'
  BY <1>1, <1>2 DEF WriteInv, OpsAccounted
<1>4. \A k, v, id : Holders(k, v, id)' = Holders(k, v, id)
  BY <1>1 DEF Holders
<1>5. CommittedIsDurable' /\ RejectedWritesCommitNothing'
  BY <1>1, <1>4 DEF WriteInv, CommittedIsDurable, RejectedWritesCommitNothing
<1> QED
  BY <1>2, <1>3, <1>5 DEF WriteFacts

LEMMA StepFacts ==
    ASSUME WriteInv, NEW c \in Coordinators, Step(c)
    PROVE  WriteFacts'
<1>1. CASE Decide(c) \/ StartCleanup(c)
  <2>1. Quiet
    BY <1>1 DEF Quiet, Decide, StartCleanup, WriteInv, TypeOK
  <2> QED
    BY <2>1, QuietFacts
<1>2. ASSUME NEW r \in Replicas, PrepareAcked(c, r) \/ PrepareRefused(c, r)
      PROVE  WriteFacts'
  <2>1. Quiet
    BY <1>2 DEF Quiet, PrepareAcked, PrepareRefused, PrepareInsert
  <2> QED
    BY <2>1, QuietFacts
<1>3. ASSUME NEW r \in Replicas,
             CommitMissed(c, r) \/ AbortLoser(c, r) \/ AbortReplica(c, r)
      PROVE  WriteFacts'
  <2>1. Quiet
    BY <1>3 DEF Quiet, CommitMissed, AbortLoser, AbortReplica, AbortCall, AbortPending
  <2> QED
    BY <2>1, QuietFacts
<1> QED
  BY <1>1, <1>2, <1>3, ProposeFacts, RejectDraftFacts, RejectAllFacts, FinishFacts,
     CommitAckedFacts DEF Step

\* Every step preserves the inductive invariant.
LEMMA NextInv == WriteInv /\ [Next]_vars => WriteInv'
<1> SUFFICES ASSUME WriteInv, [Next]_vars PROVE WriteInv'
  OBVIOUS
<1>1. ASSUME NEW c \in Coordinators, Environment(c)
      PROVE  WriteFacts'
  <2>1. ASSUME NEW r \in Replicas, SetUnavailable(c, r) \/ SetAvailable(c, r)
        PROVE  Quiet
    BY <2>1 DEF Quiet, SetUnavailable, SetAvailable, writerVars
  <2> QED
    BY <1>1, <2>1, QuietFacts, CrashFacts DEF Environment
<1>2. ASSUME LeasePasses \/ UNCHANGED vars
      PROVE  WriteFacts'
  <2>1. UNCHANGED <<committed, job, durable, used, results, pc>>
    BY <1>2 DEF LeasePasses, ExpireLease, writerVars, vars
  <2>2. Quiet
    BY <2>1 DEF Quiet
  <2> QED
    BY <2>2, QuietFacts
<1>3. WriteFacts'
  BY <1>1, <1>2, StepFacts DEF Next
<1> QED
  BY <1>3, NextType DEF WriteInv, WriteFacts

LEMMA WriteInvariance == Spec => []WriteInv
BY WriteInit, NextInv, PTL DEF Spec

-----------------------------------------------------------------------------
(* Theorems. *)

\* The variables of the write path keep their types, whatever the replicas,
\* the fault hooks, crashes and competing coordinators do.
THEOREM WriteTypes == Spec => []TypeOK
<1>1. WriteInv => TypeOK
  BY DEF WriteInv
<1> QED
  BY <1>1, WriteInvariance, PTL

\* The coordinators use the stores as ReplicaStorage describes: all that was
\* proved of a store in isolation holds of the stores of the running system.
THEOREM WritesAreTransactions == Spec => StoreSpec /\ ForwardOnly
<1>1. Init => StoreInit
  BY DEF Init
<1>2. Spec => StoreSpec
  BY <1>1, NextStore, WriteInvariance, PTL DEF Spec, StoreSpec
<1> QED
  BY <1>2, StoreForwardOnly, PTL

\* A write reported COMMITTED is in the committed table of a quorum of
\* replicas, from the moment propose() returns and for ever.
THEOREM CommittedWritesAreDurable == Spec => []CommittedIsDurable
<1>1. WriteInv => CommittedIsDurable
  BY DEF WriteInv
<1> QED
  BY <1>1, WriteInvariance, PTL

\* Two writes reported COMMITTED for one slot carry the same record, although
\* the stores themselves may disagree on a slot: any two quorums share a
\* replica, and that replica has one row for the slot.
THEOREM CommittedWritesAgree == Spec => []CommittedAgreement
<1>1. WriteInv => CommittedAgreement
  <2> SUFFICES ASSUME WriteInv, NEW w1 \in results, NEW w2 \in results,
                      w1.outcome = "COMMITTED", w2.outcome = "COMMITTED",
                      w1.key = w2.key, w1.version = w2.version
               PROVE  w1.id = w2.id
    BY DEF CommittedAgreement
  <2>1. /\ Cardinality(Holders(w1.key, w1.version, w1.id)) >= QuorumSize
        /\ Cardinality(Holders(w1.key, w1.version, w2.id)) >= QuorumSize
    BY DEF WriteInv, CommittedIsDurable
  <2>2. SlotsUnique
    BY DEF WriteInv, StoreInv
  <2> QED
    BY <2>1, <2>2, QuorumsAgree
<1> QED
  BY <1>1, WriteInvariance, PTL

\* A write that returned a rejection or FAILED_QUORUM never has a committed
\* row on any replica.
THEOREM RejectionsAreFinal == Spec => []RejectedWritesCommitNothing
<1>1. WriteInv => RejectedWritesCommitNothing
  BY DEF WriteInv
<1> QED
  BY <1>1, WriteInvariance, PTL

\* With a quorum of at most two, as in the default settings, FAILED_STORAGE
\* really means that no replica committed.  (With a quorum of three it does
\* not: two of three commits are then reported FAILED_STORAGE too.)
THEOREM FailedStorageIsEmpty ==
    ASSUME QuorumSize <= 2
    PROVE  Spec => []FailedStorageCommitsNothing
<1> DEFINE Inv == FailedStorageCommitsNothing
<1>1. Init => Inv
  BY DEF Init, FailedStorageCommitsNothing
<1>2. ASSUME WriteInv, Inv, [Next]_vars
      PROVE  Inv'
  <2>1. ASSUME UNCHANGED <<committed, results>>
        PROVE  Inv'
    BY <1>2, <2>1 DEF FailedStorageCommitsNothing
  <2>2. ASSUME NEW c \in Coordinators, RejectDraft(c)
        PROVE  Inv'
    BY <1>2, <2>2, ConstantsAssumption
    DEF RejectDraft, FailedStorageCommitsNothing
  <2>3. ASSUME NEW c \in Coordinators, RejectAll(c)
        PROVE  Inv'
    <3>1. ClassifyTotalRejection(refusals[c]) # "FAILED_STORAGE"
      BY DEF ClassifyTotalRejection
    <3> QED
      BY <1>2, <2>3, <3>1 DEF RejectAll, Return, FailedStorageCommitsNothing
  <2>4. ASSUME NEW c \in Coordinators, Finish(c)
        PROVE  Inv'
    <3> DEFINE outcome == IF pc[c] = "abort" THEN "FAILED_QUORUM"
                          ELSE CommitPhaseOutcome(Cardinality(durable[c]))
    <3>1. durable[c] \in SUBSET Replicas /\ IsFiniteSet(durable[c])
      BY <1>2, ReplicasAssumption, FS_Subset DEF WriteInv, TypeOK
    <3>2. Cardinality(durable[c]) \in Nat
      BY <3>1, FS_CardinalityType
    <3>3. outcome = "FAILED_STORAGE" => Cardinality(durable[c]) = 0
      BY <3>2, QuorumAssumption DEF CommitPhaseOutcome
    <3>4. outcome = "FAILED_STORAGE" => durable[c] = {}
      BY <3>1, <3>3, FS_EmptySet
    <3>5. \A row \in committed : row.op = job[c].op => row.replica \in durable[c]
      BY <1>2, <2>4 DEF WriteInv, DurableRows, Finish, Running
    <3>6. results' = results \cup
             {[op |-> job[c].op, key |-> job[c].key, version |-> job[c].version,
               id |-> job[c].id, outcome |-> outcome]} /\ committed' = committed
      BY <2>4 DEF Finish, Return
    <3> HIDE DEF outcome
    <3> QED
      BY <1>2, <3>4, <3>5, <3>6 DEF FailedStorageCommitsNothing
  <2>5. ASSUME NEW c \in Coordinators, NEW r \in Replicas, CommitAcked(c, r)
        PROVE  Inv'
    <3>1. \A w \in results : w.op # job[c].op
      BY <1>2, <2>5 DEF WriteInv, OpsAccounted, CommitAcked, Running
    <3> QED
      BY <1>2, <2>5, <3>1
      DEF CommitAcked, CommitPromote, AppendCommitted, FailedStorageCommitsNothing
  <2>6. ASSUME NEW c \in Coordinators,
               Propose(c) \/ Decide(c) \/ StartCleanup(c) \/ Environment(c)
        PROVE  UNCHANGED <<committed, results>>
    BY <2>6 DEF Propose, Decide, StartCleanup, Environment, Crash, SetUnavailable,
                SetAvailable
  <2>7. ASSUME NEW c \in Coordinators, NEW r \in Replicas,
               PrepareAcked(c, r) \/ PrepareRefused(c, r) \/ CommitMissed(c, r)
        PROVE  UNCHANGED <<committed, results>>
    BY <2>7 DEF PrepareAcked, PrepareRefused, CommitMissed, PrepareInsert
  <2>8. ASSUME NEW c \in Coordinators, NEW r \in Replicas,
               AbortLoser(c, r) \/ AbortReplica(c, r)
        PROVE  UNCHANGED <<committed, results>>
    BY <2>8 DEF AbortLoser, AbortReplica, AbortCall, AbortPending
  <2>9. CASE LeasePasses \/ UNCHANGED vars
    BY <2>1, <2>9 DEF LeasePasses, ExpireLease, vars
  <2> HIDE DEF Inv
  <2> QED
    BY <1>2, <2>1, <2>2, <2>3, <2>4, <2>5, <2>6, <2>7, <2>8, <2>9 DEF Next, Step
<1> QED
  BY <1>1, <1>2, WriteInvariance, PTL DEF Spec

-----------------------------------------------------------------------------
(* The write path implements the register. *)

\* One more row in one slot: at most its own record becomes decided, and only
\* in a slot that was still open.
LEMMA CommitChooses ==
    ASSUME WriteInv, WriteInv',
           NEW row \in CommittedRows, committed' = committed \cup {row},
           UNCHANGED results
    PROVE  [Register!RegisterNext]_<<Chosen, Acknowledged>>
<1> DEFINE rec == [key |-> row.key, version |-> row.version, id |-> row.id]
<1>1. rec \in Records /\ row.key \in Keys /\ row.version \in Versions /\ row.id \in Ids
  BY DEF CommittedRows, Records
<1>2. Acknowledged' = Acknowledged
  BY DEF Acknowledged
<1>3. \A k, v, id : /\ Holders(k, v, id) \in SUBSET Replicas
                    /\ Holders(k, v, id)' \in SUBSET Replicas
                    /\ Holders(k, v, id) \subseteq Holders(k, v, id)'
  BY DEF Holders
<1>4. \A d \in Records : d # rec => Holders(d.key, d.version, d.id)' =
                                    Holders(d.key, d.version, d.id)
  BY DEF Holders, Records
<1>5. Chosen \subseteq Chosen'
  BY <1>3, QuorumsGrow DEF Chosen
<1>6. Chosen' \subseteq Chosen \cup {rec}
  BY <1>4 DEF Chosen, Records
<1>7. CASE rec \in Chosen \/ rec \notin Chosen'
  BY <1>2, <1>5, <1>6, <1>7
<1>8. CASE rec \notin Chosen /\ rec \in Chosen'
  <2>1. ASSUME NEW d \in Chosen, d.key = row.key, d.version = row.version
        PROVE  FALSE
    <3>1. /\ Cardinality(Holders(row.key, row.version, d.id)') >= QuorumSize
          /\ Cardinality(Holders(row.key, row.version, row.id)') >= QuorumSize
      BY <1>5, <1>8, <2>1 DEF Chosen
    <3>2. PICK r : r \in Holders(row.key, row.version, d.id)'
                        \cap Holders(row.key, row.version, row.id)'
      BY <1>3, <3>1, QuorumsIntersect
    <3>3. d.id = row.id
      BY <3>2 DEF Holders, WriteInv, StoreInv, SlotsUnique
    <3>4. d = rec
      BY <2>1, <3>3 DEF Chosen, Records
    <3> QED
      BY <1>8, <2>1, <3>4
  <2>2. Register!Choose(row.key, row.version, row.id)
    BY <1>2, <1>5, <1>6, <1>8, <2>1 DEF Register!Choose, Register!Record
  <2> QED
    BY <1>1, <2>2 DEF Register!RegisterNext
<1> QED
  BY <1>7, <1>8

\* One more result: it is told, if it says COMMITTED, and then it is decided.
LEMMA ReturnTells ==
    ASSUME WriteInv, WriteInv', UNCHANGED committed,
           NEW w \in Results, results' = results \cup {w}
    PROVE  [Register!RegisterNext]_<<Chosen, Acknowledged>>
<1> DEFINE rec == [key |-> w.key, version |-> w.version, id |-> w.id]
<1>1. \A k, v, id : Holders(k, v, id)' = Holders(k, v, id)
  BY DEF Holders
<1>2. Chosen' = Chosen
  BY <1>1 DEF Chosen
<1>3. CASE w.outcome # "COMMITTED"
  <2>1. Acknowledged' = Acknowledged
    BY <1>3 DEF Acknowledged
  <2> QED
    BY <1>2, <2>1
<1>4. CASE w.outcome = "COMMITTED"
  <2>1. Acknowledged' = Acknowledged \cup {rec}
    BY <1>4 DEF Acknowledged
  <2>2. rec \in Chosen'
    BY <1>4 DEF WriteInv, CommittedIsDurable, Chosen, Records, Results
  <2>3. Register!Tell(rec)
    BY <1>2, <2>1, <2>2 DEF Register!Tell
  <2> QED
    BY <1>2, <2>2, <2>3 DEF Register!RegisterNext
<1> QED
  BY <1>3, <1>4

LEMMA NextRegister ==
    WriteInv /\ WriteInv' /\ [Next]_vars =>
    [Register!RegisterNext]_<<Chosen, Acknowledged>>
<1> DEFINE Goal == [Register!RegisterNext]_<<Chosen, Acknowledged>>
<1> SUFFICES ASSUME WriteInv, WriteInv', [Next]_vars PROVE Goal
  OBVIOUS
<1>1. ASSUME UNCHANGED <<committed, results>>
      PROVE  Goal
  <2>1. Chosen' = Chosen
    BY <1>1 DEF Chosen, Holders
  <2>2. Acknowledged' = Acknowledged
    BY <1>1 DEF Acknowledged
  <2> QED
    BY <2>1, <2>2
<1>2. ASSUME NEW c \in Coordinators, RejectDraft(c)
      PROVE  Goal
  <2>1. \E w \in Results : results' = results \cup {w}
    BY <1>2, ConstantsAssumption DEF RejectDraft, Results, WriteOutcomes
  <2>2. UNCHANGED committed
    BY <1>2 DEF RejectDraft
  <2> QED
    BY <2>1, <2>2, ReturnTells
<1>3. ASSUME NEW c \in Coordinators, NEW outcome, Return(c, outcome),
             UNCHANGED committed
      PROVE  Goal
  <2> DEFINE w == [op |-> job[c].op, key |-> job[c].key, version |-> job[c].version,
                   id |-> job[c].id, outcome |-> outcome]
  <2>1. results' = results \cup {w}
    BY <1>3 DEF Return
  <2>2. w \in Results
    BY <2>1 DEF WriteInv, TypeOK
  <2> QED
    BY <1>3, <2>1, <2>2, ReturnTells
<1>4. ASSUME NEW c \in Coordinators, NEW r \in Replicas, CommitAcked(c, r)
      PROVE  Goal
  <2> DEFINE row == [replica |-> r, key |-> job[c].key, version |-> job[c].version,
                     id |-> job[c].id, op |-> job[c].op]
  <2>1. committed' = committed \cup {row} /\ UNCHANGED results
    BY <1>4 DEF CommitAcked, CommitPromote, AppendCommitted
  <2>2. row \in CommittedRows
    BY <2>1 DEF WriteInv, StoreInv, StoreTypeOK
  <2> QED
    BY <2>1, <2>2, CommitChooses
<1>5. ASSUME NEW c \in Coordinators, RejectAll(c) \/ Finish(c)
      PROVE  Goal
  BY <1>3, <1>5 DEF RejectAll, Finish
<1>6. ASSUME NEW c \in Coordinators,
             Propose(c) \/ Decide(c) \/ StartCleanup(c) \/ Environment(c)
      PROVE  UNCHANGED <<committed, results>>
  BY <1>6 DEF Propose, Decide, StartCleanup, Environment, Crash, SetUnavailable,
              SetAvailable
<1>7. ASSUME NEW c \in Coordinators, NEW r \in Replicas,
             PrepareAcked(c, r) \/ PrepareRefused(c, r) \/ CommitMissed(c, r)
      PROVE  UNCHANGED <<committed, results>>
  BY <1>7 DEF PrepareAcked, PrepareRefused, CommitMissed, PrepareInsert
<1>8. ASSUME NEW c \in Coordinators, NEW r \in Replicas,
             AbortLoser(c, r) \/ AbortReplica(c, r)
      PROVE  UNCHANGED <<committed, results>>
  BY <1>8 DEF AbortLoser, AbortReplica, AbortCall, AbortPending
<1>9. CASE LeasePasses \/ UNCHANGED vars
  BY <1>1, <1>9 DEF LeasePasses, ExpireLease, vars
<1> HIDE DEF Goal
<1> QED
  BY <1>1, <1>2, <1>4, <1>5, <1>6, <1>7, <1>8, <1>9 DEF Next, Step

\* The two-phase write over replicas implements the register that decides
\* every slot at most once and tells nobody of an undecided record.
THEOREM WritesImplementRegister == Spec => ImplementsRegister
<1>1. Init => Register!RegisterInit
  <2> SUFFICES ASSUME Init PROVE Chosen = {} /\ Acknowledged = {}
    BY DEF Register!RegisterInit
  <2>1. QuorumSize > 0
    BY QuorumAssumption, ReplicasAssumption, FS_CardinalityType
  <2>2. \A k, v, id : Holders(k, v, id) = {}
    BY DEF Holders, Init, StoreInit
  <2>3. Chosen = {}
    BY <2>1, <2>2, FS_EmptySet, QuorumAssumption DEF Chosen
  <2> QED
    BY <2>3 DEF Acknowledged, Init
<1> QED
  BY <1>1, NextRegister, WriteInvariance, PTL
  DEF Spec, ImplementsRegister, Register!RegisterSpec
-----------------------------------------------------------------------------
(* Staging that is left behind. *)

\* A staged row that a running write will still promote or abort: the write
\* staged it, and the loop that deals with its replica has not come to it.
Owns(c, row) ==
    /\ Running(c)
    /\ row.op = job[c].op /\ row.key = job[c].key
    /\ row.version = job[c].version /\ row.id = job[c].id
    /\ \E p \in prepared[c] : p.replica = row.replica
    /\ pc[c] = "prepare" \/ (pc[c] \in {"commit", "abort"} /\ row.replica \in todo[c])

EveryoneAnswers == \A c \in Coordinators, r \in Replicas : Responsive(c, r)

StagedIsOwned == \A row \in pending : \E c \in Coordinators : Owns(c, row)

\* Until the first fault every replica answers, and every staged row is owned.
StagingInv == faults = 0 => EveryoneAnswers /\ StagedIsOwned

LEMMA StagingInit == Init => StagingInv
BY DEF Init, StoreInit, StagingInv, EveryoneAnswers, StagedIsOwned, Responsive, AllHealthy

\* Faults are counted and never forgotten.
LEMMA FaultsCount ==
    ASSUME WriteInv, [Next]_vars, faults' = 0
    PROVE  faults = 0 /\ ~ Fault /\ UNCHANGED faults
<1>1. faults \in Nat
  BY ConstantsAssumption DEF WriteInv, TypeOK
<1>2. ~ Fault
  BY <1>1 DEF Fault
<1>3. ASSUME NEW c \in Coordinators, Step(c)
      PROVE  UNCHANGED faults
  <2>1. ASSUME \/ Propose(c) \/ RejectDraft(c) \/ RejectAll(c) \/ Decide(c)
               \/ StartCleanup(c) \/ Finish(c)
        PROVE  UNCHANGED faults
    BY <2>1 DEF Propose, RejectDraft, RejectAll, Decide, StartCleanup, Finish
  <2>2. ASSUME NEW r \in Replicas, PrepareAcked(c, r) \/ PrepareRefused(c, r)
        PROVE  UNCHANGED faults
    BY <1>2, <2>2 DEF PrepareAcked, PrepareRefused, Stages
  <2>3. ASSUME NEW r \in Replicas,
               CommitAcked(c, r) \/ CommitMissed(c, r) \/ AbortLoser(c, r) \/ AbortReplica(c, r)
        PROVE  UNCHANGED faults
    BY <1>2, <2>3 DEF CommitAcked, CommitMissed, AbortLoser, AbortReplica, AbortCall
  <2> QED
    BY <1>3, <2>1, <2>2, <2>3 DEF Step
<1>4. ASSUME NEW c \in Coordinators, Environment(c)
      PROVE  UNCHANGED faults
  BY <1>2, <1>4 DEF Environment, Crash, SetUnavailable, SetAvailable
<1>5. UNCHANGED faults
  BY <1>3, <1>4 DEF Next, LeasePasses, vars
<1> QED
  BY <1>2, <1>5

\* Without faults no replica stops answering.
LEMMA ReplicasStayResponsive ==
    ASSUME WriteInv, EveryoneAnswers, [Next]_vars, ~ Fault
    PROVE  EveryoneAnswers'
<1> SUFFICES ASSUME NEW d \in Coordinators, NEW q \in Replicas
             PROVE  Responsive(d, q)'
  BY DEF EveryoneAnswers
<1>1. ~ Fault /\ Responsive(d, q)
  BY DEF EveryoneAnswers
<1>2. CASE UNCHANGED health
  BY <1>1, <1>2 DEF Responsive
<1>3. ASSUME NEW c \in Coordinators, NEW r \in Replicas, CommitMissed(c, r) \/ SetAvailable(c, r)
      PROVE  Responsive(d, q)'
  <2>1. health'[d][q] \in {health[d][q], "DIVERGED", "HEALTHY"}
    BY <1>3 DEF CommitMissed, SetAvailable, WriteInv, TypeOK
  <2> QED
    BY <1>1, <2>1 DEF Responsive
<1>4. ASSUME NEW c \in Coordinators, Step(c)
      PROVE  UNCHANGED health \/ \E r \in Replicas : CommitMissed(c, r)
  BY <1>4 DEF Step, Propose, RejectDraft, RejectAll, Decide, StartCleanup, Finish, PrepareAcked,
              PrepareRefused, CommitAcked, AbortLoser, AbortReplica
<1>5. ASSUME NEW c \in Coordinators, Environment(c)
      PROVE  \E r \in Replicas : SetAvailable(c, r)
  BY <1>1, <1>5 DEF Environment, Crash, SetUnavailable
<1> QED
  BY <1>2, <1>3, <1>4, <1>5 DEF Next, LeasePasses, vars

\* A write's step leaves the rows that other writes own to them.
LEMMA OthersKeepOwning ==
    ASSUME NEW c \in Coordinators, NEW d \in Coordinators \ {c}, NEW row, Owns(d, row),
           pc'[d] = pc[d], job'[d] = job[d], todo'[d] = todo[d], prepared'[d] = prepared[d]
    PROVE  Owns(d, row)'
BY DEF Owns, Running

\* A step of a write that meets no fault leaves every staged row owned.
LEMMA StepKeepsOwners ==
    ASSUME WriteInv, EveryoneAnswers, StagedIsOwned, NEW c \in Coordinators, Step(c), ~ Fault
    PROVE  \A row \in pending' : \E d \in Coordinators : Owns(d, row)'
<1> USE DEF WriteInv, TypeOK
<1>1. /\ \A d \in Coordinators, r \in Replicas : Responsive(d, r)
      /\ \A row \in pending : \E d \in Coordinators : Owns(d, row)
  BY DEF EveryoneAnswers, StagedIsOwned
<1>2. \A row \in pending : row.replica \in Replicas
  BY DEF StoreTypeOK, PendingRows
<1>3. \A d \in Coordinators \ {c} : /\ pc'[d] = pc[d] /\ job'[d] = job[d] /\ todo'[d] = todo[d]
                                    /\ prepared'[d] = prepared[d]
  <2>1. ASSUME \/ Propose(c) \/ RejectDraft(c) \/ RejectAll(c) \/ Decide(c)
               \/ StartCleanup(c) \/ Finish(c)
        PROVE  \A d \in Coordinators \ {c} :
                  /\ pc'[d] = pc[d] /\ job'[d] = job[d] /\ todo'[d] = todo[d]
                  /\ prepared'[d] = prepared[d]
    BY <2>1 DEF Propose, RejectDraft, RejectAll, Decide, StartCleanup, Finish, Return, Release
  <2>2. ASSUME NEW r \in Replicas,
               \/ PrepareAcked(c, r) \/ PrepareRefused(c, r) \/ CommitAcked(c, r)
               \/ CommitMissed(c, r) \/ AbortLoser(c, r) \/ AbortReplica(c, r)
        PROVE  \A d \in Coordinators \ {c} :
                  /\ pc'[d] = pc[d] /\ job'[d] = job[d] /\ todo'[d] = todo[d]
                  /\ prepared'[d] = prepared[d]
    BY <2>2 DEF PrepareAcked, PrepareRefused, CommitAcked, CommitMissed, AbortLoser, AbortReplica
  <2> QED
    BY <2>1, <2>2 DEF Step
<1>4. ASSUME NEW row \in pending,
             Owns(c, row) => Owns(c, row)'
      PROVE  \E d \in Coordinators : Owns(d, row)'
  BY <1>1, <1>3, <1>4, OthersKeepOwning
<1>5. CASE Propose(c) \/ RejectDraft(c)
  <2>1. pending' = pending /\ \A row : ~ Owns(c, row)
    BY <1>5 DEF Propose, RejectDraft, Owns, Running
  <2> QED
    BY <1>4, <2>1
<1>6. CASE RejectAll(c) \/ Finish(c) \/ StartCleanup(c)
  <2>1. pending' = pending
    BY <1>6 DEF RejectAll, Finish, StartCleanup
  <2>2. \A row : ~ Owns(c, row)
    BY <1>6 DEF RejectAll, Finish, StartCleanup, Owns
  <2> QED
    BY <1>4, <2>1, <2>2
<1>7. CASE Decide(c)
  <2>1. pending' = pending /\ job' = job /\ prepared' = prepared
    BY <1>7 DEF Decide
  <2>2. pc'[c] \in {"commit", "abort"} /\ todo'[c] = {p.replica : p \in prepared[c]}
    BY <1>7 DEF Decide
  <2>3. \A row : Owns(c, row) => Owns(c, row)'
    BY <2>1, <2>2 DEF Owns, Running
  <2> QED
    BY <1>4, <2>1, <2>3
<1>8. ASSUME NEW r \in Replicas, PrepareAcked(c, r)
      PROVE  \A row \in pending' : \E d \in Coordinators : Owns(d, row)'
  <2>1. PICK id \in Ids :
            /\ Stages(c, id)
            /\ PrepareInsert(r, job[c].key, job[c].version, id, job[c].op)
            /\ prepared' = [prepared EXCEPT ![c] = @ \cup {[replica |-> r, id |-> id]}]
    BY <1>8 DEF PrepareAcked
  <2>2. id = job[c].id
    BY <2>1 DEF Stages
  <2>3. /\ pc[c] = "prepare" /\ pc' = pc /\ job' = job
        /\ prepared'[c] = prepared[c] \cup {[replica |-> r, id |-> id]}
    BY <1>8, <2>1 DEF PrepareAcked
  <2>4. PICK new : new = [replica |-> r, key |-> job[c].key, version |-> job[c].version,
                          id |-> id, op |-> job[c].op, lease |-> "live"]
    OBVIOUS
  <2>5. \A row \in pending' : row \in pending \/ row = new
    BY <2>1, <2>4 DEF PrepareInsert
  <2>6. Owns(c, new)'
    <3>1. [replica |-> r, id |-> id] \in prepared'[c] /\ [replica |-> r, id |-> id].replica = r
      BY <2>3
    <3> QED
      BY <2>2, <2>3, <2>4, <3>1 DEF Owns, Running
  <2>7. \A row : Owns(c, row) => Owns(c, row)'
    BY <2>3 DEF Owns, Running
  <2> QED
    BY <1>4, <2>5, <2>6, <2>7
<1>9. ASSUME NEW r \in Replicas, PrepareRefused(c, r)
      PROVE  \A row \in pending' : \E d \in Coordinators : Owns(d, row)'
  <2>1. pending' = pending /\ pc' = pc /\ job' = job /\ prepared' = prepared /\ pc[c] = "prepare"
    BY <1>9 DEF PrepareRefused
  <2>2. \A row : Owns(c, row) => Owns(c, row)'
    BY <2>1 DEF Owns, Running
  <2> QED
    BY <1>4, <2>1, <2>2
<1>10. ASSUME NEW r \in Replicas,
              CommitAcked(c, r) \/ CommitMissed(c, r) \/ AbortLoser(c, r) \/ AbortReplica(c, r)
       PROVE  \A row \in pending' : \E d \in Coordinators : Owns(d, row)'
  <2>1. /\ pc' = pc /\ job' = job /\ prepared' = prepared /\ todo'[c] = todo[c] \ {r}
        /\ pc[c] # "prepare" /\ Running(c)
    BY <1>10 DEF CommitAcked, CommitMissed, AbortLoser, AbortReplica, Running
  <2>2. \A row : Owns(c, row) /\ row.replica # r => Owns(c, row)'
    BY <2>1 DEF Owns, Running
  <2>3. pending' \subseteq pending
    BY <1>10 DEF CommitAcked, CommitPromote, AppendCommitted, CommitMissed, AbortLoser,
                 AbortReplica, AbortCall, AbortPending
  <2>4. ASSUME NEW row \in pending, Owns(c, row), row.replica = r
        PROVE  row \notin pending'
    <3>1. row \in Slot(pending, r, job[c].key, job[c].version) /\ row.op = job[c].op
          /\ row.id = job[c].id
      BY <2>4 DEF Owns, Slot
    <3>2. CASE CommitAcked(c, r)
      BY <3>1, <3>2 DEF CommitAcked, CommitPromote, AppendCommitted
    <3>3. CASE CommitMissed(c, r)
      <4>1. PromoteOutcome(r, job[c].key, job[c].version, job[c].id, job[c].op) # "COMMITTED"
        BY <1>1, <3>3 DEF CommitMissed
      <4>2. row.version = heads[r][job[c].key] + 1 /\ row.version = job[c].version
        BY <2>4 DEF Owns, StoreInv, StagedNextToHead
      <4> QED
        BY <3>1, <4>1, <4>2 DEF PromoteOutcome
    <3>4. CASE AbortLoser(c, r) \/ AbortReplica(c, r)
      <4>1. AbortPending(r, job[c].key, job[c].version, job[c].op)
        BY <1>1, <3>4 DEF AbortLoser, AbortReplica, AbortCall
      <4> QED
        BY <3>1, <4>1 DEF AbortPending
    <3> QED
      BY <1>10, <3>2, <3>3, <3>4
  <2> QED
    BY <1>4, <2>2, <2>3, <2>4
<1> QED
  BY <1>5, <1>6, <1>7, <1>8, <1>9, <1>10 DEF Step

\* A step that is no fault leaves every staged row owned.
LEMMA OwnersStay ==
    ASSUME WriteInv, EveryoneAnswers, StagedIsOwned, [Next]_vars, ~ Fault
    PROVE  StagedIsOwned'
<1> SUFFICES \A row \in pending' : \E d \in Coordinators : Owns(d, row)'
  BY DEF StagedIsOwned
<1>1. ~ Fault
  OBVIOUS
<1>2. \A row \in pending : \E d \in Coordinators : Owns(d, row)
  BY DEF StagedIsOwned
<1>3. ASSUME UNCHANGED <<pc, job, todo, prepared>>
      PROVE  \A d \in Coordinators : \A row : Owns(d, row) => Owns(d, row)'
  BY <1>3 DEF Owns, Running
<1>4. ASSUME NEW c \in Coordinators, Environment(c)
      PROVE  \A row \in pending' : \E d \in Coordinators : Owns(d, row)'
  <2>1. UNCHANGED <<pc, job, todo, prepared, pending>>
    BY <1>1, <1>4 DEF Environment, Crash, SetUnavailable, SetAvailable, writerVars
  <2> QED
    BY <1>2, <1>3, <2>1
<1>5. CASE LeasePasses
  <2>1. UNCHANGED <<pc, job, todo, prepared>>
    BY <1>5 DEF LeasePasses, writerVars
  <2>2. PICK old \in pending :
            pending' = (pending \ {old}) \cup {[old EXCEPT !.lease = "expired"]}
    BY <1>5 DEF LeasePasses, ExpireLease
  <2>3. PICK d \in Coordinators : Owns(d, old)
    BY <1>2
  <2>4. PICK new : new = [old EXCEPT !.lease = "expired"]
    OBVIOUS
  <2>5. /\ new.replica = old.replica /\ new.key = old.key /\ new.version = old.version
        /\ new.id = old.id /\ new.op = old.op
    BY <2>4 DEF WriteInv, StoreInv, StoreTypeOK, PendingRows
  <2>6. Owns(d, new)
    BY <2>3, <2>5 DEF Owns
  <2>7. \A row \in pending' : row \in pending \/ row = new
    BY <2>2, <2>4
  <2> QED
    BY <1>2, <1>3, <2>1, <2>6, <2>7
<1>6. CASE UNCHANGED vars
  <2>1. UNCHANGED <<pc, job, todo, prepared, pending>>
    BY <1>6 DEF vars
  <2> QED
    BY <1>2, <1>3, <2>1
<1> QED
  BY <1>1, <1>4, <1>5, <1>6, StepKeepsOwners DEF Next

\* Every step preserves the invariant about staging.
LEMMA StagingNext == WriteInv /\ StagingInv /\ [Next]_vars => StagingInv'
<1> SUFFICES ASSUME WriteInv, StagingInv, [Next]_vars, faults' = 0
             PROVE  EveryoneAnswers' /\ StagedIsOwned'
  BY DEF StagingInv
<1>1. ~ Fault /\ EveryoneAnswers /\ StagedIsOwned
  BY FaultsCount DEF StagingInv
<1> QED
  BY <1>1, ReplicasStayResponsive, OwnersStay

\* A write that met no fault leaves no staging behind when it returns: its
\* rows have been promoted, aborted, or taken over by another write, whatever
\* the other coordinators did and whenever leases ran out in between.
THEOREM NothingIsStranded == Spec => []NoStrandedStaging
<1>1. WriteInv /\ StagingInv => NoStrandedStaging
  <2> SUFFICES ASSUME WriteInv, StagingInv, faults = 0, NEW w \in results, NEW row \in pending
               PROVE  row.op # w.op
    BY DEF NoStrandedStaging
  <2>1. PICK c \in Coordinators : Owns(c, row)
    BY DEF StagingInv, StagedIsOwned
  <2> QED
    BY <2>1 DEF Owns, WriteInv, OpsAccounted
<1>2. Spec => []StagingInv
  BY StagingInit, StagingNext, WriteInvariance, PTL DEF Spec
<1> QED
  BY <1>1, <1>2, WriteInvariance, PTL
=============================================================================
