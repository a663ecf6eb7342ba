----------------------- MODULE BlackboardReadsProofs ------------------------
(***************************************************************************)
(* Theorems about reads and repairs of the Blackboard running against its  *)
(* writes, for any number of replicas, coordinators, readers, keys,        *)
(* versions and records, and any majority quorum.                          *)
(***************************************************************************)
EXTENDS BlackboardReads, BlackboardProofs

Observations ==
    [replica : Replicas, answer : {"silent", "absent", "integrity", "found"},
     version : Versions \cup {0}, id : Ids \cup {None}]
Acks == {"NONE", "UNAVAILABLE", "ACK_COMMITTED", "REJECT_CONFLICT", "STORAGE_ERROR"}
ReadRequests ==
    [coordinator : Coordinators, key : Keys, version : Versions \cup {Latest},
     known : Nat, targets : SUBSET Replicas]
Sources == [version : Versions, id : Ids, ack : Acks]
ReadRecords ==
    [key : Keys, requested : Versions \cup {Latest}, known : Nat,
     outcome : ReadOutcomes, version : Versions \cup {0}, id : Ids \cup {None}]

ReaderTypes ==
    /\ rpc \in [Readers -> {"idle", "read", "probe", "upsert", "judge"}]
    /\ request \in [Readers -> ReadRequests \cup {None}]
    /\ left \in [Readers -> SUBSET Replicas]
    /\ seen \in [Readers -> SUBSET Observations]
    /\ source \in [Readers -> Sources \cup {None}]
    /\ reads \subseteq ReadRecords

\* A reader visits every replica once, and what it found there is there still.
SeenOnce(x) ==
    /\ rpc[x] = "idle" => seen[x] = {}
    /\ rpc[x] # "idle" => request[x] \in ReadRequests
    /\ \A o \in seen[x] : o.replica \notin left[x]
    /\ \A o, p \in seen[x] : o.replica = p.replica => o = p
    /\ \A o \in seen[x] : o.answer = "found" =>
          /\ o.version \in Versions /\ o.id \in Ids
          /\ o.replica \in Holders(request[x].key, o.version, o.id)

\* What a repair copies is held by a quorum.
SourceIsHeld(x) ==
    rpc[x] \in {"upsert", "judge"} =>
        /\ source[x] \in Sources
        /\ Cardinality(Holders(request[x].key, source[x].version, source[x].id)) >= QuorumSize

\* Some quorum had the newest version callers knew of when the read of x
\* began; what x heard from its members since is not older.
Floor(x, Q) ==
    /\ Cardinality(Q) >= QuorumSize
    /\ \A r \in Q : \E row \in committed :
          row.replica = r /\ row.key = request[x].key /\ row.version >= request[x].known
    /\ tampered = {} => \A o \in seen[x] :
          o.replica \in Q /\ o.answer # "silent" =>
              o.answer = "found" /\ o.version >= request[x].known
KnowsFloor(x) ==
    rpc[x] = "read" /\ request[x].version = Latest /\ request[x].known # 0 =>
        \E Q \in SUBSET Replicas : Floor(x, Q)

\* Callers are told of decided records only, and of a newest one.
VersionsTold(k) == {t.version : t \in {t \in Told : t.key = k}} \cup {0}
ToldIsDecided ==
    /\ Told \subseteq Chosen
    /\ \A k \in Keys : \E n \in VersionsTold(k) : \A m \in VersionsTold(k) : m <= n

\* The inductive invariant.
ReaderInv(x) == SeenOnce(x) /\ SourceIsHeld(x) /\ KnowsFloor(x)
ReadsInv ==
    /\ WriteInv
    /\ ReaderTypes
    /\ \A x \in Readers : ReaderInv(x)
    /\ ToldIsDecided
    /\ RepairsCopyTheMajority
    /\ NeverReadBackwards

-----------------------------------------------------------------------------
(* Facts about the operators. *)

LEMMA HoldersGrow ==
    ASSUME committed \subseteq committed', NEW k, NEW v, NEW id
    PROVE  /\ Holders(k, v, id) \subseteq Holders(k, v, id)'
           /\ Cardinality(Holders(k, v, id)) >= QuorumSize =>
                 Cardinality(Holders(k, v, id)') >= QuorumSize
<1>1. /\ Holders(k, v, id) \subseteq Holders(k, v, id)'
      /\ Holders(k, v, id) \in SUBSET Replicas /\ Holders(k, v, id)' \in SUBSET Replicas
  BY DEF Holders
<1> QED  BY <1>1, QuorumsGrow

\* The observations that make up a quorum are of as many replicas.
LEMMA SeenQuorum ==
    ASSUME ReaderTypes, NEW x \in Readers, SeenOnce(x), NEW S \in SUBSET seen[x],
           Cardinality(S) >= QuorumSize
    PROVE  /\ {o.replica : o \in S} \in SUBSET Replicas
           /\ Cardinality({o.replica : o \in S}) >= QuorumSize
<1> DEFINE T == {o.replica : o \in S}
           f == [o \in S |-> o.replica]
<1>1. T \in SUBSET Replicas
  BY DEF ReaderTypes, Observations
<1>2. IsFiniteSet(T)
  BY <1>1, ReplicasAssumption, FS_Subset
<1>3. f \in Injection(S, T)
  BY DEF SeenOnce, Injection, IsInjective
<1> HIDE DEF f, T
<1>4. IsFiniteSet(S) /\ Cardinality(S) <= Cardinality(T)
  BY <1>2, <1>3, FS_Injection
<1>5. Cardinality(S) \in Nat /\ Cardinality(T) \in Nat
  BY <1>2, <1>4, FS_CardinalityType
<1>6. Cardinality(T) >= QuorumSize
  BY <1>4, <1>5, QuorumAssumption
<1> QED  BY <1>1, <1>6 DEF T

\* A majority among the observations is a quorum of holders now, although the
\* observations were made at different moments.
LEMMA MajorityIsHeld ==
    ASSUME ReaderTypes, NEW x \in Readers, SeenOnce(x), NEW o \in Majority(x)
    PROVE  /\ o.version \in Versions /\ o.id \in Ids
           /\ Cardinality(Holders(request[x].key, o.version, o.id)) >= QuorumSize
<1>1. o \in seen[x] /\ o.answer = "found" /\ Cardinality(Alike(x, o)) >= QuorumSize
  BY DEF Majority, Found
<1>2. /\ Alike(x, o) \in SUBSET seen[x]
      /\ \A p \in Alike(x, o) : p.answer = "found" /\ p.version = o.version /\ p.id = o.id
  BY DEF Alike, Found
<1> DEFINE T == {p.replica : p \in Alike(x, o)}
           H == Holders(request[x].key, o.version, o.id)
<1>3. T \in SUBSET Replicas /\ Cardinality(T) >= QuorumSize
  BY <1>1, <1>2, SeenQuorum
<1>4. T \subseteq H
  BY <1>2 DEF SeenOnce
<1>5. H \in SUBSET Replicas
  BY DEF Holders
<1> HIDE DEF T, H
<1>6. Cardinality(H) >= QuorumSize
  BY <1>3, <1>4, <1>5, QuorumsGrow
<1> QED  BY <1>1, <1>6 DEF H, SeenOnce

\* The head row of a replica that has a row of the key at all.
LEMMA HeadRowIs ==
    ASSUME StoreInv, NEW r \in Replicas, NEW k \in Keys
    PROVE  /\ \A a, b \in HeadRows(r, k) : a = b
           /\ \A row \in committed : row.replica = r /\ row.key = k => HeadRows(r, k) # {}
<1>1. \A row \in committed : row \in CommittedRows /\ row.version \in Nat
  BY HeadsAreNaturals DEF StoreInv, StoreTypeOK, CommittedRows
<1>2. ASSUME NEW a \in HeadRows(r, k), NEW b \in HeadRows(r, k)
      PROVE  a = b
  <2>1. a.version <= b.version /\ b.version <= a.version
    BY DEF HeadRows
  <2>2. a.version = b.version
    BY <1>1, <2>1 DEF HeadRows
  <2> QED  BY <2>2 DEF HeadRows, StoreInv, SlotsUnique
<1>3. ASSUME NEW row \in committed, row.replica = r, row.key = k
      PROVE  HeadRows(r, k) # {}
  <2>1. heads[r][k] \in Nat /\ row.version <= heads[r][k] /\ row.version \in Nat \ {0}
    BY <1>3, HeadsAreNaturals, VersionsAssumption
    DEF StoreInv, HistoryGapFree, StoreTypeOK, CommittedRows
  <2>2. heads[r][k] \in 1 .. heads[r][k]
    BY <2>1
  <2>3. PICK top \in committed : top.replica = r /\ top.key = k /\ top.version = heads[r][k]
    BY <2>2 DEF StoreInv, HistoryGapFree
  <2>4. top \in HeadRows(r, k)
    BY <2>3 DEF HeadRows, StoreInv, HistoryGapFree
  <2> QED  BY <2>4
<1> QED  BY <1>2, <1>3

\* What a replica answers: one thing, and of its latest row if it has one.
LEMMA ObserveIs ==
    ASSUME StoreInv, NEW c, NEW r \in Replicas, NEW k \in Keys, NEW v \in Versions \cup {Latest}
    PROVE  \E o \in Observations :
              /\ Observe(c, r, k, v) = {o}
              /\ o.replica = r
              /\ o.answer = "found" => /\ o.version \in Versions /\ o.id \in Ids
                                       /\ r \in Holders(k, o.version, o.id)
              /\ v = Latest /\ tampered = {} /\ o.answer # "silent" =>
                    \A row \in committed : row.replica = r /\ row.key = k =>
                        o.answer = "found" /\ o.version >= row.version
<1> DEFINE rows == RowsAt(r, k, v)
           Ob(row) == IF row \in tampered THEN Observation(r, "integrity", 0, None)
                      ELSE Observation(r, "found", row.version, row.id)
<1>1. \A row \in committed : /\ row.version \in Versions /\ row.id \in Ids
                             /\ row.version \in Nat
  BY HeadsAreNaturals DEF StoreInv, StoreTypeOK, CommittedRows
<1>2. rows \subseteq committed /\ \A row \in rows : row.replica = r /\ row.key = k
  BY DEF RowsAt, HeadRows, Slot
<1>3. \A a, b \in rows : a = b
  BY HeadRowIs DEF RowsAt, Slot, StoreInv, SlotsUnique
<1>4. CASE ~ Responsive(c, r)
  <2> DEFINE o == Observation(r, "silent", 0, None)
  <2>1. Observe(c, r, k, v) = {o}
    BY <1>4 DEF Observe
  <2>2. o \in Observations /\ o.replica = r /\ o.answer = "silent"
    BY DEF Observation, Observations
  <2> HIDE DEF o
  <2> QED  BY <2>1, <2>2
<1>5. CASE Responsive(c, r) /\ rows = {}
  <2> DEFINE o == Observation(r, "absent", 0, None)
  <2>1. Observe(c, r, k, v) = {o}
    BY <1>5 DEF Observe
  <2>2. o \in Observations /\ o.replica = r /\ o.answer = "absent"
    BY DEF Observation, Observations
  <2>3. v = Latest => \A row \in committed : ~ (row.replica = r /\ row.key = k)
    BY <1>5, HeadRowIs DEF RowsAt
  <2> HIDE DEF o
  <2> QED  BY <2>1, <2>2, <2>3
<1>6. CASE Responsive(c, r) /\ rows # {}
  <2>1. PICK row \in rows : TRUE
    BY <1>6
  <2>2. Observe(c, r, k, v) = {Ob(row)}
    <3>1. Observe(c, r, k, v) = {Ob(other) : other \in rows}
      BY <1>6 DEF Observe
    <3> QED  BY <1>3, <3>1
  <2>3. /\ row \in committed /\ row.replica = r /\ row.key = k
        /\ row.version \in Versions /\ row.id \in Ids /\ row.version \in Nat
    BY <1>1, <1>2
  <2>4. /\ Ob(row) \in Observations /\ Ob(row).replica = r
        /\ Ob(row).answer = "found" => Ob(row).version = row.version /\ Ob(row).id = row.id
        /\ tampered = {} => Ob(row).answer = "found"
    BY <2>3 DEF Observation, Observations
  <2>5. v = Latest => \A other \in committed :
            other.replica = r /\ other.key = k => other.version <= row.version
    BY DEF RowsAt, HeadRows
  <2>6. r \in Holders(k, row.version, row.id)
    BY <2>3 DEF Holders
  <2> HIDE DEF Ob
  <2>7. ASSUME v = Latest, tampered = {}, NEW other \in committed, other.replica = r,
               other.key = k
        PROVE  Ob(row).answer = "found" /\ Ob(row).version >= other.version
    BY <1>1, <2>3, <2>4, <2>5, <2>7
  <2> QED  BY <2>2, <2>3, <2>4, <2>6, <2>7
<1> QED  BY <1>4, <1>5, <1>6

\* The newest version callers know of is 0 or one that a quorum holds.
LEMMA NewestToldIs ==
    ASSUME WriteInv, ReaderTypes, ToldIsDecided, NEW k \in Keys
    PROVE  /\ NewestTold(k) \in Nat
           /\ NewestTold(k) # 0 =>
                 \E Q \in SUBSET Replicas :
                     /\ Cardinality(Q) >= QuorumSize
                     /\ \A r \in Q : \E row \in committed :
                           row.replica = r /\ row.key = k /\ row.version >= NewestTold(k)
<1> DEFINE n == NewestTold(k)
<1>1. n \in VersionsTold(k)
  <2>1. n = CHOOSE m \in VersionsTold(k) : \A j \in VersionsTold(k) : j <= m
    BY DEF NewestTold, VersionsTold
  <2> QED  BY <2>1 DEF ToldIsDecided
<1> HIDE DEF n
<1>2. CASE n = 0
  BY <1>2 DEF n
<1>3. CASE n # 0
  <2>1. PICK t \in Told : t.key = k /\ t.version = n
    BY <1>1, <1>3 DEF VersionsTold
  <2>2. t \in Records /\ Cardinality(Holders(t.key, t.version, t.id)) >= QuorumSize
    BY DEF ToldIsDecided, Chosen
  <2>3. n \in Nat
    BY <2>1, <2>2, HeadsAreNaturals DEF Records
  <2> DEFINE Q == Holders(k, n, t.id)
  <2>4. Q \in SUBSET Replicas /\ Cardinality(Q) >= QuorumSize
    BY <2>1, <2>2 DEF Holders
  <2>5. \A r \in Q : \E row \in committed : row.replica = r /\ row.key = k /\ row.version >= n
    BY <2>3 DEF Holders
  <2> HIDE DEF Q
  <2> QED  BY <2>3, <2>4, <2>5 DEF n
<1> QED  BY <1>2, <1>3

-----------------------------------------------------------------------------
(* The write path beside the readers. *)

\* A step that only touches replica objects and the fault budget.
LEMMA QuietWrites ==
    ASSUME WriteInv, UNCHANGED <<committed, heads, pending, writerVars, used, results>>,
           health' \in [Coordinators -> [Replicas -> {"HEALTHY", "UNAVAILABLE", "DIVERGED"}]],
           faults' \in 0 .. MaxFaults
    PROVE  WriteInv'
<1>1. Quiet
  BY DEF Quiet, writerVars
<1>2. WriteFacts'
  BY <1>1, QuietFacts
<1>3. StoreInv'
  BY StoreStepInv DEF WriteInv, storeVars
<1>4. TypeOK'
  BY <1>3 DEF WriteInv, TypeOK, writerVars, StoreInv
<1> QED  BY <1>2, <1>3, <1>4 DEF WriteInv, WriteFacts

\* A repair adds a row that belongs to no write.
LEMMA RepairWrites ==
    ASSUME WriteInv, NEW r \in Replicas, NEW k \in Keys, NEW v \in Versions, NEW id \in Ids,
           UpsertExternal(r, k, v, id, RepairOp),
           UNCHANGED <<health, writerVars, used, results, faults>>
    PROVE  WriteInv'
<1> DEFINE new == [replica |-> r, key |-> k, version |-> v, id |-> id, op |-> RepairOp]
<1>1. committed' = committed \cup {new} /\ new.op = RepairOp
  BY DEF UpsertExternal, AppendCommitted
<1> HIDE DEF new
<1>2. StoreInv'
  BY UpsertExternalInv, ConstantsAssumption DEF WriteInv
<1>3. TypeOK'
  BY <1>2 DEF WriteInv, TypeOK, writerVars, StoreInv
<1>4. UNCHANGED <<pc, job, durable, used, results>>
  BY DEF writerVars
<1>5. \A c \in Coordinators : Running(c)' <=> Running(c)
  BY <1>4 DEF Running
<1>6. \A op \in used : op # RepairOp
  BY DEF WriteInv, TypeOK, WriteOps
<1>7. JobsDistinct' /\ OpsAccounted'
  BY <1>1, <1>4, <1>5 DEF WriteInv, JobsDistinct, OpsAccounted
<1>8. \A key, version, i : Holders(key, version, i) \subseteq Holders(key, version, i)'
  BY <1>1, HoldersGrow
<1>9. DurableRows'
  BY <1>1, <1>4, <1>5, <1>6, <1>8 DEF WriteInv, DurableRows, JobsDistinct
<1>10. CommittedIsDurable'
  BY <1>1, <1>4, HoldersGrow DEF WriteInv, CommittedIsDurable
<1>11. RejectedWritesCommitNothing'
  BY <1>1, <1>4, <1>6 DEF WriteInv, RejectedWritesCommitNothing, OpsAccounted
<1> QED  BY <1>2, <1>3, <1>7, <1>9, <1>10, <1>11 DEF WriteInv

\* What a step does to the stores.
LEMMA StoresGrow ==
    ASSUME [StoreNext]_storeVars
    PROVE  committed \subseteq committed'
BY DEF StoreNext, storeVars, AbortPending, PrepareInsert, CommitPromote, UpsertExternal,
       AppendCommitted, ExpireLease

-----------------------------------------------------------------------------
(* Readers. *)

\* Rows are only added and damage is not undone, so a reader that does nothing
\* has seen what it has seen.
LEMMA OthersStay ==
    ASSUME NEW x \in Readers, ReaderInv(x),
           rpc'[x] = rpc[x], request'[x] = request[x], left'[x] = left[x],
           seen'[x] = seen[x], source'[x] = source[x],
           committed \subseteq committed', tampered \subseteq tampered'
    PROVE  ReaderInv(x)'
<1>1. SeenOnce(x)'
  BY HoldersGrow DEF ReaderInv, SeenOnce
<1>2. SourceIsHeld(x)'
  BY HoldersGrow DEF ReaderInv, SourceIsHeld
<1>3. KnowsFloor(x)'
  <2> SUFFICES ASSUME rpc[x] = "read" /\ request[x].version = Latest /\ request[x].known # 0
               PROVE  \E Q \in SUBSET Replicas : Floor(x, Q)'
    BY DEF KnowsFloor
  <2>1. PICK Q \in SUBSET Replicas : Floor(x, Q)
    BY DEF ReaderInv, KnowsFloor
  <2>2. Floor(x, Q)'
    BY <2>1 DEF Floor
  <2> QED  BY <2>2
<1> QED  BY <1>1, <1>2, <1>3 DEF ReaderInv

LEMMA IdleReader ==
    ASSUME NEW x \in Readers, rpc'[x] = "idle", seen'[x] = {}
    PROVE  ReaderInv(x)'
BY DEF ReaderInv, SeenOnce, SourceIsHeld, KnowsFloor

\* Only x moves.
OnlyReader(x) ==
    \A y \in Readers \ {x} :
        /\ rpc'[y] = rpc[y] /\ request'[y] = request[y] /\ left'[y] = left[y]
        /\ seen'[y] = seen[y] /\ source'[y] = source[y]

LEMMA ReleaseReaderIs ==
    ASSUME ReaderTypes, NEW x \in Readers, ReleaseReader(x), reads' \subseteq ReadRecords
    PROVE  ReaderTypes' /\ ReaderInv(x)' /\ OnlyReader(x)
<1>1. /\ rpc' \in [Readers -> {"idle", "read", "probe", "upsert", "judge"}]
      /\ left' \in [Readers -> SUBSET Replicas]
      /\ seen' \in [Readers -> SUBSET Observations]
  BY DEF ReaderTypes, ReleaseReader
<1>2. request' \in [Readers -> ReadRequests \cup {None}]
  BY DEF ReaderTypes, ReleaseReader
<1>3. source' \in [Readers -> Sources \cup {None}]
  BY DEF ReaderTypes, ReleaseReader
<1>4. rpc'[x] = "idle" /\ seen'[x] = {}
  BY DEF ReaderTypes, ReleaseReader
<1>5. OnlyReader(x)
  BY DEF ReaderTypes, ReleaseReader, OnlyReader
<1> QED  BY <1>1, <1>2, <1>3, <1>4, <1>5, IdleReader DEF ReaderTypes

LEMMA StartReadIs ==
    ASSUME ReadsInv, NEW x \in Readers, StartRead(x)
    PROVE  ReaderTypes' /\ ReaderInv(x)' /\ OnlyReader(x)
<1>1. ReaderTypes /\ ReaderInv(x) /\ rpc[x] = "idle" /\ seen[x] = {}
  BY DEF ReadsInv, ReaderInv, SeenOnce, StartRead
<1>2. PICK c \in Coordinators, k \in Keys, v \in Versions \cup {Latest} :
          request' = [request EXCEPT ![x] =
                         [coordinator |-> c, key |-> k, version |-> v,
                          known |-> NewestTold(k), targets |-> {}]]
  BY DEF StartRead
<1> DEFINE req == [coordinator |-> c, key |-> k, version |-> v,
                   known |-> NewestTold(k), targets |-> {}]
<1>3. /\ NewestTold(k) \in Nat
      /\ NewestTold(k) # 0 =>
            \E Q \in SUBSET Replicas :
                /\ Cardinality(Q) >= QuorumSize
                /\ \A r \in Q : \E row \in committed :
                      row.replica = r /\ row.key = k /\ row.version >= NewestTold(k)
  BY NewestToldIs DEF ReadsInv
<1>4. req \in ReadRequests /\ req.key = k /\ req.known = NewestTold(k)
  BY <1>3 DEF ReadRequests
<1>5. request' = [request EXCEPT ![x] = req]
  BY <1>2
<1> HIDE DEF req
<1>6. /\ rpc'[x] = "read" /\ seen'[x] = {} /\ request'[x] = req
      /\ OnlyReader(x)
      /\ UNCHANGED <<committed, tampered>>
  BY <1>1, <1>5 DEF StartRead, ReaderTypes, OnlyReader, vars
<1>7. ReaderTypes'
  <2>1. request' \in [Readers -> ReadRequests \cup {None}]
    BY <1>1, <1>4, <1>5 DEF ReaderTypes
  <2> QED  BY <1>1, <2>1 DEF StartRead, ReaderTypes
<1>8. SeenOnce(x)' /\ SourceIsHeld(x)'
  BY <1>4, <1>6 DEF SeenOnce, SourceIsHeld
<1>9. KnowsFloor(x)'
  <2> SUFFICES ASSUME NewestTold(k) # 0
               PROVE  \E Q \in SUBSET Replicas : Floor(x, Q)'
    BY <1>4, <1>6 DEF KnowsFloor
  <2>1. PICK Q \in SUBSET Replicas :
            /\ Cardinality(Q) >= QuorumSize
            /\ \A r \in Q : \E row \in committed :
                  row.replica = r /\ row.key = k /\ row.version >= NewestTold(k)
    BY <1>3
  <2>2. Floor(x, Q)'
    BY <1>4, <1>6, <2>1 DEF Floor
  <2> QED  BY <2>2
<1> QED  BY <1>6, <1>7, <1>8, <1>9 DEF ReaderInv

LEMMA StartResyncIs ==
    ASSUME ReadsInv, NEW x \in Readers, StartResync(x)
    PROVE  ReaderTypes' /\ ReaderInv(x)' /\ OnlyReader(x)
<1>1. ReaderTypes /\ ReaderInv(x) /\ rpc[x] = "idle" /\ seen[x] = {}
  BY DEF ReadsInv, ReaderInv, SeenOnce, StartResync
<1>2. PICK req \in ReadRequests : request' = [request EXCEPT ![x] = req]
  <2>1. PICK c \in Coordinators, k \in Keys, targets \in RepairTargets :
          request' = [request EXCEPT ![x] =
                         [coordinator |-> c, key |-> k, version |-> Latest,
                          known |-> 0, targets |-> targets]]
    BY DEF StartResync
  <2>2. targets \in SUBSET Replicas
    BY ReadersAssumption
  <2> QED  BY <2>1, <2>2 DEF ReadRequests
<1>3. /\ rpc'[x] = "probe" /\ seen'[x] = {} /\ request'[x] = req /\ OnlyReader(x)
  BY <1>1, <1>2 DEF StartResync, ReaderTypes, OnlyReader
<1>4. ReaderTypes'
  <2>1. request' \in [Readers -> ReadRequests \cup {None}]
    BY <1>1, <1>2 DEF ReaderTypes
  <2> QED  BY <1>1, <2>1 DEF StartResync, ReaderTypes
<1>5. ReaderInv(x)'
  BY <1>3 DEF ReaderInv, SeenOnce, SourceIsHeld, KnowsFloor
<1> QED  BY <1>3, <1>4, <1>5

\* An observation is added: the replica's one answer, or silence.
LEMMA ObserveReplicaIs ==
    ASSUME ReadsInv, NEW x \in Readers, NEW r \in Replicas, ObserveReplica(x, r)
    PROVE  ReaderTypes' /\ ReaderInv(x)' /\ OnlyReader(x)
<1>1. /\ ReaderTypes /\ SeenOnce(x) /\ KnowsFloor(x) /\ StoreInv
      /\ rpc[x] \in {"read", "probe"} /\ r \in left[x]
  BY DEF ReadsInv, ReaderInv, ObserveReplica, Visits, WriteInv
<1>2. request[x] \in ReadRequests
  BY <1>1 DEF SeenOnce
<1> DEFINE k == request[x].key
<1>3. PICK o \in Observations :
          /\ seen' = [seen EXCEPT ![x] = @ \cup {o}]
          /\ o.replica = r
          /\ o.answer = "found" => /\ o.version \in Versions /\ o.id \in Ids
                                   /\ r \in Holders(k, o.version, o.id)
          /\ request[x].version = Latest /\ tampered = {} /\ o.answer # "silent" =>
                \A row \in committed : row.replica = r /\ row.key = k =>
                    o.answer = "found" /\ o.version >= row.version
  <2>1. CASE seen' = [seen EXCEPT ![x] = @ \cup
                         Observe(request[x].coordinator, r, request[x].key, request[x].version)]
    <3>1. request[x].key \in Keys /\ request[x].version \in Versions \cup {Latest}
      BY <1>2 DEF ReadRequests
    <3> DEFINE c == request[x].coordinator
               v == request[x].version
    <3>2. PICK o \in Observations :
              /\ Observe(c, r, k, v) = {o}
              /\ o.replica = r
              /\ o.answer = "found" => /\ o.version \in Versions /\ o.id \in Ids
                                       /\ r \in Holders(k, o.version, o.id)
              /\ v = Latest /\ tampered = {} /\ o.answer # "silent" =>
                    \A row \in committed : row.replica = r /\ row.key = k =>
                        o.answer = "found" /\ o.version >= row.version
      <4> HIDE DEF c, k, v
      <4> QED  BY <1>1, <3>1, ObserveIs DEF k, v
    <3>3. seen' = [seen EXCEPT ![x] = @ \cup {o}]
      BY <2>1, <3>2
    <3> QED  BY <3>2, <3>3
  <2>2. CASE seen' = [seen EXCEPT ![x] = @ \cup {Observation(r, "silent", 0, None)}]
    <3>1. /\ Observation(r, "silent", 0, None) \in Observations
          /\ Observation(r, "silent", 0, None).replica = r
          /\ Observation(r, "silent", 0, None).answer = "silent"
      BY DEF Observation, Observations
    <3> QED  BY <2>2, <3>1
  <2> QED  BY <2>1, <2>2 DEF ObserveReplica
<1>4. /\ seen'[x] = seen[x] \cup {o} /\ left'[x] = left[x] \ {r}
      /\ UNCHANGED <<rpc, request, source, committed, tampered, reads>>
      /\ OnlyReader(x)
  BY <1>1, <1>3 DEF ReaderTypes, ObserveReplica, OnlyReader
<1>5. ReaderTypes'
  <2>1. seen' \in [Readers -> SUBSET Observations]
    BY <1>1, <1>3 DEF ReaderTypes
  <2>2. left' \in [Readers -> SUBSET Replicas]
    BY <1>1 DEF ReaderTypes, ObserveReplica
  <2> QED  BY <1>1, <1>4, <2>1, <2>2 DEF ReaderTypes
<1>6. SeenOnce(x)'
  <2>1. \A p \in seen[x] : p.replica # r
    BY <1>1 DEF SeenOnce
  <2>2. \A key, v, id : Holders(key, v, id)' = Holders(key, v, id)
    BY <1>4 DEF Holders
  <2> QED  BY <1>1, <1>2, <1>3, <1>4, <2>1, <2>2 DEF SeenOnce
<1>7. SourceIsHeld(x)'
  BY <1>1, <1>4 DEF SourceIsHeld
<1>8. KnowsFloor(x)'
  <2> SUFFICES ASSUME rpc[x] = "read", request[x].version = Latest, request[x].known # 0
               PROVE  \E Q \in SUBSET Replicas : Floor(x, Q)'
    BY <1>4 DEF KnowsFloor
  <2>1. PICK Q \in SUBSET Replicas : Floor(x, Q)
    BY <1>1 DEF KnowsFloor
  <2>2. ASSUME r \in Q, o.answer # "silent", tampered = {}
        PROVE  o.answer = "found" /\ o.version >= request[x].known
    <3>1. PICK row \in committed : /\ row.replica = r /\ row.key = k
                                   /\ row.version >= request[x].known
      BY <2>1, <2>2 DEF Floor
    <3>2. o.answer = "found" /\ o.version >= row.version
      BY <1>3, <2>2, <3>1
    <3>3. o.version \in Nat /\ row.version \in Nat /\ request[x].known \in Nat
      BY <1>1, <1>2, <1>3, <3>2, HeadsAreNaturals
      DEF StoreInv, StoreTypeOK, CommittedRows, ReadRequests
    <3> QED  BY <3>1, <3>2, <3>3
  <2>3. Floor(x, Q)'
    BY <1>3, <1>4, <2>1, <2>2 DEF Floor
  <2> QED  BY <2>3
<1> QED  BY <1>4, <1>5, <1>6, <1>7, <1>8 DEF ReaderInv

LEMMA StartRepairIs ==
    ASSUME ReadsInv, NEW x \in Readers, StartRepair(x)
    PROVE  ReaderTypes' /\ ReaderInv(x)' /\ OnlyReader(x)
<1>1. ReaderTypes /\ SeenOnce(x) /\ request[x] \in ReadRequests
  BY DEF ReadsInv, ReaderInv, SeenOnce, StartRepair
<1>2. PICK o \in Majority(x) :
          source' = [source EXCEPT ![x] = [version |-> o.version, id |-> o.id, ack |-> "NONE"]]
  BY DEF StartRepair
<1> DEFINE new == [version |-> o.version, id |-> o.id, ack |-> "NONE"]
<1>3. /\ o.version \in Versions /\ o.id \in Ids
      /\ Cardinality(Holders(request[x].key, o.version, o.id)) >= QuorumSize
  BY <1>1, MajorityIsHeld
<1>4. new \in Sources /\ new.version = o.version /\ new.id = o.id
  BY <1>3 DEF Sources, Acks
<1>5. source' = [source EXCEPT ![x] = new]
  BY <1>2
<1> HIDE DEF new
<1>6. /\ rpc'[x] = "upsert" /\ seen'[x] = {} /\ source'[x] = new /\ request' = request
      /\ committed' = committed /\ OnlyReader(x)
  BY <1>1, <1>5 DEF StartRepair, ReaderTypes, OnlyReader, vars
<1>7. ReaderTypes'
  <2>1. source' \in [Readers -> Sources \cup {None}]
    BY <1>1, <1>4, <1>5 DEF ReaderTypes
  <2>2. left' \in [Readers -> SUBSET Replicas]
    BY <1>1 DEF ReaderTypes, ReadRequests, StartRepair
  <2> QED  BY <1>1, <2>1, <2>2 DEF StartRepair, ReaderTypes
<1>8. Holders(request[x].key, o.version, o.id)' = Holders(request[x].key, o.version, o.id)
  BY <1>6 DEF Holders
<1>9. ReaderInv(x)'
  BY <1>1, <1>3, <1>4, <1>6, <1>8 DEF ReaderInv, SeenOnce, SourceIsHeld, KnowsFloor
<1> QED  BY <1>6, <1>7, <1>9

\* A reader that goes on with a repair keeps its source.
LEMMA RepairGoesOn ==
    ASSUME ReadsInv, NEW x \in Readers, rpc[x] \in {"upsert", "judge"},
           NEW p \in {"upsert", "judge"}, rpc' = [rpc EXCEPT ![x] = p],
           NEW ack \in Acks, source' = [source EXCEPT ![x].ack = ack],
           NEW S \in SUBSET left[x], left' = [left EXCEPT ![x] = S],
           committed \subseteq committed', UNCHANGED <<request, seen, reads>>
    PROVE  ReaderTypes' /\ ReaderInv(x)' /\ OnlyReader(x)
<1>1. ReaderTypes /\ SeenOnce(x) /\ SourceIsHeld(x) /\ source[x] \in Sources
  BY DEF ReadsInv, ReaderInv, SourceIsHeld
<1> DEFINE new == [source[x] EXCEPT !.ack = ack]
<1>2. new \in Sources /\ new.version = source[x].version /\ new.id = source[x].id
  BY <1>1 DEF Sources
<1>3. source' = [source EXCEPT ![x] = new]
  BY <1>1 DEF ReaderTypes
<1> HIDE DEF new
<1>4. ReaderTypes'
  <2>1. source' \in [Readers -> Sources \cup {None}]
    BY <1>1, <1>2, <1>3 DEF ReaderTypes
  <2>2. left' \in [Readers -> SUBSET Replicas]
    BY <1>1 DEF ReaderTypes
  <2> QED  BY <1>1, <2>1, <2>2 DEF ReaderTypes
<1>5. /\ rpc'[x] = p /\ source'[x] = new /\ left'[x] = S /\ OnlyReader(x)
  BY <1>1, <1>3 DEF ReaderTypes, OnlyReader
<1>6. SeenOnce(x)'
  BY <1>1, <1>5, HoldersGrow DEF SeenOnce
<1>7. SourceIsHeld(x)'
  BY <1>1, <1>2, <1>5, HoldersGrow DEF SourceIsHeld
<1>8. KnowsFloor(x)'
  BY <1>5 DEF KnowsFloor
<1> QED  BY <1>4, <1>5, <1>6, <1>7, <1>8 DEF ReaderInv

\* An upsert that is refused changes no store, one that is done adds one row
\* to a replica that had none in the slot.
LEMMA UpsertReplicaIs ==
    ASSUME ReadsInv, NEW x \in Readers, NEW r \in Replicas, UpsertReplica(x, r)
    PROVE  /\ ReaderTypes' /\ ReaderInv(x)' /\ OnlyReader(x)
           /\ WriteInv' /\ [StoreNext]_storeVars
           /\ \/ committed' = committed
              \/ \E row \in CommittedRows :
                    /\ committed' = committed \cup {row}
                    /\ row.replica \notin Holders(row.key, row.version, row.id)
                    /\ Cardinality(Holders(row.key, row.version, row.id)) >= QuorumSize
<1> DEFINE k == request[x].key
           v == source[x].version
           id == source[x].id
           row == [replica |-> r, key |-> k, version |-> v, id |-> id, op |-> RepairOp]
<1>1. /\ WriteInv /\ ReaderTypes /\ rpc[x] = "upsert"
      /\ k \in Keys /\ v \in Versions /\ id \in Ids
      /\ Cardinality(Holders(k, v, id)) >= QuorumSize
  BY DEF ReadsInv, ReaderInv, SourceIsHeld, SeenOnce, ReadRequests, Sources, UpsertReplica
<1>2. /\ WriteInv' /\ [StoreNext]_storeVars
      /\ \/ committed' = committed
         \/ /\ committed' = committed \cup {row}
            /\ r \notin Holders(k, v, id)
  <2>1. CASE UNCHANGED <<committed, heads, pending>>
    <3>1. faults' \in 0 .. MaxFaults
      BY <1>1, ConstantsAssumption DEF UpsertReplica, Fault, WriteInv, TypeOK
    <3>2. WriteInv'
      BY <1>1, <2>1, <3>1, QuietWrites DEF UpsertReplica, WriteInv, TypeOK
    <3> QED  BY <2>1, <3>2 DEF storeVars
  <2>2. CASE UpsertExternal(r, k, v, id, RepairOp) /\ UNCHANGED faults
    <3> HIDE DEF k, v, id
    <3>1. WriteInv'
      BY <1>1, <2>2, RepairWrites DEF UpsertReplica
    <3>2. StoreNext
      BY <1>1, <2>2, ConstantsAssumption DEF StoreNext
    <3>3. committed' = committed \cup {row} /\ Slot(committed, r, k, v) = {}
      BY <2>2 DEF UpsertExternal, UpsertOutcome, AppendCommitted
    <3>4. r \notin Holders(k, v, id)
      BY <3>3 DEF Slot, Holders
    <3> QED  BY <3>1, <3>2, <3>3, <3>4
  <2> QED  BY <2>1, <2>2 DEF UpsertReplica
<1>3. ReaderTypes' /\ ReaderInv(x)' /\ OnlyReader(x)
  <2>1. committed \subseteq committed' /\ UNCHANGED <<request, seen, reads>>
    BY <1>2, StoresGrow DEF UpsertReplica
  <2>2. PICK ack \in Acks : source' = [source EXCEPT ![x].ack = ack]
    BY DEF UpsertReplica, Acks
  <2>3. left' = [left EXCEPT ![x] = left[x]]
    BY <1>1 DEF UpsertReplica, ReaderTypes
  <2>4. rpc' = [rpc EXCEPT ![x] = "judge"]
    BY DEF UpsertReplica
  <2> QED  BY <1>1, <2>1, <2>2, <2>3, <2>4, RepairGoesOn
<1>4. row \in CommittedRows /\ row.replica = r /\ row.key = k /\ row.version = v /\ row.id = id
  BY <1>1, ConstantsAssumption DEF CommittedRows
<1> HIDE DEF row, k, v, id
<1> QED  BY <1>1, <1>2, <1>3, <1>4

LEMMA JudgeReplicaIs ==
    ASSUME ReadsInv, NEW x \in Readers, NEW r \in Replicas, JudgeReplica(x, r)
    PROVE  /\ ReaderTypes' /\ ReaderInv(x)' /\ OnlyReader(x)
           /\ WriteInv'
<1>1. /\ WriteInv /\ ReaderTypes /\ rpc[x] = "judge" /\ request[x].coordinator \in Coordinators
  BY DEF ReadsInv, ReaderInv, SeenOnce, ReadRequests, JudgeReplica
<1>2. ReaderTypes' /\ ReaderInv(x)' /\ OnlyReader(x)
  <2>1. /\ rpc' = [rpc EXCEPT ![x] = "upsert"] /\ source' = [source EXCEPT ![x].ack = "NONE"]
        /\ "NONE" \in Acks
        /\ left' = [left EXCEPT ![x] = left[x] \ {r}] /\ left[x] \ {r} \in SUBSET left[x]
        /\ committed \subseteq committed'
    BY DEF JudgeReplica, Acks
  <2>2. UNCHANGED <<request, seen, reads>>
    BY DEF JudgeReplica
  <2> QED  BY <1>1, <2>1, <2>2, RepairGoesOn
<1>3. faults' \in 0 .. MaxFaults
  BY <1>1, ConstantsAssumption DEF JudgeReplica, Fault, WriteInv, TypeOK
<1>4. health' \in [Coordinators -> [Replicas -> {"HEALTHY", "UNAVAILABLE", "DIVERGED"}]]
  <2>1. PICK head : JudgeHead(x, r, head)
    BY DEF JudgeReplica
  <2>2. PICK h \in {"HEALTHY", "UNAVAILABLE", "DIVERGED"} :
            health' = [health EXCEPT ![request[x].coordinator][r] = h]
    <3>1. health[request[x].coordinator][r] \in {"HEALTHY", "UNAVAILABLE", "DIVERGED"}
      BY <1>1 DEF WriteInv, TypeOK
    <3> QED  BY <2>1, <3>1 DEF JudgeHead
  <2> QED  BY <1>1, <2>2 DEF WriteInv, TypeOK
<1>5. WriteInv'
  BY <1>1, <1>3, <1>4, QuietWrites DEF JudgeReplica
<1> QED  BY <1>2, <1>5

\* The observations of a read meet the quorum that had the newest known
\* version in at least one replica, and this one speaks for it.
LEMMA FloorIsMet ==
    ASSUME ReadsInv, NEW x \in Readers, rpc[x] = "read", request[x].version = Latest,
           request[x].known # 0, tampered = {},
           NEW S \in SUBSET Responses(x), Cardinality(S) >= QuorumSize
    PROVE  \E o \in S : o.answer = "found" /\ o.version >= request[x].known
<1>1. ReaderTypes /\ SeenOnce(x) /\ KnowsFloor(x)
  BY DEF ReadsInv, ReaderInv
<1>2. PICK Q \in SUBSET Replicas : Floor(x, Q)
  BY <1>1 DEF KnowsFloor
<1>3. S \in SUBSET seen[x] /\ \A o \in S : o.answer # "silent"
  BY DEF Responses
<1>4. PICK r : r \in Q \cap {o.replica : o \in S}
  <2>1. /\ {o.replica : o \in S} \in SUBSET Replicas
        /\ Cardinality({o.replica : o \in S}) >= QuorumSize
    BY <1>1, <1>3, SeenQuorum
  <2>2. Cardinality(Q) >= QuorumSize
    BY <1>2 DEF Floor
  <2> QED  BY <2>1, <2>2, QuorumsIntersect
<1> QED  BY <1>2, <1>3, <1>4 DEF Floor

\* A read returns what a quorum holds, or nothing.
LEMMA FinishReadIs ==
    ASSUME ReadsInv, NEW x \in Readers, FinishRead(x)
    PROVE  /\ ReaderTypes' /\ ReaderInv(x)' /\ OnlyReader(x)
           /\ WriteInv'
           /\ \E q \in ReadRecords :
                 /\ reads' = reads \cup {q}
                 /\ q.id # None => [key |-> q.key, version |-> q.version, id |-> q.id] \in Chosen
                 /\ q.requested = Latest /\ tampered = {} =>
                       /\ q.outcome = "NOT_FOUND" => q.known = 0
                       /\ q.id # None => q.version >= q.known
<1>1. /\ WriteInv /\ ReaderTypes /\ SeenOnce(x) /\ rpc[x] = "read"
      /\ request[x] \in ReadRequests
  BY DEF ReadsInv, ReaderInv, SeenOnce, FinishRead
<1>2. PICK id \in Ids \cup {None}, v \in Versions \cup {0} :
          /\ IF ReadOutcome(x) \in {"CONSISTENT", "DEGRADED_CONSISTENT"}
             THEN \E o \in Majority(x) : id = o.id /\ v = o.version
             ELSE id = None /\ v = 0
          /\ reads' = reads \cup
                {[key |-> request[x].key, requested |-> request[x].version,
                  known |-> request[x].known, outcome |-> ReadOutcome(x),
                  version |-> v, id |-> id]}
  BY DEF FinishRead
<1> DEFINE q == [key |-> request[x].key, requested |-> request[x].version,
                 known |-> request[x].known, outcome |-> ReadOutcome(x),
                 version |-> v, id |-> id]
<1>3. /\ ReadOutcome(x) \in ReadOutcomes
      /\ ReadOutcome(x) = "NOT_FOUND" => /\ Cardinality(Responses(x)) >= QuorumSize
                                         /\ Found(x) = {}
  <2>1. Responses(x) \in SUBSET seen[x] /\ seen[x] \in SUBSET Observations
    BY <1>1 DEF Responses, ReaderTypes
  <2>2. QuorumSize \in Nat /\ QuorumSize > 0
    BY QuorumAssumption, ReplicasAssumption, FS_CardinalityType
  <2>3. Cardinality(Responses(x)) \in Nat
    <3> DEFINE S == Responses(x)
               f == [o \in S |-> o.replica]
    <3>1. f \in Injection(S, Replicas)
      BY <1>1, <2>1 DEF SeenOnce, Injection, IsInjective, Observations
    <3> HIDE DEF S, f
    <3>2. IsFiniteSet(S)
      BY <3>1, ReplicasAssumption, FS_Injection
    <3>3. Cardinality(S) \in Nat
      BY <3>2, FS_CardinalityType
    <3> QED  BY <3>3 DEF S
  <2>4. Responses(x) = {} => Cardinality(Responses(x)) = 0
    BY FS_EmptySet
  <2> QED  BY <2>2, <2>3, <2>4 DEF ReadOutcome, ReadOutcomes
<1>4. /\ q \in ReadRecords /\ reads' = reads \cup {q}
      /\ q.key = request[x].key /\ q.requested = request[x].version
      /\ q.known = request[x].known /\ q.outcome = ReadOutcome(x)
      /\ q.version = v /\ q.id = id
  BY <1>1, <1>2, <1>3 DEF ReadRequests, ReadRecords
<1> HIDE DEF q
<1>5. ASSUME id # None
      PROVE  \E o \in Majority(x) : id = o.id /\ v = o.version
  BY <1>2, <1>5
<1>6. ASSUME id # None
      PROVE  [key |-> q.key, version |-> q.version, id |-> q.id] \in Chosen
  <2>1. /\ v \in Versions /\ id \in Ids
        /\ Cardinality(Holders(request[x].key, v, id)) >= QuorumSize
    BY <1>1, <1>5, <1>6, MajorityIsHeld
  <2> QED  BY <1>1, <1>4, <2>1 DEF Chosen, Records, ReadRequests
<1>7. ASSUME request[x].version = Latest, tampered = {}, ReadOutcome(x) = "NOT_FOUND"
      PROVE  request[x].known = 0
  <2>1. Cardinality(Responses(x)) >= QuorumSize /\ Found(x) = {}
    BY <1>3, <1>7
  <2>2. \A o \in Responses(x) : o.answer # "found"
    BY <2>1 DEF Responses, Found
  <2> QED  BY <1>1, <1>7, <2>1, <2>2, FloorIsMet
<1>8. ASSUME request[x].version = Latest, tampered = {}, id # None
      PROVE  v >= request[x].known
  <2>1. CASE request[x].known = 0
    <3>1. v \in Nat
      BY <1>2, HeadsAreNaturals
    <3> QED  BY <2>1, <3>1
  <2>2. CASE request[x].known # 0
    <3>1. PICK o \in Majority(x) : id = o.id /\ v = o.version
      BY <1>5, <1>8
    <3>2. /\ Alike(x, o) \in SUBSET Responses(x) /\ Cardinality(Alike(x, o)) >= QuorumSize
          /\ \A p \in Alike(x, o) : p.version = v
      BY <3>1 DEF Majority, Alike, Found, Responses
    <3> QED  BY <1>1, <1>8, <2>2, <3>2, FloorIsMet
  <2> QED  BY <2>1, <2>2
<1>9. ReaderTypes' /\ ReaderInv(x)' /\ OnlyReader(x)
  <2>1. reads' \subseteq ReadRecords
    BY <1>1, <1>4 DEF ReaderTypes
  <2> QED  BY <1>1, <2>1, ReleaseReaderIs DEF FinishRead
<1>10. WriteInv'
  <2>1. health' \in [Coordinators -> [Replicas -> {"HEALTHY", "UNAVAILABLE", "DIVERGED"}]]
    <3>1. request[x].coordinator \in Coordinators
      BY <1>1 DEF ReadRequests
    <3> QED  BY <1>1, <3>1 DEF FinishRead, MarkDiverged, WriteInv, TypeOK
  <2>2. faults' \in 0 .. MaxFaults
    BY <1>1 DEF FinishRead, WriteInv, TypeOK
  <2> QED  BY <1>1, <2>1, <2>2, QuietWrites DEF FinishRead
<1> QED  BY <1>4, <1>6, <1>7, <1>8, <1>9, <1>10

-----------------------------------------------------------------------------
(* The register. *)

\* What readers were told.
ReadsTold == {[key |-> q.key, version |-> q.version, id |-> q.id] : q \in {q \in reads : q.id # None}}

LEMMA ToldIs == Told = Acknowledged \cup ReadsTold
BY DEF Told, Acknowledged, ReadsTold

\* Without a new answer to a reader, a step of the register that the writers
\* implement is one that writers and readers implement.
LEMMA WritersStepRegister ==
    ASSUME [Register!RegisterNext]_<<Chosen, Acknowledged>>, reads' = reads
    PROVE  [ReadsRegister!RegisterNext]_<<Chosen, Told>>
<1>1. ReadsTold' = ReadsTold /\ Told' = Acknowledged' \cup ReadsTold'
  BY DEF ReadsTold, Told, Acknowledged
<1>2. Told = Acknowledged \cup ReadsTold
  BY ToldIs
<1>3. CASE UNCHANGED <<Chosen, Acknowledged>>
  BY <1>1, <1>2, <1>3
<1>4. ASSUME NEW k \in Keys, NEW v \in Versions, NEW id \in Ids, Register!Choose(k, v, id)
      PROVE  ReadsRegister!Choose(k, v, id)
  BY <1>1, <1>2, <1>4
  DEF Register!Choose, ReadsRegister!Choose, Register!Record, ReadsRegister!Record
<1>5. ASSUME NEW record \in Chosen, Register!Tell(record)
      PROVE  ReadsRegister!Tell(record)
  BY <1>1, <1>2, <1>5 DEF Register!Tell, ReadsRegister!Tell
<1> QED  BY <1>3, <1>4, <1>5 DEF Register!RegisterNext, ReadsRegister!RegisterNext

\* The answer to a reader tells of a decided record.
LEMMA ReadTells ==
    ASSUME UNCHANGED <<committed, results>>, NEW q \in ReadRecords, reads' = reads \cup {q},
           q.id # None => [key |-> q.key, version |-> q.version, id |-> q.id] \in Chosen
    PROVE  [ReadsRegister!RegisterNext]_<<Chosen, Told>>
<1> DEFINE rec == [key |-> q.key, version |-> q.version, id |-> q.id]
<1>1. Chosen' = Chosen
  BY DEF Chosen, Holders
<1>2. Told' = Told \/ (Told' = Told \cup {rec} /\ q.id # None)
  BY DEF Told
<1>3. CASE q.id # None /\ Told' = Told \cup {rec}
  <2>1. rec \in Chosen
    BY <1>3
  <2>2. ReadsRegister!Tell(rec)
    BY <1>1, <1>3, <2>1 DEF ReadsRegister!Tell
  <2> QED  BY <2>1, <2>2 DEF ReadsRegister!RegisterNext
<1> QED  BY <1>1, <1>2, <1>3

\* A step of the register tells of decided records only, one at a time.
LEMMA RegisterKeepsTold ==
    ASSUME WriteInv, WriteInv', ToldIsDecided, [ReadsRegister!RegisterNext]_<<Chosen, Told>>
    PROVE  ToldIsDecided'
<1> DEFINE S == Told' \ Told
<1>1. /\ Told' = Told \cup S /\ S \subseteq Chosen
      /\ \A s, t \in S : s = t
      /\ Chosen \subseteq Chosen'
  <2>1. CASE UNCHANGED <<Chosen, Told>>
    BY <2>1
  <2>2. ASSUME NEW k, NEW v, NEW id, ReadsRegister!Choose(k, v, id)
        PROVE  Told' = Told /\ Chosen \subseteq Chosen'
    BY <2>2 DEF ReadsRegister!Choose
  <2>3. ASSUME NEW record \in Chosen, ReadsRegister!Tell(record)
        PROVE  Told' = Told \cup {record} /\ Chosen' = Chosen
    BY <2>3 DEF ReadsRegister!Tell
  <2> QED  BY <2>1, <2>2, <2>3 DEF ReadsRegister!RegisterNext
<1> HIDE DEF S
<1>2. Told' \subseteq Chosen'
  BY <1>1 DEF ToldIsDecided
<1>3. ASSUME NEW k \in Keys
      PROVE  \E n \in VersionsTold(k)' : \A m \in VersionsTold(k)' : m <= n
  <2>1. VersionsTold(k)' = VersionsTold(k) \cup {s.version : s \in {s \in S : s.key = k}}
    BY <1>1 DEF VersionsTold
  <2>2. \A s \in Told' : s.version \in Nat
    BY <1>2, HeadsAreNaturals DEF Chosen, Records
  <2>3. \A n \in VersionsTold(k)' : n \in Nat
    BY <2>2 DEF VersionsTold
  <2>4. PICK n \in VersionsTold(k) : \A m \in VersionsTold(k) : m <= n
    BY DEF ToldIsDecided
  <2>5. CASE \A s \in S : s.key = k => s.version <= n
    BY <2>1, <2>4, <2>5
  <2>6. ASSUME NEW s \in S, s.key = k, ~ (s.version <= n)
        PROVE  \E j \in VersionsTold(k)' : \A m \in VersionsTold(k)' : m <= j
    <3>1. s.version \in VersionsTold(k)' /\ n \in VersionsTold(k)'
      BY <2>1, <2>4, <2>6
    <3>2. \A m \in VersionsTold(k)' : m \in VersionsTold(k) \/ m = s.version
      BY <1>1, <2>1
    <3>3. \A m \in VersionsTold(k)' : m <= s.version
      BY <2>1, <2>3, <2>4, <2>6, <3>1, <3>2
    <3> QED  BY <3>1, <3>3
  <2> QED  BY <2>5, <2>6
<1> QED  BY <1>2, <1>3 DEF ToldIsDecided

-----------------------------------------------------------------------------
(* The inductive invariant. *)

LEMMA ReadsInitInv == ReadsInit => ReadsInv
<1> SUFFICES ASSUME ReadsInit PROVE ReadsInv
  OBVIOUS
<1> USE DEF ReadsInit
<1>1. WriteInv
  BY WriteInit
<1>2. ReaderTypes
  BY DEF ReaderTypes
<1>3. \A x \in Readers : ReaderInv(x)
  BY DEF ReaderInv, SeenOnce, SourceIsHeld, KnowsFloor
<1>4. Told = {}
  BY DEF Told, Init
<1>5. ToldIsDecided
  <2>1. \A k \in Keys : VersionsTold(k) = {0}
    BY <1>4 DEF VersionsTold
  <2> QED  BY <1>4, <2>1 DEF ToldIsDecided
<1>6. RepairsCopyTheMajority /\ NeverReadBackwards
  BY DEF RepairsCopyTheMajority, NeverReadBackwards, Init, StoreInit
<1> QED  BY <1>1, <1>2, <1>3, <1>5, <1>6 DEF ReadsInv

\* Rows of repairs stay copies of what a quorum of other replicas holds.
LEMMA CopiesStay ==
    ASSUME RepairsCopyTheMajority, committed \subseteq committed',
           \A row \in committed' \ committed : row.op # RepairOp
    PROVE  RepairsCopyTheMajority'
<1> SUFFICES ASSUME NEW row \in committed', row.op = RepairOp
             PROVE  Cardinality(Holders(row.key, row.version, row.id)' \ {row.replica})
                        >= QuorumSize
  BY DEF RepairsCopyTheMajority
<1> DEFINE A == Holders(row.key, row.version, row.id) \ {row.replica}
           B == Holders(row.key, row.version, row.id)' \ {row.replica}
<1>1. A \in SUBSET Replicas /\ B \in SUBSET Replicas /\ A \subseteq B
  BY HoldersGrow DEF Holders
<1>2. Cardinality(A) >= QuorumSize
  BY DEF RepairsCopyTheMajority
<1> HIDE DEF A, B
<1>3. Cardinality(B) >= QuorumSize
  BY <1>1, <1>2, QuorumsGrow
<1> QED  BY <1>3 DEF B

\* The copy a repair adds is of what others hold.
LEMMA CopyIsOfOthers ==
    ASSUME RepairsCopyTheMajority, NEW row \in CommittedRows, committed' = committed \cup {row},
           row.replica \notin Holders(row.key, row.version, row.id),
           Cardinality(Holders(row.key, row.version, row.id)) >= QuorumSize
    PROVE  RepairsCopyTheMajority'
<1> SUFFICES ASSUME NEW any \in committed', any.op = RepairOp
             PROVE  Cardinality(Holders(any.key, any.version, any.id)' \ {any.replica})
                        >= QuorumSize
  BY DEF RepairsCopyTheMajority
<1> DEFINE A == Holders(any.key, any.version, any.id) \ {any.replica}
           B == Holders(any.key, any.version, any.id)' \ {any.replica}
<1>1. A \in SUBSET Replicas /\ B \in SUBSET Replicas /\ A \subseteq B
  BY HoldersGrow DEF Holders
<1>2. Cardinality(A) >= QuorumSize
  <2>1. CASE any \in committed
    BY <2>1 DEF RepairsCopyTheMajority
  <2>2. CASE any = row
    <3>1. A = Holders(any.key, any.version, any.id)
      BY <2>2
    <3> QED  BY <2>2, <3>1
  <2> QED  BY <2>1, <2>2
<1> HIDE DEF A, B
<1>3. Cardinality(B) >= QuorumSize
  BY <1>1, <1>2, QuorumsGrow
<1> QED  BY <1>3 DEF B

\* A step of the write path adds rows of writes only.
LEMMA WritesAreNoRepairs ==
    ASSUME WriteInv, Next
    PROVE  \A row \in committed' \ committed : row.op # RepairOp
<1>1. ASSUME NEW c \in Coordinators, NEW r \in Replicas, CommitAcked(c, r)
      PROVE  \A row \in committed' \ committed : row.op # RepairOp
  <2>1. job[c].op # RepairOp
    BY <1>1 DEF CommitAcked, WriteInv, JobsDistinct, Running, Jobs, WriteOps
  <2> QED  BY <1>1, <2>1 DEF CommitAcked, CommitPromote, AppendCommitted
<1>2. ASSUME NEW c \in Coordinators,
             \/ Propose(c) \/ Decide(c) \/ StartCleanup(c) \/ Environment(c)
             \/ RejectDraft(c) \/ RejectAll(c) \/ Finish(c)
      PROVE  committed' = committed
  BY <1>2 DEF Propose, Decide, StartCleanup, Environment, Crash, SetUnavailable, SetAvailable,
              RejectDraft, RejectAll, Finish
<1>3. ASSUME NEW c \in Coordinators, NEW r \in Replicas,
             \/ PrepareAcked(c, r) \/ PrepareRefused(c, r) \/ CommitMissed(c, r)
             \/ AbortLoser(c, r) \/ AbortReplica(c, r)
      PROVE  committed' = committed
  BY <1>3 DEF PrepareAcked, PrepareRefused, CommitMissed, PrepareInsert, AbortLoser,
              AbortReplica, AbortCall, AbortPending
<1>4. CASE LeasePasses
  BY <1>4 DEF LeasePasses, ExpireLease
<1> QED  BY <1>1, <1>2, <1>3, <1>4 DEF Next, Step

\* A step of the write path, with what a crash does to readers.
LEMMA WritersKeepReadsInv ==
    ASSUME ReadsInv, [Next]_vars, UNCHANGED <<tampered, reads>>, ReaderTypes',
           \A x \in Readers :
               \/ rpc'[x] = "idle" /\ seen'[x] = {}
               \/ /\ rpc'[x] = rpc[x] /\ request'[x] = request[x] /\ left'[x] = left[x]
                  /\ seen'[x] = seen[x] /\ source'[x] = source[x]
    PROVE  /\ ReadsInv'
           /\ [StoreNext]_storeVars
           /\ [ReadsRegister!RegisterNext]_<<Chosen, Told>>
<1>1. WriteInv /\ WriteInv' /\ [StoreNext]_storeVars
  BY NextInv, NextStore DEF ReadsInv
<1>2. [ReadsRegister!RegisterNext]_<<Chosen, Told>>
  BY <1>1, NextRegister, WritersStepRegister
<1>3. committed \subseteq committed'
  BY <1>1, StoresGrow
<1>4. \A x \in Readers : ReaderInv(x)'
  BY <1>3, OthersStay, IdleReader DEF ReadsInv
<1>5. RepairsCopyTheMajority'
  <2>1. \A row \in committed' \ committed : row.op # RepairOp
    BY <1>1, WritesAreNoRepairs DEF vars
  <2> QED  BY <1>3, <2>1, CopiesStay DEF ReadsInv
<1>6. NeverReadBackwards'
  BY DEF ReadsInv, NeverReadBackwards
<1>7. ToldIsDecided'
  BY <1>1, <1>2, RegisterKeepsTold DEF ReadsInv
<1> QED  BY <1>1, <1>2, <1>4, <1>5, <1>6, <1>7 DEF ReadsInv

\* A step of a reader.
LEMMA ReadersKeepReadsInv ==
    ASSUME ReadsInv, NEW x \in Readers, ReaderStep(x)
    PROVE  /\ ReadsInv'
           /\ [StoreNext]_storeVars
           /\ [ReadsRegister!RegisterNext]_<<Chosen, Told>>
<1>1. WriteInv /\ ReaderTypes /\ ToldIsDecided /\ RepairsCopyTheMajority /\ NeverReadBackwards
  BY DEF ReadsInv
<1>2. UNCHANGED <<tampered, results>>
  BY DEF ReaderStep, StartRead, FinishRead, StartResync, NoMajoritySource, StartRepair,
         FinishResync, ObserveReplica, UpsertReplica, JudgeReplica, vars
\* What remains once a step is known for the reader that takes it.
<1>3. ASSUME ReaderTypes', ReaderInv(x)', OnlyReader(x), WriteInv', [StoreNext]_storeVars,
             [ReadsRegister!RegisterNext]_<<Chosen, Told>>, RepairsCopyTheMajority',
             NeverReadBackwards'
      PROVE  ReadsInv'
  <2>1. committed \subseteq committed'
    BY <1>3, StoresGrow
  <2>2. \A y \in Readers : ReaderInv(y)'
    BY <1>2, <1>3, <2>1, OthersStay DEF ReadsInv, OnlyReader
  <2>3. ToldIsDecided'
    BY <1>1, <1>3, RegisterKeepsTold
  <2> QED  BY <1>3, <2>2, <2>3 DEF ReadsInv
<1>4. ASSUME ReaderTypes', ReaderInv(x)', OnlyReader(x), WriteInv',
             UNCHANGED <<committed, heads, pending, reads>>
      PROVE  /\ ReadsInv' /\ [StoreNext]_storeVars
             /\ [ReadsRegister!RegisterNext]_<<Chosen, Told>>
  <2>1. [StoreNext]_storeVars
    BY <1>4 DEF storeVars
  <2>2. Chosen' = Chosen /\ Told' = Told
    BY <1>2, <1>4 DEF Chosen, Holders, Told
  <2>3. RepairsCopyTheMajority'
    BY <1>1, <1>4, CopiesStay
  <2>4. NeverReadBackwards'
    BY <1>1, <1>2, <1>4 DEF NeverReadBackwards
  <2> QED  BY <1>3, <1>4, <2>1, <2>2, <2>3, <2>4
<1>5. UNCHANGED vars => WriteInv'
  BY <1>1, NextInv
<1>6. CASE StartRead(x)
  BY <1>4, <1>5, <1>6, StartReadIs DEF StartRead, vars
<1>7. CASE StartResync(x)
  BY <1>4, <1>5, <1>7, StartResyncIs DEF StartResync, vars
<1>8. CASE NoMajoritySource(x) \/ FinishResync(x)
  <2>1. ReleaseReader(x) /\ reads' = reads /\ UNCHANGED vars
    BY <1>8 DEF NoMajoritySource, FinishResync
  <2>2. ReaderTypes' /\ ReaderInv(x)' /\ OnlyReader(x)
    BY <1>1, <2>1, ReleaseReaderIs DEF ReaderTypes
  <2> QED  BY <1>4, <1>5, <2>1, <2>2 DEF vars
<1>9. CASE StartRepair(x)
  BY <1>4, <1>5, <1>9, StartRepairIs DEF StartRepair, vars
<1>10. ASSUME NEW r \in Replicas, ObserveReplica(x, r)
       PROVE  /\ ReadsInv' /\ [StoreNext]_storeVars
              /\ [ReadsRegister!RegisterNext]_<<Chosen, Told>>
  <2>1. faults' \in 0 .. MaxFaults
    BY <1>1, <1>10, ConstantsAssumption DEF ObserveReplica, Fault, WriteInv, TypeOK
  <2>2. WriteInv'
    BY <1>1, <1>10, <2>1, QuietWrites DEF ObserveReplica, WriteInv, TypeOK
  <2> QED  BY <1>4, <1>10, <2>2, ObserveReplicaIs DEF ObserveReplica
<1>11. ASSUME NEW r \in Replicas, JudgeReplica(x, r)
       PROVE  /\ ReadsInv' /\ [StoreNext]_storeVars
              /\ [ReadsRegister!RegisterNext]_<<Chosen, Told>>
  BY <1>4, <1>11, JudgeReplicaIs DEF JudgeReplica
<1>12. ASSUME NEW r \in Replicas, UpsertReplica(x, r)
       PROVE  /\ ReadsInv' /\ [StoreNext]_storeVars
              /\ [ReadsRegister!RegisterNext]_<<Chosen, Told>>
  <2>1. /\ ReaderTypes' /\ ReaderInv(x)' /\ OnlyReader(x)
        /\ WriteInv' /\ [StoreNext]_storeVars
        /\ \/ committed' = committed
           \/ \E row \in CommittedRows :
                 /\ committed' = committed \cup {row}
                 /\ row.replica \notin Holders(row.key, row.version, row.id)
                 /\ Cardinality(Holders(row.key, row.version, row.id)) >= QuorumSize
    BY <1>12, UpsertReplicaIs
  <2>2. reads' = reads
    BY <1>12 DEF UpsertReplica
  <2>3. [Register!RegisterNext]_<<Chosen, Acknowledged>>
    <3>1. CASE committed' = committed
      BY <1>2, <3>1 DEF Chosen, Holders, Acknowledged
    <3>2. CASE \E row \in CommittedRows : committed' = committed \cup {row}
      BY <1>1, <1>2, <2>1, <3>2, CommitChooses
    <3> QED  BY <2>1, <3>1, <3>2
  <2>4. [ReadsRegister!RegisterNext]_<<Chosen, Told>>
    BY <2>2, <2>3, WritersStepRegister
  <2>5. RepairsCopyTheMajority'
    BY <1>1, <2>1, CopiesStay, CopyIsOfOthers
  <2>6. NeverReadBackwards'
    BY <1>1, <1>2, <2>2 DEF NeverReadBackwards
  <2> QED  BY <1>3, <2>1, <2>4, <2>5, <2>6
<1>13. CASE FinishRead(x)
  <2>1. ReaderTypes' /\ ReaderInv(x)' /\ OnlyReader(x) /\ WriteInv'
    BY <1>13, FinishReadIs
  <2>2. PICK q \in ReadRecords :
            /\ reads' = reads \cup {q}
            /\ q.id # None => [key |-> q.key, version |-> q.version, id |-> q.id] \in Chosen
            /\ q.requested = Latest /\ tampered = {} =>
                  /\ q.outcome = "NOT_FOUND" => q.known = 0
                  /\ q.id # None => q.version >= q.known
    BY <1>13, FinishReadIs
  <2>3. UNCHANGED <<committed, heads, pending>>
    BY <1>13 DEF FinishRead
  <2>4. [StoreNext]_storeVars
    BY <2>3 DEF storeVars
  <2>5. [ReadsRegister!RegisterNext]_<<Chosen, Told>>
    BY <1>2, <2>2, <2>3, ReadTells
  <2>6. RepairsCopyTheMajority'
    BY <1>1, <2>3, CopiesStay
  <2>7. NeverReadBackwards'
    BY <1>1, <1>2, <2>2 DEF NeverReadBackwards
  <2> QED  BY <1>3, <2>1, <2>4, <2>5, <2>6, <2>7
<1> QED  BY <1>6, <1>7, <1>8, <1>9, <1>10, <1>11, <1>12, <1>13 DEF ReaderStep

LEMMA ReadsNextInv ==
    ReadsInv /\ [ReadsNext]_allVars =>
        /\ ReadsInv'
        /\ [StoreNext]_storeVars
        /\ [ReadsRegister!RegisterNext]_<<Chosen, Told>>
<1> DEFINE Goal == /\ ReadsInv'
                   /\ [StoreNext]_storeVars
                   /\ [ReadsRegister!RegisterNext]_<<Chosen, Told>>
<1> SUFFICES ASSUME ReadsInv, [ReadsNext]_allVars PROVE Goal
  OBVIOUS
<1>1. ReaderTypes
  BY DEF ReadsInv
<1>2. ASSUME [Next]_vars, UNCHANGED readVars
      PROVE  Goal
  <2>1. ReaderTypes'
    BY <1>1, <1>2 DEF ReaderTypes, readVars
  <2> QED  BY <1>2, <2>1, WritersKeepReadsInv DEF readVars
<1>3. ASSUME NEW c \in Coordinators, CrashAll(c)
      PROVE  Goal
  <2>1. Next
    BY <1>3 DEF CrashAll, Next, Environment
  <2>2. /\ rpc' \in [Readers -> {"idle", "read", "probe", "upsert", "judge"}]
        /\ left' \in [Readers -> SUBSET Replicas]
        /\ seen' \in [Readers -> SUBSET Observations]
    BY <1>1, <1>3 DEF CrashAll, ReaderTypes
  <2>3. request' \in [Readers -> ReadRequests \cup {None}]
    BY <1>1, <1>3 DEF CrashAll, ReaderTypes
  <2>4. source' \in [Readers -> Sources \cup {None}]
    BY <1>1, <1>3 DEF CrashAll, ReaderTypes
  <2>5. UNCHANGED <<tampered, reads>>
    BY <1>3 DEF CrashAll
  <2>6. ReaderTypes'
    BY <1>1, <2>2, <2>3, <2>4, <2>5 DEF ReaderTypes
  <2>7. \A x \in Readers :
            \/ rpc'[x] = "idle" /\ seen'[x] = {}
            \/ /\ rpc'[x] = rpc[x] /\ request'[x] = request[x] /\ left'[x] = left[x]
               /\ seen'[x] = seen[x] /\ source'[x] = source[x]
    BY <1>3 DEF CrashAll
  <2> QED  BY <2>1, <2>5, <2>6, <2>7, WritersKeepReadsInv
<1>4. CASE Tamper
  <2>1. tampered \subseteq tampered' /\ UNCHANGED vars
        /\ UNCHANGED <<rpc, request, left, seen, source, reads>>
    BY <1>4 DEF Tamper
  <2>2. WriteInv' /\ [StoreNext]_storeVars
    BY <2>1, NextInv, NextStore DEF ReadsInv
  <2>3. ReaderTypes' /\ \A x \in Readers : ReaderInv(x)'
    BY <1>1, <2>1, OthersStay DEF ReaderTypes, ReadsInv, vars
  <2>4. Chosen' = Chosen /\ Told' = Told
    BY <2>1 DEF Chosen, Holders, Told, vars
  <2>5. ToldIsDecided'
    BY <2>2, <2>4, RegisterKeepsTold DEF ReadsInv
  <2>6. RepairsCopyTheMajority'
    BY <2>1, CopiesStay DEF ReadsInv, vars
  <2>7. NeverReadBackwards'
    BY <2>1 DEF ReadsInv, NeverReadBackwards
  <2> QED  BY <2>2, <2>3, <2>4, <2>5, <2>6, <2>7 DEF ReadsInv
<1>5. CASE UNCHANGED allVars
  BY <1>2, <1>5 DEF allVars, vars, readVars
<1>6. CASE ReadsNext
  <2>1. ASSUME NEW c \in Coordinators, Step(c) /\ UNCHANGED readVars
        PROVE  Goal
    BY <1>2, <2>1 DEF Next
  <2>2. ASSUME NEW c \in Coordinators, NEW r \in Replicas,
               (SetUnavailable(c, r) \/ SetAvailable(c, r)) /\ UNCHANGED readVars
        PROVE  Goal
    BY <1>2, <2>2 DEF Next, Environment
  <2>3. CASE LeasePasses /\ UNCHANGED readVars
    BY <1>2, <2>3 DEF Next
  <2>4. ASSUME NEW x \in Readers, ReaderStep(x)
        PROVE  Goal
    BY <2>4, ReadersKeepReadsInv
  <2> HIDE DEF Goal
  <2> QED  BY <1>3, <1>4, <1>6, <2>1, <2>2, <2>3, <2>4 DEF ReadsNext
<1> QED  BY <1>5, <1>6

LEMMA ReadsInvariance == ReadsSpec => []ReadsInv
BY ReadsInitInv, ReadsNextInv, PTL DEF ReadsSpec

-----------------------------------------------------------------------------
(* Theorems. *)

\* resync_replicas_from_majority only ever copies a record that a quorum of
\* other replicas holds, although it probes them one after the other while
\* writes go on: it never promotes the leftover of a partial commit.
THEOREM RepairsAreCopies == ReadsSpec => []RepairsCopyTheMajority
<1>1. ReadsInv => RepairsCopyTheMajority
  BY DEF ReadsInv
<1> QED  BY <1>1, ReadsInvariance, PTL

\* A read of the latest version that starts after a version was reported
\* COMMITTED or was read answers neither with an older one nor with NOT_FOUND,
\* as long as no stored row is damaged.
THEOREM ReadsAreMonotonic == ReadsSpec => []NeverReadBackwards
<1>1. ReadsInv => NeverReadBackwards
  BY DEF ReadsInv
<1> QED  BY <1>1, ReadsInvariance, PTL

\* With readers, repairs and damaged rows beside the writers, every access to
\* a store is still a transaction of ReplicaStorage: histories have no gap,
\* and no step deletes or rewrites a committed row.
THEOREM ReadsUseTransactions == ReadsSpec => StoreSpec /\ []HistoryGapFree /\ ForwardOnly
<1>1. ReadsInit => StoreInit
  BY DEF ReadsInit, Init
<1>2. ReadsSpec => StoreSpec
  BY <1>1, ReadsNextInv, ReadsInvariance, PTL DEF ReadsSpec, StoreSpec
<1>3. ReadsInv => HistoryGapFree
  BY DEF ReadsInv, WriteInv, StoreInv
<1> QED  BY <1>2, <1>3, ReadsInvariance, StoreForwardOnly, PTL

\* Writes, reads and repairs together implement the register: slots are
\* decided once and for ever, and nobody - neither a writer nor a reader, its
\* observations torn across concurrent commits - is told of an undecided record.
THEOREM ReadsRefineRegister == ReadsSpec => ReadsImplementRegister
<1>1. ReadsInit => ReadsRegister!RegisterInit
  <2> SUFFICES ASSUME ReadsInit PROVE Chosen = {} /\ Told = {}
    BY DEF ReadsRegister!RegisterInit
  <2>1. QuorumSize > 0
    BY QuorumAssumption, ReplicasAssumption, FS_CardinalityType
  <2>2. \A k, v, id : Holders(k, v, id) = {}
    BY DEF Holders, ReadsInit, Init, StoreInit
  <2>3. Chosen = {}
    BY <2>1, <2>2, FS_EmptySet, QuorumAssumption DEF Chosen
  <2> QED  BY <2>3 DEF Told, ReadsInit, Init
<1> QED  BY <1>1, ReadsNextInv, ReadsInvariance, PTL
         DEF ReadsSpec, ReadsImplementRegister, ReadsRegister!RegisterSpec

\* All that callers were ever told of a slot, by a COMMITTED result or by an
\* authoritative read, is one record.
THEOREM ToldRecordsAgree == ReadsSpec => []ToldAgreement
<1>1. ASSUME ReadsInv PROVE ToldAgreement
  <2> SUFFICES ASSUME NEW s \in Told, NEW t \in Told, s.key = t.key, s.version = t.version
               PROVE  s = t
    BY DEF ToldAgreement
  <2>1. /\ s \in Records /\ t \in Records
        /\ Cardinality(Holders(s.key, s.version, s.id)) >= QuorumSize
        /\ Cardinality(Holders(s.key, s.version, t.id)) >= QuorumSize
    BY <1>1 DEF ReadsInv, ToldIsDecided, Chosen
  <2>2. s.id = t.id
    BY <1>1, <2>1, QuorumsAgree DEF ReadsInv, WriteInv, StoreInv
  <2> QED  BY <2>1, <2>2 DEF Records
<1> QED  BY <1>1, ReadsInvariance, PTL
=============================================================================
