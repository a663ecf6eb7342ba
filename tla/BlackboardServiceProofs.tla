----------------------- MODULE BlackboardServiceProofs -----------------------
(***************************************************************************)
(* Theorems about appending to the Blackboard: the retry loop of           *)
(* _propose_next_version uses the write path as Blackboard describes it,   *)
(* never writes an append twice and, undisturbed, lands every append.      *)
(***************************************************************************)
EXTENDS BlackboardService, BlackboardProofs, WellFoundedInduction

Appending(t) == tpc[t] # "idle"

AppendRequests ==
    [key : Keys, id : Ids, version : Nat, tries : Nat, base : Nat,
     weather : {"calm", "disturbed"}, faults : Nat]

\* The variables of the service keep their types, and an append remembers a
\* number of faults that has been reached.
AppendTypes ==
    /\ tpc \in [Threads -> {"idle", "head", "propose", "proposing"}]
    /\ append \in [Threads -> AppendRequests \cup {None}]
    /\ \A t \in Threads : Appending(t) =>
          append[t] \in AppendRequests /\ append[t].faults <= faults
    /\ appends \subseteq [outcome : WriteOutcomes, weather : {"calm", "disturbed"}, grown : Int]
    /\ requested \in 0 .. MaxAppends

\* The write a coordinator runs is the proposal of exactly one of its threads.
OneProposes ==
    /\ \A t \in Threads : tpc[t] = "proposing" =>
          /\ pc[Owner[t]] # "idle"
          /\ job[Owner[t]].key = append[t].key
          /\ job[Owner[t]].version = append[t].version
    /\ \A t, u \in Threads :
          tpc[t] = "proposing" /\ tpc[u] = "proposing" /\ Owner[t] = Owner[u] => t = u

\* A coordinator that runs a write does so for a thread.
WritesAreAppends ==
    \A c \in Coordinators : pc[c] # "idle" =>
        \E t \in Threads : tpc[t] = "proposing" /\ Owner[t] = c

\* propose starts with empty lists.
IdleIsClean ==
    \A c \in Coordinators : pc[c] = "idle" => prepared[c] = {} /\ refusals[c] = {}

\* The version of a proposal comes from a hint: it may have become too small,
\* and is never further ahead than one version.
HintsAreOld ==
    \A t \in Threads : tpc[t] \in {"propose", "proposing"} =>
        \A n \in Nat : (\A r \in Replicas : heads[r][append[t].key] <= n)
                      => append[t].version <= n + 1

\* The running append has added its version to the head of k on r already.
Moved(c, r, k) == pc[c] \in {"commit", "cleanup"} /\ job[c].key = k /\ r \in durable[c]
Waiting(r, k) ==
    {t \in Threads : Appending(t) /\ ~ (tpc[t] = "proposing" /\ Moved(Owner[t], r, k))}

\* Each append adds at most one version to a history, however often it tries:
\* the head plus the appends that may still add to it are at most the appends
\* that were requested.
HeadsAreCounted ==
    \A r \in Replicas, k \in Keys :
        /\ IsFiniteSet(Waiting(r, k))
        /\ heads[r][k] + Cardinality(Waiting(r, k)) <= requested

ServiceInv ==
    /\ WriteInv
    /\ AppendTypes
    /\ OneProposes
    /\ WritesAreAppends
    /\ IdleIsClean
    /\ HintsAreOld
    /\ HeadsAreCounted

-----------------------------------------------------------------------------
(* Facts about the write path that an append relies on. *)

LEMMA CountsAreNaturals ==
    WriteInv => /\ faults \in Nat
                /\ \A r \in Replicas, k \in Keys : heads[r][k] \in Nat
BY ConstantsAssumption, HeadsAreNaturals DEF WriteInv, TypeOK

\* A head stays or moves forward by one version.
LEMMA HeadsGrow ==
    ASSUME WriteInv, [Next]_vars, NEW r \in Replicas, NEW k \in Keys
    PROVE  heads'[r][k] = heads[r][k] \/ heads'[r][k] = heads[r][k] + 1
<1>1. [StoreNext]_storeVars /\ StoreInv
  BY NextStore DEF WriteInv
<1> QED
  BY <1>1, StoreStepForward

\* Faults are counted.
LEMMA FaultsGrow ==
    ASSUME WriteInv, [Next]_vars
    PROVE  faults' = faults \/ (Fault /\ faults' = faults + 1)
<1>1. ASSUME NEW c \in Coordinators, Step(c)
      PROVE  UNCHANGED faults \/ Fault
  <2>1. ASSUME \/ Propose(c) \/ RejectDraft(c) \/ RejectAll(c) \/ Decide(c)
               \/ StartCleanup(c) \/ Finish(c)
        PROVE  UNCHANGED faults
    BY <2>1 DEF Propose, RejectDraft, RejectAll, Decide, StartCleanup, Finish
  <2>2. ASSUME NEW r \in Replicas, PrepareAcked(c, r) \/ PrepareRefused(c, r)
        PROVE  UNCHANGED faults \/ Fault
    BY <2>2 DEF PrepareAcked, PrepareRefused, Stages
  <2>3. ASSUME NEW r \in Replicas,
               CommitAcked(c, r) \/ CommitMissed(c, r) \/ AbortLoser(c, r) \/ AbortReplica(c, r)
        PROVE  UNCHANGED faults \/ Fault
    BY <2>3 DEF CommitAcked, CommitMissed, AbortLoser, AbortReplica, AbortCall
  <2> QED
    BY <1>1, <2>1, <2>2, <2>3 DEF Step
<1>2. ASSUME NEW c \in Coordinators, Environment(c)
      PROVE  UNCHANGED faults \/ Fault
  BY <1>2 DEF Environment, Crash, SetUnavailable, SetAvailable
<1>3. UNCHANGED faults \/ Fault
  BY <1>1, <1>2 DEF Next, LeasePasses, vars
<1> QED
  BY <1>3 DEF Fault

\* One of the replicas is the first of the list.
LEMMA FirstOfList ==
    ASSUME NEW S \in SUBSET Nat, S # {}
    PROVE  \E n \in S : \A q \in S : n <= q
<1>1. PICK n \in S : \A q \in S : ~ (<<q, n>> \in OpToRel(<, Nat))
  BY NatLessThanWellFounded, WFMin
<1>2. \A q \in S : ~ (q < n)
  BY <1>1 DEF OpToRel
<1> QED
  BY <1>2

\* The hint is the head of some replica, or 0 when none answers.
LEMMA HeadVersionIsAHead ==
    ASSUME WriteInv, NEW c \in Coordinators, NEW k \in Keys
    PROVE  \/ HeadVersion(c, k) = 0 /\ \A r \in Replicas : ~ Responsive(c, r)
           \/ \E r \in Replicas : HeadVersion(c, k) = heads[r][k]
<1>1. PICK responsive : responsive = Answering(c) /\ responsive = {r \in Replicas : Responsive(c, r)}
  BY DEF Answering
<1>2. CASE responsive = {}
  BY <1>1, <1>2 DEF HeadVersion
<1>3. CASE responsive # {}
  <2>1. responsive \subseteq Nat
    BY <1>1, ReplicasAssumption
  <2>2. PICK n \in responsive : \A q \in responsive : n <= q
    BY <1>3, <2>1, FirstOfList
  <2>3. PICK r : r = CHOOSE m \in responsive : \A q \in responsive : m <= q
    OBVIOUS
  <2>4. r \in responsive
    BY <2>2, <2>3
  <2>5. HeadVersion(c, k) = heads[r][k]
    BY <1>1, <1>3, <2>3 DEF HeadVersion, FirstAnswering
  <2> QED
    BY <1>1, <2>4, <2>5
<1> QED
  BY <1>2, <1>3

LEMMA HeadVersionType ==
    ASSUME WriteInv, NEW c \in Coordinators, NEW k \in Keys
    PROVE  HeadVersion(c, k) \in Nat
BY HeadVersionIsAHead, CountsAreNaturals

-----------------------------------------------------------------------------
(* The appends use the write path as Blackboard describes it. *)

LEMMA AppendsAreWrites ==
    ASSUME ServiceInv, [ServiceNext]_fullVars
    PROVE  [Next]_vars
<1>1. ASSUME NEW t \in Threads, StartAppend(t) \/ ReadHead(t)
      PROVE  UNCHANGED vars
  BY <1>1 DEF StartAppend, ReadHead
<1>2. ASSUME NEW t \in Threads, ProposeNext(t)
      PROVE  Next
  <2>1. Owner[t] \in Coordinators
    BY ServiceAssumption
  <2>2. append[t].key \in Keys /\ append[t].id \in Ids /\ append[t].version \in Versions
    <3>1. Appending(t) /\ append[t].version \in Versions
      BY <1>2 DEF ProposeNext, Appending
    <3> QED
      BY <3>1 DEF ServiceInv, AppendTypes, AppendRequests
  <2>3. PICK op \in WriteOps \ used :
            /\ job' = [job EXCEPT ![Owner[t]] = [op |-> op, key |-> append[t].key,
                                                 version |-> append[t].version,
                                                 id |-> append[t].id]]
            /\ used' = used \cup {op}
    BY <1>2 DEF ProposeNext
  <2>4. Propose(Owner[t])
    BY <1>2, <2>2, <2>3 DEF ProposeNext, Propose
  <2> QED
    BY <2>1, <2>4 DEF Next, Step
<1>3. ASSUME NEW t \in Threads, WriteStep(Owner[t]) \/ ProposeReturned(t)
      PROVE  Next
  <2>1. Owner[t] \in Coordinators
    BY ServiceAssumption
  <2>2. Step(Owner[t])
    BY <1>3 DEF WriteStep, ProposeReturned, Step
  <2> QED
    BY <2>1, <2>2 DEF Next
<1>4. ASSUME NEW c \in Coordinators, NEW r \in Replicas, SetUnavailable(c, r) \/ SetAvailable(c, r)
      PROVE  Next
  BY <1>4 DEF Next, Environment
<1>5. ASSUME LeasePasses PROVE Next
  BY <1>5 DEF Next
<1>6. ASSUME UNCHANGED fullVars PROVE UNCHANGED vars
  BY <1>6 DEF fullVars, vars
<1> QED
  BY <1>1, <1>2, <1>3, <1>4, <1>5, <1>6 DEF ServiceNext, ThreadStep

-----------------------------------------------------------------------------
(* Every step preserves the invariant of the service. *)

ServiceFacts ==
    /\ AppendTypes
    /\ OneProposes
    /\ WritesAreAppends
    /\ IdleIsClean
    /\ HintsAreOld
    /\ HeadsAreCounted

LEMMA ServiceInitInv == ServiceInit => ServiceInv
<1> SUFFICES ASSUME ServiceInit PROVE ServiceInv
  OBVIOUS
<1> USE DEF ServiceInit
<1>1. WriteInv
  BY WriteInit
<1>2. AppendTypes
  BY ServiceAssumption DEF AppendTypes, Appending
<1>3. OneProposes /\ HintsAreOld
  BY DEF OneProposes, HintsAreOld
<1>4. WritesAreAppends /\ IdleIsClean
  BY DEF WritesAreAppends, IdleIsClean, Init
<1>5. HeadsAreCounted
  <2> SUFFICES ASSUME NEW r \in Replicas, NEW k \in Keys
               PROVE  /\ IsFiniteSet(Waiting(r, k))
                      /\ heads[r][k] + Cardinality(Waiting(r, k)) <= requested
    BY DEF HeadsAreCounted
  <2>1. Waiting(r, k) = {}
    BY DEF Waiting, Appending
  <2>2. heads[r][k] = 0
    BY DEF Init, StoreInit
  <2> QED
    BY <2>1, <2>2, FS_EmptySet
<1> QED
  BY <1>1, <1>2, <1>3, <1>4, <1>5 DEF ServiceInv

\* A head that stays, with no more appends waiting than before.
LEMMA CountStays ==
    ASSUME ServiceInv, NEW r \in Replicas, NEW k \in Keys, NEW n \in Nat,
           NEW W \in SUBSET Waiting(r, k), n = heads[r][k]
    PROVE  IsFiniteSet(W) /\ n + Cardinality(W) <= requested
<1>1. /\ IsFiniteSet(Waiting(r, k))
      /\ n + Cardinality(Waiting(r, k)) <= requested
  BY DEF ServiceInv, HeadsAreCounted
<1>2. /\ IsFiniteSet(W) /\ Cardinality(W) <= Cardinality(Waiting(r, k))
      /\ Cardinality(W) \in Nat /\ Cardinality(Waiting(r, k)) \in Nat
  BY <1>1, FS_Subset, FS_CardinalityType
<1>3. requested \in Nat
  BY ServiceAssumption DEF ServiceInv, AppendTypes
<1> QED
  BY <1>1, <1>2, <1>3

\* The same, when an append that was waiting has added its version.
LEMMA CountMoves ==
    ASSUME ServiceInv, NEW r \in Replicas, NEW k \in Keys, NEW n \in Nat,
           NEW t \in Waiting(r, k), NEW W \in SUBSET (Waiting(r, k) \ {t}), n = heads[r][k]
    PROVE  IsFiniteSet(W) /\ (n + 1) + Cardinality(W) <= requested
<1>1. /\ IsFiniteSet(Waiting(r, k))
      /\ n + Cardinality(Waiting(r, k)) <= requested
  BY DEF ServiceInv, HeadsAreCounted
<1>2. /\ IsFiniteSet(Waiting(r, k) \ {t})
      /\ Cardinality(Waiting(r, k) \ {t}) = Cardinality(Waiting(r, k)) - 1
  BY <1>1, FS_RemoveElement
<1>3. /\ IsFiniteSet(W) /\ Cardinality(W) <= Cardinality(Waiting(r, k) \ {t})
      /\ Cardinality(W) \in Nat /\ Cardinality(Waiting(r, k)) \in Nat
  BY <1>1, <1>2, FS_Subset, FS_CardinalityType
<1>4. requested \in Nat
  BY ServiceAssumption DEF ServiceInv, AppendTypes
<1> QED
  BY <1>1, <1>2, <1>3, <1>4

LEMMA StartAppendKeeps ==
    ASSUME ServiceInv, NEW t \in Threads, StartAppend(t)
    PROVE  ServiceFacts'
<1> USE DEF ServiceInv
<1>1. /\ tpc[t] = "idle" /\ requested < MaxAppends
      /\ tpc' = [tpc EXCEPT ![t] = "head"] /\ requested' = requested + 1 /\ appends' = appends
  BY DEF StartAppend
<1>2. UNCHANGED vars
  BY DEF StartAppend
<1>3. UNCHANGED <<heads, pc, job, durable, prepared, refusals, faults>>
  BY <1>2 DEF vars
<1>4. PICK k \in Keys, id \in Ids :
          append' = [append EXCEPT ![t] =
                        [key |-> k, id |-> id, version |-> 0, tries |-> 0,
                         base |-> HeadVersion(Owner[t], k),
                         weather |-> Weather(t, k), faults |-> faults]]
  BY DEF StartAppend
<1>5. /\ tpc \in [Threads -> {"idle", "head", "propose", "proposing"}]
      /\ append \in [Threads -> AppendRequests \cup {None}]
      /\ requested \in 0 .. MaxAppends /\ faults \in Nat /\ MaxAppends \in Nat
  BY CountsAreNaturals, ServiceAssumption DEF AppendTypes
<1>6. \A u \in Threads : /\ u # t => tpc'[u] = tpc[u] /\ append'[u] = append[u]
                         /\ u = t => tpc'[u] = "head"
  BY <1>1, <1>4, <1>5
<1>7. append'[t] \in AppendRequests /\ append'[t].faults = faults
  <2>1. Weather(t, k) \in {"calm", "disturbed"}
    BY DEF Weather
  <2>2. append'[t] = [key |-> k, id |-> id, version |-> 0, tries |-> 0,
                      base |-> HeadVersion(Owner[t], k),
                      weather |-> Weather(t, k), faults |-> faults]
    BY <1>4, <1>5
  <2>3. HeadVersion(Owner[t], k) \in Nat
    BY HeadVersionType, ServiceAssumption
  <2> QED
    BY <1>5, <2>1, <2>2, <2>3 DEF AppendRequests
<1>8. AppendTypes'
  <2>1. tpc' \in [Threads -> {"idle", "head", "propose", "proposing"}]
    BY <1>1, <1>5
  <2>2. append' \in [Threads -> AppendRequests \cup {None}]
    BY <1>4, <1>5, <1>7
  <2>3. \A u \in Threads : Appending(u)' => append'[u] \in AppendRequests /\ append'[u].faults <= faults'
    BY <1>3, <1>5, <1>6, <1>7 DEF AppendTypes, Appending
  <2>4. requested' \in 0 .. MaxAppends
    BY <1>1, <1>5
  <2> QED
    BY <1>1, <2>1, <2>2, <2>3, <2>4 DEF AppendTypes
<1>9. OneProposes' /\ HintsAreOld'
  <2>1. \A u \in Threads : tpc'[u] \in {"propose", "proposing"} =>
            tpc'[u] = tpc[u] /\ append'[u] = append[u]
    BY <1>6
  <2>2. OneProposes'
    BY <1>3, <2>1 DEF OneProposes
  <2>3. HintsAreOld'
    BY <1>3, <2>1 DEF HintsAreOld
  <2> QED
    BY <2>2, <2>3
<1>10. WritesAreAppends' /\ IdleIsClean'
  BY <1>1, <1>3, <1>6 DEF WritesAreAppends, IdleIsClean
<1>11. HeadsAreCounted'
  <2> SUFFICES ASSUME NEW r \in Replicas, NEW k2 \in Keys
               PROVE  /\ IsFiniteSet(Waiting(r, k2)')
                      /\ heads'[r][k2] + Cardinality(Waiting(r, k2)') <= requested'
    BY DEF HeadsAreCounted
  <2>1. Waiting(r, k2)' = Waiting(r, k2) \cup {t} /\ t \notin Waiting(r, k2)
    BY <1>1, <1>3, <1>6 DEF Waiting, Appending, Moved
  <2>2. /\ IsFiniteSet(Waiting(r, k2))
        /\ heads[r][k2] + Cardinality(Waiting(r, k2)) <= requested
    BY DEF HeadsAreCounted
  <2>3. /\ IsFiniteSet(Waiting(r, k2)')
        /\ Cardinality(Waiting(r, k2)') = Cardinality(Waiting(r, k2)) + 1
    BY <2>1, <2>2, FS_AddElement
  <2>4. heads[r][k2] \in Nat /\ Cardinality(Waiting(r, k2)) \in Nat
    BY <2>2, CountsAreNaturals, FS_CardinalityType
  <2> QED
    BY <1>1, <1>3, <1>5, <2>2, <2>3, <2>4
<1> QED
  BY <1>8, <1>9, <1>10, <1>11 DEF ServiceFacts

\* A write step or the environment, with the threads where they are: the heads
\* may move, the write may enter its next phase, and nobody starts or returns.
LEMMA HintsStayOld ==
    ASSUME ServiceInv, [Next]_vars, NEW t \in Threads,
           tpc[t] \in {"propose", "proposing"}, append'[t] = append[t],
           NEW n \in Nat, \A r \in Replicas : heads'[r][append'[t].key] <= n
    PROVE  append'[t].version <= n + 1
<1>1. append[t].key \in Keys /\ append[t].version \in Nat
  <2>1. append[t] \in AppendRequests
    BY DEF ServiceInv, AppendTypes, Appending
  <2> QED
    BY <2>1 DEF AppendRequests
<1>2. ASSUME NEW r \in Replicas PROVE heads[r][append[t].key] <= n
  <2>1. heads[r][append[t].key] \in Nat
    BY <1>1, CountsAreNaturals DEF ServiceInv
  <2>2. heads'[r][append[t].key] \in {heads[r][append[t].key], heads[r][append[t].key] + 1}
    BY <1>1, HeadsGrow DEF ServiceInv
  <2> QED
    BY <2>1, <2>2
<1>3. append[t].version <= n + 1
  BY <1>2 DEF ServiceInv, HintsAreOld
<1> QED
  BY <1>3

LEMMA FaultsAreReached ==
    ASSUME ServiceInv, [Next]_vars
    PROVE  /\ faults' \in Nat /\ faults \in Nat /\ faults <= faults'
           /\ \A n \in Nat : n <= faults => n <= faults'
<1>1. faults \in Nat
  BY CountsAreNaturals DEF ServiceInv
<1> QED
  BY <1>1, FaultsGrow DEF ServiceInv

LEMMA ReadHeadKeeps ==
    ASSUME ServiceInv, NEW t \in Threads, ReadHead(t)
    PROVE  ServiceFacts'
<1> USE DEF ServiceInv
<1>1. /\ tpc[t] = "head" /\ tpc' = [tpc EXCEPT ![t] = "propose"]
      /\ append' = [append EXCEPT ![t].version = HeadVersion(Owner[t], append[t].key) + 1]
      /\ appends' = appends /\ requested' = requested
  BY DEF ReadHead
<1>2. UNCHANGED <<heads, pc, job, durable, prepared, refusals, faults>>
  BY DEF ReadHead, vars
<1>3. /\ tpc \in [Threads -> {"idle", "head", "propose", "proposing"}]
      /\ append \in [Threads -> AppendRequests \cup {None}]
      /\ append[t] \in AppendRequests /\ append[t].faults <= faults /\ append[t].key \in Keys
  BY <1>1 DEF AppendTypes, Appending, AppendRequests
<1>4. PICK h : h = HeadVersion(Owner[t], append[t].key)
  OBVIOUS
<1>5. h \in Nat /\ (h = 0 \/ \E r \in Replicas : h = heads[r][append[t].key])
  BY <1>3, <1>4, HeadVersionIsAHead, ServiceAssumption, CountsAreNaturals
<1>6. append'[t] = [append[t] EXCEPT !.version = h + 1]
  BY <1>1, <1>3, <1>4
<1>7. /\ append'[t] \in AppendRequests /\ append'[t].faults = append[t].faults
      /\ append'[t].key = append[t].key /\ append'[t].version = h + 1
  BY <1>3, <1>5, <1>6 DEF AppendRequests
<1>8. \A u \in Threads : /\ u # t => tpc'[u] = tpc[u] /\ append'[u] = append[u]
                         /\ u = t => tpc'[u] = "propose"
  BY <1>1, <1>3
<1>9. AppendTypes'
  <2>1. tpc' \in [Threads -> {"idle", "head", "propose", "proposing"}]
    BY <1>1, <1>3
  <2>2. append' \in [Threads -> AppendRequests \cup {None}]
    BY <1>1, <1>3, <1>4, <1>6, <1>7
  <2>3. \A u \in Threads : Appending(u)' => append'[u] \in AppendRequests /\ append'[u].faults <= faults'
    BY <1>2, <1>3, <1>7, <1>8 DEF AppendTypes, Appending
  <2> QED
    BY <1>1, <2>1, <2>2, <2>3 DEF AppendTypes
<1>10. OneProposes'
  BY <1>2, <1>8 DEF OneProposes
<1>11. WritesAreAppends' /\ IdleIsClean'
  BY <1>1, <1>2, <1>8 DEF WritesAreAppends, IdleIsClean
<1>12. HintsAreOld'
  <2> SUFFICES ASSUME NEW u \in Threads, tpc'[u] \in {"propose", "proposing"}, NEW n \in Nat,
                      \A r \in Replicas : heads'[r][append'[u].key] <= n
               PROVE  append'[u].version <= n + 1
    BY DEF HintsAreOld
  <2>1. CASE u = t
    <3>1. h <= n
      BY <1>2, <1>5, <1>7, <2>1
    <3> QED
      BY <1>5, <1>7, <2>1, <3>1
  <2>2. CASE u # t
    BY <1>2, <1>8, <2>2 DEF HintsAreOld
  <2> QED
    BY <2>1, <2>2
<1>13. HeadsAreCounted'
  <2> SUFFICES ASSUME NEW r \in Replicas, NEW k \in Keys
               PROVE  /\ IsFiniteSet(Waiting(r, k)')
                      /\ heads'[r][k] + Cardinality(Waiting(r, k)') <= requested'
    BY DEF HeadsAreCounted
  <2>1. Waiting(r, k)' = Waiting(r, k)
    BY <1>1, <1>2, <1>8 DEF Waiting, Appending, Moved
  <2> QED
    BY <1>1, <1>2, <2>1 DEF HeadsAreCounted
<1> QED
  BY <1>9, <1>10, <1>11, <1>12, <1>13 DEF ServiceFacts

LEMMA ProposeNextKeeps ==
    ASSUME ServiceInv, NEW t \in Threads, ProposeNext(t)
    PROVE  ServiceFacts'
<1> USE DEF ServiceInv
<1>1. PICK c \in Coordinators : c = Owner[t]
  BY ServiceAssumption
<1>2. /\ tpc[t] = "propose" /\ pc[c] = "idle"
      /\ tpc' = [tpc EXCEPT ![t] = "proposing"] /\ pc' = [pc EXCEPT ![c] = "prepare"]
      /\ UNCHANGED <<append, appends, requested, heads, durable, prepared, refusals, faults>>
  BY <1>1 DEF ProposeNext
<1>3. PICK op : job' = [job EXCEPT ![c] = [op |-> op, key |-> append[t].key,
                                           version |-> append[t].version, id |-> append[t].id]]
  BY <1>1 DEF ProposeNext
<1>4. /\ tpc \in [Threads -> {"idle", "head", "propose", "proposing"}]
      /\ pc \in [Coordinators -> {"idle", "prepare", "commit", "abort", "cleanup"}]
      /\ job \in [Coordinators -> Jobs \cup {None}]
  BY DEF AppendTypes, WriteInv, TypeOK
<1>5. /\ \A u \in Threads : u # t => tpc'[u] = tpc[u]
      /\ tpc'[t] = "proposing"
      /\ \A d \in Coordinators : d # c => pc'[d] = pc[d] /\ job'[d] = job[d]
      /\ pc'[c] = "prepare" /\ job'[c].key = append[t].key /\ job'[c].version = append[t].version
  BY <1>2, <1>3, <1>4
<1>6. \A u \in Threads : tpc[u] = "proposing" => Owner[u] # c
  BY <1>2 DEF OneProposes
<1>7. AppendTypes'
  <2>1. tpc' \in [Threads -> {"idle", "head", "propose", "proposing"}]
    BY <1>2, <1>4
  <2>2. \A u \in Threads : Appending(u)' => Appending(u)
    BY <1>2, <1>5 DEF Appending
  <2> QED
    BY <1>2, <2>1, <2>2 DEF AppendTypes
<1>8. OneProposes'
  <2>1. \A u \in Threads : Owner[u] \in Coordinators
    BY ServiceAssumption
  <2> QED
    BY <1>1, <1>2, <1>5, <1>6, <2>1 DEF OneProposes
<1>9. WritesAreAppends'
  <2> SUFFICES ASSUME NEW d \in Coordinators, pc'[d] # "idle"
               PROVE  \E u \in Threads : tpc'[u] = "proposing" /\ Owner[u] = d
    BY DEF WritesAreAppends
  <2>1. CASE d = c
    BY <1>1, <1>5, <2>1
  <2>2. CASE d # c
    BY <1>2, <1>5, <2>2 DEF WritesAreAppends
  <2> QED
    BY <2>1, <2>2
<1>10. IdleIsClean'
  BY <1>2, <1>5 DEF IdleIsClean
<1>11. HintsAreOld'
  BY <1>2, <1>5 DEF HintsAreOld
<1>12. HeadsAreCounted'
  <2> SUFFICES ASSUME NEW r \in Replicas, NEW k \in Keys
               PROVE  /\ IsFiniteSet(Waiting(r, k)')
                      /\ heads'[r][k] + Cardinality(Waiting(r, k)') <= requested'
    BY DEF HeadsAreCounted
  <2>1. \A u \in Threads : Owner[u] \in Coordinators
    BY ServiceAssumption
  <2>2. Waiting(r, k)' \subseteq Waiting(r, k)
    <3> SUFFICES ASSUME NEW u \in Threads, u \in Waiting(r, k)' PROVE u \in Waiting(r, k)
      BY DEF Waiting
    <3>1. CASE u = t
      BY <1>2, <3>1 DEF Waiting, Appending
    <3>2. CASE u # t
      BY <1>2, <1>5, <1>6, <2>1, <3>2 DEF Waiting, Appending, Moved
    <3> QED
      BY <3>1, <3>2
  <2>3. heads'[r][k] \in Nat /\ heads'[r][k] = heads[r][k] /\ requested' = requested
    BY <1>2, CountsAreNaturals
  <2> QED
    BY <2>2, <2>3, CountStays
<1> QED
  BY <1>7, <1>8, <1>9, <1>10, <1>11, <1>12 DEF ServiceFacts

\* What a replica call of a running write leaves alone.
LEMMA WriteStepShape ==
    ASSUME WriteInv, NEW c \in Coordinators, WriteStep(c)
    PROVE  /\ pc[c] # "idle" /\ pc'[c] # "idle" /\ job' = job
           /\ \A d \in Coordinators \ {c} :
                 /\ pc'[d] = pc[d] /\ durable'[d] = durable[d]
                 /\ prepared'[d] = prepared[d] /\ refusals'[d] = refusals[d]
           /\ \/ durable' = durable /\ heads' = heads
              \/ \E r \in Replicas : CommitAcked(c, r)
<1> USE DEF WriteInv, TypeOK
<1>1. CASE Decide(c) \/ StartCleanup(c)
  BY <1>1 DEF Decide, StartCleanup
<1>2. ASSUME NEW r \in Replicas, PrepareAcked(c, r) \/ PrepareRefused(c, r)
      PROVE  /\ pc[c] # "idle" /\ pc'[c] # "idle" /\ job' = job /\ durable' = durable /\ heads' = heads
             /\ \A d \in Coordinators \ {c} :
                   /\ pc'[d] = pc[d] /\ durable'[d] = durable[d]
                   /\ prepared'[d] = prepared[d] /\ refusals'[d] = refusals[d]
  BY <1>2 DEF PrepareAcked, PrepareRefused, PrepareInsert
<1>3. ASSUME NEW r \in Replicas, CommitMissed(c, r) \/ AbortLoser(c, r) \/ AbortReplica(c, r)
      PROVE  /\ pc[c] # "idle" /\ pc'[c] # "idle" /\ job' = job /\ durable' = durable /\ heads' = heads
             /\ \A d \in Coordinators \ {c} :
                   /\ pc'[d] = pc[d] /\ durable'[d] = durable[d]
                   /\ prepared'[d] = prepared[d] /\ refusals'[d] = refusals[d]
  BY <1>3 DEF CommitMissed, AbortLoser, AbortReplica, AbortCall, AbortPending
<1>4. ASSUME NEW r \in Replicas, CommitAcked(c, r)
      PROVE  /\ pc[c] # "idle" /\ pc'[c] # "idle" /\ job' = job
             /\ \A d \in Coordinators \ {c} :
                   /\ pc'[d] = pc[d] /\ durable'[d] = durable[d]
                   /\ prepared'[d] = prepared[d] /\ refusals'[d] = refusals[d]
  BY <1>4 DEF CommitAcked
<1> QED
  BY <1>1, <1>2, <1>3, <1>4 DEF WriteStep

\* A write does not leave its commit phase for another one.
LEMMA WriteStepPhases ==
    ASSUME WriteInv, NEW c \in Coordinators, WriteStep(c), pc[c] \in {"commit", "cleanup"}
    PROVE  pc'[c] \in {"commit", "cleanup"}
BY DEF WriteStep, Decide, StartCleanup, PrepareAcked, PrepareRefused, CommitAcked, CommitMissed,
       AbortLoser, AbortReplica, WriteInv, TypeOK

LEMMA WriteStepKeeps ==
    ASSUME ServiceInv, NEW t \in Threads, tpc[t] = "proposing", WriteStep(Owner[t]),
           UNCHANGED serviceVars
    PROVE  ServiceFacts'
<1> USE DEF ServiceInv
<1>1. PICK c \in Coordinators : c = Owner[t]
  BY ServiceAssumption
<1>2. UNCHANGED <<tpc, append, appends, requested>>
  BY DEF serviceVars
<1>3. [Next]_vars
  BY <1>1 DEF WriteStep, Step, Next
<1>4. /\ pc[c] # "idle" /\ pc'[c] # "idle" /\ job' = job
      /\ \A d \in Coordinators \ {c} :
            /\ pc'[d] = pc[d] /\ durable'[d] = durable[d]
            /\ prepared'[d] = prepared[d] /\ refusals'[d] = refusals[d]
      /\ \/ durable' = durable /\ heads' = heads
         \/ \E r \in Replicas : CommitAcked(c, r)
  BY <1>1, WriteStepShape
<1>5. AppendTypes'
  <2>1. \A u \in Threads : Appending(u)' => append'[u] \in AppendRequests /\ append'[u].faults <= faults'
    <3> SUFFICES ASSUME NEW u \in Threads, Appending(u)'
                 PROVE  append'[u] \in AppendRequests /\ append'[u].faults <= faults'
      OBVIOUS
    <3>1. append[u] \in AppendRequests /\ append[u].faults <= faults /\ append[u].faults \in Nat
      BY <1>2 DEF AppendTypes, Appending, AppendRequests
    <3> QED
      BY <1>2, <1>3, <3>1, FaultsAreReached
  <2> QED
    BY <1>2, <2>1 DEF AppendTypes
<1>6. OneProposes'
  <2>1. \A u \in Threads : Owner[u] \in Coordinators
    BY ServiceAssumption
  <2>2. \A d \in Coordinators : pc[d] # "idle" => pc'[d] # "idle"
    BY <1>4
  <2> QED
    BY <1>2, <1>4, <2>1, <2>2 DEF OneProposes
<1>7. WritesAreAppends'
  <2>1. \A d \in Coordinators : pc'[d] # "idle" => pc[d] # "idle"
    BY <1>4
  <2> QED
    BY <1>2, <2>1 DEF WritesAreAppends
<1>8. IdleIsClean'
  BY <1>4 DEF IdleIsClean
<1>9. HintsAreOld'
  BY <1>2, <1>3, HintsStayOld DEF HintsAreOld
<1>10. HeadsAreCounted'
  <2> SUFFICES ASSUME NEW r \in Replicas, NEW k \in Keys
               PROVE  /\ IsFiniteSet(Waiting(r, k)')
                      /\ heads'[r][k] + Cardinality(Waiting(r, k)') <= requested'
    BY DEF HeadsAreCounted
  <2>1. \A u \in Threads : Owner[u] \in Coordinators
    BY ServiceAssumption
  <2>2. heads[r][k] \in Nat
    BY CountsAreNaturals
  <2>3. pc[c] \in {"idle", "prepare", "abort"} => durable[c] = {}
    BY DEF WriteInv, DurableRows
  <2>4. CASE durable' = durable /\ heads' = heads
    <3>1. \A u \in Threads : Moved(Owner[u], r, k) => Moved(Owner[u], r, k)'
      <4> SUFFICES ASSUME NEW d \in Coordinators, Moved(d, r, k) PROVE Moved(d, r, k)'
        BY <2>1
      <4>1. CASE d # c
        BY <1>4, <4>1 DEF Moved
      <4>2. CASE d = c
        <5>1. pc[c] \in {"commit", "cleanup"} => pc'[c] \in {"commit", "cleanup"}
          BY <1>1, WriteStepPhases
        <5> QED
          BY <1>4, <2>4, <4>2, <5>1 DEF Moved
      <4> QED
        BY <4>1, <4>2
    <3>2. Waiting(r, k)' \subseteq Waiting(r, k)
      BY <1>2, <3>1 DEF Waiting, Appending
    <3> QED
      BY <1>2, <2>2, <2>4, <3>2, CountStays
  <2>5. ASSUME NEW q \in Replicas, CommitAcked(c, q)
        PROVE  /\ IsFiniteSet(Waiting(r, k)')
               /\ heads'[r][k] + Cardinality(Waiting(r, k)') <= requested'
    <3>1. /\ pc[c] = "commit" /\ pc' = pc /\ durable'[c] = durable[c] \cup {q}
          /\ CommitPromote(q, job[c].key, job[c].version, job[c].id, job[c].op)
      BY <2>5 DEF CommitAcked, WriteInv, TypeOK
    <3>2. /\ job[c].version = heads[q][job[c].key] + 1
          /\ heads' = [heads EXCEPT ![q][job[c].key] = job[c].version]
      BY <3>1 DEF CommitPromote, PromoteOutcome, AppendCommitted
    <3>3. \A u \in Threads : Moved(Owner[u], r, k) => Moved(Owner[u], r, k)'
      <4> SUFFICES ASSUME NEW d \in Coordinators, Moved(d, r, k) PROVE Moved(d, r, k)'
        BY <2>1
      <4>1. durable[d] \subseteq durable'[d]
        BY <1>4, <3>1
      <4> QED
        BY <1>4, <3>1, <4>1 DEF Moved
    <3>4. Waiting(r, k)' \subseteq Waiting(r, k)
      BY <1>2, <3>3 DEF Waiting, Appending
    <3>5. CASE r = q /\ k = job[c].key
      <4>1. t \in Waiting(r, k)
        <5>1. q \notin durable[c]
          <6> SUFFICES ASSUME q \in durable[c] PROVE FALSE
            OBVIOUS
          <6>1. q \in Holders(job[c].key, job[c].version, job[c].id)
            BY <3>1 DEF WriteInv, DurableRows, Running
          <6>2. PICK row \in committed : /\ row.replica = q /\ row.key = job[c].key
                                         /\ row.version = job[c].version
            BY <6>1 DEF Holders
          <6>3. job[c].version <= heads[q][job[c].key]
            BY <6>2 DEF WriteInv, StoreInv, HistoryGapFree
          <6> QED
            BY <2>2, <3>2, <3>5, <6>3
        <5> QED
          BY <1>1, <3>5, <5>1 DEF Waiting, Appending, Moved
      <4>2. t \notin Waiting(r, k)'
        BY <1>1, <1>2, <1>4, <3>1, <3>5 DEF Waiting, Moved
      <4>3. heads'[r][k] = heads[r][k] + 1
        BY <3>2, <3>5 DEF WriteInv, StoreInv, StoreTypeOK
      <4> QED
        BY <1>2, <2>2, <3>4, <4>1, <4>2, <4>3, CountMoves
    <3>6. CASE ~ (r = q /\ k = job[c].key)
      <4>1. heads'[r][k] = heads[r][k]
        BY <3>2, <3>6 DEF WriteInv, StoreInv, StoreTypeOK
      <4> QED
        BY <1>2, <2>2, <3>4, <4>1, CountStays
    <3> QED
      BY <3>5, <3>6
  <2> QED
    BY <1>4, <2>4, <2>5
<1> QED
  BY <1>5, <1>6, <1>7, <1>8, <1>9, <1>10 DEF ServiceFacts

\* What a proposal's return changes, and what it says.
LEMMA ReturnShape ==
    ASSUME WriteInv, NEW c \in Coordinators, RejectAll(c) \/ Finish(c)
    PROVE  /\ UNCHANGED <<heads, pending, health, faults>>
           /\ pc[c] # "idle" /\ pc'[c] = "idle" /\ prepared'[c] = {} /\ refusals'[c] = {}
           /\ \A d \in Coordinators \ {c} :
                 /\ pc'[d] = pc[d] /\ job'[d] = job[d] /\ durable'[d] = durable[d]
                 /\ prepared'[d] = prepared[d] /\ refusals'[d] = refusals[d]
           /\ \A w \in results' \ results :
                 /\ w.outcome \in WriteOutcomes
                 /\ pc[c] = "prepare" => w.outcome = ClassifyTotalRejection(refusals[c])
                 /\ pc[c] = "abort" => w.outcome = "FAILED_QUORUM"
                 /\ pc[c] = "cleanup" => w.outcome = CommitPhaseOutcome(Cardinality(durable[c]))
                 /\ w.outcome = "REJECTED_STALE" => pc[c] = "prepare"
<1> USE DEF WriteInv, TypeOK
<1>1. UNCHANGED <<heads, pending, health, faults>>
  BY DEF RejectAll, Finish
<1>2. PICK outcome :
        /\ Return(c, outcome)
        /\ \/ pc[c] = "prepare" /\ outcome = ClassifyTotalRejection(refusals[c])
           \/ pc[c] = "abort" /\ outcome = "FAILED_QUORUM"
           \/ pc[c] = "cleanup" /\ outcome = CommitPhaseOutcome(Cardinality(durable[c]))
  BY DEF RejectAll, Finish
<1>3. /\ pc[c] # "idle" /\ pc'[c] = "idle" /\ prepared'[c] = {} /\ refusals'[c] = {}
      /\ \A d \in Coordinators \ {c} :
            /\ pc'[d] = pc[d] /\ job'[d] = job[d] /\ durable'[d] = durable[d]
            /\ prepared'[d] = prepared[d] /\ refusals'[d] = refusals[d]
  BY <1>2 DEF Return, Release
<1>4. \A w \in results' \ results : w.outcome = outcome
  BY <1>2 DEF Return
<1>5. \A statuses : ClassifyTotalRejection(statuses) \in
          {"REJECTED_STALE", "REJECTED_CONFLICT", "REJECTED_SCHEMA", "FAILED_QUORUM"}
  BY DEF ClassifyTotalRejection
<1>6. IsFiniteSet(durable[c]) /\ Cardinality(durable[c]) \in Nat
  BY ReplicasAssumption, FS_Subset, FS_CardinalityType
<1>7. CommitPhaseOutcome(Cardinality(durable[c])) \in {"COMMITTED", "PARTIAL_COMMIT", "FAILED_STORAGE"}
  BY <1>6, QuorumAssumption DEF CommitPhaseOutcome
<1>8. outcome \in WriteOutcomes /\ (outcome = "REJECTED_STALE" => pc[c] = "prepare")
  BY <1>2, <1>5, <1>7 DEF WriteOutcomes
<1> QED
  BY <1>1, <1>2, <1>3, <1>4, <1>8

\* The thread goes round again after REJECTED_STALE, or its append is over.
LEMMA ReturnedThread ==
    ASSUME ServiceInv, NEW t \in Threads, ProposeReturned(t)
    PROVE  \E w \in results' \ results :
              /\ requested' = requested
              /\ \A u \in Threads \ {t} : tpc'[u] = tpc[u] /\ append'[u] = append[u]
              /\ tpc' \in [Threads -> {"idle", "head", "propose", "proposing"}]
              /\ append' \in [Threads -> AppendRequests \cup {None}]
              /\ IF Retries(t, w.outcome)
                 THEN /\ tpc'[t] = "head" /\ appends' = appends
                      /\ append'[t] = [append[t] EXCEPT !.tries = @ + 1, !.version = 0]
                      /\ append'[t] \in AppendRequests
                 ELSE /\ tpc'[t] = "idle"
                      /\ appends' = appends \cup
                            {[outcome |-> w.outcome,
                              weather |-> IF append[t].faults = faults
                                          THEN append[t].weather ELSE "disturbed",
                              grown |-> HeadVersion(Owner[t], append[t].key) - append[t].base]}
<1> USE DEF ServiceInv, AppendTypes
<1>1. PICK w \in results' \ results :
              IF Retries(t, w.outcome)
              THEN /\ append' = [append EXCEPT ![t].tries = @ + 1, ![t].version = 0]
                   /\ tpc' = [tpc EXCEPT ![t] = "head"]
                   /\ UNCHANGED appends
              ELSE /\ appends' = appends \cup
                        {[outcome |-> w.outcome,
                          weather |-> IF append[t].faults = faults
                                      THEN append[t].weather ELSE "disturbed",
                          grown |-> HeadVersion(Owner[t], append[t].key) - append[t].base]}
                   /\ append' = [append EXCEPT ![t] = None]
                   /\ tpc' = [tpc EXCEPT ![t] = "idle"]
  BY DEF ProposeReturned
<1>2. tpc[t] = "proposing" /\ requested' = requested /\ append[t] \in AppendRequests
  BY DEF ProposeReturned, Appending
<1>3. CASE Retries(t, w.outcome)
  <2>1. /\ append' = [append EXCEPT ![t] = [append[t] EXCEPT !.tries = @ + 1, !.version = 0]]
        /\ tpc' = [tpc EXCEPT ![t] = "head"] /\ appends' = appends
    BY <1>1, <1>3
  <2>2. [append[t] EXCEPT !.tries = @ + 1, !.version = 0] \in AppendRequests
    <3>1. append[t].tries + 1 \in Nat
      BY <1>2 DEF AppendRequests
    <3>2. \A n \in Nat : [append[t] EXCEPT !.tries = n] \in AppendRequests
      BY <1>2 DEF AppendRequests
    <3>3. \A e \in AppendRequests : [e EXCEPT !.version = 0] \in AppendRequests
      BY DEF AppendRequests
    <3>4. [append[t] EXCEPT !.tries = @ + 1, !.version = 0]
              = [[append[t] EXCEPT !.tries = append[t].tries + 1] EXCEPT !.version = 0]
      BY <1>2 DEF AppendRequests
    <3> QED
      BY <3>1, <3>2, <3>3, <3>4
  <2> QED
    BY <1>2, <1>3, <2>1, <2>2
<1>4. CASE ~ Retries(t, w.outcome)
  BY <1>1, <1>2, <1>4
<1> QED
  BY <1>3, <1>4

LEMMA ProposeReturnedKeeps ==
    ASSUME ServiceInv, NEW t \in Threads, ProposeReturned(t)
    PROVE  ServiceFacts'
<1> USE DEF ServiceInv
<1>1. PICK c \in Coordinators : c = Owner[t]
  BY ServiceAssumption
<1>2. tpc[t] = "proposing" /\ (RejectAll(c) \/ Finish(c))
  BY <1>1 DEF ProposeReturned
<1>3. /\ UNCHANGED <<heads, faults>>
      /\ pc[c] # "idle" /\ pc'[c] = "idle" /\ prepared'[c] = {} /\ refusals'[c] = {}
      /\ \A d \in Coordinators \ {c} :
            /\ pc'[d] = pc[d] /\ job'[d] = job[d] /\ durable'[d] = durable[d]
            /\ prepared'[d] = prepared[d] /\ refusals'[d] = refusals[d]
      /\ \A w \in results' \ results :
            w.outcome \in WriteOutcomes /\ (w.outcome = "REJECTED_STALE" => pc[c] = "prepare")
  BY <1>2, ReturnShape
<1>4. PICK w \in results' \ results :
              /\ requested' = requested
              /\ \A u \in Threads \ {t} : tpc'[u] = tpc[u] /\ append'[u] = append[u]
              /\ tpc' \in [Threads -> {"idle", "head", "propose", "proposing"}]
              /\ append' \in [Threads -> AppendRequests \cup {None}]
              /\ IF Retries(t, w.outcome)
                 THEN /\ tpc'[t] = "head" /\ appends' = appends
                      /\ append'[t] = [append[t] EXCEPT !.tries = @ + 1, !.version = 0]
                      /\ append'[t] \in AppendRequests
                 ELSE /\ tpc'[t] = "idle"
                      /\ appends' = appends \cup
                            {[outcome |-> w.outcome,
                              weather |-> IF append[t].faults = faults
                                          THEN append[t].weather ELSE "disturbed",
                              grown |-> HeadVersion(Owner[t], append[t].key) - append[t].base]}
  BY ReturnedThread
<1>5. append[t] \in AppendRequests /\ append[t].faults <= faults
  BY <1>2 DEF AppendTypes, Appending
<1>6. \A u \in Threads \ {t} : tpc[u] = "proposing" => Owner[u] \in Coordinators \ {c}
  BY <1>1, <1>2, ServiceAssumption DEF OneProposes
<1>7. AppendTypes'
  <2>1. appends' \subseteq [outcome : WriteOutcomes, weather : {"calm", "disturbed"}, grown : Int]
    <3>1. HeadVersion(Owner[t], append[t].key) - append[t].base \in Int
      <4>1. append[t].key \in Keys /\ append[t].base \in Nat
        BY <1>5 DEF AppendRequests
      <4>2. HeadVersion(c, append[t].key) \in Nat
        BY <4>1, HeadVersionType
      <4> QED
        BY <1>1, <4>1, <4>2
    <3>2. [outcome |-> w.outcome,
           weather |-> IF append[t].faults = faults THEN append[t].weather ELSE "disturbed",
           grown |-> HeadVersion(Owner[t], append[t].key) - append[t].base]
              \in [outcome : WriteOutcomes, weather : {"calm", "disturbed"}, grown : Int]
      BY <1>3, <1>4, <1>5, <3>1 DEF AppendRequests
    <3> QED
      BY <1>4, <3>2 DEF AppendTypes
  <2>2. \A u \in Threads : Appending(u)' => append'[u] \in AppendRequests /\ append'[u].faults <= faults'
    <3> SUFFICES ASSUME NEW u \in Threads, Appending(u)'
                 PROVE  append'[u] \in AppendRequests /\ append'[u].faults <= faults'
      OBVIOUS
    <3>1. CASE u = t
      <4>1. Retries(t, w.outcome)
        BY <1>4, <3>1 DEF Appending
      <4>2. append'[t].faults = append[t].faults
        BY <1>4, <1>5, <4>1 DEF AppendRequests
      <4> QED
        BY <1>3, <1>4, <1>5, <3>1, <4>1, <4>2
    <3>2. CASE u # t
      BY <1>3, <1>4, <3>2 DEF AppendTypes, Appending
    <3> QED
      BY <3>1, <3>2
  <2> QED
    BY <1>4, <2>1, <2>2 DEF AppendTypes
<1>8. tpc'[t] \in {"idle", "head"}
  BY <1>4
<1>9. OneProposes'
  <2>1. \A u \in Threads : tpc'[u] = "proposing" => /\ u # t /\ tpc[u] = "proposing"
                                                    /\ append'[u] = append[u]
                                                    /\ Owner[u] \in Coordinators \ {c}
    BY <1>4, <1>6, <1>8
  <2> QED
    BY <1>3, <2>1 DEF OneProposes
<1>10. WritesAreAppends' /\ IdleIsClean'
  BY <1>1, <1>3, <1>4, <1>8 DEF WritesAreAppends, IdleIsClean
<1>11. HintsAreOld'
  <2>1. \A u \in Threads : tpc'[u] \in {"propose", "proposing"} =>
            tpc'[u] = tpc[u] /\ append'[u] = append[u]
    BY <1>4, <1>8
  <2> QED
    BY <1>3, <2>1 DEF HintsAreOld
<1>12. HeadsAreCounted'
  <2> SUFFICES ASSUME NEW r \in Replicas, NEW k \in Keys
               PROVE  /\ IsFiniteSet(Waiting(r, k)')
                      /\ heads'[r][k] + Cardinality(Waiting(r, k)') <= requested'
    BY DEF HeadsAreCounted
  <2>1. Waiting(r, k)' \subseteq Waiting(r, k)
    <3> SUFFICES ASSUME NEW u \in Threads, u \in Waiting(r, k)' PROVE u \in Waiting(r, k)
      BY DEF Waiting
    <3>1. CASE u = t
      <4>1. Retries(t, w.outcome)
        BY <1>4, <3>1 DEF Waiting, Appending
      <4>2. pc[c] = "prepare"
        BY <1>3, <4>1 DEF Retries
      <4> QED
        BY <1>1, <1>2, <3>1, <4>2 DEF Waiting, Appending, Moved
    <3>2. CASE u # t
      <4>1. tpc'[u] = tpc[u] /\ (tpc[u] = "proposing" => Owner[u] \in Coordinators \ {c})
        BY <1>4, <1>6, <3>2
      <4>2. tpc[u] = "proposing" => (Moved(Owner[u], r, k)' <=> Moved(Owner[u], r, k))
        BY <1>3, <4>1 DEF Moved
      <4> QED
        BY <4>1, <4>2 DEF Waiting, Appending
    <3> QED
      BY <3>1, <3>2
  <2>2. heads'[r][k] \in Nat /\ heads'[r][k] = heads[r][k] /\ requested' = requested
    BY <1>3, <1>4, CountsAreNaturals
  <2> QED
    BY <2>1, <2>2, CountStays
<1> QED
  BY <1>7, <1>9, <1>10, <1>11, <1>12 DEF ServiceFacts

\* Outages, leases that pass, and steps that change nothing.
LEMMA EnvironmentKeeps ==
    ASSUME ServiceInv, [Next]_vars, UNCHANGED serviceVars,
           UNCHANGED <<heads, pc, job, durable, prepared, refusals>>
    PROVE  ServiceFacts'
<1> USE DEF ServiceInv
<1>1. UNCHANGED <<tpc, append, appends, requested>>
  BY DEF serviceVars
<1>2. AppendTypes'
  <2>1. \A u \in Threads : Appending(u)' => append'[u] \in AppendRequests /\ append'[u].faults <= faults'
    <3> SUFFICES ASSUME NEW u \in Threads, Appending(u)'
                 PROVE  append'[u] \in AppendRequests /\ append'[u].faults <= faults'
      OBVIOUS
    <3>1. append[u] \in AppendRequests /\ append[u].faults <= faults /\ append[u].faults \in Nat
      BY <1>1 DEF AppendTypes, Appending, AppendRequests
    <3> QED
      BY <1>1, <3>1, FaultsAreReached
  <2> QED
    BY <1>1, <2>1 DEF AppendTypes
<1>3. OneProposes' /\ HintsAreOld'
  BY <1>1 DEF OneProposes, HintsAreOld
<1>4. WritesAreAppends' /\ IdleIsClean'
  BY <1>1 DEF WritesAreAppends, IdleIsClean
<1>5. HeadsAreCounted'
  BY <1>1 DEF HeadsAreCounted, Waiting, Appending, Moved
<1> QED
  BY <1>2, <1>3, <1>4, <1>5 DEF ServiceFacts

\* The steps of ServiceNext, for the invariants below.
LEMMA ServiceNextInv == ServiceInv /\ [ServiceNext]_fullVars => ServiceInv'
<1> SUFFICES ASSUME ServiceInv, [ServiceNext]_fullVars PROVE ServiceInv'
  OBVIOUS
<1>1. [Next]_vars /\ WriteInv'
  BY AppendsAreWrites, NextInv DEF ServiceInv
<1>2. ASSUME NEW t \in Threads, ThreadStep(t) PROVE ServiceFacts'
  BY <1>2, ReadHeadKeeps, ProposeNextKeeps, WriteStepKeeps, ProposeReturnedKeeps DEF ThreadStep
<1>3. ASSUME NEW c \in Coordinators, NEW r \in Replicas,
             (SetUnavailable(c, r) \/ SetAvailable(c, r)) /\ UNCHANGED <<serviceVars, held>>
      PROVE  ServiceFacts'
  <2>1. UNCHANGED <<heads, pc, job, durable, prepared, refusals>>
    BY <1>3 DEF SetUnavailable, SetAvailable, writerVars
  <2> QED
    BY <1>1, <1>3, <2>1, EnvironmentKeeps
<1>4. ASSUME LeasePasses /\ UNCHANGED <<serviceVars, held>> PROVE ServiceFacts'
  <2>1. UNCHANGED <<heads, pc, job, durable, prepared, refusals>>
    BY <1>4 DEF LeasePasses, ExpireLease, writerVars
  <2> QED
    BY <1>1, <1>4, <2>1, EnvironmentKeeps
<1>5. ASSUME UNCHANGED fullVars PROVE ServiceFacts'
  <2>1. UNCHANGED serviceVars /\ UNCHANGED <<heads, pc, job, durable, prepared, refusals>>
    BY <1>5 DEF fullVars, serviceVars
  <2> QED
    BY <1>1, <2>1, EnvironmentKeeps
<1>6. ServiceFacts'
  BY <1>2, <1>3, <1>4, <1>5, StartAppendKeeps DEF ServiceNext
<1> QED
  BY <1>1, <1>6 DEF ServiceInv, ServiceFacts

LEMMA ServiceInvariance == ServiceSpec => []ServiceInv
BY ServiceInitInv, ServiceNextInv, PTL DEF ServiceSpec

\* The service's threads drive the write path only in ways Blackboard allows:
\* whatever was proved of propose() for any callers holds of the appends, that
\* is, what an append was told is durable, agrees and is never undone.
THEOREM AppendsUseTheWritePath ==
    ServiceSpec => Spec /\ []CommittedIsDurable /\ []CommittedAgreement /\ ImplementsRegister
<1>1. ServiceInit => Init
  BY DEF ServiceInit
<1>2. ServiceInv /\ [ServiceNext]_fullVars => [Next]_vars
  BY AppendsAreWrites
<1>3. ServiceSpec => Spec
  BY <1>1, <1>2, ServiceInvariance, PTL DEF ServiceSpec, Spec
<1> QED
  BY <1>3, CommittedWritesAreDurable, CommittedWritesAgree, WritesImplementRegister, PTL

\* However often appends are retried, lose races or fail half-way, the history
\* of a key never has more versions than appends were requested: no append is
\* ever written twice.
THEOREM AppendsWriteOnce ==
    ServiceSpec => [](\A r \in Replicas, k \in Keys : heads[r][k] <= requested)
<1>1. ServiceInv => \A r \in Replicas, k \in Keys : heads[r][k] <= requested
  <2> SUFFICES ASSUME ServiceInv, NEW r \in Replicas, NEW k \in Keys
               PROVE  heads[r][k] <= requested
    OBVIOUS
  <2>1. heads[r][k] \in Nat
    BY CountsAreNaturals DEF ServiceInv
  <2>2. {} \in SUBSET Waiting(r, k) /\ Cardinality({}) = 0
    BY FS_EmptySet
  <2>3. requested \in Nat
    BY ServiceAssumption DEF ServiceInv, AppendTypes
  <2> QED
    BY <2>1, <2>2, <2>3, CountStays
<1> QED
  BY <1>1, ServiceInvariance, PTL

-----------------------------------------------------------------------------
(* Appends that nothing disturbs.                                            *)
(*                                                                           *)
(* A calm append shares its coordinator with all that write: of the threads  *)
(* of one process, the retry loop's promise is kept.                         *)

\* All threads belong to one process.
OneProcess == \E c : Coordinators = {c}

\* The replicas can form a quorum.
QuorumReachable == QuorumSize <= Cardinality(Replicas)

\* t's append started in calm weather, and no fault has happened since.
Calm(t) == Appending(t) /\ append[t].weather = "calm" /\ append[t].faults = faults

\* The running write has staged its own record where it was told so.
CleanWrite(c) ==
    /\ \A p \in prepared[c] : p.id = job[c].id
    /\ pc[c] = "prepare" =>
          \A p \in prepared[c] :
              p.replica \notin todo[c] /\ \E row \in pending : row.replica = p.replica
    /\ pc[c] = "commit" => \A r \in todo[c] : \E row \in pending : row.replica = r

PreparedOn(c, r) == \E p \in prepared[c] : p.replica = r

LevelHeads(k) == \A r, q \in Replicas : heads[r][k] = heads[q][k]

\* All replicas answer the prepare alike: yes, or that it is too late.
Unanimous(c, k) ==
    \/ /\ \A r \in Replicas : heads[r][k] + 1 = job[c].version
       /\ \A r \in Replicas \ todo[c] : PreparedOn(c, r)
       /\ refusals[c] = {}
    \/ /\ \A r \in Replicas : job[c].version <= heads[r][k]
       /\ prepared[c] = {}
       /\ refusals[c] = IF todo[c] = Replicas THEN {} ELSE {"REJECT_STALE"}

\* All replicas prepared, and those the loop has come to have promoted.
Promoting(c, k) ==
    /\ \A r \in Replicas : PreparedOn(c, r)
    /\ durable[c] = Replicas \ todo[c]
    /\ \A r \in Replicas :
          IF r \in todo[c] THEN heads[r][k] + 1 = job[c].version ELSE heads[r][k] = job[c].version
    /\ pc[c] = "cleanup" => todo[c] = {}

\* The replicas stay level on k, but for a write of k that is being promoted.
Even(c, k) ==
    IF Running(c) /\ job[c].key = k
    THEN \/ pc[c] = "prepare" /\ LevelHeads(k) /\ Unanimous(c, k)
         \/ pc[c] \in {"commit", "cleanup"} /\ Promoting(c, k)
    ELSE LevelHeads(k)

\* Every lost round of an append was lost to a version that was appended to
\* its key after it began.
Lost(t) == append[t].base + append[t].tries
Progress(t) ==
    /\ tpc[t] = "head" => \A r \in Replicas : Lost(t) <= heads[r][append[t].key]
    /\ tpc[t] \in {"propose", "proposing"} => Lost(t) < append[t].version

CalmInv ==
    \A t \in Threads : Calm(t) =>
        /\ EveryoneAnswers
        /\ StagedIsOwned
        /\ \A c \in Coordinators : CleanWrite(c) /\ Even(c, append[t].key)
        /\ Progress(t)

LEMMA ReplicasExist == QuorumReachable => Replicas # {}
<1> SUFFICES ASSUME QuorumReachable, Replicas = {} PROVE FALSE
  OBVIOUS
<1>1. Cardinality(Replicas) = 0
  BY FS_EmptySet
<1> QED
  BY <1>1, QuorumAssumption DEF QuorumReachable

\* A record that every replica has staged wins.
LEMMA AllPreparedWins ==
    ASSUME WriteInv, QuorumReachable, NEW c \in Coordinators,
           \A p \in prepared[c] : p.id = job[c].id,
           \A r \in Replicas : PreparedOn(c, r)
    PROVE  Winning(c, job[c].id)
<1>1. prepared[c] \in SUBSET [replica : Replicas, id : Ids]
  BY DEF WriteInv, TypeOK
<1>2. Group(c, job[c].id) = prepared[c]
  BY DEF Group
<1>3. PICK f : f = [r \in Replicas |-> [replica |-> r, id |-> job[c].id]]
  OBVIOUS
<1>4. \A r \in Replicas : f[r] \in prepared[c]
  <2> SUFFICES ASSUME NEW r \in Replicas PROVE f[r] \in prepared[c]
    OBVIOUS
  <2>1. PICK p \in prepared[c] : p.replica = r
    BY DEF PreparedOn
  <2>2. p = [replica |-> r, id |-> job[c].id]
    BY <1>1, <2>1
  <2> QED
    BY <1>3, <2>2
<1>5. prepared[c] \subseteq {f[r] : r \in Replicas}
  BY <1>1, <1>3
<1>6. f \in Bijection(Replicas, prepared[c])
  <2>1. f \in [Replicas -> prepared[c]]
    BY <1>3, <1>4
  <2>2. \A r, q \in Replicas : f[r] = f[q] => r = q
    BY <1>3
  <2> QED
    BY <1>5, <2>1, <2>2 DEF Bijection, Injection, Surjection, IsInjective
<1>7. Cardinality(prepared[c]) = Cardinality(Replicas)
  BY <1>6, ReplicasAssumption, FS_Bijection DEF ExistsBijection
<1> QED
  BY <1>2, <1>7 DEF Winning, QuorumReachable

\* What the rows staged by a single process say.
LEMMA StagedByTheWrite ==
    ASSUME NEW c, Coordinators = {c}, StagedIsOwned, NEW row \in pending
    PROVE  /\ Running(c) /\ row.op = job[c].op /\ row.key = job[c].key
           /\ row.version = job[c].version /\ row.id = job[c].id
           /\ row \in Slot(pending, row.replica, job[c].key, job[c].version)
BY DEF StagedIsOwned, Owns, Slot

\* The fields of a running write.
LEMMA JobFields ==
    ASSUME WriteInv, NEW c \in Coordinators, Running(c)
    PROVE  job[c].key \in Keys /\ job[c].version \in Nat
<1>1. job[c] \in Jobs
  BY DEF WriteInv, JobsDistinct
<1>2. job[c].key \in Keys /\ job[c].version \in Versions
  BY <1>1 DEF Jobs
<1> QED
  BY <1>2, HeadsAreNaturals

\* The prepare loop of an undisturbed write.
LEMMA CalmPrepareAcked ==
    ASSUME WriteInv, NEW c \in Coordinators, NEW k \in Keys, NEW r \in Replicas,
           CleanWrite(c), Even(c, k), PrepareAcked(c, r), ~ Fault
    PROVE  CleanWrite(c)' /\ Even(c, k)'
<1> USE DEF WriteInv, TypeOK
<1>1. PICK id \in Ids :
          /\ Stages(c, id)
          /\ PrepareInsert(r, job[c].key, job[c].version, id, job[c].op)
          /\ prepared' = [prepared EXCEPT ![c] = @ \cup {[replica |-> r, id |-> id]}]
  BY DEF PrepareAcked
<1>2. id = job[c].id
  BY <1>1 DEF Stages
<1>3. /\ pc[c] = "prepare" /\ r \in todo[c] /\ pc' = pc /\ job' = job /\ refusals' = refusals
      /\ todo'[c] = todo[c] \ {r} /\ durable' = durable
      /\ prepared'[c] = prepared[c] \cup {[replica |-> r, id |-> id]}
  BY <1>1 DEF PrepareAcked, Calls
<1>4. PICK new : new = [replica |-> r, key |-> job[c].key, version |-> job[c].version,
                        id |-> id, op |-> job[c].op, lease |-> "live"]
  OBVIOUS
<1>5. /\ heads' = heads /\ new \in pending' /\ new.replica = r
      /\ \A row \in pending : row.replica # r => row \in pending'
  BY <1>1, <1>4 DEF PrepareInsert, Slot
<1>6. CleanWrite(c)'
  <2>1. \A p \in prepared'[c] : p.id = job'[c].id
    BY <1>2, <1>3 DEF CleanWrite
  <2>2. ASSUME NEW p \in prepared'[c]
        PROVE  p.replica \notin todo'[c] /\ \E row \in pending' : row.replica = p.replica
    <3>1. CASE p.replica = r
      BY <1>3, <1>5, <3>1
    <3>2. CASE p.replica # r
      <4>1. p \in prepared[c]
        BY <1>3, <3>2
      <4>2. PICK row \in pending : row.replica = p.replica /\ p.replica \notin todo[c]
        BY <1>3, <4>1 DEF CleanWrite
      <4> QED
        BY <1>3, <1>5, <3>2, <4>2
    <3> QED
      BY <3>1, <3>2
  <2> QED
    BY <1>3, <2>1, <2>2 DEF CleanWrite
<1>7. Even(c, k)'
  <2>1. CASE job[c].key # k
    BY <1>3, <1>5, <2>1 DEF Even, LevelHeads, Running
  <2>2. CASE job[c].key = k
    <3>1. LevelHeads(k) /\ Unanimous(c, k)
      BY <1>3, <2>2 DEF Even, Running
    <3>2. heads[r][k] \in Nat /\ job[c].version \in Nat
      BY <1>3, CountsAreNaturals, JobFields DEF Running
    <3>3. job[c].version = heads[r][k] + 1
      <4>1. PrepareOutcome(r, k, job[c].version, id) = "PREPARED"
        BY <1>1, <2>2 DEF PrepareInsert
      <4>2. ~ (job[c].version <= heads[r][k])
        BY <3>2, <4>1 DEF PrepareOutcome
      <4>3. ~ (job[c].version > heads[r][k] + 1)
        BY <3>2, <4>1 DEF PrepareOutcome
      <4>4. \A v, h \in Nat : ~ (v <= h) /\ ~ (v > h + 1) => v = h + 1
        OBVIOUS
      <4> QED
        BY <3>2, <4>2, <4>3, <4>4
    <3>4. ~ (job[c].version <= heads[r][k])
      BY <3>2, <3>3
    <3>5. /\ \A q \in Replicas : heads[q][k] + 1 = job[c].version
          /\ \A q \in Replicas \ todo[c] : PreparedOn(c, q)
          /\ refusals[c] = {}
      BY <3>1, <3>4 DEF Unanimous
    <3>6. \A q \in Replicas \ todo'[c] : PreparedOn(c, q)'
      <4> SUFFICES ASSUME NEW q \in Replicas \ todo'[c] PROVE PreparedOn(c, q)'
        OBVIOUS
      <4>1. CASE q = r
        <5>1. [replica |-> r, id |-> id] \in prepared'[c] /\ [replica |-> r, id |-> id].replica = r
          BY <1>3
        <5> QED
          BY <4>1, <5>1 DEF PreparedOn
      <4>2. CASE q # r
        BY <1>3, <3>5, <4>2 DEF PreparedOn
      <4> QED
        BY <4>1, <4>2
    <3>7. Unanimous(c, k)'
      BY <1>3, <1>5, <3>5, <3>6 DEF Unanimous
    <3> QED
      BY <1>3, <1>5, <2>2, <3>1, <3>7 DEF Even, LevelHeads, Running
  <2> QED
    BY <2>1, <2>2
<1> QED
  BY <1>6, <1>7

LEMMA CalmPrepareRefused ==
    ASSUME WriteInv, NEW c, Coordinators = {c}, NEW k \in Keys, NEW r \in Replicas,
           EveryoneAnswers, StagedIsOwned, CleanWrite(c), Even(c, k), PrepareRefused(c, r), ~ Fault
    PROVE  CleanWrite(c)' /\ Even(c, k)'
<1> USE DEF WriteInv, TypeOK
<1>1. Responsive(c, r)
  BY DEF EveryoneAnswers
<1>2. PICK id \in Ids :
          /\ Stages(c, id)
          /\ PrepareOutcome(r, job[c].key, job[c].version, id) # "PREPARED"
          /\ refusals' = [refusals EXCEPT ![c] = @ \cup
                {PrepareStatus(PrepareOutcome(r, job[c].key, job[c].version, id))}]
  BY <1>1 DEF PrepareRefused
<1>3. id = job[c].id
  BY <1>2 DEF Stages
<1>4. /\ pc[c] = "prepare" /\ r \in todo[c] /\ UNCHANGED <<heads, pending, pc, job, prepared, durable>>
      /\ todo'[c] = todo[c] \ {r}
      /\ refusals'[c] = refusals[c] \cup
            {PrepareStatus(PrepareOutcome(r, job[c].key, job[c].version, id))}
  BY <1>2 DEF PrepareRefused, Calls
<1>5. CleanWrite(c)'
  BY <1>4 DEF CleanWrite
<1>6. CASE job[c].key # k
  <2>1. Even(c, k)'
    BY <1>4, <1>6 DEF Even, LevelHeads, Running
  <2> QED
    BY <1>5, <2>1
<1>7. CASE job[c].key = k
  <2>1. LevelHeads(k) /\ Unanimous(c, k)
    BY <1>4, <1>7 DEF Even, Running
  <2>2. heads[r][k] \in Nat /\ job[c].version \in Nat
    BY <1>4, CountsAreNaturals, JobFields DEF Running
  <2>3. heads[r][k] + 1 # job[c].version
    <3> SUFFICES ASSUME heads[r][k] + 1 = job[c].version PROVE FALSE
      OBVIOUS
    <3>1. \A row \in Slot(pending, r, k, job[c].version) : row.id = id
      BY <1>3, StagedByTheWrite DEF Slot
    <3>2. PrepareOutcome(r, k, job[c].version, id) = "PREPARED"
      BY <2>2, <3>1 DEF PrepareOutcome
    <3> QED
      BY <1>2, <1>7, <3>2
  <2>4. /\ \A q \in Replicas : job[c].version <= heads[q][k]
        /\ prepared[c] = {}
        /\ refusals[c] = IF todo[c] = Replicas THEN {} ELSE {"REJECT_STALE"}
    BY <2>1, <2>3 DEF Unanimous
  <2>5. PrepareStatus(PrepareOutcome(r, job[c].key, job[c].version, id)) = "REJECT_STALE"
    BY <1>7, <2>2, <2>4 DEF PrepareOutcome, PrepareStatus
  <2>6. refusals'[c] = {"REJECT_STALE"} /\ todo'[c] # Replicas
    BY <1>4, <2>4, <2>5
  <2>7. Unanimous(c, k)'
    BY <1>4, <2>4, <2>6 DEF Unanimous
  <2>8. Even(c, k)'
    BY <1>4, <1>7, <2>1, <2>7 DEF Even, LevelHeads, Running
  <2> QED
    BY <1>5, <2>8
<1> QED
  BY <1>6, <1>7

\* Enter the commit loop, or the loop that aborts.
LEMMA CalmDecide ==
    ASSUME WriteInv, QuorumReachable, NEW c \in Coordinators, NEW k \in Keys,
           CleanWrite(c), Even(c, k), Decide(c)
    PROVE  CleanWrite(c)' /\ Even(c, k)'
<1> USE DEF WriteInv, TypeOK
<1>1. /\ pc[c] = "prepare" /\ todo[c] = {} /\ prepared[c] # {}
      /\ UNCHANGED <<heads, pending, job, prepared, refusals, durable>>
      /\ pc'[c] = IF QuorumMet(c) THEN "commit" ELSE "abort"
      /\ todo'[c] = {p.replica : p \in prepared[c]}
  BY DEF Decide
<1>2. CleanWrite(c)'
  <2>1. \A p \in prepared'[c] : p.id = job'[c].id
    BY <1>1 DEF CleanWrite
  <2>2. pc'[c] # "prepare"
    BY <1>1
  <2>3. \A p \in prepared[c] : \E row \in pending : row.replica = p.replica
    BY <1>1 DEF CleanWrite
  <2>4. \A r \in todo'[c] : \E row \in pending' : row.replica = r
    BY <1>1, <2>3
  <2> QED
    BY <2>1, <2>2, <2>4 DEF CleanWrite
<1>3. CASE job[c].key # k
  <2>1. Even(c, k)'
    BY <1>1, <1>3 DEF Even, LevelHeads, Running
  <2> QED
    BY <1>2, <2>1
<1>4. CASE job[c].key = k
  <2>1. Unanimous(c, k)
    BY <1>1, <1>4 DEF Even, Running
  <2>2. /\ \A q \in Replicas : heads[q][k] + 1 = job[c].version
        /\ \A q \in Replicas : PreparedOn(c, q)
    BY <1>1, <2>1 DEF Unanimous
  <2>3. \A p \in prepared[c] : p.id = job[c].id
    BY DEF CleanWrite
  <2>4. QuorumMet(c)
    BY <1>1, <2>2, <2>3, AllPreparedWins DEF QuorumMet
  <2>5. durable[c] = {} /\ todo'[c] = Replicas
    <3>1. durable[c] = {}
      BY <1>1 DEF DurableRows
    <3>2. todo'[c] \subseteq Replicas
      BY <1>1
    <3>3. Replicas \subseteq todo'[c]
      BY <1>1, <2>2 DEF PreparedOn
    <3> QED
      BY <3>1, <3>2, <3>3
  <2>6. Promoting(c, k)'
    BY <1>1, <2>2, <2>4, <2>5 DEF Promoting, PreparedOn
  <2>7. Even(c, k)'
    BY <1>1, <1>4, <2>4, <2>6 DEF Even, Running
  <2> QED
    BY <1>2, <2>7
<1> QED
  BY <1>3, <1>4

\* The commit loop promotes what was staged.
LEMMA CalmCommitAcked ==
    ASSUME WriteInv, NEW c \in Coordinators, NEW k \in Keys, NEW r \in Replicas,
           CleanWrite(c), Even(c, k), CommitAcked(c, r)
    PROVE  CleanWrite(c)' /\ Even(c, k)'
<1> USE DEF WriteInv, TypeOK
<1>1. /\ pc[c] = "commit" /\ r \in todo[c] /\ pc' = pc /\ job' = job /\ prepared' = prepared
      /\ todo'[c] = todo[c] \ {r} /\ durable'[c] = durable[c] \cup {r}
      /\ CommitPromote(r, job[c].key, job[c].version, job[c].id, job[c].op)
  BY DEF CommitAcked, Calls
<1>2. /\ heads' = [heads EXCEPT ![r][job[c].key] = job[c].version]
      /\ \A row \in pending : row.replica # r => row \in pending'
  BY <1>1 DEF CommitPromote, AppendCommitted, Slot
<1>3. heads \in [Replicas -> [Keys -> Versions \cup {0}]]
  BY DEF StoreTypeOK
<1>4. CleanWrite(c)'
  <2>1. \A p \in prepared'[c] : p.id = job'[c].id
    BY <1>1 DEF CleanWrite
  <2>2. \A q \in todo'[c] : \E row \in pending' : row.replica = q
    BY <1>1, <1>2 DEF CleanWrite
  <2> QED
    BY <1>1, <2>1, <2>2 DEF CleanWrite
<1>5. Even(c, k)'
  <2>1. CASE job[c].key # k
    <3>1. \A q \in Replicas : heads'[q][k] = heads[q][k]
      BY <1>2, <1>3, <2>1
    <3> QED
      BY <1>1, <2>1, <3>1 DEF Even, LevelHeads, Running
  <2>2. CASE job[c].key = k
    <3>1. Promoting(c, k)
      BY <1>1, <2>2 DEF Even, Running
    <3>2. \A q \in Replicas : heads'[q][k] = IF q = r THEN job[c].version ELSE heads[q][k]
      BY <1>2, <1>3, <2>2
    <3>3. durable'[c] = Replicas \ todo'[c]
      BY <1>1, <3>1 DEF Promoting
    <3>4. \A q \in Replicas : PreparedOn(c, q)'
      BY <1>1, <3>1 DEF Promoting, PreparedOn
    <3>5. \A q \in Replicas : IF q \in todo'[c] THEN heads'[q][k] + 1 = job'[c].version
                              ELSE heads'[q][k] = job'[c].version
      BY <1>1, <3>1, <3>2 DEF Promoting
    <3>6. Promoting(c, k)'
      BY <1>1, <3>3, <3>4, <3>5 DEF Promoting
    <3> QED
      BY <1>1, <2>2, <3>6 DEF Even, Running
  <2> QED
    BY <2>1, <2>2
<1> QED
  BY <1>4, <1>5

\* No commit is missed.
LEMMA CalmCommitMissed ==
    ASSUME WriteInv, NEW c, Coordinators = {c}, NEW r \in Replicas,
           EveryoneAnswers, StagedIsOwned, CleanWrite(c), CommitMissed(c, r), ~ Fault
    PROVE  FALSE
<1>1. /\ pc[c] = "commit" /\ r \in todo[c] /\ Responsive(c, r)
      /\ PromoteOutcome(r, job[c].key, job[c].version, job[c].id, job[c].op) # "COMMITTED"
  BY DEF CommitMissed, Calls, EveryoneAnswers
<1>2. PICK row \in pending : row.replica = r
  BY <1>1 DEF CleanWrite
<1>3. /\ row.op = job[c].op /\ row.id = job[c].id
      /\ row \in Slot(pending, r, job[c].key, job[c].version)
      /\ row.key = job[c].key /\ row.version = job[c].version
  BY <1>2, StagedByTheWrite
<1>4. job[c].version = heads[r][job[c].key] + 1
  BY <1>2, <1>3 DEF WriteInv, StoreInv, StagedNextToHead
<1> QED
  BY <1>1, <1>3, <1>4 DEF PromoteOutcome

\* Aborts leave the heads, and the rows of other replicas.
LEMMA CalmAbort ==
    ASSUME WriteInv, QuorumReachable, NEW c \in Coordinators, NEW k \in Keys, NEW r \in Replicas,
           CleanWrite(c), Even(c, k), AbortLoser(c, r) \/ AbortReplica(c, r)
    PROVE  CleanWrite(c)' /\ Even(c, k)'
<1> USE DEF WriteInv, TypeOK
<1>1. /\ pc[c] \in {"commit", "abort", "cleanup"} /\ r \in todo[c]
      /\ UNCHANGED <<heads, pc, job, prepared, refusals, durable>>
      /\ todo'[c] = todo[c] \ {r} /\ AbortCall(c, r)
  BY DEF AbortLoser, AbortReplica, AbortCall, AbortPending, Calls
<1>2. \A row \in pending : row.replica # r => row \in pending'
  BY <1>1 DEF AbortCall, AbortPending, Slot
<1>3. CleanWrite(c)'
  <2>1. \A p \in prepared'[c] : p.id = job'[c].id
    BY <1>1 DEF CleanWrite
  <2>2. pc'[c] = "commit" => \A q \in todo'[c] : \E row \in pending' : row.replica = q
    BY <1>1, <1>2 DEF CleanWrite
  <2> QED
    BY <1>1, <2>1, <2>2 DEF CleanWrite
<1>4. job[c].key # k
  <2> SUFFICES ASSUME job[c].key = k PROVE FALSE
    OBVIOUS
  <2>1. pc[c] \in {"commit", "cleanup"} /\ Promoting(c, k)
    BY <1>1 DEF Even, Running
  <2>2. pc[c] = "commit" /\ AbortLoser(c, r)
    BY <1>1, <2>1 DEF Promoting, AbortReplica
  <2>3. \A q \in Replicas : PreparedOn(c, q)
    BY <2>1 DEF Promoting
  <2>4. \A p \in prepared[c] : p.id = job[c].id
    BY DEF CleanWrite
  <2>5. Winning(c, job[c].id)
    BY <2>3, <2>4, AllPreparedWins
  <2>6. PICK p \in prepared[c] : p.replica = r
    BY <2>3 DEF PreparedOn
  <2> QED
    BY <2>2, <2>4, <2>5, <2>6 DEF AbortLoser
<1>5. Even(c, k)'
  BY <1>1, <1>4 DEF Even, LevelHeads, Running
<1> QED
  BY <1>3, <1>5

LEMMA CalmStartCleanup ==
    ASSUME WriteInv, NEW c \in Coordinators, NEW k \in Keys,
           CleanWrite(c), Even(c, k), StartCleanup(c)
    PROVE  CleanWrite(c)' /\ Even(c, k)'
<1> USE DEF WriteInv, TypeOK
<1>1. /\ pc[c] = "commit" /\ todo[c] = {} /\ pc'[c] = "cleanup"
      /\ UNCHANGED <<heads, pending, job, prepared, refusals, durable>>
      /\ todo'[c] = Replicas \ {p.replica : p \in prepared[c]}
  BY DEF StartCleanup
<1>2. CleanWrite(c)'
  BY <1>1 DEF CleanWrite
<1>3. CASE job[c].key # k
  <2>1. Even(c, k)'
    BY <1>1, <1>3 DEF Even, LevelHeads, Running
  <2> QED
    BY <1>2, <2>1
<1>4. CASE job[c].key = k
  <2>1. Promoting(c, k)
    BY <1>1, <1>4 DEF Even, Running
  <2>2. todo'[c] = {}
    BY <1>1, <2>1 DEF Promoting, PreparedOn
  <2>3. Promoting(c, k)'
    BY <1>1, <2>1, <2>2 DEF Promoting, PreparedOn
  <2>4. Even(c, k)'
    BY <1>1, <1>4, <2>3 DEF Even, Running
  <2> QED
    BY <1>2, <2>4
<1> QED
  BY <1>3, <1>4

\* Every replica call of an undisturbed write leaves it undisturbed.
LEMMA CalmWriteStep ==
    ASSUME WriteInv, QuorumReachable, NEW c, Coordinators = {c}, NEW k \in Keys,
           EveryoneAnswers, StagedIsOwned, CleanWrite(c), Even(c, k), WriteStep(c), ~ Fault
    PROVE  CleanWrite(c)' /\ Even(c, k)'
<1>1. c \in Coordinators
  OBVIOUS
<1>2. CASE Decide(c) \/ StartCleanup(c)
  BY <1>1, <1>2, CalmDecide, CalmStartCleanup
<1>3. ASSUME NEW r \in Replicas, PrepareAcked(c, r) \/ PrepareRefused(c, r)
      PROVE  CleanWrite(c)' /\ Even(c, k)'
  BY <1>1, <1>3, CalmPrepareAcked, CalmPrepareRefused
<1>4. ASSUME NEW r \in Replicas,
             CommitAcked(c, r) \/ CommitMissed(c, r) \/ AbortLoser(c, r) \/ AbortReplica(c, r)
      PROVE  CleanWrite(c)' /\ Even(c, k)'
  BY <1>1, <1>4, CalmCommitAcked, CalmCommitMissed, CalmAbort
<1> QED
  BY <1>2, <1>3, <1>4 DEF WriteStep

\* A proposal that starts or returns leaves the replicas level.
LEMMA CalmPropose ==
    ASSUME ServiceInv, QuorumReachable, NEW t \in Threads, NEW k \in Keys,
           Even(Owner[t], k), ProposeNext(t)
    PROVE  CleanWrite(Owner[t])' /\ Even(Owner[t], k)'
<1> USE DEF ServiceInv
<1>1. PICK c \in Coordinators : c = Owner[t]
  BY ServiceAssumption
<1>2. PICK op : job' = [job EXCEPT ![c] = [op |-> op, key |-> append[t].key,
                                           version |-> append[t].version, id |-> append[t].id]]
  BY <1>1 DEF ProposeNext
<1>3. /\ tpc[t] = "propose" /\ pc[c] = "idle" /\ UNCHANGED <<heads, prepared, refusals>>
      /\ pc' = [pc EXCEPT ![c] = "prepare"] /\ todo' = [todo EXCEPT ![c] = Replicas]
  BY <1>1 DEF ProposeNext
<1>4. /\ pc'[c] = "prepare" /\ todo'[c] = Replicas /\ prepared'[c] = {} /\ refusals'[c] = {}
      /\ job'[c].key = append[t].key /\ job'[c].version = append[t].version
  BY <1>2, <1>3 DEF IdleIsClean, WriteInv, TypeOK
<1>5. CleanWrite(c)'
  BY <1>4 DEF CleanWrite
<1>6. LevelHeads(k)
  BY <1>1, <1>3 DEF Even, Running
<1>7. CASE append[t].key # k
  <2>1. Even(c, k)'
    BY <1>3, <1>4, <1>6, <1>7 DEF Even, LevelHeads
  <2> QED
    BY <1>1, <1>5, <2>1
<1>8. CASE append[t].key = k
  <2>1. \A r \in Replicas : heads[r][k] \in Nat
    BY CountsAreNaturals
  <2>2. append[t].version \in Nat
    BY <1>3 DEF AppendTypes, Appending, AppendRequests
  <2>3. \A r \in Replicas : append[t].version <= heads[r][k] + 1
    <3> SUFFICES ASSUME NEW r \in Replicas PROVE append[t].version <= heads[r][k] + 1
      OBVIOUS
    <3>1. \A q \in Replicas : heads[q][k] <= heads[r][k]
      BY <1>6, <2>1 DEF LevelHeads
    <3> QED
      BY <1>3, <1>8, <2>1, <3>1 DEF HintsAreOld
  <2>4. \/ \A r \in Replicas : heads[r][k] + 1 = append[t].version
        \/ \A r \in Replicas : append[t].version <= heads[r][k]
    <3> SUFFICES ASSUME NEW q \in Replicas, ~ (append[t].version <= heads[q][k]),
                        NEW r \in Replicas
                 PROVE  heads[r][k] + 1 = append[t].version
      OBVIOUS
    <3>1. heads[r][k] = heads[q][k]
      BY <1>6 DEF LevelHeads
    <3>2. \A v, h \in Nat : v <= h + 1 /\ ~ (v <= h) => h + 1 = v
      OBVIOUS
    <3> QED
      BY <2>1, <2>2, <2>3, <3>1, <3>2
  <2>5. Unanimous(c, k)'
    BY <1>3, <1>4, <2>4 DEF Unanimous
  <2>6. Even(c, k)'
    BY <1>3, <1>4, <1>6, <1>8, <2>5 DEF Even, LevelHeads, Running
  <2> QED
    BY <1>1, <1>5, <2>6
<1> QED
  BY <1>7, <1>8

LEMMA CalmReturn ==
    ASSUME WriteInv, NEW c \in Coordinators, NEW k \in Keys, Even(c, k), RejectAll(c) \/ Finish(c)
    PROVE  CleanWrite(c)' /\ Even(c, k)'
<1>1. /\ heads' = heads /\ pc[c] # "idle" /\ pc'[c] = "idle" /\ prepared'[c] = {} /\ todo[c] = {}
      /\ pc[c] \in {"prepare", "abort", "cleanup"}
  BY ReturnShape DEF RejectAll, Finish
<1>2. CleanWrite(c)'
  BY <1>1 DEF CleanWrite
<1>3. LevelHeads(k)
  <2>1. CASE ~ (Running(c) /\ job[c].key = k) \/ pc[c] = "prepare"
    BY <2>1 DEF Even
  <2>2. CASE Running(c) /\ job[c].key = k /\ pc[c] # "prepare"
    <3>1. Promoting(c, k)
      BY <2>2 DEF Even
    <3> QED
      BY <1>1, <3>1 DEF Promoting, LevelHeads
  <2> QED
    BY <2>1, <2>2
<1>4. Even(c, k)'
  BY <1>1, <1>3 DEF Even, LevelHeads, Running
<1> QED
  BY <1>2, <1>4

\* A calm append was calm before, unless it has just started.
LEMMA CalmBefore ==
    ASSUME ServiceInv, [Next]_vars, NEW t \in Threads, Calm(t)', Appending(t),
           append'[t].weather = append[t].weather, append'[t].faults = append[t].faults
    PROVE  Calm(t) /\ ~ Fault
<1>1. append[t].faults <= faults /\ append[t].faults \in Nat
  BY DEF ServiceInv, AppendTypes, AppendRequests
<1>2. append[t].faults = faults'
  BY DEF Calm
<1>3. faults \in Nat /\ (faults' = faults \/ (Fault /\ faults' = faults + 1))
  BY CountsAreNaturals, FaultsGrow DEF ServiceInv
<1>4. faults' = faults
  BY <1>1, <1>2, <1>3
<1>5. ~ Fault
  BY <1>3, <1>4 DEF Fault
<1> QED
  BY <1>2, <1>4, <1>5 DEF Calm

\* A calm process stays calm, whichever thread or replica moves.
LEMMA CalmWorld ==
    ASSUME ServiceInv, NEW c, Coordinators = {c}, QuorumReachable, NEW k \in Keys,
           [ServiceNext]_fullVars, ~ Fault,
           EveryoneAnswers, StagedIsOwned, CleanWrite(c), Even(c, k)
    PROVE  EveryoneAnswers' /\ StagedIsOwned' /\ CleanWrite(c)' /\ Even(c, k)'
<1>1. [Next]_vars /\ WriteInv /\ c \in Coordinators
  BY AppendsAreWrites DEF ServiceInv
<1>2. EveryoneAnswers' /\ StagedIsOwned'
  BY <1>1, ReplicasStayResponsive, OwnersStay
<1>3. \A t \in Threads : Owner[t] = c
  BY ServiceAssumption
<1>4. ASSUME UNCHANGED <<heads, pending, pc, job, todo, prepared, refusals, durable>>
      PROVE  CleanWrite(c)' /\ Even(c, k)'
  <2>1. CleanWrite(c)'
    BY <1>4 DEF CleanWrite
  <2>2. (Promoting(c, k) => Promoting(c, k)') /\ (Unanimous(c, k) => Unanimous(c, k)')
    BY <1>4 DEF Promoting, Unanimous, PreparedOn
  <2>3. Even(c, k)'
    BY <1>4, <2>2 DEF Even, LevelHeads, Running
  <2> QED
    BY <2>1, <2>3
<1>5. ASSUME NEW t \in Threads, StartAppend(t) \/ ReadHead(t)
      PROVE  CleanWrite(c)' /\ Even(c, k)'
  BY <1>4, <1>5 DEF StartAppend, ReadHead, vars
<1>6. ASSUME NEW t \in Threads, ProposeNext(t)
      PROVE  CleanWrite(c)' /\ Even(c, k)'
  BY <1>3, <1>6, CalmPropose
<1>7. ASSUME NEW t \in Threads, WriteStep(Owner[t])
      PROVE  CleanWrite(c)' /\ Even(c, k)'
  BY <1>1, <1>3, <1>7, CalmWriteStep
<1>8. ASSUME NEW t \in Threads, ProposeReturned(t)
      PROVE  CleanWrite(c)' /\ Even(c, k)'
  <2>1. RejectAll(c) \/ Finish(c)
    BY <1>3, <1>8 DEF ProposeReturned
  <2> QED
    BY <1>1, <2>1, CalmReturn
<1>9. ASSUME NEW d \in Coordinators, NEW r \in Replicas, SetUnavailable(d, r) \/ SetAvailable(d, r)
      PROVE  CleanWrite(c)' /\ Even(c, k)'
  BY <1>4, <1>9 DEF SetUnavailable, SetAvailable, writerVars
<1>10. ASSUME LeasePasses
       PROVE  CleanWrite(c)' /\ Even(c, k)'
  <2>1. UNCHANGED <<heads, pc, job, todo, prepared, refusals, durable>>
    BY <1>10 DEF LeasePasses, ExpireLease, writerVars
  <2>2. PICK old \in pending :
            pending' = (pending \ {old}) \cup {[old EXCEPT !.lease = "expired"]}
    BY <1>10 DEF LeasePasses, ExpireLease
  <2>3. [old EXCEPT !.lease = "expired"].replica = old.replica
    BY <1>1 DEF WriteInv, StoreInv, StoreTypeOK, PendingRows
  <2>4. \A r : (\E row \in pending : row.replica = r) => \E row \in pending' : row.replica = r
    BY <2>2, <2>3
  <2>5. CleanWrite(c)'
    BY <2>1, <2>4 DEF CleanWrite
  <2>6. (Promoting(c, k) => Promoting(c, k)') /\ (Unanimous(c, k) => Unanimous(c, k)')
    BY <2>1 DEF Promoting, Unanimous, PreparedOn
  <2>7. Even(c, k)'
    BY <2>1, <2>6 DEF Even, LevelHeads, Running
  <2> QED
    BY <2>5, <2>7
<1>11. ASSUME UNCHANGED fullVars
       PROVE  CleanWrite(c)' /\ Even(c, k)'
  BY <1>4, <1>11 DEF fullVars
<1> QED
  BY <1>2, <1>5, <1>6, <1>7, <1>8, <1>9, <1>10, <1>11 DEF ServiceNext, ThreadStep

\* An undisturbed proposal that is refused is refused by all replicas, as
\* stale: somebody else has appended the version.
LEMMA CalmRejected ==
    ASSUME ServiceInv, QuorumReachable, NEW t \in Threads, tpc[t] = "proposing",
           Even(Owner[t], append[t].key), RejectAll(Owner[t])
    PROVE  /\ \A r \in Replicas : append[t].version <= heads[r][append[t].key]
           /\ refusals[Owner[t]] = {"REJECT_STALE"}
<1> USE DEF ServiceInv
<1>1. PICK c \in Coordinators : c = Owner[t]
  BY ServiceAssumption
<1>2. pc[c] = "prepare" /\ todo[c] = {} /\ prepared[c] = {}
  BY <1>1 DEF RejectAll
<1>3. job[c].key = append[t].key /\ job[c].version = append[t].version
  BY <1>1 DEF OneProposes
<1>4. Unanimous(c, append[t].key)
  BY <1>1, <1>2, <1>3 DEF Even, Running
<1>5. Replicas # {}
  BY ReplicasExist
<1>6. ~ \A r \in Replicas \ todo[c] : PreparedOn(c, r)
  BY <1>2, <1>5 DEF PreparedOn
<1> QED
  BY <1>1, <1>2, <1>3, <1>4, <1>5, <1>6 DEF Unanimous

LEMMA CalmInit == ServiceInit => CalmInv
BY DEF ServiceInit, CalmInv, Calm, Appending

\* The step leaves the append of t as it is, but may start its proposal.
Waits(t) ==
    /\ append'[t] = append[t]
    /\ tpc'[t] = tpc[t] \/ (tpc[t] = "propose" /\ tpc'[t] = "proposing")

\* A head that an append has seen lost rounds for only moves on.
LEMMA ProgressStays ==
    ASSUME ServiceInv, [Next]_vars, NEW t \in Threads, Appending(t), Progress(t),
           Waits(t)
    PROVE  Progress(t)'
<1> USE DEF Waits
<1>1. Lost(t) \in Nat /\ append[t].key \in Keys /\ Lost(t)' = Lost(t)
  BY DEF ServiceInv, AppendTypes, AppendRequests, Lost
<1>2. CASE tpc'[t] = "head"
  <2> SUFFICES ASSUME NEW r \in Replicas PROVE Lost(t) <= heads'[r][append[t].key]
    BY <1>1, <1>2 DEF Progress
  <2>1. heads[r][append[t].key] \in Nat
    BY <1>1, CountsAreNaturals DEF ServiceInv
  <2>2. heads'[r][append[t].key] \in {heads[r][append[t].key], heads[r][append[t].key] + 1}
    BY <1>1, HeadsGrow DEF ServiceInv
  <2>3. Lost(t) <= heads[r][append[t].key]
    BY <1>2 DEF Progress
  <2> QED
    BY <1>1, <2>1, <2>2, <2>3
<1>3. CASE tpc'[t] # "head"
  BY <1>1, <1>3 DEF Progress
<1> QED
  BY <1>2, <1>3

\* The fields of an append that its steps leave alone.
LEMMA AppendGoesOn ==
    ASSUME ServiceInv, QuorumReachable, [ServiceNext]_fullVars, NEW t \in Threads,
           Appending(t), Appending(t)',
           Even(Owner[t], append[t].key), EveryoneAnswers, Progress(t)
    PROVE  Progress(t)'
<1> USE DEF ServiceInv
<1>1. PICK c \in Coordinators : c = Owner[t]
  BY ServiceAssumption
<1>2. [Next]_vars
  BY AppendsAreWrites
<1>3. /\ append \in [Threads -> AppendRequests \cup {None}]
      /\ tpc \in [Threads -> {"idle", "head", "propose", "proposing"}]
      /\ append[t] \in AppendRequests /\ append[t].key \in Keys
      /\ append[t].tries \in Nat /\ append[t].version \in Nat /\ append[t].base \in Nat
      /\ Lost(t) \in Nat
  BY DEF AppendTypes, AppendRequests, Lost
<1>4. \A r \in Replicas : heads[r][append[t].key] \in Nat
  BY <1>3, CountsAreNaturals
<1>5. CASE Waits(t)
  BY <1>2, <1>5, ProgressStays
<1>6. CASE ReadHead(t)
  <2>1. \A r \in Replicas : Lost(t) <= heads[r][append[t].key]
    BY <1>6 DEF ReadHead, Progress
  <2>2. PICK r \in Replicas : HeadVersion(c, append[t].key) = heads[r][append[t].key]
    BY <1>3, ReplicasExist, HeadVersionIsAHead DEF EveryoneAnswers
  <2>3. PICK v : v = heads[r][append[t].key] + 1
    OBVIOUS
  <2>4. append' = [append EXCEPT ![t].version = v] /\ tpc'[t] = "propose"
    BY <1>1, <1>3, <1>6, <2>2, <2>3 DEF ReadHead
  <2>5. append'[t].version = v /\ Lost(t)' = Lost(t)
    BY <1>3, <2>4 DEF AppendRequests, Lost
  <2>6. Lost(t) < v
    BY <1>3, <1>4, <2>1, <2>3
  <2> QED
    BY <2>4, <2>5, <2>6 DEF Progress
<1>7. CASE ProposeReturned(t)
  <2>1. PICK w \in results' \ results : Retries(t, w.outcome) /\ tpc'[t] = "head"
                /\ append'[t] = [append[t] EXCEPT !.tries = @ + 1, !.version = 0]
    BY <1>7, ReturnedThread DEF Appending
  <2>2. tpc[t] = "proposing" /\ (RejectAll(c) \/ Finish(c))
    BY <1>1, <1>7 DEF ProposeReturned
  <2>3. pc[c] = "prepare"
    BY <2>1, <2>2, ReturnShape DEF Retries
  <2>4. RejectAll(c)
    BY <2>2, <2>3 DEF Finish
  <2>5. heads' = heads
    BY <2>4 DEF RejectAll
  <2>6. \A r \in Replicas : append[t].version <= heads[r][append[t].key]
    BY <1>1, <2>2, <2>4, CalmRejected
  <2>7. Lost(t)' = Lost(t) + 1 /\ append'[t].key = append[t].key
    <3>1. /\ append'[t].tries = append[t].tries + 1 /\ append'[t].key = append[t].key
          /\ append'[t].base = append[t].base
      BY <1>3, <2>1 DEF AppendRequests
    <3> QED
      BY <1>3, <3>1 DEF Lost
  <2>8. Lost(t) < append[t].version
    BY <2>2 DEF Progress
  <2>9. \A r \in Replicas : Lost(t) + 1 <= heads[r][append[t].key]
    <3> SUFFICES ASSUME NEW r \in Replicas PROVE Lost(t) + 1 <= heads[r][append[t].key]
      OBVIOUS
    <3>1. \A n, v, h \in Nat : n < v /\ v <= h => n + 1 <= h
      OBVIOUS
    <3> QED
      BY <1>3, <1>4, <2>6, <2>8, <3>1
  <2> QED
    BY <2>1, <2>5, <2>7, <2>9 DEF Progress
<1>8. ASSUME NEW u \in Threads, StartAppend(u) \/ ThreadStep(u)
      PROVE  Waits(t) \/ ReadHead(t) \/ ProposeReturned(t)
  <2>1. ASSUME StartAppend(u) PROVE Waits(t)
    BY <1>3, <2>1 DEF StartAppend, Appending, Waits
  <2>2. ASSUME ReadHead(u), u # t PROVE Waits(t)
    BY <1>3, <2>2 DEF ReadHead, Waits
  <2>3. ASSUME ProposeNext(u) PROVE Waits(t)
    BY <1>3, <2>3 DEF ProposeNext, Waits
  <2>4. ASSUME UNCHANGED serviceVars PROVE Waits(t)
    BY <2>4 DEF serviceVars, Waits
  <2>5. ASSUME ProposeReturned(u), u # t PROVE Waits(t)
    BY <2>5, ReturnedThread DEF Waits
  <2> QED
    BY <1>8, <2>1, <2>2, <2>3, <2>4, <2>5 DEF ThreadStep
<1>9. ASSUME UNCHANGED serviceVars \/ UNCHANGED fullVars
      PROVE  Waits(t)
  BY <1>9 DEF serviceVars, fullVars, Waits
<1> QED
  BY <1>5, <1>6, <1>7, <1>8, <1>9 DEF ServiceNext

\* An append keeps its key, and what it met when it started, until it is over.
LEMMA AppendKept ==
    ASSUME ServiceInv, [ServiceNext]_fullVars, NEW t \in Threads, Appending(t)',
           ~ StartAppend(t)
    PROVE  /\ Appending(t)
           /\ append'[t].key = append[t].key
           /\ append'[t].weather = append[t].weather
           /\ append'[t].faults = append[t].faults
<1> DEFINE Kept == /\ Appending(t)
                   /\ append'[t].key = append[t].key
                   /\ append'[t].weather = append[t].weather
                   /\ append'[t].faults = append[t].faults
<1> USE DEF ServiceInv
<1>1. /\ append \in [Threads -> AppendRequests \cup {None}]
      /\ tpc \in [Threads -> {"idle", "head", "propose", "proposing"}]
      /\ Appending(t) => append[t] \in AppendRequests
  BY DEF AppendTypes
<1>2. ASSUME NEW u \in Threads, u # t, StartAppend(u) PROVE Kept
  BY <1>1, <1>2 DEF StartAppend, Appending
<1>3. ASSUME NEW u \in Threads, ReadHead(u) PROVE Kept
  <2>1. PICK v : append' = [append EXCEPT ![u].version = v]
    BY <1>3 DEF ReadHead
  <2>2. Appending(t)
    BY <1>1, <1>3 DEF ReadHead, Appending
  <2>3. append'[t] = append[t] \/ append'[t] = [append[t] EXCEPT !.version = v]
    BY <1>1, <2>1
  <2> QED
    BY <1>1, <2>2, <2>3 DEF AppendRequests
<1>4. ASSUME NEW u \in Threads, ProposeNext(u) PROVE Kept
  BY <1>1, <1>4 DEF ProposeNext, Appending
<1>5. ASSUME UNCHANGED serviceVars PROVE Kept
  BY <1>5 DEF serviceVars, Appending
<1>6. ASSUME NEW u \in Threads, u # t, ProposeReturned(u) PROVE Kept
  BY <1>6, ReturnedThread DEF Appending
<1>7. ASSUME ProposeReturned(t) PROVE Kept
  <2>1. append'[t] = [append[t] EXCEPT !.tries = @ + 1, !.version = 0]
    BY <1>7, ReturnedThread DEF Appending
  <2>2. Appending(t)
    BY <1>7 DEF ProposeReturned, Appending
  <2> QED
    BY <1>1, <2>1, <2>2 DEF AppendRequests
<1>8. ASSUME UNCHANGED fullVars PROVE Kept
  BY <1>8 DEF fullVars, Appending
<1> QED
  BY <1>2, <1>3, <1>4, <1>5, <1>6, <1>7, <1>8 DEF ServiceNext, ThreadStep

\* An append that starts in calm weather finds what CalmInv promises.
LEMMA CalmStart ==
    ASSUME ServiceInv, QuorumReachable, NEW c, Coordinators = {c}, NEW t \in Threads,
           StartAppend(t), Calm(t)'
    PROVE  /\ EveryoneAnswers' /\ StagedIsOwned' /\ CleanWrite(c)'
           /\ Even(c, append[t].key)' /\ Progress(t)'
<1> USE DEF ServiceInv
<1>1. /\ append \in [Threads -> AppendRequests \cup {None}]
      /\ tpc \in [Threads -> {"idle", "head", "propose", "proposing"}]
      /\ Owner[t] = c
  BY ServiceAssumption DEF AppendTypes
<1>2. PICK k \in Keys : /\ append'[t].key = k /\ append'[t].tries = 0
                        /\ append'[t].weather = Weather(t, k)
                        /\ append'[t].base = HeadVersion(c, k)
  BY <1>1 DEF StartAppend
<1>3. tpc'[t] = "head" /\ UNCHANGED vars
  BY <1>1 DEF StartAppend
<1>4. Weather(t, k) = "calm"
  BY <1>2 DEF Calm
<1>5. /\ health[c] = AllHealthy /\ pending = {} /\ pc[c] = "idle" /\ LevelHeads(k)
  BY <1>1, <1>4 DEF Weather, LevelHeads
<1>6. UNCHANGED <<heads, pending, health, pc, job, todo, prepared, refusals, durable>>
  BY <1>3 DEF vars
<1>7. EveryoneAnswers'
  BY <1>5, <1>6 DEF EveryoneAnswers, Responsive, AllHealthy
<1>8. StagedIsOwned'
  BY <1>5, <1>6 DEF StagedIsOwned
<1>9. CleanWrite(c)'
  BY <1>5, <1>6 DEF CleanWrite, IdleIsClean
<1>10. Even(c, append[t].key)'
  BY <1>2, <1>5, <1>6 DEF Even, Running, LevelHeads
<1>11. Progress(t)'
  <2>1. \A r \in Replicas : heads[r][k] \in Nat
    BY CountsAreNaturals
  <2>2. PICK q \in Replicas : HeadVersion(c, k) = heads[q][k]
    <3>1. \E r \in Replicas : Responsive(c, r)
      BY <1>5, ReplicasExist DEF Responsive, AllHealthy
    <3> QED
      BY <3>1, HeadVersionIsAHead
  <2>3. \A r \in Replicas : HeadVersion(c, k) = heads[r][k]
    BY <1>5, <2>2 DEF LevelHeads
  <2>4. Lost(t)' = HeadVersion(c, k) + 0
    BY <1>2 DEF Lost
  <2>5. \A r \in Replicas : Lost(t)' <= heads'[r][k]
    BY <1>6, <2>1, <2>3, <2>4
  <2> QED
    BY <1>2, <1>3, <2>5 DEF Progress
<1> QED
  BY <1>7, <1>8, <1>9, <1>10, <1>11

LEMMA CalmNext ==
    ASSUME ServiceInv, CalmInv, OneProcess, QuorumReachable, [ServiceNext]_fullVars
    PROVE  CalmInv'
<1>1. PICK c : Coordinators = {c}
  BY DEF OneProcess
<1> SUFFICES ASSUME NEW t \in Threads, Calm(t)'
             PROVE  /\ EveryoneAnswers' /\ StagedIsOwned' /\ CleanWrite(c)'
                    /\ Even(c, append[t].key)' /\ Progress(t)'
  BY <1>1 DEF CalmInv
<1>2. CASE StartAppend(t)
  BY <1>1, <1>2, CalmStart
<1>3. CASE ~ StartAppend(t)
  <2>1. Appending(t)'
    BY DEF Calm
  <2>2. /\ Appending(t)
        /\ append'[t].key = append[t].key
        /\ append'[t].weather = append[t].weather
        /\ append'[t].faults = append[t].faults
    BY <1>3, <2>1, AppendKept
  <2>3. Calm(t) /\ ~ Fault
    BY <2>2, AppendsAreWrites, CalmBefore
  <2>4. Owner[t] = c /\ append[t].key \in Keys
    BY <1>1, <2>2, ServiceAssumption DEF ServiceInv, AppendTypes, AppendRequests
  <2>5. EveryoneAnswers /\ StagedIsOwned /\ CleanWrite(c) /\ Even(c, append[t].key) /\ Progress(t)
    BY <1>1, <2>3 DEF CalmInv
  <2>6. PICK k \in Keys : k = append[t].key
    BY <2>4
  <2>7. EveryoneAnswers' /\ StagedIsOwned' /\ CleanWrite(c)' /\ Even(c, k)'
    BY <1>1, <2>3, <2>5, <2>6, CalmWorld
  <2>8. Even(c, append[t].key)'
    BY <2>2, <2>6, <2>7 DEF Even, LevelHeads, Unanimous, Promoting
  <2>9. Progress(t)'
    BY <2>1, <2>2, <2>4, <2>5, AppendGoesOn
  <2> QED
    BY <2>7, <2>8, <2>9
<1> QED
  BY <1>2, <1>3

\* An undisturbed proposal that returns has committed, or is tried again, or
\* has lost its last round.
LEMMA CalmReturnsCommit ==
    ASSUME ServiceInv, CalmInv, OneProcess, QuorumReachable,
           NEW t \in Threads, ProposeReturned(t), Calm(t),
           NEW w \in results' \ results, ~ Retries(t, w.outcome)
    PROVE  \/ w.outcome = "COMMITTED"
           \/ /\ w.outcome = "REJECTED_STALE"
              /\ HeadVersion(Owner[t], append[t].key) - append[t].base >= MaxRetries
<1> USE DEF ServiceInv
<1>1. PICK c \in Coordinators : c = Owner[t]
  BY ServiceAssumption
<1>2. tpc[t] = "proposing" /\ (RejectAll(c) \/ Finish(c))
  BY <1>1 DEF ProposeReturned
<1>3. /\ append[t] \in AppendRequests /\ append[t].key \in Keys
      /\ append[t].tries \in Nat /\ append[t].version \in Nat /\ append[t].base \in Nat
  BY DEF AppendTypes, AppendRequests, Calm
<1>4. PICK k \in Keys : k = append[t].key
  BY <1>3
<1>5. EveryoneAnswers /\ Even(c, k) /\ Progress(t)
  BY <1>4 DEF CalmInv
<1>6. pc[c] # "idle" /\ job[c].key = k /\ job[c].version = append[t].version
  BY <1>1, <1>2, <1>4 DEF OneProposes
<1>7. \/ pc[c] = "prepare" /\ LevelHeads(k) /\ Unanimous(c, k)
      \/ pc[c] \in {"commit", "cleanup"} /\ Promoting(c, k)
  BY <1>5, <1>6 DEF Even, Running
<1>8. CASE RejectAll(c)
  <2>1. /\ \A r \in Replicas : append[t].version <= heads[r][k]
        /\ refusals[c] = {"REJECT_STALE"}
    BY <1>1, <1>2, <1>4, <1>5, <1>8, CalmRejected
  <2>2. pc[c] = "prepare"
    BY <1>8 DEF RejectAll
  <2>3. refusals[c] \ {"UNAVAILABLE", "STORAGE_ERROR"} = {"REJECT_STALE"}
    BY <2>1
  <2>4. ClassifyTotalRejection(refusals[c]) = "REJECTED_STALE"
    BY <2>3 DEF ClassifyTotalRejection
  <2>5. w.outcome = "REJECTED_STALE"
    BY <1>2, <2>2, <2>4, ReturnShape
  <2>6. PICK r \in Replicas : HeadVersion(c, k) = heads[r][k]
    BY <1>5, ReplicasExist, HeadVersionIsAHead DEF EveryoneAnswers
  <2>7. PICK h \in Nat : h = heads[r][k]
    BY CountsAreNaturals
  <2>8. append[t].base + append[t].tries < append[t].version
    BY <1>2, <1>5 DEF Progress, Lost
  <2>9. append[t].version <= h
    BY <2>1, <2>7
  <2>10. MaxRetries \in Nat /\ ~ (append[t].tries + 1 < MaxRetries)
    BY <2>5, ServiceAssumption DEF Retries
  <2>11. \A b, n, v, m \in Nat : b + n < v /\ v <= h /\ ~ (n + 1 < m) => h - b >= m
    OBVIOUS
  <2>12. h - append[t].base >= MaxRetries
    BY <1>3, <2>8, <2>9, <2>10, <2>11
  <2> QED
    BY <1>1, <1>4, <2>5, <2>6, <2>7, <2>12
<1>9. CASE Finish(c)
  <2>1. pc[c] = "cleanup" /\ Promoting(c, k)
    BY <1>7, <1>9 DEF Finish
  <2>2. durable[c] = Replicas
    BY <2>1 DEF Promoting
  <2>3. w.outcome = CommitPhaseOutcome(Cardinality(Replicas))
    BY <1>2, <2>1, <2>2, ReturnShape
  <2>4. Cardinality(Replicas) \in Nat /\ QuorumSize \in Nat
    BY ReplicasAssumption, QuorumAssumption, FS_CardinalityType
  <2> QED
    BY <2>3, <2>4 DEF CommitPhaseOutcome, QuorumReachable
<1> QED
  BY <1>2, <1>8, <1>9

LEMMA LandingNext ==
    ASSUME ServiceInv, CalmInv, AppendsLand, OneProcess, QuorumReachable,
           [ServiceNext]_fullVars
    PROVE  AppendsLand'
<1>1. ASSUME appends' = appends PROVE AppendsLand'
  BY <1>1 DEF AppendsLand
<1>2. ASSUME NEW t \in Threads, ProposeReturned(t) PROVE AppendsLand'
  <2>1. PICK w \in results' \ results :
            IF Retries(t, w.outcome)
            THEN appends' = appends
            ELSE appends' = appends \cup
                        {[outcome |-> w.outcome,
                          weather |-> IF append[t].faults = faults
                                      THEN append[t].weather ELSE "disturbed",
                          grown |-> HeadVersion(Owner[t], append[t].key) - append[t].base]}
    BY <1>2, ReturnedThread
  <2>2. CASE Retries(t, w.outcome)
    BY <1>1, <2>1, <2>2
  <2>3. CASE ~ Retries(t, w.outcome) /\ Calm(t)
    <3>1. \/ w.outcome = "COMMITTED"
          \/ /\ w.outcome = "REJECTED_STALE"
             /\ HeadVersion(Owner[t], append[t].key) - append[t].base >= MaxRetries
      BY <1>2, <2>3, CalmReturnsCommit
    <3> QED
      BY <2>1, <2>3, <3>1 DEF AppendsLand
  <2>4. CASE ~ Retries(t, w.outcome) /\ ~ Calm(t)
    <3>1. Appending(t)
      BY <1>2 DEF ProposeReturned, Appending
    <3>2. (IF append[t].faults = faults THEN append[t].weather ELSE "disturbed") # "calm"
      BY <2>4, <3>1 DEF Calm
    <3> QED
      BY <2>1, <2>4, <3>2 DEF AppendsLand
  <2> QED
    BY <2>2, <2>3, <2>4
<1>3. ASSUME NEW t \in Threads, StartAppend(t) \/ ReadHead(t) \/ ProposeNext(t)
      PROVE  AppendsLand'
  BY <1>1, <1>3 DEF StartAppend, ReadHead, ProposeNext
<1>4. ASSUME UNCHANGED serviceVars \/ UNCHANGED fullVars PROVE AppendsLand'
  BY <1>1, <1>4 DEF serviceVars, fullVars
<1> QED
  BY <1>2, <1>3, <1>4 DEF ServiceNext, ThreadStep

\* The optimistic retry of _propose_next_version converges: an append that
\* began with every replica healthy and level and nothing staged, and met no
\* fault, is committed, however many threads race for however many keys, and
\* whatever failed before it began.  It gives up only when each of its rounds
\* was lost to a version that was appended to its own key meanwhile.
\* One process owns the replicas: a second coordinator that has taken a
\* replica to be unavailable since before the append began writes around it,
\* and the heads part without a fault of the append's own time.
THEOREM UndisturbedAppendsLand ==
    OneProcess /\ QuorumReachable => (ServiceSpec => []AppendsLand)
<1> SUFFICES ASSUME OneProcess, QuorumReachable
             PROVE  ServiceSpec => []AppendsLand
  OBVIOUS
<1>1. ServiceInit => CalmInv /\ AppendsLand
  BY CalmInit DEF ServiceInit, AppendsLand
<1>2. ServiceInv /\ CalmInv /\ AppendsLand /\ [ServiceNext]_fullVars => CalmInv' /\ AppendsLand'
  BY CalmNext, LandingNext
<1> QED
  BY <1>1, <1>2, ServiceInvariance, PTL DEF ServiceSpec
=============================================================================
